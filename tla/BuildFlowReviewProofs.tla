------------------------- MODULE BuildFlowReviewProofs -------------------------
(***************************************************************************)
(* What gate 1 lets through, for any rules, edits, policy texts, verdicts, *)
(* executions and requests.  The argument follows a decision: a resolved   *)
(* review has been decided, what a request loads comes from resolved       *)
(* reviews, what it counts is resolved or was not there, and an answer     *)
(* goes to an execution of the key it was loaded for (Shape).  What has    *)
(* been decided stays so, while the reviews may go on changing; and its    *)
(* row of the trail is there, or owed by the request that decided.         *)
(***************************************************************************)
EXTENDS BuildFlowProofs

USE DEF registry, reviews

Given(k, r) == \E d \in Resolved : <<<<k, r>>, d>> \in decided

\* A stored decision, of key k, yields v.
Backed(k, v) == \E r \in Rules, d \in Resolved : <<<<k, r>>, d>> \in decided /\ v \in Yield(r, d)

Logged(k, r) == review[k][r] \in Resolved => <<<<k, r>>, review[k][r]>> \in decided

DecidedInv == \A k \in Keys, r \in Rules : Logged(k, r)

TrailInv == \A k \in Keys, r \in Rules, d \in Resolved : <<<<k, r>>, d>> \in decided => Noted(k, r, d)

LoadedInv ==
  \A q \in Requests : pc[q] \in {"counting", "answering"} => \A v \in task[q].accepted : Backed(TaskKey(q), v)

\* What a request is to send has been counted.
CountedInv ==
  \A q \in Requests : pc[q] = "answering" /\ task[q].accepted # {} =>
    \A r \in Rules \ task[q].left : Given(TaskKey(q), r)

GateInv == DecidedInv /\ TrailInv /\ LoadedInv /\ CountedInv /\ ReviewedRulesAreAccepted /\ NoRuleSlipsThrough
-----------------------------------------------------------------------------
LEMMA Distinct == "ABSENT" \notin Decision /\ "OPEN" \notin Resolved
BY EditsAssumption DEF Decision, Resolved

\* What a step does to the reviews: a change is to a decision, and a decision
\* that resolves is stored by a request that owes the trail its row.
LEMMA ReviewsStep ==
  ASSUME TypeOK, Shape, [Next]_vars
  PROVE  /\ decided \subseteq decided'
         /\ \A k \in Keys, r \in Rules :
              review'[k][r] # review[k][r] => review'[k][r] \in Decision /\ Logged(k, r)'
         /\ \A k \in Keys, r \in Rules, d \in Resolved :
              <<<<k, r>>, d>> \in decided' => <<<<k, r>>, d>> \in decided \/ \E q \in Requests : Owes(q, k, r, d)'
<1> DEFINE Fresh == \A k \in Keys, r \in Rules :
                      review'[k][r] # review[k][r] => review'[k][r] \in Decision /\ Logged(k, r)'
           Owed  == \A k \in Keys, r \in Rules, d \in Resolved :
                      <<<<k, r>>, d>> \in decided' => <<<<k, r>>, d>> \in decided \/ \E q \in Requests : Owes(q, k, r, d)'
           Good  == decided \subseteq decided' /\ Fresh /\ Owed
<1>1. ASSUME UNCHANGED <<review, decided>> PROVE Good
  BY <1>1
<1>2. ASSUME NEW k \in Keys, NEW r \in Rules, OpenReview(k, r), UNCHANGED decided PROVE Good
  <2>1. \A c \in Keys, s \in Rules : review'[c][s] = review[c][s] \/ review'[c][s] = "OPEN"
    BY <1>2 DEF OpenReview, TypeOK
  <2>2. "OPEN" \in Decision
    BY Zenon DEF Decision
  <2>3. QED
    BY <1>2, <2>1, <2>2, Distinct DEF Logged
<1>3. ASSUME NEW q \in Requests, pc[q] \in {"reviewing", "batch", "accept"}, NEW d \in Decision,
             StoreReview(TaskKey(q), task[q].rule, d), NEW s \in Noting,
             d \in Resolved => Proceed(q, s, [task[q] EXCEPT !.given = d])
      PROVE  Good
  <2>1. PICK k \in Keys, r \in Rules : k = TaskKey(q) /\ r = task[q].rule /\ task[q].on = Build(k) /\ task[q] \in Task
    BY <1>3, IdKeys DEF Shape, TaskInv, Ready, OnReview, OnBuild, AtGate, Compiling, TaskKey, TypeOK
  <2>2. \A c \in Keys, u \in Rules : review'[c][u] # review[c][u] => c = k /\ u = r /\ review'[c][u] = d
    BY <1>3, <2>1 DEF StoreReview, TypeOK
  <2>3. decided \subseteq decided' /\ (d \in Resolved => <<<<k, r>>, d>> \in decided')
    BY <1>3, <2>1 DEF StoreReview
  <2>4. ASSUME NEW c \in Keys, NEW u \in Rules, NEW e \in Resolved, <<<<c, u>>, e>> \in decided',
               <<<<c, u>>, e>> \notin decided
        PROVE  Owes(q, c, u, e)'
    <3>1. c = k /\ u = r /\ e = d /\ d \in Resolved
      BY <1>3, <2>1, <2>4 DEF StoreReview
    <3>2. pc'[q] = s /\ task'[q].on = task[q].on /\ task'[q].rule = task[q].rule /\ task'[q].given = d
      BY <1>3, <2>1, <3>1 DEF Proceed, TypeOK, Task
    <3>3. QED
      BY <1>3, <2>1, <3>1, <3>2 DEF Owes
  <2>5. QED
    BY <2>2, <2>3, <2>4 DEF Logged
<1>4. ASSUME NEW q \in Requests, Step(q) PROVE Good
  <2>1. Ready(q) /\ task[q].left \subseteq Rules
    BY DEF Shape, TaskInv, TypeOK, Task
  <2>3. CASE WriteReview(q)
    <3>1. CASE q \in current
      <4>1. PICK d \in Decision :
              /\ StoreReview(TaskKey(q), task[q].rule, d)
              /\ d \in Resolved => Proceed(q, "noting", [task[q] EXCEPT !.given = d])
        BY <2>3, <3>1 DEF WriteReview
      <4>2. QED
        BY <1>3, <2>3, <4>1 DEF WriteReview, Noting
    <3>2. QED
      BY <1>1, <2>3, <3>1 DEF WriteReview
  <2>4. CASE BatchWrite(q)
    <3>1. CASE q \in current
      <4>1. PICK d \in Decision :
              /\ StoreReview(TaskKey(q), task[q].rule, d)
              /\ d \in Resolved => Proceed(q, "batch_noting", [task[q] EXCEPT !.given = d])
        BY <2>4, <3>1 DEF BatchWrite
      <4>2. QED
        BY <1>3, <2>4, <4>1 DEF BatchWrite, Noting
    <3>2. QED
      BY <1>1, <2>4, <3>1 DEF BatchWrite
  <2>5. CASE AcceptWrite(q)
    <3>1. PICK d \in Decision : d = "ACCEPT"
      BY Zenon DEF Decision, Resolved
    <3>2. CASE q \in current
      BY <1>3, <2>5, <3>1, <3>2 DEF AcceptWrite, Noting
    <3>3. QED
      BY <1>1, <2>5, <3>2 DEF AcceptWrite
  <2>6. CASE OpenNext(q)
    <3>1. TaskKey(q) \in Keys
      BY <2>1, <2>6, IdKeys DEF Ready, OpenNext, TaskKey
    <3>2. QED
      BY <1>2, <2>1, <2>6, <3>1 DEF OpenNext
  <2>7. CASE ~(WriteReview(q) \/ BatchWrite(q) \/ AcceptWrite(q) \/ OpenNext(q))
    BY <1>1, <1>4, <2>7
    DEF Step, ReadReview, Note, Claim, BatchRead, LoadAccepted, Count, Answer, CreateRefused, CreateDraft, Create,
        Execute, ReadVersion, StoreFirst, AcceptRead, Store, Archive, ArchiveWrite, ArchiveAgain, tables
  <2>8. QED
    BY <2>3, <2>4, <2>5, <2>6, <2>7
<1>5. ASSUME NEW e \in Execs, Run(e) PROVE Good
  <2>1. CASE OpenForExecution(e)
    <3>1. PICK r \in todo[e] : OpenReview(Key(e), r)
      BY <2>1 DEF OpenForExecution
    <3>2. Key(e) \in Keys /\ r \in Rules
      BY <3>1, ExtractedKey DEF Shape, ExecInv, Key, TypeOK
    <3>3. QED
      BY <1>2, <2>1, <3>1, <3>2 DEF OpenForExecution
  <2>2. CASE ~OpenForExecution(e)
    BY <1>1, <1>5, <2>2
    DEF Run, Start, Arm, Compile, ReadVersionFor, Persist, Decide, MarkRead, MarkWrite, Fail, tables
  <2>3. QED
    BY <2>1, <2>2
<1>6. QED
  BY <1>1, <1>4, <1>5 DEF Next, vars

LEMMA DecidedStep == TypeOK /\ Shape /\ DecidedInv /\ [Next]_vars => DecidedInv'
<1> SUFFICES ASSUME TypeOK, Shape, DecidedInv, [Next]_vars, NEW k \in Keys, NEW r \in Rules PROVE Logged(k, r)'
  BY DEF DecidedInv
<1>1. QED
  BY ReviewsStep DEF DecidedInv, Logged

\* A request that owes the trail a row puts it there, or stays as it is.
LEMMA OwingStep ==
  ASSUME TypeOK, Shape, [Next]_vars, NEW q \in Requests, pc[q] \in Noting
  PROVE  Note(q) \/ (pc'[q] = pc[q] /\ task'[q] = task[q])
<1>1. CASE Step(q)
  BY <1>1
  DEF Step, Noting, ReadReview, WriteReview, Claim, BatchRead, BatchWrite, LoadAccepted, Count, Answer, CreateRefused,
      CreateDraft, Create, Execute, ReadVersion, StoreFirst, OpenNext, AcceptRead, AcceptWrite, Store, Archive,
      ArchiveWrite, ArchiveAgain, Begin
<1>2. CASE \E p \in Requests \ {q} : Step(p)
  BY <1>2, OthersStay
<1>3. CASE UNCHANGED vars \/ \E e \in Execs : Run(e)
  BY <1>3
  DEF vars, request, Run, Start, Arm, OpenForExecution, Compile, ReadVersionFor, Persist, Decide, MarkRead, MarkWrite, Fail
<1>4. QED
  BY <1>1, <1>2, <1>3 DEF Next

LEMMA AuditGrows == ASSUME [Next]_vars PROVE audit \subseteq audit'
<1>1. ASSUME NEW q \in Requests, Step(q) PROVE audit \subseteq audit'
  BY <1>1
  DEF Step, ReadReview, WriteReview, Note, Claim, BatchRead, BatchWrite, LoadAccepted, Count, Answer, CreateRefused,
      CreateDraft, Create, Execute, ReadVersion, StoreFirst, OpenNext, AcceptRead, AcceptWrite, Store, Archive,
      ArchiveWrite, ArchiveAgain, tables
<1>2. ASSUME NEW e \in Execs, Run(e) PROVE audit \subseteq audit'
  BY <1>2
  DEF Run, Start, Arm, OpenForExecution, Compile, ReadVersionFor, Persist, Decide, MarkRead, MarkWrite, Fail, tables
<1>3. QED
  BY <1>1, <1>2 DEF Next, vars

LEMMA NotedStays ==
  ASSUME TypeOK, Shape, [Next]_vars, NEW k \in Keys, NEW r \in Rules, NEW d \in Resolved, Noted(k, r, d)
  PROVE  Noted(k, r, d)'
<1>1. CASE <<<<k, r>>, Event(d)>> \in audit
  BY <1>1, AuditGrows DEF Noted
<1>2. ASSUME NEW q \in Requests, Owes(q, k, r, d) PROVE Noted(k, r, d)'
  <2>1. CASE Note(q)
    <3>1. TaskKey(q) = k /\ task[q].rule = r /\ task[q].given = d
      BY <1>2, TaskFields DEF Owes, TaskKey
    <3>2. QED
      BY <2>1, <3>1 DEF Note, Noted
  <2>2. CASE pc'[q] = pc[q] /\ task'[q] = task[q]
    BY <1>2, <2>2 DEF Owes, Noted
  <2>3. QED
    BY <1>2, <2>1, <2>2, OwingStep DEF Owes
<1>3. QED
  BY <1>1, <1>2 DEF Noted

LEMMA TrailStep == TypeOK /\ Shape /\ TrailInv /\ [Next]_vars => TrailInv'
<1> SUFFICES ASSUME TypeOK, Shape, TrailInv, [Next]_vars, NEW k \in Keys, NEW r \in Rules, NEW d \in Resolved,
                    <<<<k, r>>, d>> \in decided'
             PROVE  Noted(k, r, d)'
  BY DEF TrailInv
<1>1. CASE <<<<k, r>>, d>> \in decided
  BY <1>1, NotedStays DEF TrailInv
<1>2. CASE \E q \in Requests : Owes(q, k, r, d)'
  BY <1>2 DEF Noted
<1>3. QED
  BY <1>1, <1>2, ReviewsStep

LEMMA GivenStays ==
  ASSUME TypeOK, Shape, [Next]_vars, NEW k
  PROVE  /\ \A v : Backed(k, v) => Backed(k, v)'
         /\ \A r : Given(k, r) => Given(k, r)'
BY ReviewsStep DEF Backed, Given

\* What accepted_rules returns is backed, as every review that yields something
\* is resolved.
LEMMA AcceptedAreBacked ==
  ASSUME TypeOK, DecidedInv, NEW k \in Keys PROVE \A v \in AcceptedRules(k) : Backed(k, v)
<1> SUFFICES ASSUME NEW v \in AcceptedRules(k) PROVE Backed(k, v)
  OBVIOUS
<1>1. PICK r \in Rules : v \in Yield(r, review[k][r])
  BY DEF AcceptedRules
<1>2. review[k][r] \in Resolved
  BY <1>1 DEF Yield, Resolved
<1>3. QED
  BY <1>1, <1>2 DEF Backed, DecidedInv, Logged

\* A request that counts or answers has just loaded, or counted, or is as it was.
LEMMA Counting ==
  ASSUME TypeOK, Shape, [Next]_vars, NEW q \in Requests, pc'[q] \in {"counting", "answering"}
  PROVE  (pc'[q] = pc[q] /\ task'[q] = task[q]) \/ LoadAccepted(q) \/ Count(q)
<1>1. ASSUME NEW s, NEW t, s \notin {"counting", "answering"} PROVE ~Begin(q, s, t) /\ ~Proceed(q, s, t)
  BY <1>1 DEF Begin, Proceed, TypeOK
<1>2. CASE Step(q)
  BY <1>1, <1>2
  DEF Step, ReadReview, WriteReview, Note, Claim, BatchRead, BatchWrite, Answer, CreateRefused, CreateDraft, Create,
      Execute, ReadVersion, StoreFirst, OpenNext, AcceptRead, AcceptWrite, Store, Archive, ArchiveWrite, ArchiveAgain,
      Finish
<1>3. CASE \E p \in Requests \ {q} : Step(p)
  BY <1>3, OthersStay
<1>4. CASE UNCHANGED vars \/ \E e \in Execs : Run(e)
  BY <1>4
  DEF vars, request, Run, Start, Arm, OpenForExecution, Compile, ReadVersionFor, Persist, Decide, MarkRead, MarkWrite, Fail
<1>5. QED
  BY <1>2, <1>3, <1>4 DEF Next

\* The three ways a request comes to what it counts or answers.
LEMMA CountingTask ==
  ASSUME TypeOK, Shape, NEW q \in Requests
  PROVE  /\ LoadAccepted(q) => /\ pc'[q] = "counting" /\ task'[q].on = task[q].on
                               /\ task'[q].accepted = AcceptedRules(TaskKey(q))
                               /\ TaskKey(q) \in Keys
         /\ Count(q) => /\ pc[q] = "counting" /\ task'[q].on = task[q].on
                        /\ task'[q].accepted = IF Unresolved(TaskKey(q)) = {} THEN task[q].accepted ELSE {}
                        /\ task'[q].left = {r \in Rules : review[TaskKey(q)][r] = "ABSENT"}
                        /\ TaskKey(q) \in Keys
<1>1. task[q] \in Task
  BY DEF TypeOK
<1>2. pc[q] # "idle" => TaskKey(q) \in Keys
  BY IdKeys DEF Shape, TaskInv, Ready, TaskKey
<1>3. ASSUME NEW s, NEW a, NEW l, Proceed(q, s, [task[q] EXCEPT !.accepted = a, !.left = l])
      PROVE  pc'[q] = s /\ task'[q].on = task[q].on /\ task'[q].accepted = a /\ task'[q].left = l
  BY <1>1, <1>3 DEF Proceed, TypeOK, Task
<1>4. ASSUME LoadAccepted(q)
      PROVE  pc'[q] = "counting" /\ task'[q].on = task[q].on /\ task'[q].accepted = AcceptedRules(TaskKey(q))
  BY <1>1, <1>4 DEF LoadAccepted, Proceed, TypeOK, Task
<1>5. ASSUME Count(q)
      PROVE  /\ task'[q].on = task[q].on
             /\ task'[q].accepted = IF Unresolved(TaskKey(q)) = {} THEN task[q].accepted ELSE {}
             /\ task'[q].left = {r \in Rules : review[TaskKey(q)][r] = "ABSENT"}
  <2>1. PICK a, l : /\ a = IF Unresolved(TaskKey(q)) = {} THEN task[q].accepted ELSE {}
                    /\ l = {r \in Rules : review[TaskKey(q)][r] = "ABSENT"}
    OBVIOUS
  <2>2. Proceed(q, "answering", [task[q] EXCEPT !.accepted = a, !.left = l])
    BY <1>5, <2>1 DEF Count
  <2>3. QED
    BY <1>3, <2>1, <2>2
<1>6. QED
  BY <1>2, <1>4, <1>5 DEF LoadAccepted, Count

LEMMA LoadedStep == TypeOK /\ Shape /\ DecidedInv /\ LoadedInv /\ [Next]_vars => LoadedInv'
<1> SUFFICES ASSUME TypeOK, Shape, DecidedInv, LoadedInv, [Next]_vars, NEW q \in Requests,
                    pc'[q] \in {"counting", "answering"}, NEW v \in task'[q].accepted
             PROVE  Backed(TaskKey(q), v)'
  BY DEF LoadedInv
<1>1. Backed(TaskKey(q), v) /\ TaskKey(q)' = TaskKey(q)
  <2>1. CASE pc'[q] = pc[q] /\ task'[q] = task[q]
    BY <2>1 DEF LoadedInv, TaskKey
  <2>2. CASE LoadAccepted(q)
    BY <2>2, CountingTask, AcceptedAreBacked DEF TaskKey
  <2>3. CASE Count(q)
    BY <2>3, CountingTask DEF TaskKey, LoadedInv
  <2>4. QED
    BY <2>1, <2>2, <2>3, Counting
<1>2. PICK k : k = TaskKey(q)
  OBVIOUS
<1>3. Backed(k, v)'
  BY <1>1, <1>2, GivenStays
<1>4. QED
  BY <1>1, <1>2, <1>3 DEF Backed

LEMMA CountedStep == TypeOK /\ Shape /\ DecidedInv /\ CountedInv /\ [Next]_vars => CountedInv'
<1> SUFFICES ASSUME TypeOK, Shape, DecidedInv, CountedInv, [Next]_vars, NEW q \in Requests,
                    pc'[q] = "answering", task'[q].accepted # {}, NEW r \in Rules \ task'[q].left
             PROVE  Given(TaskKey(q), r)'
  BY DEF CountedInv
<1>1. Given(TaskKey(q), r) /\ TaskKey(q)' = TaskKey(q)
  <2>1. CASE pc'[q] = pc[q] /\ task'[q] = task[q]
    BY <2>1 DEF CountedInv, TaskKey
  <2>2. CASE Count(q)
    <3>1. PICK k \in Keys : k = TaskKey(q) /\ Unresolved(k) = {} /\ review[k][r] # "ABSENT" /\ TaskKey(q)' = k
      BY <2>2, CountingTask DEF TaskKey
    <3>2. review[k][r] \in Resolved
      BY <3>1 DEF Unresolved, TypeOK, Reviews, Decision
    <3>3. QED
      BY <3>1, <3>2 DEF DecidedInv, Logged, Given
  <2>3. QED
    BY <2>1, <2>2, Counting, CountingTask
<1>2. PICK k : k = TaskKey(q)
  OBVIOUS
<1>3. Given(k, r)'
  BY <1>1, <1>2, GivenStays
<1>4. QED
  BY <1>1, <1>2, <1>3 DEF Given

\* What an execution holds of gate 1 changes when it is answered, and then only.
LEMMA ReviewedStep ==
  ASSUME TypeOK, Shape, [Next]_vars, NEW e \in Execs, Reviewed(e)'
  PROVE  \/ Reviewed(e) /\ UNCHANGED <<rules[e], missed[e], Key(e)>>
         \/ \E q \in Requests : Answer(q) /\ task[q].token = e /\ stage[e] = "WAIT_FOR_RULE_REVIEW"
<1> DEFINE Same == rules'[e] = rules[e] /\ missed'[e] = missed[e] /\ extraction'[e] = extraction[e]
           Hit(q) == Answer(q) /\ task[q].token = e /\ stage[e] = "WAIT_FOR_RULE_REVIEW"
<1>1. ASSUME NEW f \in Execs, Run(f) PROVE Same
  <2>1. CASE Start(f) /\ f = e
    BY <2>1 DEF Start, Reviewed, TypeOK, Shape, ExecInv
  <2>2. CASE ~(Start(f) /\ f = e)
    BY <1>1, <2>2 DEF Run, Start, Arm, OpenForExecution, Compile, ReadVersionFor, Persist, Decide, MarkRead, MarkWrite, Fail, TypeOK
  <2>3. QED
    BY <2>1, <2>2
<1>2. ASSUME NEW q \in Requests, Step(q), ~Hit(q) PROVE Same
  <2>1. CASE Answer(q)
    BY <1>2, <2>1 DEF Answer, TypeOK
  <2>2. CASE ~Answer(q)
    BY <1>2, <2>2
    DEF Step, ReadReview, WriteReview, Note, Claim, BatchRead, BatchWrite, LoadAccepted, Count, CreateRefused, CreateDraft,
        Create, Execute, ReadVersion, StoreFirst, OpenNext, AcceptRead, AcceptWrite, Store, Archive, ArchiveWrite,
        ArchiveAgain, cloud
  <2>3. QED
    BY <2>1, <2>2
<1>3. ASSUME UNCHANGED vars PROVE Same
  BY <1>3 DEF vars, cloud
<1>4. (\E q \in Requests : Hit(q)) \/ Same
  <2>1. CASE \E f \in Execs : Run(f)
    BY <1>1, <2>1
  <2>2. CASE \E q \in Requests : Step(q)
    BY <1>2, <2>2
  <2>3. QED
    BY <1>3, <2>1, <2>2 DEF Next
<1>5. CASE Same
  BY <1>5 DEF Reviewed, Key
<1>6. QED
  BY <1>4, <1>5

LEMMA TakenStep ==
  TypeOK /\ Shape /\ TrailInv /\ LoadedInv /\ ReviewedRulesAreAccepted /\ [Next]_vars => ReviewedRulesAreAccepted'
<1> SUFFICES ASSUME TypeOK, Shape, TrailInv, LoadedInv, ReviewedRulesAreAccepted, [Next]_vars, NEW e \in Execs,
                    Reviewed(e)', NEW v \in rules'[e]
             PROVE  \E r \in Rules, d \in Resolved :
                      (<<<<Key(e), r>>, d>> \in decided)' /\ v \in Yield(r, d) /\ Noted(Key(e), r, d)'
  BY DEF ReviewedRulesAreAccepted
<1>1. Backed(Key(e), v) /\ Key(e)' = Key(e) /\ Key(e) \in Keys
  <2>1. CASE Reviewed(e) /\ UNCHANGED <<rules[e], missed[e], Key(e)>>
    BY <2>1, ExtractedKey DEF ReviewedRulesAreAccepted, Backed, Reviewed, Key, TypeOK
  <2>2. CASE \E q \in Requests : Answer(q) /\ task[q].token = e /\ stage[e] = "WAIT_FOR_RULE_REVIEW"
    <3>1. PICK q \in Requests : Answer(q) /\ task[q].token = e /\ stage[e] = "WAIT_FOR_RULE_REVIEW"
      BY <2>2
    <3>2. Armed(e, TaskKey(q)) /\ TaskKey(q) \in Keys
      BY <3>1, IdKeys DEF Answer, Shape, TaskInv, Ready, AtGate, TaskKey
    <3>3. rules'[e] = task[q].accepted /\ Key(e)' = Key(e)
      BY <3>1 DEF Answer, Key, TypeOK
    <3>4. Backed(TaskKey(q), v)
      BY <3>1, <3>3 DEF Answer, LoadedInv
    <3>5. QED
      BY <3>2, <3>3, <3>4 DEF Armed
  <2>3. QED
    BY <2>1, <2>2, ReviewedStep
<1>2. PICK k \in Keys : k = Key(e) /\ k = Key(e)'
  BY <1>1
<1>3. PICK r \in Rules, d \in Resolved : <<<<k, r>>, d>> \in decided /\ v \in Yield(r, d)
  BY <1>1, <1>2 DEF Backed
<1>4. <<<<k, r>>, d>> \in decided' /\ Noted(k, r, d)'
  BY <1>3, ReviewsStep, NotedStays DEF TrailInv
<1>5. Noted(Key(e), r, d)'
  BY <1>2, <1>4 DEF Noted, Owes
<1>6. QED
  BY <1>2, <1>3, <1>4, <1>5

LEMMA SlipStep ==
  TypeOK /\ Shape /\ CountedInv /\ NoRuleSlipsThrough /\ [Next]_vars => NoRuleSlipsThrough'
<1> SUFFICES ASSUME TypeOK, Shape, CountedInv, NoRuleSlipsThrough, [Next]_vars, NEW e \in Execs, Reviewed(e)',
                    NEW r \in Key(e)' \ missed'[e]
             PROVE  Given(Key(e), r)'
  BY DEF NoRuleSlipsThrough, Given
<1>1. Given(Key(e), r) /\ Key(e)' = Key(e)
  <2>1. CASE Reviewed(e) /\ UNCHANGED <<rules[e], missed[e], Key(e)>>
    BY <2>1 DEF NoRuleSlipsThrough, Given
  <2>2. CASE \E q \in Requests : Answer(q) /\ task[q].token = e /\ stage[e] = "WAIT_FOR_RULE_REVIEW"
    <3>1. PICK q \in Requests : Answer(q) /\ task[q].token = e /\ stage[e] = "WAIT_FOR_RULE_REVIEW"
      BY <2>2
    <3>2. Armed(e, TaskKey(q)) /\ TaskKey(q) \in Keys
      BY <3>1, IdKeys DEF Answer, Shape, TaskInv, Ready, AtGate, TaskKey
    <3>3. task[q].accepted # {} /\ missed'[e] = task[q].left /\ Key(e)' = Key(e)
      BY <3>1 DEF Answer, Reviewed, Key, TypeOK
    <3>4. Key(e) = TaskKey(q) /\ r \in Rules
      BY <3>2, <3>3, KeysAreRules DEF Armed
    <3>5. QED
      BY <3>1, <3>3, <3>4 DEF Answer, CountedInv
  <2>3. QED
    BY <2>1, <2>2, ReviewedStep
<1>2. PICK k : k = Key(e)
  OBVIOUS
<1>3. QED
  BY <1>1, <1>2, GivenStays DEF Given

LEMMA GateInvariant == Spec => []GateInv
<1>1. Init => GateInv
  <2> SUFFICES ASSUME Init PROVE GateInv
    OBVIOUS
  <2>1. \A k \in Keys, r \in Rules : review[k][r] = "ABSENT"
    BY DEF Init
  <2>2. DecidedInv
    BY <2>1, Distinct DEF DecidedInv, Logged, Decision
  <2>3. QED
    BY <2>2 DEF Init, GateInv, TrailInv, LoadedInv, CountedInv, ReviewedRulesAreAccepted, NoRuleSlipsThrough, Reviewed
<1>2. TypeOK /\ Shape /\ GateInv /\ [Next]_vars => GateInv'
  BY DecidedStep, TrailStep, LoadedStep, CountedStep, TakenStep, SlipStep DEF GateInv
<1>3. QED
  BY <1>1, <1>2, ShapeInvariant, PTL DEF Spec

\* Every rule an execution takes from gate 1 is one that a stored decision
\* accepts, or puts in a rule's place, for its key (accepted_rules,
\* resume_callback): whatever requests, openers and other executions of the key
\* do to the reviews and to the slot meanwhile.  Its row of the audit trail is
\* there, unless the request that decided is still between its two puts.
THEOREM AcceptedByDecision == Spec => []ReviewedRulesAreAccepted
BY GateInvariant, PTL DEF GateInv

\* No extracted rule is compiled, or left out, by an execution that came through
\* gate 1 before a decision resolved it (unresolved_rule_reviews), unless its
\* review was not there yet when the answer counted.
THEOREM ResolvedBeforeCompiled == Spec => []NoRuleSlipsThrough
BY GateInvariant, PTL DEF GateInv
=============================================================================
