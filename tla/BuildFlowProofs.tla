---------------------------- MODULE BuildFlowProofs ----------------------------
(***************************************************************************)
(* Theorems about BuildFlow, for any rules, edits, policy texts, verdicts, *)
(* executions and requests.                                                *)
(***************************************************************************)
EXTENDS BuildFlow, TLAPS

USE DEF registry, reviews

\* Execution e works on key k.
Armed(e, k) ==
  /\ e \in Execs
  /\ stage[e] # "started"
  /\ extraction[e] # None
  /\ Key(e) = k

\* Where a variable must be more than its type says: an execution that has
\* started has extracted, a slot has the token of an execution of its key, and
\* a request under way has what its next step works on.
ExecInv ==
  \A e \in Execs :
    /\ stage[e] = "started" => rules[e] = {} /\ todo[e] = {}
    /\ stage[e] \notin {"started", "CLOSED"} \/ todo[e] # {} => extraction[e] # None

SlotInv ==
  \A k \in Keys :
    /\ slot[k].status # "ABSENT" => Armed(slot[k].token, k)
    /\ slot[k].owner # None => slot[k].status # "ABSENT"

AtGate    == {"deciding", "batch", "batch_noting", "counting", "answering"}
Compiling == {"saving", "saving_put", "opening", "accepting", "accept", "accept_noting"}
AtArchive == {"archiving", "rearchiving"}
OnBuild   == AtGate \cup Compiling \cup {"reviewing", "noting"}
OnReview  == Noting \cup {"reviewing", "batch", "accept"}
WithDoc   == Compiling \cup AtArchive \cup {"storing", "storing_put"}

Ready(q) ==
  /\ pc[q] # "idle" => task[q].on \in Ids
  /\ pc[q] \in OnBuild => task[q].on = Build(TaskKey(q))
  /\ pc[q] \in OnReview => task[q].rule \in Rules
  /\ pc[q] \in Noting => task[q].given \in Resolved
  /\ pc[q] \in WithDoc => task[q].doc \in Doc
  /\ pc[q] \in Compiling => task[q].doc.rules \subseteq Rules
  /\ pc[q] \in AtGate => Armed(task[q].token, TaskKey(q))
  /\ pc[q] \in AtArchive => builds[task[q].on] \in Doc

TaskInv == \A q \in Requests : Ready(q)

Shape == ExecInv /\ SlotInv /\ TaskInv
-----------------------------------------------------------------------------
LEMMA KeysAreRules == \A k \in Keys : k \subseteq Rules /\ k \subseteq Values
BY ExtractionsAssumption DEF Keys, Values

LEMMA ExtractedKey == \A x \in Extractions : x.rules \in Keys /\ x.rules \subseteq Rules
BY ExtractionsAssumption DEF Keys

LEMMA BuildIds == \A k \in Keys : Build(k) \in Ids /\ <<"DRAFT", k>> \in Ids /\ <<"EXTRACT", k>> \in Ids
BY DEF Build, Ids

LEMMA IdKeys == \A i \in Ids : i[2] \in Keys
BY DEF Ids

LEMMA Documents ==
  /\ NoDoc \notin Doc
  /\ \A d \in Doc : [d EXCEPT !.status = "PATCH_ACTIVE"] \in Doc
  /\ [NoDoc EXCEPT !.status = "PATCH_ACTIVE"] \in Doc
  /\ \A d \in Doc, b \in BOOLEAN : [d EXCEPT !.archived = b] \in Doc
  /\ \A s \in {"DRAFT", "NEEDS_REVIEW", "COMPILED", "PATCH_VALIDATED", "DRIFT_CONFIRMED"}, v \in SUBSET Values :
       Document(s, v) \in Doc
BY DEF Doc, NoDoc, Document

LEMMA CompiledType == \A k \in Keys : Compiled(k) \in Doc /\ Compiled(k).rules \subseteq Rules
<1> SUFFICES ASSUME NEW k \in Keys PROVE Compiled(k) \in Doc /\ Compiled(k).rules \subseteq Rules
  OBVIOUS
<1>1. Verdict[k] \in Verdicts
  BY KeysAreRules, VerdictAssumption
<1>2. QED
  BY <1>1, KeysAreRules DEF Compiled, Document, Doc, Verdicts

LEMMA NoTaskType == NoTask \in Task
BY DEF NoTask, Task, Values

LEMMA YieldType == \A r \in Rules, d \in Reviews : Yield(r, d) \subseteq Values
BY DEF Yield, Values

LEMMA AcceptedType == TypeOK => \A k \in Keys : AcceptedRules(k) \subseteq Values
BY YieldType DEF AcceptedRules, TypeOK
-----------------------------------------------------------------------------
\* What a request becomes: its type, wherever it goes on to.
Pcs == {"idle", "reviewing", "noting", "deciding", "batch", "batch_noting", "counting", "answering",
        "opening", "accepting", "accept", "accept_noting", "saving", "saving_put", "storing",
        "storing_put", "archiving", "rearchiving"}

LEMMA BeginType ==
  ASSUME TypeOK, NEW q \in Requests, NEW s \in Pcs, NEW t \in Task, Begin(q, s, t)
  PROVE  pc' \in [Requests -> Pcs] /\ task' \in [Requests -> Task] /\ asked' \in 0..MaxRequests
BY BoundAssumption DEF TypeOK, Begin, Pcs

LEMMA ProceedType ==
  ASSUME TypeOK, NEW q \in Requests, NEW s \in Pcs, NEW t \in Task, Proceed(q, s, t)
  PROVE  pc' \in [Requests -> Pcs] /\ task' \in [Requests -> Task] /\ asked' \in 0..MaxRequests
BY DEF TypeOK, Proceed, Pcs

LEMMA FinishType ==
  ASSUME TypeOK, NEW q \in Requests, Finish(q)
  PROVE  pc' \in [Requests -> Pcs] /\ task' \in [Requests -> Task] /\ asked' \in 0..MaxRequests
BY ProceedType, NoTaskType DEF Finish, Pcs

LEMMA SaveType ==
  ASSUME TypeOK, NEW i \in Ids, NEW d \in Doc, NEW v \in Nat
  PROVE  /\ Put(i, d, v) => builds' \in [Ids -> Doc \cup {NoDoc}] /\ version' \in [Ids -> Nat]
         /\ SaveBuild(i, d, v) => Put(i, d, v) /\ raced' \subseteq Requests
<1>1. Put(i, d, v) => builds' \in [Ids -> Doc \cup {NoDoc}] /\ version' \in [Ids -> Nat]
  BY DEF TypeOK, Put
<1>2. SaveBuild(i, d, v) => Put(i, d, v) /\ raced' \subseteq Requests
  BY DEF TypeOK, SaveBuild, Archivals
<1>3. QED
  BY <1>1, <1>2

LEMMA ReviewType ==
  /\ \A k \in Keys, r \in Rules : TypeOK /\ OpenReview(k, r) => review' \in [Keys -> [Rules -> Reviews]]
  /\ \A k \in Keys, r \in Rules, d \in Decision :
       TypeOK /\ StoreReview(k, r, d) =>
         /\ review' \in [Keys -> [Rules -> Reviews]]
         /\ decided' \subseteq (Keys \X Rules) \X Resolved
         /\ current' \subseteq Requests
<1>1. ASSUME TypeOK, NEW k \in Keys, NEW r \in Rules, OpenReview(k, r)
      PROVE  review' \in [Keys -> [Rules -> Reviews]]
  <2>1. review[k][r] \in Reviews
    BY <1>1 DEF TypeOK
  <2>3. "OPEN" \in Reviews
    BY Zenon DEF Reviews, Decision
  <2>2. QED
    BY <1>1, <2>1, <2>3 DEF TypeOK, OpenReview
<1>2. ASSUME TypeOK, NEW k \in Keys, NEW r \in Rules, NEW d \in Decision, StoreReview(k, r, d)
      PROVE  /\ review' \in [Keys -> [Rules -> Reviews]]
             /\ decided' \subseteq (Keys \X Rules) \X Resolved
             /\ current' \subseteq Requests
  <2>1. d \in Reviews
    BY DEF Reviews
  <2>2. ({<<k, r>>} \X ({d} \cap Resolved)) \subseteq (Keys \X Rules) \X Resolved
    OBVIOUS
  <2>3. QED
    BY <1>2, <2>1, <2>2 DEF TypeOK, StoreReview
<1>3. QED
  BY <1>1, <1>2

LEMMA ReleaseType ==
  ASSUME TypeOK, NEW q \in Requests, NEW s \in {"WAITING", "RESUMED"}, Release(q, s)
  PROVE  slot' \in [Keys -> Slot]
<1>1. \A x \in Slot : [x EXCEPT !.status = s, !.owner = None] \in Slot
  BY DEF Slot
<1>2. QED
  BY <1>1 DEF TypeOK, Release

\* A step of an execution keeps the types.
LEMMA RunTypes == TypeOK /\ Shape /\ (\E e \in Execs : Run(e)) => TypeOK'
<1> SUFFICES ASSUME TypeOK, Shape, NEW e \in Execs, Run(e) PROVE TypeOK'
  OBVIOUS
<1> USE DEF TypeOK, Waits, Ended, request, tables
<1>1. CASE Start(e)
  <2>1. extraction' \in [Execs -> Extractions \cup {None}]
    BY <1>1 DEF Start
  <2>4. \A x \in Extractions : (IF x.status = "EXTRACTED" THEN x.rules ELSE {}) \in SUBSET Values
    BY ExtractedKey, KeysAreRules
  <2>5. rules' \in [Execs -> SUBSET Values]
    BY <1>1, <2>4 DEF Start
  <2>2. \A x \in Extractions : Route(x) \in {"ARM_RULE_REVIEW", "CLOSED", "COMPILE_CONSTRAINTS"}
    BY ExtractionsAssumption DEF Route
  <2>3. QED
    BY <1>1, <2>1, <2>2, <2>5 DEF Start, Goto
<1>2. CASE Arm(e)
  <2>1. extraction[e] \in Extractions /\ Remaining(Key(e), Key(e)) \subseteq Key(e)
    BY <1>2 DEF Arm, Shape, ExecInv, Remaining
  <2>2. [NoSlot EXCEPT !.status = "WAITING", !.token = e] \in Slot
    BY DEF NoSlot, Slot
  <2>3. todo' \in [Execs -> SUBSET Rules] /\ slot' \in [Keys -> Slot]
    BY <1>2, <2>1, <2>2, ExtractedKey DEF Arm, Key
  <2>4. QED
    BY <1>2, <2>3 DEF Arm, Goto
<1>3. CASE OpenForExecution(e)
  <2>1. PICK r \in todo[e] : OpenReview(Key(e), r) /\ todo' = [todo EXCEPT ![e] = Remaining(Key(e), @ \ {r})]
    BY <1>3 DEF OpenForExecution
  <2>5. Remaining(Key(e), todo[e] \ {r}) \subseteq Rules
    BY DEF Remaining
  <2>2. Key(e) \in Keys
    BY <2>1, ExtractedKey DEF Shape, ExecInv, Key
  <2>3. review' \in [Keys -> [Rules -> Reviews]]
    BY <2>1, <2>2, ReviewType
  <2>4. QED
    BY <1>3, <2>1, <2>3, <2>5 DEF OpenForExecution
<1>4. CASE Compile(e)
  <2>1. CompiledTo(e) \in {"READY", "PERSIST_BUILD", "CLOSED"}
    BY DEF CompiledTo
  <2>2. QED
    BY <1>4, <2>1 DEF Compile, Goto
<1>5. CASE Persist(e)
  <2>1. Build(Key(e)) \in Ids
    BY <1>5, ExtractedKey, BuildIds DEF Persist, Shape, ExecInv, Key
  <2>2. Document("PATCH_VALIDATED", rules[e]) \in Doc
    BY Documents
  <2>3. builds' \in [Ids -> Doc \cup {NoDoc}] /\ version' \in [Ids -> Nat] /\ raced' \subseteq Requests
    BY <1>5, <2>1, <2>2, SaveType DEF Persist
  <2>4. QED
    BY <1>5, <2>3 DEF Persist, Goto
<1>6. CASE Decide(e)
  BY <1>6 DEF Decide, Goto
<1>7. CASE MarkRead(e)
  <2>1. Build(Key(e)) \in Ids
    BY <1>7, ExtractedKey, BuildIds DEF MarkRead, Shape, ExecInv, Key
  <2>2. QED
    BY <1>7, <2>1 DEF MarkRead, Goto
<1>8. CASE MarkWrite(e)
  <2>1. Build(Key(e)) \in Ids
    BY <1>8, ExtractedKey, BuildIds DEF MarkWrite, Shape, ExecInv, Key
  <2>2. [copy[e] EXCEPT !.status = "PATCH_ACTIVE"] \in Doc
    BY Documents
  <2>3. builds' \in [Ids -> Doc \cup {NoDoc}] /\ version' \in [Ids -> Nat] /\ raced' \subseteq Requests
    BY <1>8, <2>1, <2>2, SaveType DEF MarkWrite
  <2>4. QED
    BY <1>8, <2>3 DEF MarkWrite, Goto
<1>9. CASE Fail(e)
  BY <1>9 DEF Fail, Goto
<1>10. CASE ReadVersionFor(e)
  <2>1. Build(Key(e)) \in Ids
    BY <1>10, ExtractedKey, BuildIds DEF ReadVersionFor, Shape, ExecInv, Key
  <2>2. QED
    BY <1>10, <2>1 DEF ReadVersionFor, Goto
<1>11. QED
  BY <1>1, <1>2, <1>3, <1>4, <1>5, <1>6, <1>7, <1>8, <1>9, <1>10 DEF Run

\* What requests put into a task is of its type.
LEMMA TaskTypes ==
  /\ \A i \in Ids : On(i) \in Task
  /\ \A t \in Task, r \in Rules \cup {None} : [t EXCEPT !.rule = r] \in Task
  /\ \A t \in Task, s \in SUBSET Rules : [t EXCEPT !.left = s] \in Task
  /\ \A t \in Task, d \in Doc : [t EXCEPT !.doc = d] \in Task
  /\ \A t \in Task, b \in BOOLEAN : [t EXCEPT !.auto = b] \in Task
  /\ \A t \in Task, v \in Nat : [t EXCEPT !.ver = v] \in Task
  /\ \A t \in Task, d \in Resolved : [t EXCEPT !.given = d] \in Task
<1>1. \A i \in Ids : On(i) \in Task
  BY NoTaskType DEF On, Task, NoTask
<1>2. QED
  BY <1>1 DEF Task

\* A step of a request keeps the types.
LEMMA StepTypes == TypeOK /\ Shape /\ (\E q \in Requests : Step(q)) => TypeOK'
<1> SUFFICES ASSUME TypeOK, Shape, NEW q \in Requests, Step(q) PROVE TypeOK'
  OBVIOUS
<1> USE DEF cloud, tables, Pcs
<1>a. task[q] \in Task /\ task[q].left \subseteq Rules /\ task[q].accepted \subseteq Values
  BY DEF TypeOK, Task
<1>b. task[q].on \in Ids => TaskKey(q) \in Keys
  BY IdKeys DEF TaskKey
<1>1. CASE ReadReview(q)
  <2>1. PICK k \in Keys, r \in Rules : Begin(q, "reviewing", [On(Build(k)) EXCEPT !.rule = r])
    BY <1>1 DEF ReadReview
  <2>2. [On(Build(k)) EXCEPT !.rule = r] \in Task
    BY TaskTypes, BuildIds
  <2>3. QED
    BY <1>1, <2>1, <2>2, BeginType DEF TypeOK, ReadReview
<1>2. CASE WriteReview(q)
  <2>1. TaskKey(q) \in Keys /\ task[q].rule \in Rules
    BY <1>2, <1>b DEF WriteReview, Shape, TaskInv, Ready, OnReview
  <2>2. CASE q \in current
    <3>1. PICK d \in Decision :
            /\ StoreReview(TaskKey(q), task[q].rule, d)
            /\ \/ d \in Resolved /\ Proceed(q, "noting", [task[q] EXCEPT !.given = d])
               \/ Finish(q)
      BY <1>2, <2>2 DEF WriteReview
    <3>2. QED
      BY <1>2, <1>a, <2>1, <3>1, ReviewType, TaskTypes, ProceedType, FinishType DEF WriteReview, TypeOK
  <2>3. CASE q \notin current
    BY <1>2, <2>3, FinishType DEF WriteReview, TypeOK
  <2>4. QED
    BY <2>2, <2>3
<1>3. CASE Claim(q)
  <2>1. PICK k \in Keys :
          /\ slot' = [slot EXCEPT ![k].status = "DECIDING", ![k].owner = q]
          /\ Begin(q, "deciding", [On(Build(k)) EXCEPT !.left = Rules, !.token = slot[k].token])
    BY <1>3 DEF Claim
  <2>2. [On(Build(k)) EXCEPT !.left = Rules, !.token = slot[k].token] \in Task
    <3>1. On(Build(k)) \in Task /\ slot[k].token \in Execs \cup {None}
      BY TaskTypes, BuildIds DEF TypeOK, Slot
    <3>2. QED
      BY <3>1 DEF Task
  <2>3. slot' \in [Keys -> Slot]
    <3>1. \A x \in Slot : [x EXCEPT !.status = "DECIDING", !.owner = q] \in Slot
      BY DEF Slot
    <3>2. slot' = [slot EXCEPT ![k] = [slot[k] EXCEPT !.status = "DECIDING", !.owner = q]]
      BY <2>1 DEF TypeOK
    <3>3. QED
      BY <3>1, <3>2 DEF TypeOK
  <2>4. QED
    BY <1>3, <2>1, <2>2, <2>3, BeginType DEF TypeOK, Claim
<1>4. CASE BatchRead(q)
  <2>1. PICK r \in task[q].left :
          \/ Release(q, "WAITING") /\ Finish(q) /\ UNCHANGED current
          \/ /\ Proceed(q, "batch", [task[q] EXCEPT !.rule = r, !.left = @ \ {r}])
             /\ current' = current \cup {q}
             /\ UNCHANGED slot
    BY <1>4 DEF BatchRead
  <2>2. [task[q] EXCEPT !.rule = r, !.left = @ \ {r}] \in Task
    BY <1>a DEF Task
  <2>3. QED
    BY <1>4, <2>1, <2>2, ProceedType, FinishType, ReleaseType DEF TypeOK, BatchRead
<1>5. CASE BatchWrite(q)
  <2>1. TaskKey(q) \in Keys /\ task[q].rule \in Rules
    BY <1>5, <1>b DEF BatchWrite, Shape, TaskInv, Ready, OnReview
  <2>2. [task[q] EXCEPT !.rule = None] \in Task
    BY <1>a, TaskTypes
  <2>3. CASE q \in current
    <3>1. PICK d \in Decision :
            /\ StoreReview(TaskKey(q), task[q].rule, d)
            /\ \/ d \in Resolved /\ Proceed(q, "batch_noting", [task[q] EXCEPT !.given = d])
               \/ Proceed(q, "deciding", [task[q] EXCEPT !.rule = None])
      BY <1>5, <2>3 DEF BatchWrite
    <3>2. QED
      BY <1>5, <1>a, <2>1, <2>2, <2>3, <3>1, ReviewType, TaskTypes, ProceedType DEF BatchWrite, TypeOK
  <2>4. CASE q \notin current
    BY <1>5, <2>4, FinishType, ReleaseType DEF BatchWrite, TypeOK
  <2>5. QED
    BY <2>3, <2>4
<1>6. CASE LoadAccepted(q)
  <2>1. AcceptedRules(TaskKey(q)) \subseteq Values
    BY <1>6, <1>b, AcceptedType DEF LoadAccepted, Shape, TaskInv, Ready
  <2>2. [task[q] EXCEPT !.left = {}, !.accepted = AcceptedRules(TaskKey(q))] \in Task
    BY <1>a, <2>1 DEF Task
  <2>3. QED
    BY <1>6, <2>2, ProceedType DEF LoadAccepted, TypeOK
<1>7. CASE Answer(q)
  <2>1. task[q].token \in Execs
    BY <1>7 DEF Answer, Shape, TaskInv, Ready, AtGate, Armed
  <2>2. stage' \in [Execs -> Ended \cup Waits \cup
                       {"started", "ARM_RULE_REVIEW", "WAIT_FOR_RULE_REVIEW",
                        "COMPILE_CONSTRAINTS", "PERSIST_BUILD", "PERSISTING"}]
    BY <1>7, <2>1 DEF Answer, Goto, TypeOK, Ended
  <2>3. rules' \in [Execs -> SUBSET Values]
    BY <1>7, <1>a DEF Answer, TypeOK
  <2>4. missed' \in [Execs -> SUBSET Rules]
    BY <1>7, <1>a, <2>1 DEF Answer, TypeOK
  <2>5. QED
    BY <1>7, <2>2, <2>3, <2>4, FinishType, ReleaseType DEF Answer, TypeOK
<1>8. CASE CreateRefused(q)
  <2>1. PICK x \in Extractions :
          Begin(q, "storing", [On(<<"EXTRACT", x.rules>>) EXCEPT !.doc = Document("NEEDS_REVIEW", x.rules)])
    BY <1>8 DEF CreateRefused
  <2>2. [On(<<"EXTRACT", x.rules>>) EXCEPT !.doc = Document("NEEDS_REVIEW", x.rules)] \in Task
    BY TaskTypes, BuildIds, Documents, ExtractedKey, KeysAreRules
  <2>3. QED
    BY <1>8, <2>1, <2>2, BeginType DEF TypeOK, CreateRefused
<1>9. CASE CreateDraft(q)
  <2>1. PICK k \in Keys : Begin(q, "storing", [On(<<"DRAFT", k>>) EXCEPT !.doc = Document("DRAFT", k)])
    BY <1>9 DEF CreateDraft
  <2>2. [On(<<"DRAFT", k>>) EXCEPT !.doc = Document("DRAFT", k)] \in Task
    BY TaskTypes, BuildIds, Documents, KeysAreRules
  <2>3. QED
    BY <1>9, <2>1, <2>2, BeginType DEF TypeOK, CreateDraft
<1>10. CASE Create(q)
  <2>1. PICK k \in Keys, auto \in BOOLEAN :
          Begin(q, IF Verdict[k] = "refused" THEN "storing" ELSE "opening",
                [On(Build(k)) EXCEPT !.doc = Compiled(k), !.auto = auto, !.left = Compiled(k).rules])
    BY <1>10 DEF Create
  <2>2. [On(Build(k)) EXCEPT !.doc = Compiled(k), !.auto = auto, !.left = Compiled(k).rules] \in Task
    <3>1. On(Build(k)) \in Task
      BY TaskTypes, BuildIds
    <3>2. QED
      BY <3>1, CompiledType DEF Task
  <2>3. QED
    BY <1>10, <2>1, <2>2, BeginType DEF TypeOK, Create
<1>11. CASE Execute(q)
  <2>1. PICK k \in Keys : Begin(q, "saving", [On(Build(k)) EXCEPT !.doc = Compiled(k), !.auto = TRUE])
    BY <1>11 DEF Execute
  <2>2. [On(Build(k)) EXCEPT !.doc = Compiled(k), !.auto = TRUE] \in Task
    <3>1. On(Build(k)) \in Task
      BY TaskTypes, BuildIds
    <3>2. QED
      BY <3>1, CompiledType DEF Task
  <2>3. QED
    BY <1>11, <2>1, <2>2, BeginType DEF TypeOK, Execute
<1>12. CASE StoreFirst(q)
  <2>1. task[q].on \in Ids /\ task[q].doc \in Doc /\ task[q].doc.rules \subseteq Rules
    BY <1>12 DEF StoreFirst, Shape, TaskInv, Ready, WithDoc, Compiling
  <2>2. [task[q] EXCEPT !.left = task[q].doc.rules, !.ver = 0, !.stored = TRUE] \in Task /\ task[q].ver \in Nat
    BY <1>a, <2>1 DEF Task
  <2>3. QED
    BY <1>12, <2>1, <2>2, SaveType, ProceedType DEF StoreFirst, TypeOK
<1>13. CASE OpenNext(q)
  <2>1. TaskKey(q) \in Keys /\ task[q].doc.rules \subseteq Rules
    BY <1>13, <1>b DEF OpenNext, Shape, TaskInv, Ready, Compiling
  <2>2. PICK r \in task[q].left, p \in {"opening", "accepting", "storing"}, left \in SUBSET Rules :
          OpenReview(TaskKey(q), r) /\ Proceed(q, p, [task[q] EXCEPT !.left = left])
    BY <1>13, <1>a, <2>1 DEF OpenNext, Remaining
  <2>3. [task[q] EXCEPT !.left = left] \in Task
    BY <1>a DEF Task
  <2>4. QED
    BY <1>13, <1>a, <2>1, <2>2, <2>3, ReviewType, ProceedType DEF OpenNext, TypeOK
<1>14. CASE AcceptRead(q)
  <2>1. PICK r \in task[q].left : Proceed(q, "accept", [task[q] EXCEPT !.rule = r, !.left = @ \ {r}])
    BY <1>14 DEF AcceptRead
  <2>2. [task[q] EXCEPT !.rule = r, !.left = @ \ {r}] \in Task
    BY <1>a DEF Task
  <2>3. QED
    BY <1>14, <2>1, <2>2, ProceedType DEF AcceptRead, TypeOK
<1>15. CASE AcceptWrite(q)
  <2>1. TaskKey(q) \in Keys /\ task[q].rule \in Rules
    BY <1>15, <1>b DEF AcceptWrite, Shape, TaskInv, Ready, OnReview
  <2>2. [task[q] EXCEPT !.rule = None] \in Task /\ [task[q] EXCEPT !.rule = None, !.left = {}] \in Task
    BY <1>a DEF Task
  <2>3. CASE q \in current
    <3>1. "ACCEPT" \in Resolved /\ "ACCEPT" \in Decision
      BY Zenon DEF Decision, Resolved
    <3>2. QED
      BY <1>15, <1>a, <2>1, <2>3, <3>1, ReviewType, TaskTypes, ProceedType DEF AcceptWrite, TypeOK
  <2>4. CASE q \notin current
    BY <1>15, <2>2, <2>4, FinishType, ProceedType DEF AcceptWrite, TypeOK
  <2>5. QED
    BY <2>3, <2>4
<1>16. CASE Store(q)
  <2>1. task[q].on \in Ids /\ task[q].doc \in Doc /\ task[q].ver \in Nat
    BY <1>16, <1>a DEF Store, Shape, TaskInv, Ready, WithDoc, Task
  <2>2. QED
    BY <1>16, <2>1, SaveType, FinishType DEF Store, TypeOK
<1>17. CASE Archive(q)
  <2>1. PICK i \in Ids, flag \in BOOLEAN :
          Stored(i) /\ Begin(q, "archiving",
                             [On(i) EXCEPT !.doc = [builds[i] EXCEPT !.archived = flag], !.ver = version[i]])
    BY <1>17 DEF Archive
  <2>2. [builds[i] EXCEPT !.archived = flag] \in Doc /\ version[i] \in Nat
    BY <2>1, Documents DEF TypeOK, Stored
  <2>3. [On(i) EXCEPT !.doc = [builds[i] EXCEPT !.archived = flag], !.ver = version[i]] \in Task
    <3>1. On(i) \in Task
      BY TaskTypes
    <3>2. QED
      BY <2>2, <3>1 DEF Task
  <2>4. QED
    BY <1>17, <2>1, <2>3, BeginType DEF Archive, TypeOK
<1>18. CASE ArchiveWrite(q)
  <2>1. /\ task[q].on \in Ids /\ task[q].doc \in Doc /\ builds[task[q].on] \in Doc
        /\ task[q].ver \in Nat /\ version[task[q].on] \in Nat
    BY <1>18, <1>a DEF ArchiveWrite, Shape, TaskInv, Ready, WithDoc, AtArchive, Task, TypeOK
  <2>2. CASE task[q].ver = version[task[q].on]
    BY <1>18, <2>1, <2>2, SaveType, FinishType DEF ArchiveWrite, TypeOK
  <2>3. CASE task[q].ver # version[task[q].on]
    <3>1. PICK d \in Doc : d = [builds[task[q].on] EXCEPT !.archived = task[q].doc.archived]
      BY <2>1, Documents DEF Doc
    <3>2. [task[q] EXCEPT !.doc = d, !.ver = version[task[q].on]] \in Task
      BY <1>a, <2>1 DEF Task
    <3>3. QED
      BY <1>18, <2>3, <3>1, <3>2, ProceedType DEF ArchiveWrite, TypeOK
  <2>4. QED
    BY <2>2, <2>3
<1>19. CASE ArchiveAgain(q)
  <2>1. task[q].on \in Ids /\ task[q].doc \in Doc /\ task[q].ver \in Nat
    BY <1>19, <1>a DEF ArchiveAgain, Shape, TaskInv, Ready, WithDoc, AtArchive, Task
  <2>2. QED
    BY <1>19, <2>1, SaveType, FinishType DEF ArchiveAgain, TypeOK
<1>20. CASE Note(q)
  <2>1. TaskKey(q) \in Keys /\ task[q].rule \in Rules /\ task[q].given \in Resolved
    BY <1>20, <1>b DEF Note, Shape, TaskInv, Ready, OnReview, Noting
  <2>2. Event(task[q].given) \in {"ACCEPT", "EDIT", "REJECT"}
    BY <2>1 DEF Event, Resolved
  <2>3. audit' \subseteq (Keys \X Rules) \X {"ACCEPT", "EDIT", "REJECT"}
    BY <1>20, <2>1, <2>2 DEF Note, TypeOK
  <2>4. [task[q] EXCEPT !.rule = None, !.given = None] \in Task
    BY <1>a DEF Task
  <2>5. QED
    BY <1>20, <2>3, <2>4, FinishType, ProceedType DEF Note, TypeOK
<1>21. CASE Count(q)
  <2>1. PICK a \in SUBSET Values, l \in SUBSET Rules :
          Proceed(q, "answering", [task[q] EXCEPT !.accepted = a, !.left = l])
    <3>1. PICK a \in {task[q].accepted, {}}, l \in SUBSET Rules :
            Proceed(q, "answering", [task[q] EXCEPT !.accepted = a, !.left = l])
      BY <1>21 DEF Count
    <3>2. QED
      BY <3>1, <1>a
  <2>2. [task[q] EXCEPT !.accepted = a, !.left = l] \in Task
    BY <1>a DEF Task
  <2>3. QED
    BY <1>21, <2>1, <2>2, ProceedType DEF Count, TypeOK
<1>22. CASE ReadVersion(q)
  <2>1. version[task[q].on] \in Nat
    BY <1>22 DEF ReadVersion, Shape, TaskInv, Ready, TypeOK
  <2>2. QED
    BY <1>22, <1>a, <2>1, TaskTypes, ProceedType DEF ReadVersion, TypeOK
<1>23. QED
  BY <1>1, <1>2, <1>3, <1>4, <1>5, <1>6, <1>7, <1>8, <1>9, <1>10, <1>11, <1>12, <1>13, <1>14,
     <1>15, <1>16, <1>17, <1>18, <1>19, <1>20, <1>21, <1>22 DEF Step

LEMMA TypeStep == TypeOK /\ Shape /\ [Next]_vars => TypeOK'
BY RunTypes, StepTypes DEF Next, vars, TypeOK, cloud, request
-----------------------------------------------------------------------------
\* An execution starts once, and what it extracted stays.
LEMMA ExecutionsStay ==
  ASSUME TypeOK, Shape, [Next]_vars
  PROVE  /\ ExecInv'
         /\ \A e \in Execs, k \in Keys : Armed(e, k) => Armed(e, k)'
<1> DEFINE Kept(f) == stage[f] # "started" => stage'[f] # "started" /\ extraction'[f] = extraction[f]
           Fine(f) == /\ stage'[f] = "started" => rules'[f] = {} /\ todo'[f] = {}
                      /\ stage'[f] \notin {"started", "CLOSED"} \/ todo'[f] # {} => extraction'[f] # None
<1> USE DEF Shape, ExecInv, tables, request
<1>1. ASSUME NEW e \in Execs, NEW f \in Execs, Run(e) PROVE Kept(f) /\ Fine(f)
  <2>1. CASE Start(e)
    <3>1. \A x \in Extractions : Route(x) # "started" /\ x # None
      BY ExtractionsAssumption, ValuesAssumption DEF Route
    <3>2. QED
      BY <2>1, <3>1 DEF Start, Goto, TypeOK
  <2>2. CASE Arm(e)
    BY <2>2 DEF Arm, Goto, TypeOK
  <2>3. CASE OpenForExecution(e)
    BY <2>3 DEF OpenForExecution, TypeOK
  <2>4. CASE Compile(e)
    BY <2>4 DEF Compile, CompiledTo, Goto, TypeOK
  <2>5. CASE ReadVersionFor(e) \/ Persist(e) \/ Decide(e) \/ MarkRead(e) \/ MarkWrite(e) \/ Fail(e)
    BY <2>5 DEF ReadVersionFor, Persist, Decide, MarkRead, MarkWrite, Fail, Goto, TypeOK
  <2>6. QED
    BY <1>1, <2>1, <2>2, <2>3, <2>4, <2>5 DEF Run
<1>2. ASSUME NEW q \in Requests, NEW f \in Execs, Answer(q) PROVE Kept(f) /\ Fine(f)
  BY <1>2 DEF Answer, Goto, TypeOK
<1>3. ASSUME NEW q \in Requests, Step(q), ~Answer(q) PROVE UNCHANGED cloud
  BY <1>3 DEF Step, ReadReview, WriteReview, Note, Claim, BatchRead, BatchWrite, LoadAccepted, Count, CreateRefused,
              CreateDraft, Create, Execute, ReadVersion, StoreFirst, OpenNext, AcceptRead, AcceptWrite, Store,
              Archive, ArchiveWrite, ArchiveAgain
<1>4. ASSUME NEW f \in Execs, UNCHANGED cloud PROVE Kept(f) /\ Fine(f)
  BY <1>4 DEF cloud
<1>5. \A f \in Execs : Kept(f) /\ Fine(f)
  BY <1>1, <1>2, <1>3, <1>4 DEF Next, vars
<1>6. QED
  BY <1>5 DEF Armed, Key

\* A stored build stays, and what is saved is a document.
LEMMA BuildsStay ==
  ASSUME TypeOK, Shape, [Next]_vars
  PROVE  \A i \in Ids : builds[i] \in Doc => builds'[i] \in Doc
<1> DEFINE Stays == \A i \in Ids : builds[i] \in Doc => builds'[i] \in Doc
<1>1. ASSUME NEW i, NEW d \in Doc, NEW v, SaveBuild(i, d, v) \/ Put(i, d, v) PROVE Stays
  BY <1>1 DEF SaveBuild, Put, TypeOK
<1>2. ASSUME UNCHANGED builds PROVE Stays
  BY <1>2
<1>3. ASSUME NEW e \in Execs, Run(e) PROVE Stays
  <2>1. CASE Persist(e)
    BY <2>1, <1>1, Documents DEF Persist, TypeOK
  <2>2. CASE MarkWrite(e)
    BY <2>2, <1>1, Documents DEF MarkWrite, TypeOK
  <2>3. CASE ~Persist(e) /\ ~MarkWrite(e)
    BY <1>2, <1>3, <2>3 DEF Run, Start, Arm, OpenForExecution, Compile, ReadVersionFor, Decide, MarkRead, Fail, tables
  <2>4. QED
    BY <2>1, <2>2, <2>3
<1>4. ASSUME NEW q \in Requests, Step(q) PROVE Stays
  <2>1. pc[q] \in WithDoc => task[q].doc \in Doc
    BY DEF Shape, TaskInv, Ready
  <2>2. CASE StoreFirst(q) \/ Store(q) \/ ArchiveWrite(q) \/ ArchiveAgain(q)
    <3>1. task[q].doc \in Doc
      BY <2>1, <2>2 DEF StoreFirst, Store, ArchiveWrite, ArchiveAgain, WithDoc, Compiling, AtArchive
    <3>2. \/ SaveBuild(task[q].on, task[q].doc, task[q].ver) \/ Put(task[q].on, task[q].doc, task[q].ver)
          \/ UNCHANGED builds
      BY <2>2 DEF StoreFirst, Store, ArchiveWrite, ArchiveAgain
    <3>3. QED
      BY <1>1, <1>2, <3>1, <3>2
  <2>3. CASE ~(StoreFirst(q) \/ Store(q) \/ ArchiveWrite(q) \/ ArchiveAgain(q))
    BY <1>2, <1>4, <2>3 DEF Step, ReadReview, WriteReview, Note, Claim, BatchRead, BatchWrite, LoadAccepted,
       Count, Answer, CreateRefused, CreateDraft, Create, Execute, ReadVersion, OpenNext, AcceptRead, AcceptWrite, Archive, tables
  <2>4. QED
    BY <2>2, <2>3
<1>5. QED
  BY <1>2, <1>3, <1>4 DEF Next, vars

LEMMA SlotStep == TypeOK /\ Shape /\ [Next]_vars => SlotInv'
<1> SUFFICES ASSUME TypeOK, Shape, [Next]_vars PROVE SlotInv'
  OBVIOUS
<1>1. ASSUME \A k \in Keys :
               /\ slot'[k].status # "ABSENT" => slot[k].status # "ABSENT" /\ slot'[k].token = slot[k].token
               /\ slot'[k].owner # None => slot'[k].status # "ABSENT"
      PROVE  SlotInv'
  <2>1. ASSUME NEW k \in Keys, slot'[k].status # "ABSENT" PROVE Armed(slot[k].token, k)'
    <3>1. PICK e \in Execs : e = slot[k].token /\ Armed(e, k)
      BY <1>1, <2>1 DEF SlotInv, Shape, Armed
    <3>2. Armed(e, k)'
      BY <3>1, ExecutionsStay
    <3>3. slot'[k].token = e
      BY <1>1, <2>1, <3>1
    <3>4. QED
      BY <3>2, <3>3 DEF Armed, Key
  <2>2. QED
    BY <1>1, <2>1 DEF SlotInv
<1>2. ASSUME NEW e \in Execs, Arm(e) PROVE SlotInv'
  <2>1. Armed(e, Key(e)) /\ Key(e) \in Keys
    BY <1>2, ExtractedKey DEF Arm, Shape, ExecInv, Armed, TypeOK, Key
  <2>2. Armed(e, Key(e))'
    BY <2>1, <1>2, ExecutionsStay DEF Arm, Key
  <2>3. PICK s : /\ s = [NoSlot EXCEPT !.status = "WAITING", !.token = e]
                 /\ slot' = [slot EXCEPT ![Key(e)] = s]
    BY <1>2 DEF Arm
  <2>4. s.status = "WAITING" /\ s.token = e /\ s.owner = None
    BY <2>3 DEF NoSlot
  <2>5. Key(e)' = Key(e)
    BY <1>2 DEF Arm, Key
  <2>6. ASSUME NEW k \in Keys
        PROVE  (slot'[k].status # "ABSENT" => Armed(slot[k].token, k)') /\ (slot'[k].owner # None => slot'[k].status # "ABSENT")
    <3>1. CASE k = Key(e)
      BY <3>1, <2>1, <2>2, <2>3, <2>4, <2>5 DEF TypeOK, Armed, Key
    <3>2. CASE k # Key(e)
      BY <3>2, <2>3, ExecutionsStay DEF TypeOK, SlotInv, Shape, Armed, Key
    <3>3. QED
      BY <3>1, <3>2
  <2>7. QED
    BY <2>6 DEF SlotInv
<1>3. ASSUME NEW q \in Requests, NEW s \in {"WAITING", "RESUMED"}, Release(q, s) PROVE SlotInv'
  <2>1. ASSUME NEW k \in Keys
        PROVE  /\ slot'[k].status # "ABSENT" => slot[k].status # "ABSENT" /\ slot'[k].token = slot[k].token
               /\ slot'[k].owner # None => slot'[k].status # "ABSENT"
    <3>1. CASE k = TaskKey(q) /\ slot[k].owner = q
      BY <1>3, <3>1, ValuesAssumption DEF Release, TypeOK, Slot, SlotInv, Shape
    <3>2. CASE ~(k = TaskKey(q) /\ slot[k].owner = q)
      BY <1>3, <3>2 DEF Release, TypeOK, SlotInv, Shape
    <3>3. QED
      BY <3>1, <3>2
  <2>2. QED
    BY <1>1, <2>1
<1>4. ASSUME NEW q \in Requests, Claim(q) PROVE SlotInv'
  <2>1. PICK c \in Keys : slot[c].status = "WAITING" /\ slot' = [slot EXCEPT ![c].status = "DECIDING", ![c].owner = q]
    BY <1>4 DEF Claim
  <2>2. QED
    BY <1>1, <2>1 DEF TypeOK, Slot, SlotInv, Shape
<1>5. CASE UNCHANGED slot
  BY <1>1, <1>5 DEF SlotInv, Shape
<1>6. ASSUME NEW q \in Requests, Step(q) PROVE SlotInv'
  BY <1>3, <1>4, <1>5, <1>6
  DEF Step, ReadReview, WriteReview, Note, BatchRead, BatchWrite, LoadAccepted, Count, Answer, CreateRefused, CreateDraft, Create,
      Execute, ReadVersion, StoreFirst, OpenNext, AcceptRead, AcceptWrite, Store, Archive, ArchiveWrite, ArchiveAgain, tables
<1>7. ASSUME NEW e \in Execs, Run(e) PROVE SlotInv'
  BY <1>2, <1>5, <1>7
  DEF Run, Start, OpenForExecution, Compile, ReadVersionFor, Persist, Decide, MarkRead, MarkWrite, Fail, tables
<1>8. QED
  BY <1>5, <1>6, <1>7 DEF Next, vars

\* A request leaves the others alone.
LEMMA OthersStay ==
  ASSUME TypeOK, NEW q \in Requests, Step(q)
  PROVE  \A p \in Requests \ {q} : pc'[p] = pc[p] /\ task'[p] = task[p]
<1>1. ASSUME NEW s, NEW t, Begin(q, s, t) \/ Proceed(q, s, t)
      PROVE  \A p \in Requests \ {q} : pc'[p] = pc[p] /\ task'[p] = task[p]
  BY <1>1 DEF TypeOK, Begin, Proceed
<1>2. QED
  BY <1>1 DEF Step, Finish, ReadReview, WriteReview, Note, Claim, BatchRead, BatchWrite, LoadAccepted, Count, Answer,
     CreateRefused, CreateDraft, Create, Execute, ReadVersion, StoreFirst, OpenNext, AcceptRead, AcceptWrite, Store,
     Archive, ArchiveWrite, ArchiveAgain

LEMMA StaysReady ==
  ASSUME TypeOK, Shape, [Next]_vars, NEW q \in Requests, pc'[q] = pc[q], task'[q] = task[q]
  PROVE  Ready(q)'
<1>1. ASSUME pc[q] \in AtGate PROVE Armed(task[q].token, TaskKey(q))'
  <2>1. task[q].token \in Execs /\ TaskKey(q) \in Keys /\ Armed(task[q].token, TaskKey(q))
    BY <1>1, IdKeys DEF Shape, TaskInv, Ready, Armed, AtGate, TaskKey
  <2>2. PICK e \in Execs, k \in Keys : e = task[q].token /\ k = TaskKey(q)
    BY <2>1
  <2>3. Armed(e, k)'
    BY <2>1, <2>2, ExecutionsStay
  <2>4. task'[q].token = e /\ task'[q].on[2] = k
    BY <2>2 DEF TaskKey
  <2>5. QED
    BY <2>3, <2>4 DEF Armed, Key, TaskKey
<1>2. ASSUME pc[q] \in AtArchive PROVE builds'[task[q].on] \in Doc
  BY <1>2, BuildsStay DEF Shape, TaskInv, Ready, AtArchive
<1>3. QED
  BY <1>1, <1>2 DEF Ready, Shape, TaskInv, TaskKey, AtGate, AtArchive

\* What the tasks that requests begin with are.
LEMMA TaskFields ==
  /\ \A i \in Ids : On(i).on = i
  /\ \A k \in Keys : Build(k)[2] = k
BY DEF On, NoTask, Build

LEMMA BegunTask ==
  ASSUME TypeOK, NEW q \in Requests, NEW s, NEW t, Begin(q, s, t) PROVE pc'[q] = s /\ task'[q] = t
BY DEF Begin, TypeOK

LEMMA TaskStep == TypeOK /\ Shape /\ [Next]_vars => TaskInv'
<1> SUFFICES ASSUME TypeOK, Shape, [Next]_vars PROVE TaskInv'
  OBVIOUS
<1>1. ASSUME NEW q \in Requests, Step(q) PROVE Ready(q)'
  <2> USE DEF Ready, AtGate, OnBuild, OnReview, Noting, WithDoc, Compiling, AtArchive
  <2>a. task[q] \in Task /\ Ready(q)
    BY DEF TypeOK, Shape, TaskInv
  <2>1. ASSUME Finish(q) PROVE Ready(q)'
    BY <2>1 DEF Finish, Proceed, TypeOK
  <2>2. CASE ReadReview(q)
    <3>1. PICK k \in Keys, r \in Rules : Begin(q, "reviewing", [On(Build(k)) EXCEPT !.rule = r])
      BY <2>2 DEF ReadReview
    <3>2. pc'[q] = "reviewing" /\ task'[q].on = Build(k) /\ task'[q].rule = r
      <4>1. pc'[q] = "reviewing" /\ task'[q] = [On(Build(k)) EXCEPT !.rule = r]
        BY <3>1, BegunTask
      <4>2. QED
        BY <4>1 DEF On, NoTask
    <3>3. QED
      BY <3>2, TaskFields, BuildIds DEF TaskKey
  <2>3. CASE Claim(q)
    <3>1. PICK k \in Keys :
            /\ slot[k].status = "WAITING"
            /\ Begin(q, "deciding", [On(Build(k)) EXCEPT !.left = Rules, !.token = slot[k].token])
      BY <2>3 DEF Claim
    <3>2. pc'[q] = "deciding" /\ task'[q].on = Build(k) /\ task'[q].token = slot[k].token
      <4>1. pc'[q] = "deciding" /\ task'[q] = [On(Build(k)) EXCEPT !.left = Rules, !.token = slot[k].token]
        BY <3>1, BegunTask
      <4>2. QED
        BY <4>1 DEF On, NoTask
    <3>3. PICK e \in Execs : e = slot[k].token /\ Armed(e, k)
      BY <3>1 DEF Shape, SlotInv, Armed
    <3>4. Armed(e, k)'
      BY <3>3, ExecutionsStay
    <3>5. Armed(task[q].token, TaskKey(q))'
      BY <3>2, <3>3, <3>4, TaskFields DEF Armed, Key, TaskKey
    <3>6. QED
      BY <3>2, <3>5, TaskFields, BuildIds DEF TaskKey
  <2>4. ASSUME pc[q] \in AtGate, pc'[q] \in AtGate, task'[q].on = task[q].on, task'[q].token = task[q].token,
               pc'[q] \in {"batch", "batch_noting"} => task'[q].rule \in Rules,
               pc'[q] = "batch_noting" => task'[q].given \in Resolved
        PROVE  Ready(q)'
    <3>1. PICK e \in Execs, k \in Keys : e = task[q].token /\ k = TaskKey(q) /\ Armed(e, k)
      BY <2>4, <2>a, IdKeys DEF Armed, TaskKey
    <3>2. Armed(e, k)'
      BY <3>1, ExecutionsStay
    <3>3. Armed(task[q].token, TaskKey(q))'
      BY <2>4, <3>1, <3>2 DEF Armed, Key, TaskKey
    <3>4. QED
      BY <2>4, <2>a, <3>3 DEF TaskKey
  <2>5. CASE BatchRead(q)
    <3>1. PICK r \in task[q].left : Finish(q) \/ Proceed(q, "batch", [task[q] EXCEPT !.rule = r, !.left = @ \ {r}])
      BY <2>5 DEF BatchRead
    <3>2. r \in Rules
      BY <3>1, <2>a DEF Task
    <3>3. CASE Proceed(q, "batch", [task[q] EXCEPT !.rule = r, !.left = @ \ {r}])
      <4>1. pc'[q] = "batch" /\ task'[q].on = task[q].on /\ task'[q].token = task[q].token /\ task'[q].rule = r
        BY <3>3, <2>a DEF Proceed, TypeOK, Task
      <4>2. QED
        BY <2>4, <2>5, <3>2, <4>1 DEF BatchRead
    <3>4. QED
      BY <3>1, <3>3, <2>1
  <2>6. CASE BatchWrite(q)
    <3>1. \/ Finish(q) \/ Proceed(q, "deciding", [task[q] EXCEPT !.rule = None])
          \/ \E d \in Resolved : Proceed(q, "batch_noting", [task[q] EXCEPT !.given = d])
      BY <2>6 DEF BatchWrite
    <3>2. CASE Proceed(q, "deciding", [task[q] EXCEPT !.rule = None])
      <4>1. pc'[q] = "deciding" /\ task'[q].on = task[q].on /\ task'[q].token = task[q].token
        BY <3>2, <2>a DEF Proceed, TypeOK, Task
      <4>2. QED
        BY <2>4, <2>6, <4>1 DEF BatchWrite
    <3>3. ASSUME NEW d \in Resolved, Proceed(q, "batch_noting", [task[q] EXCEPT !.given = d]) PROVE Ready(q)'
      <4>1. /\ pc'[q] = "batch_noting" /\ task'[q].on = task[q].on /\ task'[q].token = task[q].token
            /\ task'[q].rule = task[q].rule /\ task'[q].given = d
        BY <3>3, <2>a DEF Proceed, TypeOK, Task
      <4>2. QED
        BY <2>4, <2>6, <2>a, <4>1 DEF BatchWrite
    <3>4. QED
      BY <3>1, <3>2, <3>3, <2>1
  <2>7. CASE LoadAccepted(q) \/ Count(q)
    <3>1. ASSUME NEW s \in {"counting", "answering"}, NEW a, NEW l,
                 Proceed(q, s, [task[q] EXCEPT !.left = l, !.accepted = a])
          PROVE  pc'[q] = s /\ task'[q].on = task[q].on /\ task'[q].token = task[q].token
      BY <3>1, <2>a DEF Proceed, TypeOK, Task
    <3>2. CASE LoadAccepted(q)
      BY <2>4, <3>1, <3>2 DEF LoadAccepted
    <3>3. CASE Count(q)
      <4>1. PICK a, l : Proceed(q, "answering", [task[q] EXCEPT !.accepted = a, !.left = l])
        BY <3>3 DEF Count
      <4>2. pc'[q] = "answering" /\ task'[q].on = task[q].on /\ task'[q].token = task[q].token
        BY <4>1, <2>a DEF Proceed, TypeOK, Task
      <4>3. QED
        BY <2>4, <3>3, <4>2 DEF Count
    <3>4. QED
      BY <2>7, <3>2, <3>3
  <2>8. CASE CreateRefused(q)
    <3>1. PICK x \in Extractions :
            Begin(q, "storing", [On(<<"EXTRACT", x.rules>>) EXCEPT !.doc = Document("NEEDS_REVIEW", x.rules)])
      BY <2>8 DEF CreateRefused
    <3>2. Document("NEEDS_REVIEW", x.rules) \in Doc /\ <<"EXTRACT", x.rules>> \in Ids
      BY Documents, ExtractedKey, KeysAreRules, BuildIds
    <3>3. pc'[q] = "storing" /\ task'[q].on = <<"EXTRACT", x.rules>> /\ task'[q].doc = Document("NEEDS_REVIEW", x.rules)
      <4>1. pc'[q] = "storing" /\ task'[q] = [On(<<"EXTRACT", x.rules>>) EXCEPT !.doc = Document("NEEDS_REVIEW", x.rules)]
        BY <3>1, <3>2, BegunTask
      <4>2. QED
        BY <4>1 DEF On, NoTask
    <3>4. QED
      BY <3>2, <3>3
  <2>9. CASE CreateDraft(q)
    <3>1. PICK k \in Keys : Begin(q, "storing", [On(<<"DRAFT", k>>) EXCEPT !.doc = Document("DRAFT", k)])
      BY <2>9 DEF CreateDraft
    <3>2. Document("DRAFT", k) \in Doc /\ <<"DRAFT", k>> \in Ids
      BY Documents, KeysAreRules, BuildIds
    <3>3. pc'[q] = "storing" /\ task'[q].on = <<"DRAFT", k>> /\ task'[q].doc = Document("DRAFT", k)
      <4>1. pc'[q] = "storing" /\ task'[q] = [On(<<"DRAFT", k>>) EXCEPT !.doc = Document("DRAFT", k)]
        BY <3>1, <3>2, BegunTask
      <4>2. QED
        BY <4>1 DEF On, NoTask
    <3>4. QED
      BY <3>2, <3>3
  <2>10. ASSUME NEW k \in Keys, NEW b \in BOOLEAN, NEW s \in {"storing", "opening", "saving"}, NEW l \in SUBSET Rules,
                Begin(q, s, [On(Build(k)) EXCEPT !.doc = Compiled(k), !.auto = b, !.left = l])
         PROVE  Ready(q)'
    <3>1. pc'[q] = s /\ task'[q].on = Build(k) /\ task'[q].doc = Compiled(k)
      <4>1. pc'[q] = s /\ task'[q] = [On(Build(k)) EXCEPT !.doc = Compiled(k), !.auto = b, !.left = l]
        BY <2>10, BegunTask
      <4>2. QED
        BY <4>1 DEF On, NoTask
    <3>2. QED
      BY <3>1, TaskFields, CompiledType, BuildIds DEF TaskKey
  <2>11. CASE Create(q)
    BY <2>10, <2>11, CompiledType DEF Create
  <2>12. CASE Execute(q)
    <3>1. PICK k \in Keys : Begin(q, "saving", [On(Build(k)) EXCEPT !.doc = Compiled(k), !.auto = TRUE])
      BY <2>12 DEF Execute
    <3>2. pc'[q] = "saving" /\ task'[q].on = Build(k) /\ task'[q].doc = Compiled(k)
      <4>1. pc'[q] = "saving" /\ task'[q] = [On(Build(k)) EXCEPT !.doc = Compiled(k), !.auto = TRUE]
        BY <3>1, BegunTask
      <4>2. QED
        BY <4>1 DEF On, NoTask
    <3>3. QED
      BY <3>2, TaskFields, CompiledType, BuildIds DEF TaskKey
  <2>13. ASSUME pc[q] \in Compiling, pc'[q] \in Compiling \cup {"storing"},
                task'[q].on = task[q].on, task'[q].doc = task[q].doc,
                pc'[q] \in {"accept", "accept_noting"} => task'[q].rule \in Rules,
                pc'[q] = "accept_noting" => task'[q].given \in Resolved
         PROVE  Ready(q)'
    BY <2>13, <2>a DEF TaskKey
  <2>14. CASE StoreFirst(q)
    BY <2>13, <2>14, <2>a DEF StoreFirst, Proceed, TypeOK, Task
  <2>15. CASE OpenNext(q)
    BY <2>13, <2>15, <2>a DEF OpenNext, Proceed, TypeOK, Task
  <2>16. CASE AcceptRead(q)
    BY <2>13, <2>16, <2>a DEF AcceptRead, Proceed, TypeOK, Task
  <2>17. CASE AcceptWrite(q)
    <3>1. \/ Finish(q) \/ Proceed(q, "storing", [task[q] EXCEPT !.rule = None, !.left = {}])
          \/ Proceed(q, "accept_noting", [task[q] EXCEPT !.given = "ACCEPT"])
      BY <2>17 DEF AcceptWrite
    <3>2. CASE Proceed(q, "storing", [task[q] EXCEPT !.rule = None, !.left = {}])
      <4>1. pc'[q] = "storing" /\ task'[q].on = task[q].on /\ task'[q].doc = task[q].doc
        BY <3>2, <2>a DEF Proceed, TypeOK, Task
      <4>2. QED
        BY <2>13, <2>17, <4>1 DEF AcceptWrite
    <3>3. CASE Proceed(q, "accept_noting", [task[q] EXCEPT !.given = "ACCEPT"])
      <4>1. /\ pc'[q] = "accept_noting" /\ task'[q].on = task[q].on /\ task'[q].doc = task[q].doc
            /\ task'[q].rule = task[q].rule /\ task'[q].given = "ACCEPT"
        BY <3>3, <2>a DEF Proceed, TypeOK, Task
      <4>2. "ACCEPT" \in Resolved
        BY Zenon DEF Resolved
      <4>3. QED
        BY <2>13, <2>17, <2>a, <4>1, <4>2 DEF AcceptWrite
    <3>4. QED
      BY <2>1, <3>1, <3>2, <3>3
  <2>18. CASE Archive(q)
    <3>1. PICK i \in Ids, flag \in BOOLEAN :
            Stored(i) /\ Begin(q, "archiving",
                               [On(i) EXCEPT !.doc = [builds[i] EXCEPT !.archived = flag], !.ver = version[i]])
      BY <2>18 DEF Archive
    <3>2. builds[i] \in Doc /\ [builds[i] EXCEPT !.archived = flag] \in Doc /\ builds' = builds
      BY <2>18, <3>1, Documents DEF Archive, Stored, TypeOK
    <3>3. pc'[q] = "archiving" /\ task'[q].on = i /\ task'[q].doc = [builds[i] EXCEPT !.archived = flag]
      <4>1. /\ pc'[q] = "archiving"
            /\ task'[q] = [On(i) EXCEPT !.doc = [builds[i] EXCEPT !.archived = flag], !.ver = version[i]]
        BY <3>1, BegunTask
      <4>2. QED
        BY <4>1 DEF On, NoTask
    <3>4. QED
      BY <3>2, <3>3
  <2>19. CASE ArchiveWrite(q)
    <3>1. CASE task[q].ver = version[task[q].on]
      BY <2>1, <2>19, <3>1 DEF ArchiveWrite
    <3>2. CASE task[q].ver # version[task[q].on]
      <4>1. [builds[task[q].on] EXCEPT !.archived = task[q].doc.archived] \in Doc
        BY <2>19, <2>a, Documents DEF ArchiveWrite, Doc
      <4>4. PICK d : /\ d = [builds[task[q].on] EXCEPT !.archived = task[q].doc.archived]
                     /\ Proceed(q, "rearchiving", [task[q] EXCEPT !.doc = d, !.ver = version[task[q].on]])
                     /\ builds' = builds
        BY <2>19, <3>2 DEF ArchiveWrite
      <4>2. pc'[q] = "rearchiving" /\ task'[q].on = task[q].on /\ task'[q].doc = d
        BY <4>4, <2>a DEF Proceed, TypeOK, Task
      <4>3. QED
        BY <2>19, <2>a, <4>1, <4>2, <4>4 DEF ArchiveWrite
    <3>3. QED
      BY <3>1, <3>2
  <2>20. CASE WriteReview(q)
    <3>1. ASSUME NEW d \in Resolved, Proceed(q, "noting", [task[q] EXCEPT !.given = d]) PROVE Ready(q)'
      <4>1. /\ pc'[q] = "noting" /\ task'[q].on = task[q].on /\ task'[q].rule = task[q].rule
            /\ task'[q].given = d
        BY <3>1, <2>a DEF Proceed, TypeOK, Task
      <4>2. QED
        BY <2>20, <2>a, <4>1 DEF WriteReview, TaskKey
    <3>2. QED
      BY <2>1, <2>20, <3>1 DEF WriteReview
  <2>22. CASE Note(q)
    <3>1. ASSUME NEW s \in {"deciding", "accepting", "storing"},
                 Proceed(q, s, [task[q] EXCEPT !.rule = None, !.given = None])
          PROVE  /\ pc'[q] = s /\ task'[q].on = task[q].on /\ task'[q].token = task[q].token
                 /\ task'[q].doc = task[q].doc
      BY <3>1, <2>a DEF Proceed, TypeOK, Task
    <3>2. CASE pc[q] = "noting"
      BY <2>1, <2>22, <3>2 DEF Note
    <3>3. CASE pc[q] = "batch_noting"
      BY <2>4, <2>22, <3>1, <3>3 DEF Note
    <3>4. CASE pc[q] = "accept_noting"
      BY <2>13, <2>22, <3>1, <3>4 DEF Note
    <3>5. QED
      BY <2>22, <3>2, <3>3, <3>4 DEF Note
  <2>23. CASE ReadVersion(q)
    <3>1. /\ task'[q].on = task[q].on /\ task'[q].doc = task[q].doc
          /\ \/ pc[q] = "saving" /\ pc'[q] = "saving_put"
             \/ pc[q] = "storing" /\ pc'[q] = "storing_put"
      BY <2>23, <2>a DEF ReadVersion, Proceed, TypeOK, Task
    <3>2. QED
      BY <2>13, <2>a, <3>1
  <2>24. CASE Answer(q) \/ Store(q) \/ ArchiveAgain(q)
    BY <2>1, <2>24 DEF Answer, Store, ArchiveAgain
  <2>21. QED
    BY <1>1, <2>2, <2>3, <2>5, <2>6, <2>7, <2>8, <2>9, <2>11, <2>12, <2>14, <2>15, <2>16, <2>17,
       <2>18, <2>19, <2>20, <2>22, <2>23, <2>24 DEF Step
<1>2. ASSUME NEW q \in Requests, UNCHANGED <<pc, task>> PROVE Ready(q)'
  BY <1>2, StaysReady
<1>3. ASSUME NEW e \in Execs, Run(e) PROVE UNCHANGED <<pc, task>>
  BY <1>3 DEF Run, Start, Arm, OpenForExecution, Compile, ReadVersionFor, Persist, Decide, MarkRead, MarkWrite, Fail, request
<1>4. ASSUME NEW p \in Requests, Step(p), NEW q \in Requests PROVE Ready(q)'
  BY <1>1, <1>4, OthersStay, StaysReady
<1>5. QED
  BY <1>2, <1>3, <1>4 DEF Next, vars, request, TaskInv

LEMMA ShapeStep == TypeOK /\ Shape /\ [Next]_vars => Shape'
BY ExecutionsStay, SlotStep, TaskStep DEF Shape

LEMMA Initially == Init => TypeOK /\ Shape
<1> SUFFICES ASSUME Init PROVE TypeOK /\ Shape
  OBVIOUS
<1>1. TypeOK
  BY NoTaskType, BoundAssumption DEF Init, TypeOK, NoSlot, Slot, Reviews, Waits, Ended
<1>2. Shape
  BY DEF Init, Shape, ExecInv, SlotInv, TaskInv, Ready, NoSlot, AtGate, OnBuild, OnReview, Noting, WithDoc,
     Compiling, AtArchive
<1>3. QED
  BY <1>1, <1>2

LEMMA ShapeInvariant == Spec => [](TypeOK /\ Shape)
<1>1. TypeOK /\ Shape /\ [Next]_vars => (TypeOK /\ Shape)'
  BY TypeStep, ShapeStep
<1>2. QED
  BY <1>1, Initially, PTL DEF Spec

\* Builds, reviews, slots, executions and requests stay within their types; in
\* particular every stage an execution reaches is one that the state machine
\* (infra/statemachine.asl.json) has.
THEOREM TypeCorrect == Spec => []TypeOK
BY ShapeInvariant, PTL
=============================================================================
