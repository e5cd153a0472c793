--------------------------- MODULE ActivationProofs ---------------------------
(***************************************************************************)
(* Theorems about Activation: for any number of builds, sessions, graphs   *)
(* and recompilations, with crashes, what becomes active was approved.     *)
(***************************************************************************)
EXTENDS Activation, TLAPS

LEMMA VersionFacts ==
  /\ NoVersion \in Version /\ NoPlan \in [Versions -> Version]
  /\ \A c \in Contents : Graph(c) \in Graphs
  /\ \A g \in Graphs : [graph |-> g, status |-> "candidate"] \in Version
  /\ Builds \subseteq Versions /\ Base \in Versions
BY DEF NoVersion, Version, NoPlan, Contents, Graph, Versions

LEMMA FinishType ==
  ASSUME TypeOK, NEW r \in Requests, Finish(r)
  PROVE  /\ pc' \in [Requests -> Steps]
         /\ job' \in [Requests -> Job \cup {NoJob}]
         /\ \A q \in Requests : /\ pc'[q] # "idle" => job'[q] \in Job
                                /\ pc'[q] \in DecisionSteps => job'[q].want \in Decisions
         /\ plan' \in [Requests -> [Versions -> Version]]
BY VersionFacts DEF TypeOK, Finish, Goto, Steps, DecisionSteps

LEMMA ProceedType ==
  ASSUME TypeOK, NEW r \in Requests, NEW step \in Steps, pc[r] # "idle",
         step \in DecisionSteps => pc[r] \in DecisionSteps, Proceed(r, step)
  PROVE  /\ pc' \in [Requests -> Steps]
         /\ job' \in [Requests -> Job \cup {NoJob}]
         /\ \A q \in Requests : /\ pc'[q] # "idle" => job'[q] \in Job
                                /\ pc'[q] \in DecisionSteps => job'[q].want \in Decisions
         /\ plan' \in [Requests -> [Versions -> Version]]
BY DEF TypeOK, Proceed, Goto

LEMMA JobFacts ==
  ASSUME TypeOK, NEW r \in Requests, pc[r] # "idle"
  PROVE  /\ job[r] \in Job
         /\ job[r].build \in Builds /\ job[r].build \in Versions
         /\ job[r].want \in AllWants
         /\ job[r].doc \in Document /\ job[r].doc.content \in Contents
         /\ Graph(job[r].doc.content) \in Graphs
<1>1. job[r] \in Job
  BY DEF TypeOK
<1>2. job[r].build \in Builds /\ job[r].want \in AllWants /\ job[r].doc \in Document
  BY <1>1 DEF Job
<1>3. job[r].doc.content \in Contents
  BY <1>2 DEF Document
<1>4. QED
  BY <1>1, <1>2, <1>3, VersionFacts

\* Starting a request keeps the types.
LEMMA StartType ==
  ASSUME TypeOK, NEW r \in Requests, NEW b \in Builds, NEW want,
         NEW step \in Steps, step \in DecisionSteps => want \in Decisions,
         Start(r, b, want, step)
  PROVE  TypeOK'
<1>1. want \in AllWants /\ build[b] \in Document
  BY WantsAssumption DEF Start, TypeOK
<1>2. [build |-> b, want |-> want, doc |-> build[b]] \in Job
  BY <1>1 DEF Job
<1>3. QED
  BY <1>2 DEF Start, TypeOK, Goto, tables

LEMMA EvidenceType ==
  ASSUME TypeOK, NEW r \in Requests, pc[r] # "idle",
         NEW d \in Decisions \cup {"ACTIVATE"}, Evidence(r, d)
  PROVE  ledger' \in Seq(Row)
<1>1. [build |-> job[r].build, decision |-> d, content |-> job[r].doc.content] \in Row
  BY JobFacts DEF Row
<1>2. QED
  BY <1>1 DEF Evidence, TypeOK

\* One step keeps every variable in its type.
LEMMA TypeStep == TypeOK /\ [Next]_vars => TypeOK'
<1> SUFFICES ASSUME TypeOK, [Next]_vars PROVE TypeOK'
  OBVIOUS
<1>1. ASSUME NEW b \in Builds, OpenByExecution(b) \/ ReviewRule(b) PROVE TypeOK'
  BY <1>1 DEF OpenByExecution, ReviewRule, TypeOK
<1>2. ASSUME NEW b \in Builds, Recompile(b) PROVE TypeOK'
  <2>1. PICK c \in Contents :
          build' = [build EXCEPT ![b] = [content |-> c, status |-> "PATCH_VALIDATED"]]
    BY <1>2 DEF Recompile
  <2>2. [content |-> c, status |-> "PATCH_VALIDATED"] \in Document
    BY DEF Document
  <2>3. build' \in [Builds -> Document]
    BY <2>1, <2>2 DEF TypeOK
  <2>4. recompiles' \in 0..MaxRecompiles
    BY <1>2, FlagsAssumption DEF Recompile, TypeOK
  <2>5. QED
    BY <1>2, <2>3, <2>4 DEF Recompile, TypeOK
<1>3. ASSUME NEW r \in Requests, Open(r) PROVE TypeOK'
  <2>1. \A b \in Builds : Graph(build[b].content) \in Graphs
    BY VersionFacts DEF TypeOK, Document
  <2>2. QED
    BY <1>3, <2>1 DEF Open, TypeOK
<1>4. ASSUME NEW r \in Requests, StartDecision(r) PROVE TypeOK'
  BY <1>4, StartType DEF StartDecision, Steps, DecisionSteps
<1>5. ASSUME NEW r \in Requests, StartActivation(r) PROVE TypeOK'
  BY <1>5, StartType, VersionFacts DEF StartActivation, Steps, DecisionSteps
<1>6. ASSUME NEW r \in Requests, Decide(r) PROVE TypeOK'
  <2>1. pc[r] # "idle" /\ job[r].build \in Builds
    BY <1>6, JobFacts DEF Decide
  <2>2. rows' \subseteq Builds \X {"candidate", "inactive"}
    BY <1>6, <2>1 DEF Decide, TypeOK
  <2>3. Finish(r) \/ Proceed(r, "minting") \/ Proceed(r, "recording")
    BY <1>6 DEF Decide
  <2>4. QED
    BY <1>6, <2>1, <2>2, <2>3, FinishType, ProceedType DEF Decide, TypeOK, Steps, DecisionSteps
<1>7. ASSUME NEW r \in Requests, FindCandidate(r) PROVE TypeOK'
  <2>1. pc[r] # "idle" /\ (Proceed(r, "recording") \/ Proceed(r, "creating"))
    BY <1>7 DEF FindCandidate
  <2>2. QED
    BY <1>7, <2>1, ProceedType DEF FindCandidate, TypeOK, tables, Steps, DecisionSteps
<1>8. ASSUME NEW r \in Requests, CreateCandidate(r) PROVE TypeOK'
  <2>1. pc[r] # "idle" /\ Proceed(r, "noting")
    BY <1>8 DEF CreateCandidate
  <2>2. [graph |-> Graph(job[r].doc.content), status |-> "candidate"] \in Version
    BY <2>1, JobFacts, VersionFacts
  <2>3. version' \in [Versions -> Version]
    BY <1>8, <2>2 DEF CreateCandidate, TypeOK
  <2>4. QED
    BY <1>8, <2>1, <2>3, ProceedType DEF CreateCandidate, TypeOK, Steps, DecisionSteps
<1>9. ASSUME NEW r \in Requests, NoteCandidate(r) PROVE TypeOK'
  <2>1. pc[r] # "idle" /\ Proceed(r, "recording") /\ job[r].build \in Builds
    BY <1>9, JobFacts DEF NoteCandidate
  <2>2. QED
    BY <1>9, <2>1, ProceedType DEF NoteCandidate, TypeOK, Steps, DecisionSteps
<1>10. ASSUME NEW r \in Requests, RecordDecision(r) PROVE TypeOK'
  <2>1. pc[r] # "idle" /\ (Finish(r) \/ Proceed(r, "storing"))
    BY <1>10 DEF RecordDecision
  <2>2. ledger' \in Seq(Row)
    BY <1>10, <2>1, EvidenceType DEF RecordDecision, TypeOK, DecisionSteps, DecisionSteps
  <2>3. QED
    BY <1>10, <2>1, <2>2, FinishType, ProceedType DEF RecordDecision, Evidence, TypeOK, Steps, DecisionSteps
<1>11. ASSUME NEW r \in Requests, StoreBuild(r) PROVE TypeOK'
  <2>1. pc[r] # "idle" /\ job[r].doc \in Document /\ job[r].build \in Builds
    BY <1>11, JobFacts DEF StoreBuild
  <2>2. [job[r].doc EXCEPT !.status = "PATCH_APPROVED"] \in Document
    BY <2>1 DEF Document
  <2>3. build' \in [Builds -> Document]
    BY <1>11, <2>1, <2>2 DEF StoreBuild, TypeOK
  <2>4. QED
    BY <1>11, <2>3, FinishType DEF StoreBuild, TypeOK
<1>12. ASSUME NEW r \in Requests, CheckApproval(r) PROVE TypeOK'
  <2>1. pc[r] # "idle" /\ (Finish(r) \/ Proceed(r, "loading") \/ Proceed(r, "marking"))
    BY <1>12 DEF CheckApproval, EndActivation
  <2>2. QED
    BY <1>12, <2>1, FinishType, ProceedType DEF CheckApproval, TypeOK, tables, Steps, DecisionSteps
<1>13. ASSUME NEW r \in Requests, LoadVersions(r) PROVE TypeOK'
  <2>1. \A v \in Versions : Flipped(v, job[r].build) \in Version
    BY DEF Flipped, TypeOK, Version
  <2> DEFINE flips == [v \in Versions |->
                         IF version[v].status # "absent" /\ Flipped(v, job[r].build) # version[v]
                           THEN Flipped(v, job[r].build) ELSE NoVersion]
  <2>2. flips \in [Versions -> Version]
    BY <2>1, VersionFacts
  <2>3. CASE /\ plan' = [plan EXCEPT ![r] = flips] /\ Goto(r, "flipping") /\ job' = job
    BY <1>13, <2>2, <2>3 DEF LoadVersions, TypeOK, tables, Goto, Steps, DecisionSteps
  <2>4. CASE EndActivation(r)
    <3>1. pc[r] # "idle" /\ (Finish(r) \/ Proceed(r, "marking"))
      BY <1>13, <2>4 DEF LoadVersions, EndActivation
    <3>2. QED
      BY <1>13, <3>1, FinishType, ProceedType DEF LoadVersions, TypeOK, tables, Steps, DecisionSteps
  <2>5. QED
    BY <1>13, <2>3, <2>4 DEF LoadVersions
<1>14. ASSUME NEW r \in Requests, Flip(r) PROVE TypeOK'
  BY <1>14, VersionFacts DEF Flip, Planned, TypeOK
<1>15. ASSUME NEW r \in Requests, RecordActivation(r) PROVE TypeOK'
  <2>1. pc[r] # "idle" /\ (Finish(r) \/ Proceed(r, "marking"))
    BY <1>15 DEF RecordActivation, EndActivation
  <2>2. ledger' \in Seq(Row)
    BY <1>15, <2>1, EvidenceType DEF RecordActivation
  <2>3. QED
    BY <1>15, <2>1, <2>2, FinishType, ProceedType DEF RecordActivation, Evidence, TypeOK, Steps, DecisionSteps
<1>16. ASSUME NEW r \in Requests, MarkRead(r) PROVE TypeOK'
  <2>1. pc[r] # "idle" /\ job[r] \in Job /\ build[job[r].build] \in Document
    BY <1>16, JobFacts DEF MarkRead, TypeOK
  <2>2. [job[r] EXCEPT !.doc = build[job[r].build]] \in Job
    BY <2>1 DEF Job
  <2>3. job' = [job EXCEPT ![r] = [job[r] EXCEPT !.doc = build[job[r].build]]]
    BY <1>16 DEF MarkRead
  <2>4. QED
    BY <1>16, <2>2, <2>3 DEF MarkRead, TypeOK, Goto, tables, Steps, DecisionSteps
<1>17. ASSUME NEW r \in Requests, MarkWrite(r) PROVE TypeOK'
  <2>1. pc[r] # "idle" /\ job[r].doc \in Document /\ job[r].build \in Builds
    BY <1>17, JobFacts DEF MarkWrite
  <2>2. [job[r].doc EXCEPT !.status = "PATCH_ACTIVE"] \in Document
    BY <2>1 DEF Document
  <2>3. build' \in [Builds -> Document]
    BY <1>17, <2>1, <2>2 DEF MarkWrite, TypeOK
  <2>4. QED
    BY <1>17, <2>3, FinishType DEF MarkWrite, TypeOK
<1>18. ASSUME NEW r \in Requests, Crash(r) PROVE TypeOK'
  BY <1>18, FinishType DEF Crash, TypeOK, tables
<1>19. CASE UNCHANGED vars
  BY <1>19 DEF vars, TypeOK
<1>20. QED
  BY <1>1, <1>2, <1>3, <1>4, <1>5, <1>6, <1>7, <1>8, <1>9, <1>10, <1>11, <1>12, <1>13,
     <1>14, <1>15, <1>16, <1>17, <1>18, <1>19 DEF Next, Quiet

\* Types hold for every reachable state.
THEOREM TypeCorrect == Spec => []TypeOK
<1>1. Init => TypeOK
  <2> SUFFICES ASSUME Init PROVE TypeOK
    OBVIOUS
  <2>1. build \in [Builds -> Document]
    BY DEF Init, Document
  <2>2. version \in [Versions -> Version]
    BY DEF Init, Version, NoVersion
  <2>3. unresolved \subseteq Builds /\ ledger \in Seq(Row) /\ recompiles \in 0..MaxRecompiles
    BY FlagsAssumption DEF Init
  <2>4. QED
    BY <2>1, <2>2, <2>3, VersionFacts DEF Init, TypeOK, Steps, DecisionSteps
<1>2. QED
  BY <1>1, TypeStep, PTL DEF Spec
-----------------------------------------------------------------------------
(***************************************************************************)
(* What one step can do to each table, whatever the action.                *)
(***************************************************************************)
OwnRow(r, d) == [build |-> job[r].build, decision |-> d, content |-> job[r].doc.content]

LEMMA LedgerSteps ==
  ASSUME [Next]_vars
  PROVE  \/ ledger' = ledger
         \/ \E r \in Requests :
              pc[r] = "recording" /\ ledger' = Append(ledger, OwnRow(r, job[r].want))
         \/ \E r \in Requests :
              pc[r] = "flipping" /\ ledger' = Append(ledger, OwnRow(r, "ACTIVATE"))
BY DEF Next, vars, tables, Quiet, OpenByExecution, ReviewRule, Recompile, Open, StartDecision, Start,
       Decide, FindCandidate, CreateCandidate, NoteCandidate, RecordDecision, StoreBuild,
       StartActivation, CheckApproval, LoadVersions, Flip, RecordActivation, MarkRead,
       MarkWrite, Crash, Evidence, OwnRow

LEMMA VersionSteps ==
  ASSUME [Next]_vars
  PROVE  \/ version' = version
         \/ \E r \in Requests :
              /\ pc[r] = "creating" /\ version[job[r].build].status = "absent"
              /\ version' = [version EXCEPT ![job[r].build] =
                               [graph |-> Graph(job[r].doc.content), status |-> "candidate"]]
         \/ \E r \in Requests, v \in Versions :
              /\ pc[r] = "flipping" /\ plan[r][v] # NoVersion
              /\ version' = [version EXCEPT ![v] = plan[r][v]]
BY DEF Next, vars, tables, Quiet, OpenByExecution, ReviewRule, Recompile, Open, StartDecision, Start,
       Decide, FindCandidate, CreateCandidate, NoteCandidate, RecordDecision, StoreBuild,
       StartActivation, CheckApproval, LoadVersions, Flip, RecordActivation, MarkRead,
       MarkWrite, Crash, Evidence, Planned

LEMMA BuildSteps ==
  ASSUME [Next]_vars
  PROVE  \/ build' = build
         \/ \E b \in Builds : Recompile(b)
         \/ \E r \in Requests : StoreBuild(r) \/ MarkWrite(r)
BY DEF Next, vars, tables, Quiet, OpenByExecution, ReviewRule, Open, StartDecision, Start,
       Decide, FindCandidate, CreateCandidate, NoteCandidate, RecordDecision,
       StartActivation, CheckApproval, LoadVersions, Flip, RecordActivation, MarkRead,
       Crash, Evidence

\* What a request's own step, or anybody else's, does to its local state.
Unmoved(r) == pc'[r] = pc[r] /\ job'[r] = job[r] /\ plan'[r] = plan[r]
Ended(r)   == pc'[r] = "idle" /\ plan'[r] = NoPlan
Moved(r)   == pc'[r] \notin {"idle", "loading", "flipping", "storing"} /\ plan'[r] = plan[r]
              /\ pc[r] # "idle" /\ pc[r] # "flipping" /\ job'[r] = job[r]

LEMMA LocalSteps ==
  ASSUME TypeOK, [Next]_vars, NEW q \in Requests
  PROVE  \/ Unmoved(q)
         \/ Ended(q)
         \/ Moved(q)
         \/ pc[q] = "idle" /\ pc'[q] \in {"deciding", "activating"} /\ plan'[q] = plan[q]
            /\ job'[q].doc = build[job'[q].build] /\ job'[q].build \in Builds
         \/ RecordDecision(q) /\ pc'[q] = "storing" /\ job'[q] = job[q] /\ plan'[q] = plan[q]
         \/ CheckApproval(q) /\ pc'[q] = "loading" /\ job'[q] = job[q] /\ plan'[q] = plan[q]
         \/ LoadVersions(q) /\ pc'[q] = "flipping" /\ job'[q] = job[q]
         \/ Flip(q)
         \/ RecordActivation(q) /\ pc'[q] = "marking" /\ job'[q] = job[q] /\ plan'[q] = plan[q]
         \/ MarkRead(q)
<1>1. ASSUME NEW b \in Builds, OpenByExecution(b) \/ ReviewRule(b) \/ Recompile(b)
      PROVE  Unmoved(q)
  BY <1>1 DEF OpenByExecution, ReviewRule, Recompile, Unmoved
<1>2. CASE UNCHANGED vars
  BY <1>2 DEF vars, Unmoved
<1> DEFINE By(r) ==
       \/ Open(r) \/ StartDecision(r) \/ Decide(r)
       \/ FindCandidate(r) \/ CreateCandidate(r) \/ NoteCandidate(r)
       \/ RecordDecision(r) \/ StoreBuild(r)
       \/ StartActivation(r) \/ CheckApproval(r) \/ LoadVersions(r)
       \/ Flip(r) \/ RecordActivation(r) \/ MarkRead(r) \/ MarkWrite(r)
       \/ Crash(r)
<1>3. ASSUME NEW r \in Requests, By(r), r # q PROVE Unmoved(q)
  BY <1>3 DEF TypeOK, Unmoved, Open, StartDecision, Start, Decide, FindCandidate,
       CreateCandidate, NoteCandidate, RecordDecision, StoreBuild, StartActivation,
       CheckApproval, LoadVersions, Flip, RecordActivation, MarkRead, MarkWrite, Crash,
       Finish, Proceed, Goto, EndActivation
<1>4. Finish(q) => Ended(q)
  BY DEF Finish, Ended, Goto, TypeOK
<1>5. CASE Open(q) \/ Flip(q) \/ MarkRead(q)
  BY <1>5 DEF Open, Unmoved
<1>6. CASE StartDecision(q) \/ StartActivation(q)
  <2>1. PICK b \in Builds, want \in AllWants,
             step \in {"deciding", "activating"} : Start(q, b, want, step)
    BY <1>6 DEF StartDecision, StartActivation, Versions, AllWants
  <2>2. job'[q] = [build |-> b, want |-> want, doc |-> build[b]]
    BY <2>1 DEF Start, TypeOK
  <2>3. QED
    BY <2>1, <2>2 DEF Start, Goto, TypeOK
<1>7. CASE Decide(q) \/ FindCandidate(q) \/ CreateCandidate(q) \/ NoteCandidate(q)
  BY <1>4, <1>7 DEF Decide, FindCandidate, CreateCandidate, NoteCandidate, Proceed, Goto,
       TypeOK, Moved
<1>8. CASE RecordDecision(q) \/ StoreBuild(q) \/ MarkWrite(q) \/ Crash(q)
  BY <1>4, <1>8 DEF RecordDecision, StoreBuild, MarkWrite, Crash, Proceed, Goto, TypeOK
<1>9. CASE CheckApproval(q) \/ LoadVersions(q) \/ RecordActivation(q)
  BY <1>4, <1>9 DEF CheckApproval, LoadVersions, RecordActivation, EndActivation, Proceed, Goto,
       TypeOK, Moved
<1>10. QED
  BY <1>1, <1>2, <1>3, <1>5, <1>6, <1>7, <1>8, <1>9 DEF Next, Quiet
-----------------------------------------------------------------------------
(***************************************************************************)
(* The inductive invariant.                                                *)
(***************************************************************************)
MyApproval(r) == Approved(job[r].build, job[r].doc.content)

\* An activation that passed its checks has the approval behind it and works on
\* the approved graph; so has a decision that is about to store "approved".
JobInv(r) ==
  /\ pc[r] \in {"loading", "flipping"} => MyApproval(r)
  /\ pc[r] = "flipping" => /\ version[job[r].build].status # "absent"
                           /\ version[job[r].build].graph = Graph(job[r].doc.content)
  /\ pc[r] = "storing" /\ job[r].want = "APPROVE_CANDIDATE" => MyApproval(r)
  /\ pc[r] # "idle" /\ job[r].doc.status = "PATCH_APPROVED" => MyApproval(r)

\* A planned flip rewrites an existing version with its own graph, and makes
\* nothing active but the request's candidate.
PlanInv(r) ==
  /\ pc[r] # "flipping" => plan[r] = NoPlan
  /\ \A v \in Versions :
       plan[r][v] # NoVersion =>
         /\ version[v].status # "absent" /\ plan[r][v].status # "absent"
         /\ plan[r][v].graph = version[v].graph
         /\ plan[r][v].status = "active" => v = job[r].build

SafeInv ==
  /\ \A r \in Requests : JobInv(r) /\ PlanInv(r)
  /\ ActiveWasApproved /\ ApprovedDocument /\ ActivationFollowsApproval

GraphsStay ==
  \A v \in Versions : version[v].status # "absent" => /\ version'[v].status # "absent"
                                                      /\ version'[v].graph = version[v].graph

LEMMA GraphsStep ==
  ASSUME TypeOK, SafeInv, [Next]_vars PROVE GraphsStay
<1>1. CASE version' = version
  BY <1>1 DEF GraphsStay
<1>2. ASSUME NEW r \in Requests, pc[r] = "creating", version[job[r].build].status = "absent",
             version' = [version EXCEPT ![job[r].build] =
                           [graph |-> Graph(job[r].doc.content), status |-> "candidate"]]
      PROVE  GraphsStay
  BY <1>2, JobFacts DEF GraphsStay, TypeOK
<1>3. ASSUME NEW r \in Requests, NEW v \in Versions, pc[r] = "flipping",
             plan[r][v] # NoVersion, version' = [version EXCEPT ![v] = plan[r][v]]
      PROVE  GraphsStay
  BY <1>3 DEF GraphsStay, TypeOK, SafeInv, PlanInv
<1>4. QED
  BY <1>1, <1>2, <1>3, VersionSteps

\* Evidence is append-only.
LEMMA LedgerGrows ==
  ASSUME TypeOK, [Next]_vars
  PROVE  /\ Len(ledger) <= Len(ledger')
         /\ \A i \in 1..Len(ledger) : ledger'[i] = ledger[i]
         /\ DOMAIN ledger = 1..Len(ledger) /\ DOMAIN ledger' = 1..Len(ledger')
         /\ Len(ledger) \in Nat /\ Len(ledger') \in Nat
<1>1. ledger \in Seq(Row) /\ ledger' \in Seq(Row)
  BY TypeStep DEF TypeOK
<1>2. ledger' = ledger \/ \E row : ledger' = Append(ledger, row)
  BY LedgerSteps
<1>3. ASSUME NEW row, ledger' = Append(ledger, row)
      PROVE  Len(ledger') = Len(ledger) + 1 /\ \A i \in 1..Len(ledger) : ledger'[i] = ledger[i]
  BY <1>1, <1>3
<1>4. QED
  BY <1>1, <1>2, <1>3

LEMMA ApprovedStays ==
  ASSUME TypeOK, [Next]_vars, NEW b, NEW c, Approved(b, c) PROVE Approved(b, c)'
BY LedgerGrows DEF Approved

\* The row a request appends.
LEMMA AppendedRow ==
  ASSUME TypeOK, NEW row, ledger' = Append(ledger, row)
  PROVE  Len(ledger') = Len(ledger) + 1 /\ ledger'[Len(ledger')] = row
         /\ Len(ledger') \in DOMAIN ledger'
BY DEF TypeOK

LEMMA PlanStep ==
  ASSUME TypeOK, SafeInv, [Next]_vars, NEW q \in Requests PROVE PlanInv(q)'
<1>1. GraphsStay
  BY GraphsStep
<1>2. CASE Unmoved(q)
  BY <1>1, <1>2 DEF Unmoved, SafeInv, PlanInv, GraphsStay
<1>3. CASE Ended(q)
  BY <1>3 DEF Ended, PlanInv, NoPlan
<1>4. CASE pc[q] # "flipping" /\ pc'[q] # "flipping" /\ plan'[q] = plan[q]
  BY <1>4 DEF SafeInv, PlanInv, NoPlan
<1>5. CASE LoadVersions(q) /\ pc'[q] = "flipping" /\ job'[q] = job[q]
  <2> DEFINE b == job[q].build
  <2>1. version' = version /\ b \in Versions
    BY <1>5, JobFacts DEF LoadVersions, tables
  <2>2. plan'[q] = [v \in Versions |->
                      IF version[v].status # "absent" /\ Flipped(v, b) # version[v]
                        THEN Flipped(v, b) ELSE NoVersion]
    BY <1>5 DEF LoadVersions, EndActivation, Finish, Proceed, Goto, TypeOK
  <2>3. \A v \in Versions : /\ Flipped(v, b).graph = version[v].graph
                            /\ Flipped(v, b).status # "absent"
                            /\ Flipped(v, b).status = "active" => v = b
    BY DEF Flipped, TypeOK, Version
  <2>4. QED
    BY <1>5, <2>1, <2>2, <2>3 DEF PlanInv
<1>6. CASE Flip(q)
  <2>1. pc'[q] = "flipping" /\ job'[q] = job[q]
    BY <1>6 DEF Flip
  <2>2. \A v \in Versions : plan'[q][v] # NoVersion => plan'[q][v] = plan[q][v]
    BY <1>6 DEF Flip, Planned, TypeOK
  <2>3. QED
    BY <1>1, <2>1, <2>2 DEF SafeInv, PlanInv, GraphsStay
<1>7. CASE RecordActivation(q) /\ pc'[q] = "marking" /\ plan'[q] = plan[q]
  <2>1. \A v \in Versions : plan[q][v] = NoVersion
    BY <1>7 DEF RecordActivation, Planned
  <2>2. plan[q] = NoPlan
    BY <2>1 DEF TypeOK, NoPlan
  <2>3. QED
    BY <1>7, <2>2 DEF PlanInv, NoPlan
<1>8. CASE MarkRead(q)
  <2>1. pc[q] = "marking" /\ pc'[q] = "marked" /\ plan' = plan
    BY <1>8 DEF MarkRead, Goto, TypeOK
  <2>2. plan[q] = NoPlan
    BY <2>1 DEF SafeInv, PlanInv
  <2>3. QED
    BY <2>1, <2>2 DEF PlanInv, NoPlan
<1>9. CASE Moved(q)
  BY <1>4, <1>9 DEF Moved
<1>10. CASE pc[q] = "idle" /\ pc'[q] \in {"deciding", "activating"} /\ plan'[q] = plan[q]
  BY <1>4, <1>10
<1>11. CASE RecordDecision(q) /\ pc'[q] = "storing" /\ plan'[q] = plan[q]
  BY <1>4, <1>11 DEF RecordDecision
<1>12. CASE CheckApproval(q) /\ pc'[q] = "loading" /\ plan'[q] = plan[q]
  BY <1>4, <1>12 DEF CheckApproval
<1>13. QED
  BY <1>2, <1>3, <1>5, <1>6, <1>7, <1>8, <1>9, <1>10, <1>11, <1>12, LocalSteps

LEMMA JobStep ==
  ASSUME TypeOK, SafeInv, [Next]_vars, NEW q \in Requests PROVE JobInv(q)'
<1>1. GraphsStay /\ JobInv(q)
  BY GraphsStep DEF SafeInv
<1>2. pc[q] # "idle" => job[q].build \in Versions
  BY JobFacts
<1>3. job'[q] = job[q] /\ MyApproval(q) => MyApproval(q)'
  BY ApprovedStays DEF MyApproval
<1>4. CASE Unmoved(q)
  BY <1>1, <1>2, <1>3, <1>4 DEF Unmoved, JobInv, GraphsStay
<1>5. CASE Ended(q)
  BY <1>5 DEF Ended, JobInv
<1>6. CASE Moved(q)
  BY <1>1, <1>3, <1>6 DEF Moved, JobInv
<1>7. CASE pc[q] = "idle" /\ pc'[q] \in {"deciding", "activating"}
           /\ job'[q].doc = build[job'[q].build] /\ job'[q].build \in Builds
  <2>1. job'[q].doc.status = "PATCH_APPROVED" => Approved(job'[q].build, job'[q].doc.content)
    BY <1>7 DEF SafeInv, ApprovedDocument
  <2>2. job'[q].doc.status = "PATCH_APPROVED" => MyApproval(q)'
    BY <2>1, ApprovedStays DEF MyApproval
  <2>3. QED
    BY <1>7, <2>2 DEF JobInv
<1>8. CASE RecordDecision(q) /\ pc'[q] = "storing" /\ job'[q] = job[q]
  <2>1. ledger' = Append(ledger, OwnRow(q, job[q].want))
    BY <1>8 DEF RecordDecision, Evidence, OwnRow
  <2>2. job[q].want = "APPROVE_CANDIDATE" => MyApproval(q)'
    BY <1>8, <2>1, AppendedRow DEF MyApproval, Approved, OwnRow
  <2>3. pc[q] # "idle"
    BY <1>8 DEF RecordDecision
  <2>4. QED
    BY <1>1, <1>3, <1>8, <2>2, <2>3 DEF JobInv
<1>9. CASE CheckApproval(q) /\ pc'[q] = "loading" /\ job'[q] = job[q]
  <2>1. pc'[q] # "idle" /\ pc'[q] # "marking" /\ pc[q] \in Steps
    BY <1>9 DEF TypeOK
  <2>2. ~EndActivation(q)
    BY <1>9, <2>1 DEF EndActivation, Finish, Proceed, Goto, TypeOK
  <2>3. PICK i \in Approvals(job[q].build) : ledger[i].content = job[q].doc.content
    BY <1>9, <2>2 DEF CheckApproval, StillApproved
  <2>4. i \in DOMAIN ledger /\ ledger[i] \in Row
    BY <2>3 DEF Approvals, TypeOK
  <2>5. ledger[i] = [build |-> job[q].build, decision |-> "APPROVE_CANDIDATE",
                     content |-> job[q].doc.content]
    BY <2>3, <2>4 DEF Approvals, Row
  <2>6. MyApproval(q)
    BY <2>4, <2>5 DEF MyApproval, Approved
  <2>7. QED
    BY <1>3, <1>9, <2>6 DEF JobInv
<1>10. CASE LoadVersions(q) /\ pc'[q] = "flipping" /\ job'[q] = job[q]
  <2>1. pc[q] = "loading" /\ version' = version
    BY <1>10 DEF LoadVersions, tables
  <2>2. ~EndActivation(q)
    BY <1>10 DEF EndActivation, Finish, Proceed, Goto, TypeOK
  <2>3. /\ version[job[q].build].status # "absent"
        /\ version[job[q].build].graph = Graph(job[q].doc.content)
    BY <1>10, <2>2 DEF LoadVersions, Activatable
  <2>4. MyApproval(q)'
    BY <1>1, <1>3, <1>10, <2>1 DEF JobInv
  <2>5. QED
    BY <1>10, <2>1, <2>3, <2>4 DEF JobInv
<1>11. CASE Flip(q)
  <2>1. pc[q] = "flipping" /\ pc' = pc /\ job' = job
    BY <1>11 DEF Flip
  <2>2. QED
    BY <1>1, <1>2, <1>3, <2>1 DEF JobInv, GraphsStay
<1>12. CASE RecordActivation(q) /\ pc'[q] = "marking" /\ job'[q] = job[q]
  BY <1>1, <1>3, <1>12 DEF RecordActivation, JobInv
<1>13. CASE MarkRead(q)
  <2>1. pc[q] # "idle" /\ pc'[q] = "marked" /\ job[q].build \in Builds
    BY <1>13, JobFacts DEF MarkRead, Goto, TypeOK
  <2>2. job'[q] = [job[q] EXCEPT !.doc = build[job[q].build]]
    BY <1>13 DEF MarkRead, TypeOK
  <2>3. job[q] \in Job
    BY <2>1, JobFacts
  <2>4. job'[q].doc = build[job[q].build] /\ job'[q].build = job[q].build
    BY <2>2, <2>3 DEF Job
  <2>5. job'[q].doc.status = "PATCH_APPROVED" => Approved(job'[q].build, job'[q].doc.content)
    BY <2>1, <2>4 DEF SafeInv, ApprovedDocument
  <2>6. job'[q].doc.status = "PATCH_APPROVED" => MyApproval(q)'
    BY <2>5, ApprovedStays DEF MyApproval
  <2>7. QED
    BY <2>1, <2>6 DEF JobInv
<1>14. QED
  BY <1>4, <1>5, <1>6, <1>7, <1>8, <1>9, <1>10, <1>11, <1>12, <1>13, LocalSteps

\* Whatever becomes active was planned by an activation of that build.
LEMMA ActiveStep ==
  ASSUME TypeOK, SafeInv, [Next]_vars PROVE ActiveWasApproved'
<1> SUFFICES ASSUME NEW b \in Builds, version'[b].status = "active"
             PROVE  \E c \in Contents : Graph(c) = version'[b].graph /\ Approved(b, c)'
  BY DEF ActiveWasApproved
<1>1. b \in Versions
  BY VersionFacts
<1>2. CASE version[b].status = "active"
  <2>1. PICK c \in Contents : Graph(c) = version[b].graph /\ Approved(b, c)
    BY <1>2 DEF SafeInv, ActiveWasApproved
  <2>2. version'[b].graph = version[b].graph
    BY <1>1, <1>2, GraphsStep DEF GraphsStay
  <2>3. QED
    BY <2>1, <2>2, ApprovedStays
<1>3. CASE version[b].status # "active"
  <2>1. ASSUME NEW r \in Requests, pc[r] = "creating",
               version' = [version EXCEPT ![job[r].build] =
                             [graph |-> Graph(job[r].doc.content), status |-> "candidate"]]
        PROVE  FALSE
    BY <1>1, <1>3, <2>1 DEF TypeOK
  <2>2. PICK r \in Requests, v \in Versions :
          /\ pc[r] = "flipping" /\ plan[r][v] # NoVersion
          /\ version' = [version EXCEPT ![v] = plan[r][v]]
    BY <1>3, <2>1, VersionSteps
  <2>3. v = b /\ version'[b] = plan[r][b]
    BY <1>1, <1>3, <2>2 DEF TypeOK
  <2>4. b = job[r].build /\ plan[r][b].graph = version[b].graph
    BY <1>1, <2>2, <2>3 DEF SafeInv, PlanInv
  <2>5. MyApproval(r) /\ version[b].graph = Graph(job[r].doc.content)
    BY <2>2, <2>4 DEF SafeInv, JobInv
  <2>6. PICK c \in Contents : c = job[r].doc.content
    BY <2>2, JobFacts
  <2>7. Approved(b, c)
    BY <2>4, <2>5, <2>6 DEF MyApproval
  <2>8. QED
    BY <2>3, <2>4, <2>5, <2>6, <2>7, ApprovedStays
<1>4. QED
  BY <1>2, <1>3

\* A build is stored as approved by a decision that has recorded the approval,
\* or keeps a content that was approved already.
LEMMA DocumentStep ==
  ASSUME TypeOK, SafeInv, [Next]_vars PROVE ApprovedDocument'
<1> SUFFICES ASSUME NEW b \in Builds, build'[b].status = "PATCH_APPROVED"
             PROVE  \E c : c = build'[b].content /\ Approved(b, c)'
  BY DEF ApprovedDocument
<1>1. CASE build'[b] = build[b]
  <2>1. PICK c : c = build[b].content /\ Approved(b, c)
    BY <1>1 DEF SafeInv, ApprovedDocument
  <2>2. QED
    BY <1>1, <2>1, ApprovedStays
<1>2. ASSUME NEW d \in Builds, Recompile(d), build'[b] # build[b] PROVE FALSE
  <2>1. PICK c \in Contents :
          build' = [build EXCEPT ![d] = [content |-> c, status |-> "PATCH_VALIDATED"]]
    BY <1>2 DEF Recompile
  <2>2. QED
    BY <1>2, <2>1 DEF TypeOK
<1>3. ASSUME NEW r \in Requests, StoreBuild(r), build'[b] # build[b]
      PROVE  \E c : c = build'[b].content /\ Approved(b, c)'
  <2>1. pc[r] = "storing" /\ job[r].doc \in Document
    BY <1>3, JobFacts DEF StoreBuild
  <2> DEFINE stored == IF job[r].want = "APPROVE_CANDIDATE"
                         THEN [job[r].doc EXCEPT !.status = "PATCH_APPROVED"]
                         ELSE job[r].doc
  <2>2. build' = [build EXCEPT ![job[r].build] = stored]
    BY <1>3 DEF StoreBuild
  <2>3. b = job[r].build /\ build'[b] = stored
    BY <1>3, <2>2 DEF TypeOK
  <2>4. stored.content = job[r].doc.content
    BY <2>1 DEF Document
  <2>5. job[r].want = "APPROVE_CANDIDATE" \/ job[r].doc.status = "PATCH_APPROVED"
    BY <2>3
  <2>6. MyApproval(r)
    BY <2>1, <2>5 DEF SafeInv, JobInv
  <2>7. PICK c : c = job[r].doc.content /\ Approved(b, c)
    BY <2>3, <2>6 DEF MyApproval
  <2>8. QED
    BY <2>3, <2>4, <2>7, ApprovedStays
<1>4. ASSUME NEW r \in Requests, MarkWrite(r), build'[b] # build[b] PROVE FALSE
  <2>1. job[r].doc \in Document
    BY <1>4, JobFacts DEF MarkWrite
  <2> DEFINE stored == [job[r].doc EXCEPT !.status = "PATCH_ACTIVE"]
  <2>2. stored.status = "PATCH_ACTIVE"
    BY <2>1 DEF Document
  <2>3. build' = [build EXCEPT ![job[r].build] = stored]
    BY <1>4 DEF MarkWrite
  <2>4. build'[b] = stored
    BY <1>4, <2>3 DEF TypeOK
  <2>5. QED
    BY <2>2, <2>4
<1>5. QED
  BY <1>1, <1>2, <1>3, <1>4, BuildSteps

\* A row that is appended as an activation finds its approval before it.
LEMMA LedgerStep ==
  ASSUME TypeOK, SafeInv, [Next]_vars PROVE ActivationFollowsApproval'
<1> SUFFICES ASSUME NEW i \in DOMAIN ledger', ledger'[i].decision = "ACTIVATE"
             PROVE  \E j \in 1..(i - 1) :
                      ledger'[j] = [ledger'[i] EXCEPT !.decision = "APPROVE_CANDIDATE"]
  BY DEF ActivationFollowsApproval
<1>1. CASE i \in DOMAIN ledger
  <2>1. PICK j \in 1..(i - 1) :
          ledger[j] = [ledger[i] EXCEPT !.decision = "APPROVE_CANDIDATE"]
    BY <1>1, LedgerGrows DEF SafeInv, ActivationFollowsApproval
  <2>2. j \in 1..Len(ledger) /\ i \in 1..Len(ledger)
    BY <1>1, LedgerGrows
  <2>3. ledger'[j] = ledger[j] /\ ledger'[i] = ledger[i]
    BY <2>2, LedgerGrows
  <2>4. QED
    BY <2>1, <2>3
<1>2. CASE i \notin DOMAIN ledger
  <2>1. ASSUME NEW row, ledger' = Append(ledger, row)
        PROVE  i = Len(ledger) + 1 /\ ledger'[i] = row
    BY <1>2, <2>1, LedgerGrows, AppendedRow
  <2>2. ASSUME NEW r \in Requests, pc[r] = "recording",
               ledger' = Append(ledger, OwnRow(r, job[r].want))
        PROVE  FALSE
    <3>1. ledger'[i].decision = job[r].want
      BY <2>1, <2>2 DEF OwnRow
    <3>2. job[r].want \in Decisions
      BY <2>2 DEF TypeOK, DecisionSteps
    <3>3. QED
      BY <3>1, <3>2 DEF Decisions
  <2>3. PICK r \in Requests :
          pc[r] = "flipping" /\ ledger' = Append(ledger, OwnRow(r, "ACTIVATE"))
    BY <1>2, <2>2, LedgerSteps
  <2>4. i = Len(ledger) + 1 /\ ledger'[i] = OwnRow(r, "ACTIVATE")
    BY <2>1, <2>3
  <2>5. Approved(job[r].build, job[r].doc.content)
    BY <2>3 DEF SafeInv, JobInv, MyApproval
  <2>6. PICK j \in DOMAIN ledger : ledger[j] = OwnRow(r, "APPROVE_CANDIDATE")
    BY <2>5 DEF Approved, OwnRow
  <2>7. j \in 1..(i - 1) /\ ledger'[j] = OwnRow(r, "APPROVE_CANDIDATE")
    BY <2>4, <2>6, LedgerGrows
  <2>8. [ledger'[i] EXCEPT !.decision = "APPROVE_CANDIDATE"] = OwnRow(r, "APPROVE_CANDIDATE")
    BY <2>4 DEF OwnRow
  <2>9. QED
    BY <2>7, <2>8
<1>3. QED
  BY <1>1, <1>2

LEMMA SafeStart == Init => SafeInv
<1> SUFFICES ASSUME Init PROVE SafeInv
  OBVIOUS
<1>1. \A r \in Requests : JobInv(r) /\ PlanInv(r)
  BY DEF Init, JobInv, PlanInv, NoPlan
<1>2. ActiveWasApproved
  BY BaseAssumption, VersionFacts DEF Init, ActiveWasApproved, NoVersion
<1>3. ApprovedDocument /\ ActivationFollowsApproval
  BY DEF Init, ApprovedDocument, ActivationFollowsApproval
<1>4. QED
  BY <1>1, <1>2, <1>3 DEF SafeInv

LEMMA SafeStep == TypeOK /\ SafeInv /\ [Next]_vars => SafeInv'
BY JobStep, PlanStep, ActiveStep, DocumentStep, LedgerStep DEF SafeInv

LEMMA Safe == Spec => [](TypeOK /\ SafeInv)
BY TypeCorrect, SafeStart, SafeStep, PTL DEF Spec

\* Only a graph somebody approved for that very build is ever active, whatever
\* decisions, compilations, activations and crashes are interleaved.
THEOREM OnlyApprovedIsActive == Spec => []ActiveWasApproved
<1>1. SafeInv => ActiveWasApproved
  BY DEF SafeInv
<1>2. QED
  BY Safe, <1>1, PTL

\* Every activation on record is preceded by an approval of the same content.
THEOREM ActivationsWereApproved == Spec => []ActivationFollowsApproval
<1>1. SafeInv => ActivationFollowsApproval
  BY DEF SafeInv
<1>2. QED
  BY Safe, <1>1, PTL

\* A build stored as approved holds the approved content.
THEOREM ApprovedBuildsHoldIt == Spec => []ApprovedDocument
<1>1. SafeInv => ApprovedDocument
  BY DEF SafeInv
<1>2. QED
  BY Safe, <1>1, PTL

\* A version's graph never changes once it is minted.
THEOREM MintedGraphsNeverChange == Spec => GraphsAreImmutable
<1>1. TypeOK /\ SafeInv /\ [Next]_vars => [GraphsStay]_vars
  BY GraphsStep
<1>2. [GraphsStay]_vars =>
        [\A v \in Versions :
           version[v].status # "absent" => /\ version'[v].status # "absent"
                                           /\ version'[v].graph = version[v].graph]_vars
  BY DEF GraphsStay
<1>3. QED
  BY Safe, <1>1, <1>2, PTL DEF Spec, GraphsAreImmutable
-----------------------------------------------------------------------------
(***************************************************************************)
(* Minting comes before the approval is recorded, and nothing unmints.     *)
(***************************************************************************)
MintInv ==
  /\ \A r \in Requests :
       pc[r] = "noting" \/ (pc[r] = "recording" /\ job[r].want = "APPROVE_CANDIDATE") =>
         version[job[r].build].status # "absent"
  /\ ApprovedIsMinted

\* How a request comes to record its decision.
LEMMA OnTheWay ==
  ASSUME TypeOK, [Next]_vars, NEW r \in Requests, pc'[r] \in {"noting", "recording"}
  PROVE  \/ Unmoved(r)
         \/ CreateCandidate(r) /\ job'[r] = job[r]
         \/ NoteCandidate(r) /\ job'[r] = job[r]
         \/ FindCandidate(r) /\ job'[r] = job[r] /\ version[job[r].build].status # "absent"
         \/ Decide(r) /\ job'[r] = job[r] /\ job[r].want # "APPROVE_CANDIDATE"
<1> USE DEF Finish, Proceed, Goto
<1>1. ASSUME NEW b \in Builds, OpenByExecution(b) \/ ReviewRule(b) \/ Recompile(b) PROVE Unmoved(r)
  BY <1>1 DEF OpenByExecution, ReviewRule, Recompile, Unmoved
<1>2. CASE UNCHANGED vars
  BY <1>2 DEF vars, Unmoved
<1> DEFINE By(q) ==
       \/ Open(q) \/ StartDecision(q) \/ Decide(q)
       \/ FindCandidate(q) \/ CreateCandidate(q) \/ NoteCandidate(q)
       \/ RecordDecision(q) \/ StoreBuild(q)
       \/ StartActivation(q) \/ CheckApproval(q) \/ LoadVersions(q)
       \/ Flip(q) \/ RecordActivation(q) \/ MarkRead(q) \/ MarkWrite(q)
       \/ Crash(q)
<1>3. ASSUME NEW q \in Requests, By(q), q # r PROVE Unmoved(r)
  BY <1>3 DEF TypeOK, Unmoved, Open, StartDecision, Start, Decide, FindCandidate,
       CreateCandidate, NoteCandidate, RecordDecision, StoreBuild, StartActivation,
       CheckApproval, LoadVersions, Flip, RecordActivation, MarkRead, MarkWrite, Crash, EndActivation
<1>4. CASE Decide(r)
  BY <1>4 DEF Decide, TypeOK
<1>5. CASE FindCandidate(r)
  BY <1>5 DEF FindCandidate, TypeOK
<1>6. CASE CreateCandidate(r) \/ NoteCandidate(r)
  BY <1>6 DEF CreateCandidate, NoteCandidate
<1>7. CASE Open(r)
  BY <1>7 DEF Open, Unmoved
<1>8. ASSUME StartDecision(r) \/ RecordDecision(r) \/ StoreBuild(r) \/ StartActivation(r) \/ CheckApproval(r)
             \/ LoadVersions(r) \/ RecordActivation(r) \/ MarkRead(r) \/ MarkWrite(r) \/ Crash(r)
      PROVE  FALSE
  BY <1>8 DEF TypeOK, StartDecision, Start, RecordDecision, StoreBuild, StartActivation, CheckApproval,
       LoadVersions, RecordActivation, MarkRead, MarkWrite, Crash, EndActivation
<1>9. CASE Flip(r)
  BY <1>9 DEF Flip
<1>10. QED
  BY <1>1, <1>2, <1>3, <1>4, <1>5, <1>6, <1>7, <1>8, <1>9 DEF Next, Quiet

LEMMA MintStep == TypeOK /\ SafeInv /\ MintInv /\ [Next]_vars => MintInv'
<1> SUFFICES ASSUME TypeOK, SafeInv, MintInv, [Next]_vars PROVE MintInv'
  OBVIOUS
<1>1. \A v \in Versions : version[v].status # "absent" => version'[v].status # "absent"
  BY GraphsStep DEF GraphsStay
<1>2. ASSUME NEW r \in Requests,
             pc'[r] = "noting" \/ (pc'[r] = "recording" /\ job'[r].want = "APPROVE_CANDIDATE")
      PROVE  version'[job'[r].build].status # "absent"
  <2>1. pc[r] # "idle" => job[r].build \in Versions
    BY JobFacts
  <2>2. CASE Unmoved(r) \/ (NoteCandidate(r) /\ job'[r] = job[r])
    BY <1>1, <1>2, <2>1, <2>2 DEF Unmoved, NoteCandidate, MintInv
  <2>3. CASE CreateCandidate(r) /\ job'[r] = job[r]
    BY <2>1, <2>3 DEF CreateCandidate, TypeOK
  <2>4. CASE FindCandidate(r) /\ job'[r] = job[r] /\ version[job[r].build].status # "absent"
    BY <1>1, <2>1, <2>4 DEF FindCandidate
  <2>5. CASE Decide(r) /\ job'[r] = job[r] /\ job[r].want # "APPROVE_CANDIDATE"
    BY <1>2, <2>5 DEF Decide, Proceed, Finish, Goto, TypeOK
  <2>6. QED
    BY <1>2, <2>2, <2>3, <2>4, <2>5, OnTheWay
<1>3. ASSUME NEW b \in Builds, NEW i \in Approvals(b)' PROVE version'[b].status # "absent"
  <2>1. b \in Versions /\ i \in DOMAIN ledger' /\ ledger'[i].build = b /\ ledger'[i].decision = "APPROVE_CANDIDATE"
    BY <1>3 DEF Approvals, Versions
  <2>2. CASE i \in DOMAIN ledger
    <3>1. ledger'[i] = ledger[i]
      BY <2>2, LedgerGrows
    <3>2. i \in Approvals(b)
      BY <2>1, <2>2, <3>1 DEF Approvals
    <3>3. QED
      BY <1>1, <2>1, <3>2 DEF MintInv, ApprovedIsMinted
  <2>3. CASE i \notin DOMAIN ledger
    <3>1. PICK r \in Requests, d \in Decisions \cup {"ACTIVATE"} :
            /\ ledger' = Append(ledger, OwnRow(r, d))
            /\ \/ pc[r] = "recording" /\ d = job[r].want
               \/ d = "ACTIVATE"
      BY <2>1, <2>3, LedgerSteps DEF TypeOK, DecisionSteps
    <3>2. i = Len(ledger')
      BY <2>1, <2>3, <3>1, AppendedRow, LedgerGrows
    <3>3. ledger'[i] = OwnRow(r, d)
      BY <3>1, <3>2, AppendedRow
    <3>4. pc[r] = "recording" /\ job[r].want = "APPROVE_CANDIDATE" /\ job[r].build = b
      BY <2>1, <3>1, <3>3 DEF OwnRow
    <3>5. QED
      BY <1>1, <2>1, <3>4 DEF MintInv
  <2>4. QED
    BY <2>2, <2>3
<1>4. QED
  BY <1>2, <1>3 DEF MintInv, ApprovedIsMinted

\* An approval on record names a candidate version that exists
\* (create_candidate_version comes before _record_approval), whatever crashes,
\* recompilations and activations there were meanwhile.
THEOREM ApprovalsNameCandidates == Spec => []ApprovedIsMinted
<1>1. Init => MintInv
  BY DEF Init, MintInv, ApprovedIsMinted, Approvals
<1>2. MintInv => ApprovedIsMinted
  BY DEF MintInv
<1>3. QED
  BY <1>1, <1>2, MintStep, Safe, PTL DEF Spec
-----------------------------------------------------------------------------
(***************************************************************************)
(* One activation at a time.  What the loop has not planned to write is    *)
(* already as it should be, so once nothing is left to write all is.       *)
(***************************************************************************)
OneActivator == \A r, s \in Activators : r = s

FlipInv ==
  \A r \in Requests :
    /\ pc[r] \in {"activating", "loading", "flipping"} => r \in Activators
    /\ pc[r] = "flipping" =>
         \A v \in Versions :
           IF plan[r][v] # NoVersion THEN plan[r][v].status = "active" <=> v = job[r].build
                                     ELSE version[v].status = "active" <=> v = job[r].build

\* Only an activator gets as far as the flips.
LEMMA ActivatorStep ==
  ASSUME TypeOK, FlipInv, [Next]_vars, NEW r \in Requests, pc'[r] \in {"activating", "loading", "flipping"}
  PROVE  r \in Activators
<1> USE DEF Finish, Proceed, Goto
<1>1. CASE Unmoved(r)
  BY <1>1 DEF Unmoved, FlipInv
<1>2. ASSUME NEW b \in Builds, OpenByExecution(b) \/ ReviewRule(b) \/ Recompile(b) PROVE Unmoved(r)
  BY <1>2 DEF OpenByExecution, ReviewRule, Recompile, Unmoved
<1>3. CASE UNCHANGED vars
  BY <1>1, <1>3 DEF vars, Unmoved
<1> DEFINE By(q) ==
       \/ Open(q) \/ StartDecision(q) \/ Decide(q)
       \/ FindCandidate(q) \/ CreateCandidate(q) \/ NoteCandidate(q)
       \/ RecordDecision(q) \/ StoreBuild(q)
       \/ StartActivation(q) \/ CheckApproval(q) \/ LoadVersions(q)
       \/ Flip(q) \/ RecordActivation(q) \/ MarkRead(q) \/ MarkWrite(q)
       \/ Crash(q)
<1>4. ASSUME NEW q \in Requests, By(q), q # r PROVE Unmoved(r)
  BY <1>4 DEF TypeOK, Unmoved, Open, StartDecision, Start, Decide, FindCandidate,
       CreateCandidate, NoteCandidate, RecordDecision, StoreBuild, StartActivation,
       CheckApproval, LoadVersions, Flip, RecordActivation, MarkRead, MarkWrite, Crash, EndActivation
<1>5. CASE StartActivation(r)
  BY <1>5 DEF StartActivation
<1>6. CASE CheckApproval(r) \/ LoadVersions(r) \/ Flip(r)
  BY <1>6 DEF CheckApproval, LoadVersions, Flip, FlipInv
<1>7. CASE Open(r)
  BY <1>1, <1>7 DEF Open, Unmoved
<1>8. ASSUME StartDecision(r) \/ Decide(r) \/ FindCandidate(r) \/ CreateCandidate(r) \/ NoteCandidate(r)
             \/ RecordDecision(r) \/ StoreBuild(r) \/ RecordActivation(r) \/ MarkRead(r) \/ MarkWrite(r)
             \/ Crash(r)
      PROVE  FALSE
  BY <1>8 DEF TypeOK, StartDecision, Start, Decide, FindCandidate, CreateCandidate, NoteCandidate,
       RecordDecision, StoreBuild, RecordActivation, MarkRead, MarkWrite, Crash, EndActivation
<1>9. QED
  BY <1>1, <1>2, <1>3, <1>4, <1>5, <1>6, <1>7, <1>8 DEF Next, Quiet

LEMMA FlipStep ==
  ASSUME OneActivator PROVE TypeOK /\ SafeInv /\ FlipInv /\ [Next]_vars => FlipInv'
<1> SUFFICES ASSUME TypeOK, SafeInv, FlipInv, [Next]_vars, NEW r \in Requests, pc'[r] = "flipping", NEW v \in Versions
             PROVE  IF plan'[r][v] # NoVersion THEN plan'[r][v].status = "active" <=> v = job'[r].build
                                               ELSE version'[v].status = "active" <=> v = job'[r].build
  BY ActivatorStep DEF FlipInv
<1> DEFINE Goal == IF plan'[r][v] # NoVersion THEN plan'[r][v].status = "active" <=> v = job'[r].build
                                              ELSE version'[v].status = "active" <=> v = job'[r].build
<1>1. CASE LoadVersions(r) /\ job'[r] = job[r]
  <2> DEFINE b == job[r].build
  <2>1. /\ plan'[r][v] = IF version[v].status # "absent" /\ Flipped(v, b) # version[v] THEN Flipped(v, b) ELSE NoVersion
        /\ version' = version /\ Activatable(r)
    BY <1>1 DEF LoadVersions, EndActivation, Finish, Proceed, Goto, TypeOK, tables
  <2>2. /\ Flipped(v, b).status = IF v = b THEN "active" ELSE "superseded"
        /\ NoVersion.status = "absent"
    BY DEF Flipped, NoVersion, TypeOK, Version
  <2>3. version[b].status # "absent"
    BY <2>1 DEF Activatable
  <2>4. CASE version[v].status # "absent" /\ Flipped(v, b) # version[v]
    BY <1>1, <2>1, <2>2, <2>4
  <2>5. CASE version[v].status = "absent"
    BY <1>1, <2>1, <2>3, <2>5
  <2>6. CASE version[v].status # "absent" /\ Flipped(v, b) = version[v]
    BY <1>1, <2>1, <2>2, <2>6
  <2>7. QED
    BY <2>4, <2>5, <2>6
<1>2. CASE Flip(r)
  <2>1. PICK w \in Planned(r) : /\ version' = [version EXCEPT ![w] = plan[r][w]]
                                /\ plan' = [plan EXCEPT ![r][w] = NoVersion]
    BY <1>2 DEF Flip
  <2>2. pc[r] = "flipping" /\ job'[r] = job[r] /\ plan[r][w] # NoVersion
    BY <1>2, <2>1 DEF Flip, Planned
  <2>3. CASE v = w
    <3>1. plan'[r][v] = NoVersion /\ version'[v] = plan[r][v]
      BY <2>1, <2>3 DEF Planned, TypeOK
    <3>2. plan[r][v].status = "active" <=> v = job[r].build
      BY <2>2, <2>3 DEF FlipInv
    <3>3. QED
      BY <2>2, <3>1, <3>2
  <2>4. CASE v # w
    <3>1. plan'[r][v] = plan[r][v] /\ version'[v] = version[v]
      BY <2>1, <2>4 DEF Planned, TypeOK
    <3>2. QED
      BY <2>2, <3>1 DEF FlipInv
  <2>5. QED
    BY <2>3, <2>4
<1>3. CASE Unmoved(r)
  <2>1. pc[r] = "flipping" /\ r \in Activators /\ plan'[r] = plan[r] /\ job'[r] = job[r]
    BY <1>3 DEF Unmoved, FlipInv
  <2>2. /\ IF plan[r][v] # NoVersion THEN plan[r][v].status = "active" <=> v = job[r].build
                                     ELSE version[v].status = "active" <=> v = job[r].build
        /\ version[job[r].build].status # "absent" /\ job[r].build \in Versions
    BY <2>1, JobFacts DEF FlipInv, SafeInv, JobInv
  <2>3. CASE version' = version
    BY <2>1, <2>2, <2>3
  <2>4. ASSUME NEW s \in Requests, pc[s] = "creating", version[job[s].build].status = "absent",
               version' = [version EXCEPT ![job[s].build] =
                             [graph |-> Graph(job[s].doc.content), status |-> "candidate"]]
        PROVE  version'[v].status = "active" <=> version[v].status = "active"
    BY <2>4, JobFacts DEF TypeOK
  <2>5. ASSUME NEW s \in Requests, NEW w \in Versions, pc[s] = "flipping", plan[s][w] # NoVersion,
               version' = [version EXCEPT ![w] = plan[s][w]], s # r
        PROVE  FALSE
    BY <2>1, <2>5 DEF FlipInv, OneActivator
  <2>6. ASSUME NEW w \in Versions, plan[r][w] # NoVersion, version' = [version EXCEPT ![w] = plan[r][w]]
        PROVE  plan[r][v] # NoVersion \/ version'[v] = version[v]
    BY <2>6 DEF TypeOK
  <2>7. QED
    BY <2>1, <2>2, <2>3, <2>4, <2>5, <2>6, VersionSteps
<1>4. ~MarkRead(r) /\ ~Ended(r) /\ ~Moved(r)
  BY DEF MarkRead, Goto, TypeOK, Ended, Moved
<1>5. QED
  BY <1>1, <1>2, <1>3, <1>4, LocalSteps

\* While activations come one at a time, the evidence of one is recorded only
\* when its candidate is the one active version (activate_procedure's loop over
\* the versions), even if activations before it died half-way.
THEOREM ActivationsComplete == ASSUME OneActivator PROVE Spec => []ActivationIsComplete
<1>1. Init => FlipInv
  BY DEF Init, FlipInv
<1>2. TypeOK /\ FlipInv => ActivationIsComplete
  <2> SUFFICES ASSUME TypeOK, FlipInv, NEW r \in Requests, pc[r] = "flipping", Planned(r) = {}
               PROVE  {v \in Versions : version[v].status = "active"} = {job[r].build}
    BY DEF ActivationIsComplete
  <2>1. \A v \in Versions : version[v].status = "active" <=> v = job[r].build
    BY DEF FlipInv, Planned
  <2>2. job[r].build \in Versions
    BY JobFacts
  <2>3. QED
    BY <2>1, <2>2
<1>3. QED
  BY <1>1, <1>2, FlipStep, Safe, PTL DEF Spec

(***************************************************************************)
(* The active pointer.  Somebody in the middle of a flip may leave it at   *)
(* any number of versions; RecordActivation ends a flip with all of them   *)
(* written (FlipInv), and no other step touches an active version.         *)
(***************************************************************************)
ActiveVersions == {v \in Versions : version[v].status = "active"}

\* A flip ends with the request's candidate as the one active version.
LEMMA FlipsDone ==
  ASSUME TypeOK, FlipInv, NEW r \in Requests, RecordActivation(r)
  PROVE  ActiveVersions' = {job[r].build} /\ job[r].build \in Versions
<1>1. version' = version /\ pc[r] = "flipping" /\ Planned(r) = {}
  BY DEF RecordActivation, Evidence
<1>2. \A v \in Versions : version[v].status = "active" <=> v = job[r].build
  BY <1>1 DEF FlipInv, Planned
<1>3. job[r].build \in Versions
  BY <1>1, JobFacts
<1>4. QED
  BY <1>1, <1>2, <1>3 DEF ActiveVersions

\* Nobody leaves the flips except by recording the activation.
LEMMA LeavesByRecording ==
  ASSUME TypeOK, ~Crashes, [Next]_vars, NEW r \in Requests, pc[r] = "flipping", pc'[r] # "flipping"
  PROVE  RecordActivation(r)
<1> USE DEF Finish, Proceed, Goto
<1> DEFINE By(q) ==
       \/ Open(q) \/ StartDecision(q) \/ Decide(q)
       \/ FindCandidate(q) \/ CreateCandidate(q) \/ NoteCandidate(q)
       \/ RecordDecision(q) \/ StoreBuild(q)
       \/ StartActivation(q) \/ CheckApproval(q) \/ LoadVersions(q)
       \/ Flip(q) \/ RecordActivation(q) \/ MarkRead(q) \/ MarkWrite(q)
       \/ Crash(q)
<1>1. CASE UNCHANGED vars
  BY <1>1 DEF vars
<1>2. ASSUME NEW b \in Builds, OpenByExecution(b) \/ ReviewRule(b) \/ Recompile(b) PROVE FALSE
  BY <1>2 DEF OpenByExecution, ReviewRule, Recompile
<1>3. ASSUME NEW q \in Requests, By(q), q # r PROVE FALSE
  BY <1>3 DEF TypeOK, Open, StartDecision, Start, Decide, FindCandidate, CreateCandidate,
       NoteCandidate, RecordDecision, StoreBuild, StartActivation, CheckApproval, LoadVersions,
       Flip, RecordActivation, MarkRead, MarkWrite, Crash, EndActivation
<1>4. ASSUME By(r) PROVE RecordActivation(r)
  BY <1>4 DEF Open, StartDecision, Start, Decide, FindCandidate, CreateCandidate, NoteCandidate,
       RecordDecision, StoreBuild, StartActivation, CheckApproval, LoadVersions, Flip, MarkRead,
       MarkWrite, Crash
<1>5. QED
  BY <1>1, <1>2, <1>3, <1>4 DEF Next, Quiet

\* While nobody is flipping, no step changes which versions are active.
LEMMA QuietKeepsActive ==
  ASSUME TypeOK, [Next]_vars, \A r \in Requests : pc[r] # "flipping"
  PROVE  ActiveVersions' = ActiveVersions
<1>1. CASE version' = version
  BY <1>1 DEF ActiveVersions
<1>2. ASSUME NEW r \in Requests, pc[r] = "creating", version[job[r].build].status = "absent",
             version' = [version EXCEPT ![job[r].build] =
                           [graph |-> Graph(job[r].doc.content), status |-> "candidate"]]
      PROVE  ActiveVersions' = ActiveVersions
  <2>1. \A v \in Versions : version'[v].status = "active" <=> version[v].status = "active"
    BY <1>2, JobFacts DEF TypeOK
  <2>2. QED
    BY <2>1 DEF ActiveVersions
<1>3. QED
  BY <1>1, <1>2, VersionSteps

\* docs/governance.md: activation "flips the active pointer".  With one
\* activator that is never killed (actions.activate and the ACTIVATE state run
\* activate_procedure to its end) the pointer points at one version whenever
\* nobody is flipping, for any number of decisions, reviews and recompilations
\* meanwhile.  act_concurrent shows that one activator is needed.
THEOREM PointerIsSingle ==
  ASSUME OneActivator, ~Crashes PROVE Spec => []OneActiveWhenQuiet
<1> DEFINE Single == \E v \in Versions : ActiveVersions = {v}
<1>1. OneActiveWhenQuiet <=> ((\A r \in Requests : pc[r] # "flipping") => Single)
  BY DEF OneActiveWhenQuiet, ActiveVersions
<1>2. Init => OneActiveWhenQuiet
  <2> SUFFICES ASSUME Init PROVE ActiveVersions = {Base}
    BY VersionFacts DEF OneActiveWhenQuiet, ActiveVersions
  <2> QED
    BY VersionFacts DEF Init, ActiveVersions, NoVersion
<1>3. TypeOK /\ FlipInv /\ OneActiveWhenQuiet /\ [Next]_vars => OneActiveWhenQuiet'
  <2> SUFFICES ASSUME TypeOK, FlipInv, OneActiveWhenQuiet, [Next]_vars,
                      \A r \in Requests : pc'[r] # "flipping"
               PROVE  \E v \in Versions : ActiveVersions' = {v}
    BY DEF OneActiveWhenQuiet, ActiveVersions
  <2>1. CASE \A r \in Requests : pc[r] # "flipping"
    BY <1>1, <2>1, QuietKeepsActive
  <2>2. ASSUME NEW r \in Requests, pc[r] = "flipping" PROVE \E v \in Versions : ActiveVersions' = {v}
    <3>1. RecordActivation(r)
      BY <2>2, LeavesByRecording
    <3>2. QED
      BY <3>1, FlipsDone
  <2>3. QED
    BY <2>1, <2>2
<1>4. Init => FlipInv
  BY DEF Init, FlipInv
<1>5. QED
  BY <1>2, <1>3, <1>4, FlipStep, Safe, PTL DEF Spec
=============================================================================
