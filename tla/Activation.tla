------------------------------ MODULE Activation ------------------------------
(***************************************************************************)
(* Gates 2 and 3 for the builds of one workflow: deciding a patch, minting *)
(* the immutable candidate version, and activating it                      *)
(* (services/governance/store.py: decide_patch, create_candidate_version,  *)
(* activate_procedure; services/api/actions.py: _decide, activate; the     *)
(* ACTIVATE and MARK_ACTIVE states of infra/statemachine.asl.json).        *)
(*                                                                         *)
(* A request is a sequence of separate reads and writes of the registry    *)
(* table, and any number of requests are under way at the same time.  A    *)
(* build's content is what its artifact hashes cover: the patched graph    *)
(* and the rest (the certificate is stamped at every compilation).  The    *)
(* id of a build's candidate version is derived from the build, so the     *)
(* build itself names it here.  A build compiled again under its id gets a *)
(* new certificate, and another graph if the patcher was redeployed        *)
(* meanwhile.  Evidence rows are appended atomically: ApprovalLedger       *)
(* models how their ids are minted.                                        *)
(***************************************************************************)
EXTENDS Naturals, Sequences, FiniteSets

CONSTANTS
  Builds,        \* builds of the workflow; also their candidate version ids
  Base,          \* the version that is active before any patch
  Graphs,        \* patched graphs, as hashed into procedure_after_sha256
  Certs,         \* the rest of what the artifact hashes cover
  Rank,          \* the sort-key order of the version ids
  None,
  Requests,      \* sessions of reviewers and executions, one request at a time each
  Wants,         \* what requests may want (a subset of AllWants)
  Activators,    \* the requests that may activate
  Reviewing,     \* do rule reviews and opened patch reviews change meanwhile?
  Crashes,       \* may a request be killed between two steps?
  MaxLedger,     \* bound of the model: evidence rows
  MaxRecompiles  \* bound of the model: recompilations

Decisions == {"APPROVE_CANDIDATE", "REJECT_PATCH", "REQUEST_REVISION"}
\* ACTIVATE: the API's /procedures/{v}/activate.  EXECUTE: the ACTIVATE state.
AllWants  == Decisions \cup {"ACTIVATE", "EXECUTE"}
Versions  == Builds \cup {Base}
Contents  == Graphs \X Certs

ASSUME BaseAssumption == Base \notin Builds
ASSUME NoneAssumption == None \notin Graphs \cup Versions
ASSUME WantsAssumption == Wants \subseteq AllWants /\ Activators \subseteq Requests
ASSUME RankAssumption ==
  /\ Rank \in [Versions -> Nat]
  /\ \A v, w \in Versions : Rank[v] = Rank[w] => v = w
ASSUME FlagsAssumption ==
  /\ Reviewing \in BOOLEAN /\ Crashes \in BOOLEAN
  /\ MaxLedger \in Nat /\ MaxRecompiles \in Nat

VARIABLES
  build,       \* builds.json: content and status of each build
  opened,      \* patch_reviews.json: the hash the review was opened with
  unresolved,  \* builds with a PENDING or ESCALATEd rule review
  version,     \* procedure_versions.json: graph and status of each version
  rows,        \* candidates.json
  ledger,      \* approvals.json, in the order of the approval ids
  pc,          \* where each request is
  job,         \* what it is doing, and its copy of the build
  plan,        \* the version records its activation loop has still to write
  recompiles

vars == <<build, opened, unresolved, version, rows, ledger, pc, job, plan,
          recompiles>>

Document == [content : Contents,
             status  : {"PATCH_VALIDATED", "PATCH_APPROVED", "PATCH_ACTIVE"}]
Version  == [graph  : Graphs \cup {None},
             status : {"absent", "candidate", "active", "superseded"}]
Row      == [build : Builds, decision : Decisions \cup {"ACTIVATE"}, content : Contents]
NoVersion == [graph |-> None, status |-> "absent"]
NoPlan    == [v \in Versions |-> NoVersion]
NoJob     == None
Job       == [build : Builds, want : AllWants, doc : Document]

Graph(content) == content[1]

Init ==
  /\ build \in [Builds -> [content : Contents, status : {"PATCH_VALIDATED"}]]
  /\ opened = [b \in Builds |-> None]
  /\ unresolved \in IF Reviewing THEN SUBSET Builds ELSE {{}}
  /\ version = [v \in Versions |-> IF v = Base THEN [graph |-> None, status |-> "active"]
                                               ELSE NoVersion]
  /\ rows = {}
  /\ ledger = <<>>
  /\ pc = [r \in Requests |-> "idle"]
  /\ job = [r \in Requests |-> NoJob]
  /\ plan = [r \in Requests |-> NoPlan]
  /\ recompiles = 0

Goto(r, step) == pc' = [pc EXCEPT ![r] = step]

\* The request is over, with an answer, an error or a kill.
Finish(r) ==
  /\ Goto(r, "idle")
  /\ job' = [job EXCEPT ![r] = NoJob]
  /\ plan' = [plan EXCEPT ![r] = NoPlan]

Proceed(r, step) == Goto(r, step) /\ UNCHANGED <<job, plan>>

tables == <<build, opened, unresolved, version, rows, ledger, recompiles>>
-----------------------------------------------------------------------------
\* request_patch_review by a reviewer, with the hash of the patch on screen.
Open(r) ==
  /\ Reviewing
  /\ pc[r] = "idle"
  /\ \E b \in Builds : opened' = [opened EXCEPT ![b] = Graph(build[b].content)]
  /\ UNCHANGED <<build, unresolved, version, rows, ledger, pc, job, plan, recompiles>>

\* request_patch_review by the WAIT_FOR_PATCH_APPROVAL state: no hash.
OpenByExecution(b) ==
  /\ Reviewing
  /\ opened' = [opened EXCEPT ![b] = None]
  /\ UNCHANGED <<build, unresolved, version, rows, ledger, pc, job, plan,
                 recompiles>>

\* review_rule: ESCALATE leaves the review unresolved, the others resolve it.
ReviewRule(b) ==
  /\ Reviewing
  /\ unresolved' \in {unresolved \cup {b}, unresolved \ {b}}
  /\ UNCHANGED <<build, opened, version, rows, ledger, pc, job, plan, recompiles>>

\* create_build with force, or PERSIST_BUILD of another execution: the build
\* is stored again under the same id.
Recompile(b) ==
  /\ recompiles < MaxRecompiles
  /\ recompiles' = recompiles + 1
  /\ \E c \in Contents :
       build' = [build EXCEPT ![b] = [content |-> c, status |-> "PATCH_VALIDATED"]]
  /\ UNCHANGED <<opened, unresolved, version, rows, ledger, pc, job, plan>>

\* get_build of the handlers: the request works on this copy from here on.
Start(r, b, want, step) ==
  /\ pc[r] = "idle"
  /\ Len(ledger) + Cardinality({q \in Requests : pc[q] # "idle"}) < MaxLedger
  /\ want \in Wants
  /\ Goto(r, step)
  /\ job' = [job EXCEPT ![r] = [build |-> b, want |-> want, doc |-> build[b]]]
  /\ UNCHANGED tables
  /\ UNCHANGED plan

StartDecision(r) ==
  \E b \in Builds, d \in Decisions : Start(r, b, d, "deciding")

\* decide_patch up to its first write.  An approval is refused when the opened
\* hash differs or a rule review is unresolved.  (The other guardrails compare
\* fields of the request's own copy of the build.)
Decide(r) ==
  /\ pc[r] = "deciding"
  /\ LET b == job[r].build
         refused == \/ opened[b] \notin {None, Graph(job[r].doc.content)}
                    \/ b \in unresolved
     IN  \/ /\ job[r].want = "APPROVE_CANDIDATE"
            /\ IF refused THEN Finish(r) ELSE Proceed(r, "minting")
            /\ rows' = rows
         \/ /\ job[r].want = "REJECT_PATCH"
            /\ rows' = rows \cup {<<b, "inactive">>}
            /\ Proceed(r, "recording")
         \/ /\ job[r].want = "REQUEST_REVISION"
            /\ rows' = rows
            /\ Proceed(r, "recording")
  /\ UNCHANGED <<build, opened, unresolved, version, ledger, recompiles>>

\* Mutant: a version that was not found is taken for minted.
MutantFindCandidate(r) ==
  /\ pc[r] = "minting"
  /\ Proceed(r, "recording")
  /\ UNCHANGED tables

\* create_candidate_version: an existing version is returned as it is ...
FindCandidate(r) ==
  /\ pc[r] = "minting"
  /\ Proceed(r, IF version[job[r].build].status # "absent" THEN "recording" ELSE "creating")
  /\ UNCHANGED tables

\* Mutant: the version is saved although it exists.
MutantCreateCandidate(r) ==
  /\ pc[r] = "creating"
  /\ version' = [version EXCEPT ![job[r].build] = [graph  |-> Graph(job[r].doc.content),
                                                   status |-> "candidate"]]
  /\ Proceed(r, "noting")
  /\ UNCHANGED <<build, opened, unresolved, rows, ledger, recompiles>>

\* ... save_procedure_version is create-only, and a lost race adopts ...
CreateCandidate(r) ==
  /\ pc[r] = "creating"
  /\ LET b == job[r].build IN
       version' = IF version[b].status # "absent" THEN version
                  ELSE [version EXCEPT ![b] = [graph  |-> Graph(job[r].doc.content),
                                               status |-> "candidate"]]
  /\ Proceed(r, "noting")
  /\ UNCHANGED <<build, opened, unresolved, rows, ledger, recompiles>>

\* ... and the candidates row follows.
NoteCandidate(r) ==
  /\ pc[r] = "noting"
  /\ rows' = rows \cup {<<job[r].build, "candidate">>}
  /\ Proceed(r, "recording")
  /\ UNCHANGED <<build, opened, unresolved, version, ledger, recompiles>>

Evidence(r, decision) ==
  /\ ledger' = Append(ledger, [build |-> job[r].build, decision |-> decision,
                               content |-> job[r].doc.content])
  /\ UNCHANGED <<build, opened, unresolved, version, rows, recompiles>>

\* _record_approval of the decision.  Through resume_callback that is all; the
\* API's _decide goes on to store the build.
RecordDecision(r) ==
  /\ pc[r] = "recording"
  /\ Evidence(r, job[r].want)
  /\ Finish(r) \/ Proceed(r, "storing")

\* Mutants: the decision becomes the status, or the status is set on the build as
\* it is stored by now.
MutantStoreDecision(r) ==
  /\ pc[r] = "storing"
  /\ build' = [build EXCEPT ![job[r].build] = [job[r].doc EXCEPT !.status = job[r].want]]
  /\ Finish(r)
  /\ UNCHANGED <<opened, unresolved, version, rows, ledger, recompiles>>

MutantStoreStatus(r) ==
  /\ pc[r] = "storing"
  /\ build' = [build EXCEPT ![job[r].build].status =
                 IF job[r].want = "APPROVE_CANDIDATE" THEN "PATCH_APPROVED" ELSE @]
  /\ Finish(r)
  /\ UNCHANGED <<opened, unresolved, version, rows, ledger, recompiles>>

\* _decide: an approval sets the status; every decision stores the whole copy.
StoreBuild(r) ==
  /\ pc[r] = "storing"
  /\ build' = [build EXCEPT ![job[r].build] =
                 IF job[r].want = "APPROVE_CANDIDATE"
                   THEN [job[r].doc EXCEPT !.status = "PATCH_APPROVED"]
                   ELSE job[r].doc]
  /\ Finish(r)
  /\ UNCHANGED <<opened, unresolved, version, rows, ledger, recompiles>>
-----------------------------------------------------------------------------
Approvals(b) == {i \in DOMAIN ledger : /\ ledger[i].build = b
                                       /\ ledger[i].decision = "APPROVE_CANDIDATE"}

\* actions.activate names a build and some version that exists, not necessarily
\* the build's.  An execution is in the ACTIVATE state once the activation gate
\* has seen an approval of its build.
StartActivation(r) ==
  /\ r \in Activators
  /\ \E b \in Builds :
       \/ Start(r, b, "ACTIVATE", "activating")
       \/ Approvals(b) # {} /\ Start(r, b, "EXECUTE", "activating")

\* activate_procedure returns or raises.  For the ACTIVATE state its handler
\* turns the error into an answer: the execution goes on to MARK_ACTIVE.
EndActivation(r) ==
  IF job[r].want = "EXECUTE" THEN Proceed(r, "marking") ELSE Finish(r)

\* Mutant: any approval of the build will do.
MutantStillApproved(r) == Approvals(job[r].build) # {}

\* The last approval of the build is an approval of the request's copy.
StillApproved(r) ==
  LET mine == Approvals(job[r].build) IN
    \E i \in mine : /\ \A j \in mine : j <= i
                    /\ ledger[i].content = job[r].doc.content

\* activate_procedure: the last approval on record must be of this content ...
CheckApproval(r) ==
  /\ pc[r] = "activating"
  /\ IF StillApproved(r) THEN Proceed(r, "loading") ELSE EndActivation(r)
  /\ UNCHANGED tables

\* Mutant: the version that was active stays active.
MutantFlipped(v, b) == [version[v] EXCEPT !.status = IF v = b THEN "active" ELSE @]

Flipped(v, b) == [version[v] EXCEPT !.status = IF v = b THEN "active" ELSE "superseded"]

\* Mutant: the candidate's graph is not compared with the approved one.
MutantActivatable(r) == version[job[r].build].status \in {"candidate", "active"}

Activatable(r) ==
  /\ version[job[r].build].status \in {"candidate", "active"}
  /\ version[job[r].build].graph = Graph(job[r].doc.content)

\* ... and the candidate it minted activatable and of the approved graph.  Then
\* the status flips are derived from this one read of the versions ...
LoadVersions(r) ==
  /\ pc[r] = "loading"
  /\ LET b == job[r].build IN
       IF Activatable(r)
         THEN /\ plan' = [plan EXCEPT ![r] =
                   [v \in Versions |->
                      IF version[v].status # "absent" /\ Flipped(v, b) # version[v]
                        THEN Flipped(v, b) ELSE NoVersion]]
              /\ Goto(r, "flipping")
              /\ job' = job
         ELSE EndActivation(r)
  /\ UNCHANGED tables

Planned(r) == {v \in Versions : plan[r][v] # NoVersion}

\* ... and written one record at a time, in key order, unconditionally.
Flip(r) ==
  /\ pc[r] = "flipping"
  /\ \E v \in Planned(r) :
       /\ \A w \in Planned(r) : Rank[v] <= Rank[w]
       /\ version' = [version EXCEPT ![v] = plan[r][v]]
       /\ plan' = [plan EXCEPT ![r][v] = NoVersion]
  /\ UNCHANGED <<build, opened, unresolved, rows, ledger, pc, job, recompiles>>

\* The activation's own evidence row.
RecordActivation(r) ==
  /\ pc[r] = "flipping"
  /\ Planned(r) = {}
  /\ Evidence(r, "ACTIVATE")
  /\ EndActivation(r)

\* mark_build_status: read the build again ...
MarkRead(r) ==
  /\ pc[r] = "marking"
  /\ job' = [job EXCEPT ![r].doc = build[job[r].build]]
  /\ Goto(r, "marked")
  /\ UNCHANGED plan
  /\ UNCHANGED tables

\* ... and store it with the new status.
MarkWrite(r) ==
  /\ pc[r] = "marked"
  /\ build' = [build EXCEPT ![job[r].build] = [job[r].doc EXCEPT !.status = "PATCH_ACTIVE"]]
  /\ Finish(r)
  /\ UNCHANGED <<opened, unresolved, version, rows, ledger, recompiles>>

\* Nobody asks for anything.
Quiet == (\A r \in Requests : pc[r] = "idle") /\ UNCHANGED vars

\* The worker is killed.
Crash(r) ==
  /\ Crashes
  /\ pc[r] # "idle"
  /\ Finish(r)
  /\ UNCHANGED tables

Next ==
  \/ Quiet
  \/ \E b \in Builds : OpenByExecution(b) \/ ReviewRule(b) \/ Recompile(b)
  \/ \E r \in Requests :
       \/ Open(r) \/ StartDecision(r) \/ Decide(r)
       \/ FindCandidate(r) \/ CreateCandidate(r) \/ NoteCandidate(r)
       \/ RecordDecision(r) \/ StoreBuild(r)
       \/ StartActivation(r) \/ CheckApproval(r) \/ LoadVersions(r)
       \/ Flip(r) \/ RecordActivation(r) \/ MarkRead(r) \/ MarkWrite(r)
       \/ Crash(r)

Spec == Init /\ [][Next]_vars
-----------------------------------------------------------------------------
DecisionSteps == {"deciding", "minting", "creating", "noting", "recording", "storing"}
Steps == DecisionSteps \cup {"idle", "activating", "loading", "flipping",
                                 "marking", "marked"}

\* Type invariant.
TypeOK ==
  /\ build \in [Builds -> Document]
  /\ opened \in [Builds -> Graphs \cup {None}]
  /\ unresolved \subseteq Builds
  /\ version \in [Versions -> Version]
  /\ rows \subseteq Builds \X {"candidate", "inactive"}
  /\ ledger \in Seq(Row)
  /\ pc \in [Requests -> Steps]
  /\ job \in [Requests -> Job \cup {NoJob}]
  /\ \A r \in Requests : /\ pc[r] # "idle" => job[r] \in Job
                         /\ pc[r] \in DecisionSteps => job[r].want \in Decisions
  /\ plan \in [Requests -> [Versions -> Version]]
  /\ recompiles \in 0..MaxRecompiles

Approved(b, content) ==
  \E i \in DOMAIN ledger : ledger[i] = [build |-> b, decision |-> "APPROVE_CANDIDATE",
                                        content |-> content]

\* A patched version is only ever active if somebody approved exactly that
\* graph for exactly that build: no interleaving of decisions, mints,
\* recompilations, activations and crashes activates anything else.
ActiveWasApproved ==
  \A b \in Builds :
    version[b].status = "active" =>
      \E c \in Contents : Graph(c) = version[b].graph /\ Approved(b, c)

\* Every activation row is backed by an earlier approval of the same artifact
\* hashes of the same build.
ActivationFollowsApproval ==
  \A i \in DOMAIN ledger :
    ledger[i].decision = "ACTIVATE" =>
      \E j \in 1..(i - 1) : ledger[j] = [ledger[i] EXCEPT !.decision = "APPROVE_CANDIDATE"]

\* A build that is stored as approved holds the content that was approved,
\* whatever was compiled or decided while the approval was under way.
ApprovedDocument ==
  \A b \in Builds :
    build[b].status = "PATCH_APPROVED" => Approved(b, build[b].content)

\* "Persist the validated patch as an IMMUTABLE candidate": a version's graph
\* never changes, not even by a status flip written from a stale read.
GraphsAreImmutable ==
  [][\A v \in Versions :
       version[v].status # "absent" => /\ version'[v].status # "absent"
                                       /\ version'[v].graph = version[v].graph]_vars

\* An approval names a candidate that exists ("mint BEFORE persisting so the
\* stored approval carries the id"), also after crashes.
ApprovedIsMinted ==
  \A b \in Builds : Approvals(b) # {} => version[b].status # "absent"

\* When an activation records its evidence, its candidate is the one active
\* version, even if earlier activations died half-way through their flips.
ActivationIsComplete ==
  \A r \in Requests :
    pc[r] = "flipping" /\ Planned(r) = {} =>
      {v \in Versions : version[v].status = "active"} = {job[r].build}

\* docs/governance.md: activation "flips the active pointer".  While nobody is
\* in the middle of a flip, the pointer points at one version.
OneActiveWhenQuiet ==
  (\A r \in Requests : pc[r] # "flipping") =>
    \E v \in Versions : {w \in Versions : version[w].status = "active"} = {v}

\* infra/statemachine.asl.json: "MARK_ACTIVE flips build status after ACTIVATE".
\* A build marked PATCH_ACTIVE has an activation on record.
MarkedActiveWasActivated ==
  \A b \in Builds :
    build[b].status = "PATCH_ACTIVE" =>
      \E i \in DOMAIN ledger : ledger[i].build = b /\ ledger[i].decision = "ACTIVATE"
=============================================================================
