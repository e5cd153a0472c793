----------------------------- MODULE GateCallback -----------------------------
(***************************************************************************)
(* The callback slot of one human gate of one build                        *)
(* (services/governance/store.py: save_callback, resume_callback), the     *)
(* executions that arm it with a task token, the reviewers' requests that  *)
(* decide it, and SendTaskSuccess of Step Functions.                       *)
(*                                                                         *)
(* Every write of the slot passes the version its writer read, so versions *)
(* only matter through "is the version I know still the current one?":     *)
(* `current` is the set of actors of whom that is true.  RecordStore shows *)
(* that versions of such a record are never reused.                        *)
(*                                                                         *)
(* Time: a claim is `fresh` for CLAIM_STALE_S = 60 s.  A request lives at  *)
(* most 15 s (ApiFn Timeout), so a claim goes stale only after the request *)
(* that holds it is gone.                                                  *)
(***************************************************************************)
EXTENDS Naturals, FiniteSets

CONSTANTS
  Deciders,     \* reviewers' sessions; each issues one request at a time
  Execs,        \* executions that arm this gate; an execution is its token
  Decisions,    \* what a reviewer may decide
  None,         \* no decision, no token, no claimant
  Gates,        \* the gate may be any of these
  MaxCrashes,   \* how many requests may be killed (bound of the model)
  EffectFaults, \* may the side effect be stored and then raise?
  SendFaults    \* may SendTaskSuccess raise for a live token?

ASSUME DecisionsAssumption == None \notin Decisions
ASSUME TokensAssumption == None \notin Execs
ASSUME ClaimantAssumption == None \notin Deciders
ASSUME ActorsAssumption == Deciders \cap Execs = {}
ASSUME GatesAssumption == Gates \subseteq {"rule_review", "patch_approval", "activation"}
ASSUME BoundAssumption ==
  MaxCrashes \in Nat /\ EffectFaults \in BOOLEAN /\ SendFaults \in BOOLEAN

VARIABLES
  gate,      \* which gate this slot is for; it never changes
  cb,        \* the callback record
  current,   \* actors whose known version of the record is still current
  pc,        \* where each decider's request is
  seen,      \* the record as the request read it (cb in resume_callback)
  out,       \* the output it computed or took from the record
  exec,      \* each execution's progress through its waiting state
  result,    \* the output an execution was resumed with
  ledger,    \* decisions the domain has on record for this gate (evidence)
  applied,   \* how often the side effect was stored: 0, 1 or 2 = "twice or more"
  crashes,
  lost       \* history: executions whose answer died with the request that sent
             \* it, before the request could finalize the slot

vars == <<gate, cb, current, pc, seen, out, exec, result, ledger, applied, crashes, lost>>

Actors  == Deciders \cup Execs
Decided == {"DECIDED_LOCALLY", "RESUMED"}
Status  == {"ABSENT", "WAITING", "DECIDING"} \cup Decided

Callback == [status : Status, token : Execs \cup {None}, output : Decisions \cup {None},
             claimant : Deciders \cup {None}, fresh : BOOLEAN]
NoCallback == [status |-> "ABSENT", token |-> None, output |-> None,
               claimant |-> None, fresh |-> FALSE]

Init ==
  /\ gate \in Gates
  /\ cb = NoCallback
  /\ current = {}
  /\ pc = [d \in Deciders |-> "idle"]
  /\ seen = [d \in Deciders |-> NoCallback]
  /\ out = [d \in Deciders |-> None]
  /\ exec = [e \in Execs |-> "running"]
  /\ result = [e \in Execs |-> None]
  /\ ledger = {}
  /\ applied = 0
  /\ crashes = 0
  /\ lost = {}

\* put_item(..., expect = the version the actor knows): true iff it wins, and
\* then nobody else's version is current any more.
Wins(a, rec) == a \in current /\ cb' = rec /\ current' = {a}
Loses(a)     == a \notin current /\ UNCHANGED <<cb, current>>

\* A request that works under its own claim, as opposed to one that re-fires a
\* gate it found decided.
HoldsClaim(d) ==
  \/ pc[d] \in {"claimed", "giving_back"}
  \/ pc[d] \in {"sending", "sent", "unsent"} /\ seen[d].status \notin Decided

Goto(d, step) == pc' = [pc EXCEPT ![d] = step]

\* The request is over; what it knew is gone with it.
Leave(d) == /\ Goto(d, "idle")
            /\ seen' = [seen EXCEPT ![d] = NoCallback]
            /\ out' = [out EXCEPT ![d] = None]
-----------------------------------------------------------------------------
\* save_callback: read the version ...
ArmRead(e) ==
  /\ exec[e] = "running"
  /\ exec' = [exec EXCEPT ![e] = "arming"]
  /\ current' = current \cup {e}
  /\ UNCHANGED <<gate, cb, pc, seen, out, result, ledger, applied, crashes, lost>>

\* ... and store the token under it; a lost race raises, and the waiting state
\* has no Retry, so the execution fails.
ArmWrite(e) ==
  /\ exec[e] = "arming"
  /\ \/ /\ Wins(e, [NoCallback EXCEPT !.status = "WAITING", !.token = e])
        /\ exec' = [exec EXCEPT ![e] = "waiting"]
     \/ /\ Loses(e)
        /\ exec' = [exec EXCEPT ![e] = "failed"]
  /\ UNCHANGED <<gate, pc, seen, out, result, ledger, applied, crashes, lost>>

\* The token dies unanswered: HeartbeatSeconds pass, the execution is stopped,
\* or the arming Lambda raises after it stored the token.
TokenDies(e) ==
  /\ exec[e] = "waiting"
  /\ exec' = [exec EXCEPT ![e] = "failed"]
  /\ UNCHANGED <<gate, cb, current, pc, seen, out, result, ledger, applied, crashes, lost>>

\* Mutant: CLAIM_STALE_S is shorter than the time a request may live.
MutantClaimGoesStale ==
  /\ cb.status = "DECIDING" /\ cb.fresh
  /\ cb' = [cb EXCEPT !.fresh = FALSE]
  /\ UNCHANGED <<gate, current, pc, seen, out, exec, result, ledger, applied, crashes, lost>>

\* The claimant is dead and CLAIM_STALE_S passes.
ClaimGoesStale ==
  /\ cb.status = "DECIDING" /\ cb.fresh
  /\ ~HoldsClaim(cb.claimant)
  /\ cb' = [cb EXCEPT !.fresh = FALSE]
  /\ UNCHANGED <<gate, current, pc, seen, out, exec, result, ledger, applied, crashes, lost>>

\* Mutant: a claim never goes stale for the readers.
MutantInProgress == cb.status = "DECIDING"

\* A claim that has not gone stale.
InProgress == cb.status = "DECIDING" /\ cb.fresh

\* Mutant: a decided gate is answered from the record, without a signal.
MutantRead(d) ==
  /\ pc[d] = "idle"
  /\ cb.status \notin Decided \cup {"ABSENT"} /\ ~InProgress
  /\ seen' = [seen EXCEPT ![d] = cb]
  /\ current' = current \cup {d}
  /\ Goto(d, "read")
  /\ UNCHANGED <<gate, cb, out, exec, result, ledger, applied, crashes, lost>>

\* resume_callback: get_item.  No record is a KeyError and a fresh claim a
\* ValueError, both without effect.
Read(d) ==
  /\ pc[d] = "idle"
  /\ cb.status # "ABSENT"
  /\ ~InProgress
  /\ seen' = [seen EXCEPT ![d] = cb]
  /\ current' = current \cup {d}
  /\ IF cb.status \in Decided
       THEN Goto(d, "sending") /\ out' = [out EXCEPT ![d] = cb.output]
       ELSE Goto(d, "read") /\ out' = [out EXCEPT ![d] = None]
  /\ UNCHANGED <<gate, cb, exec, result, ledger, applied, crashes, lost>>

\* Mutant: the claim is written without the version that was read.
MutantClaim(d) ==
  /\ pc[d] = "read"
  /\ cb' = [seen[d] EXCEPT !.status = "DECIDING", !.claimant = d, !.fresh = TRUE]
  /\ current' = {d}
  /\ Goto(d, "claimed")
  /\ UNCHANGED <<gate, seen, out, exec, result, ledger, applied, crashes, lost>>

\* The claim.  Losing it answers "already in progress".  (claimed_at and its
\* owner are read only while the gate is DECIDING; NoClaim drops them.)
NoClaim(rec) == [rec EXCEPT !.claimant = None, !.fresh = FALSE]

Claim(d) ==
  /\ pc[d] = "read"
  /\ \/ /\ Wins(d, [seen[d] EXCEPT !.status = "DECIDING", !.claimant = d, !.fresh = TRUE])
        /\ Goto(d, "claimed")
        /\ UNCHANGED <<seen, out>>
     \/ /\ Loses(d)
        /\ Leave(d)
  /\ UNCHANGED <<gate, exec, result, ledger, applied, crashes, lost>>

\* The gates that put the decision on record: reviews at the first, an approval
\* row at the second.  The third only looks at the approvals and computes the
\* output; the slot is the one place that ever holds it.
Recording == gate # "activation"

Store(o) ==
  IF Recording THEN /\ ledger' = ledger \cup {o}
                    /\ applied' = IF applied = 0 THEN 1 ELSE 2
               ELSE UNCHANGED <<ledger, applied>>

\* Mutant: the execution is answered before the decision is stored.
MutantApply(d) ==
  /\ pc[d] = "claimed"
  /\ \E o \in Decisions : out' = [out EXCEPT ![d] = o]
  /\ Goto(d, "sending")
  /\ UNCHANGED <<gate, cb, current, seen, exec, result, ledger, applied, crashes, lost>>

\* _apply_gate_decision stores the decision, where the gate has one to store.
Apply(d) ==
  /\ pc[d] = "claimed"
  /\ \E o \in Decisions :
       /\ Store(o)
       /\ out' = [out EXCEPT ![d] = o]
  /\ Goto(d, "sending")
  /\ UNCHANGED <<gate, cb, current, seen, exec, result, crashes, lost>>

\* It raises: before anything is stored (a guardrail), or after (the audit
\* write that follows the approval row).
ApplyRaises(d) ==
  /\ pc[d] = "claimed"
  /\ \/ UNCHANGED <<ledger, applied>>
     \/ EffectFaults /\ \E o \in Decisions : Store(o)
  /\ Goto(d, "giving_back")
  /\ UNCHANGED <<gate, cb, current, seen, out, exec, result, crashes, lost>>

\* Mutants: the slot is given back without its token, or with a status that
\* resume_callback does not know.
MutantGiveBackEmpty(d) ==
  /\ pc[d] = "giving_back"
  /\ Wins(d, [NoCallback EXCEPT !.status = "WAITING"]) \/ Loses(d)
  /\ Leave(d)
  /\ UNCHANGED <<gate, exec, result, ledger, applied, crashes, lost>>

MutantGiveBackStatus(d) ==
  /\ pc[d] = "giving_back"
  /\ Wins(d, NoClaim([seen[d] EXCEPT !.status = "OPEN"])) \/ Loses(d)
  /\ Leave(d)
  /\ UNCHANGED <<gate, exec, result, ledger, applied, crashes, lost>>

\* The gate is given back, unless somebody changed the record meanwhile.
GiveBack(d) ==
  /\ pc[d] = "giving_back"
  /\ Wins(d, NoClaim([seen[d] EXCEPT !.status = "WAITING"])) \/ Loses(d)
  /\ Leave(d)
  /\ UNCHANGED <<gate, exec, result, ledger, applied, crashes, lost>>

\* send_task_success with the token the request read resumes a waiting
\* execution, once (the answer of the service may still get lost) ...
Deliver(d) ==
  /\ pc[d] = "sending"
  /\ LET e == seen[d].token IN
       /\ e # None
       /\ exec[e] = "waiting"
       /\ exec' = [exec EXCEPT ![e] = "resumed"]
       /\ result' = [result EXCEPT ![e] = out[d]]
  /\ Goto(d, "sent") \/ (SendFaults /\ Goto(d, "unsent"))
  /\ UNCHANGED <<gate, cb, current, seen, out, ledger, applied, crashes, lost>>

\* ... and raises for a dead or missing token, or when the service fails.
SendFails(d) ==
  /\ pc[d] = "sending"
  /\ LET e == seen[d].token IN e # None /\ exec[e] = "waiting" => SendFaults
  /\ Goto(d, "unsent")
  /\ UNCHANGED <<gate, cb, current, seen, out, exec, result, ledger, applied, crashes, lost>>

\* Best-effort finalize, from the record as it was read before the claim.
Finalize(d) ==
  /\ pc[d] \in {"sent", "unsent"}
  /\ \/ Wins(d, NoClaim([seen[d] EXCEPT
                   !.status = IF pc[d] = "sent" THEN "RESUMED" ELSE "DECIDED_LOCALLY",
                   !.output = out[d]]))
     \/ Loses(d)
  /\ Leave(d)
  /\ UNCHANGED <<gate, exec, result, ledger, applied, crashes, lost>>

\* The answer this request sent is only in its hands: it was sent under the
\* request's own claim and the slot is not finalized.
Carries(d, e) ==
  pc[d] \in {"sent", "unsent"} /\ HoldsClaim(d) /\ seen[d].token = e /\ exec[e] = "resumed"

\* The request is killed at any point; the reviewer may issue another one.
Crash(d) ==
  /\ pc[d] # "idle"
  /\ crashes < MaxCrashes
  /\ crashes' = crashes + 1
  /\ lost' = lost \cup {e \in Execs : Carries(d, e)}
  /\ Leave(d)
  /\ UNCHANGED <<gate, cb, current, exec, result, ledger, applied>>

Step(d) == \/ Read(d) \/ Claim(d) \/ Apply(d) \/ ApplyRaises(d)
           \/ GiveBack(d) \/ Deliver(d) \/ SendFails(d) \/ Finalize(d)

Next ==
  \/ \E e \in Execs : ArmRead(e) \/ ArmWrite(e) \/ TokenDies(e)
  \/ ClaimGoesStale
  \/ \E d \in Deciders : Step(d) \/ Crash(d)

Spec == Init /\ [][Next]_vars

\* A running request takes its next step, time passes, and reviewers retry.
\* A reviewer who keeps deciding is not refused by the guardrails for ever,
\* and Step Functions does not fail for ever.
Fairness ==
  /\ WF_vars(ClaimGoesStale)
  /\ \A d \in Deciders : WF_vars(Step(d)) /\ SF_vars(Apply(d)) /\ SF_vars(Deliver(d))

FairSpec == Spec /\ Fairness
-----------------------------------------------------------------------------
\* Type invariant.
TypeOK ==
  /\ gate \in Gates
  /\ cb \in Callback
  /\ current \subseteq Actors
  /\ pc \in [Deciders -> {"idle", "read", "claimed", "giving_back",
                         "sending", "sent", "unsent"}]
  /\ seen \in [Deciders -> Callback]
  /\ out \in [Deciders -> Decisions \cup {None}]
  /\ exec \in [Execs -> {"running", "arming", "waiting", "resumed", "failed"}]
  /\ result \in [Execs -> Decisions \cup {None}]
  /\ ledger \subseteq Decisions
  /\ applied \in {0, 1, 2}
  /\ crashes \in 0..MaxCrashes
  /\ lost \subseteq Execs

\* At most one execution has come to this gate so far.  A gate is a slot of its
\* build, and a second execution of the build overwrites it whatever its state.
ArmedOnce ==
  \A e, f \in Execs : exec[e] # "running" /\ exec[f] # "running" => e = f

\* The domain has every answer and every output on record.
Recorded ==
  /\ \A e \in Execs : exec[e] = "resumed" => result[e] \in ledger
  /\ cb.status \in Decided => cb.output \in ledger

\* The decided slot holds every answer, or the live request that sent it will
\* still store it, or that request was killed in between.
Kept ==
  \A e \in Execs : exec[e] = "resumed" =>
    \/ cb.status \in Decided /\ cb.output = result[e]
    \/ \E d \in Deciders : Carries(d, e) /\ out[d] = result[e]
    \/ e \in lost

\* Whatever an execution was resumed with, and whatever output a decided gate
\* holds for the next re-fire, is a decision on record: no crash, re-arm, reclaim
\* or failed send makes a pipeline run on an answer that no human gave.  Gate 3
\* has no record but its slot: there, while one execution came to the gate, only
\* the death of the request that answered it can lose the answer.  ("Finalize is
\* best-effort; the decision is already durably recorded", resume_callback: at
\* gate 3 it is not.)
OutputsAreOnRecord == IF Recording THEN Recorded ELSE ArmedOnce => Kept

\* Two live requests never work under a claim of the same gate: "two reviewers
\* acting on the same gate cannot both consume it" (resume_callback).
ClaimExclusive ==
  ArmedOnce => \A c, d \in Deciders : HoldsClaim(c) /\ HoldsClaim(d) => c = d

\* "Persist the taskToken at WAIT time so a later human action can resume the
\* execution" (save_callback): whatever claims, give-backs and re-fires wrote
\* the slot since, it holds the token of the execution that waits at the gate.
WaitingTokenIsStored ==
  ArmedOnce => \A e \in Execs : exec[e] = "waiting" => cb.token = e

\* "Runs at most ONCE per gate" (_apply_gate_decision).
AtMostOnce == applied <= 1

\* "a crashed decider cannot brick a gate" (resume_callback).
NotBricked == cb.status = "DECIDING" ~> cb.status # "DECIDING"

\* A decided gate whose execution still waits is eventually answered, unless
\* another execution takes the slot over: the re-fire re-signals Step Functions
\* with the recorded output.
DecidedGateResumes ==
  \A e \in Execs :
    cb.status \in Decided /\ cb.token = e /\ exec[e] = "waiting"
    ~> exec[e] # "waiting" \/ cb.token # e

\* At a gate that records: without crashes and faults the slot, its claims and
\* its re-fires implement a register that is decided once and handed to the
\* execution.
Once == INSTANCE GateOnce WITH
  Execs <- Execs, Decisions <- Decisions, None <- None, ledger <- ledger, result <- result
ImplementsOnce == Once!Spec
=============================================================================
