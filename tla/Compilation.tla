------------------------------ MODULE Compilation ------------------------------
(***************************************************************************)
(* From an amended policy and a procedure to a stored build: run_build     *)
(* (services/api/pipeline.py), which the API calls, and the same stages    *)
(* run as handlers of a state machine (infra/statemachine.asl.json,        *)
(* services/aws_handlers.py), each on the data that the ones before it     *)
(* handed on.  A stored build can be verified again (reverify_build) and   *)
(* take up a witness from a runtime trace (nominate_witness).              *)
(***************************************************************************)
EXTENDS Validation

CONSTANTS
  Inputs,      \* the amendments: records of old rules, new rules and a procedure
  Traces,      \* runtime traces: records of a case and an outcome
  WitnessCap,  \* cases in the search for witnesses (4000 in the code)
  Domain       \* the cases over which the properties speak

\* An amendment has two lists of rules and a procedure.
ASSUME InputsAssumption ==
  \A x \in Inputs : /\ x = [old |-> x.old, new |-> x.new, procedure |-> x.procedure]
                    /\ x.new \in Seq({x.new[i] : i \in DOMAIN x.new})
ASSUME WitnessCapAssumption == WitnessCap \in Nat

VARIABLES
  stage,   \* "START", a state of the state machine, or where it ended
  job,     \* the amendment and what has been produced from it so far
  build,   \* the stored build, None before there is one
  report,  \* the mismatches that the last verification of the build named
  answer   \* what was answered to the last nomination
vars == <<stage, job, build, report, answer>>

\* The workflow schema knows comparisons in gates, no memberships.
SchemaValid(w) == \A n \in ToSet(w.nodes) : n.test.op \notin {"IN", "NOT_IN"}

\* The superseded rules are compiled as if they were in force.
Before(rules) == MapSeq(LAMBDA r : [r EXCEPT !.status = "active"], rules)

\* compile_key: accepted rules and procedure.
CompileKey(rules, procedure) == <<rules, procedure>>

\* build_certificate, without hashes and timestamps.
Certificate(j, changed, testsBefore) ==
  [changed_rules |-> changed,
   sources       |-> {r \in ToSet(j.new) : r.rule_id \in changed},
   delta         |-> j.delta.type,
   witnesses     |-> Prefix(j.witnesses, 4),
   tests_before  |-> testsBefore,
   tests_after   |-> [passed |-> j.validation.total - Failed(j.validation), total |-> j.validation.total]]

\* What the stages add to a job.
Adding(j, more) ==
  [f \in DOMAIN j \cup DOMAIN more |-> IF f \in DOMAIN more THEN more[f] ELSE j[f]]
Diffed(j) == Adding(j, [delta |-> SemanticRuleDelta(j.old, j.new)])
Searched(j) ==
  Adding(j, [witnesses |-> FindWitnesses(CompileRules(j.new), j.procedure, <<>>, WitnessCap)])
Patched(j, ordering) ==
  LET For(faults) == Adding(j, [faults |-> faults,
                                patch  |-> Propose(CompileRules(j.new), j.procedure, faults)])
  IN  For(LocalizeAll(j.witnesses, j.procedure, ordering))
ValidatedAgainst(j, old) ==
  Adding(j, [validation |-> Validate(j.witnesses, CompileRules(j.new), CompileRules(old),
                                     j.patch.wf, j.procedure, j.delta)])
Validated(j) == ValidatedAgainst(j, Before(j.old))
Assessed(j) ==
  Adding(j, [impact |-> ImpactSummary(j.delta, j.witnesses, j.faults, j.validation, j.procedure,
                                      j.patch.wf, CompileRules(j.new), CompileRules(Before(j.old)))])

\* The build that a finished job becomes.
Build(j, status, key, certificate) ==
  [status |-> status, key |-> key, old |-> j.old, new |-> j.new, procedure |-> j.procedure,
   delta |-> j.delta, witnesses |-> j.witnesses, faults |-> j.faults,
   ops |-> j.patch.ops, patched |-> j.patch.wf, validation |-> j.validation,
   impact |-> j.impact, certificate |-> certificate]

\* What run_build returns when it stops early, and when a call of it raises.
Refused(code) == [status |-> code, patched |-> None]
Raised == Refused("RAISED")

\* run_build on rules and a procedure that compile.
StatusOf(witnesses, validation) ==
  IF witnesses = <<>> THEN "COMPILED"
  ELSE IF Passes(validation) THEN "PATCH_VALIDATED" ELSE "DRIFT_CONFIRMED"
CompleteRun(p) ==
  LET Status(j) == StatusOf(j.witnesses, j.validation)
      Changed(d) == IF d.added # <<>> THEN ToSet(d.added) ELSE d.affected
      Signed(j) == Certificate(j, Changed(j.delta), [failed |-> Len(j.witnesses), total |-> Len(j.witnesses)])
      Finish(j) == Build(j, Status(j), CompileKey(j.new, j.procedure),
                         IF Status(j) = "PATCH_VALIDATED" THEN Signed(j) ELSE None)
      Check(j) == IF ValidDag(j.patch.wf) THEN Finish(Assessed(Validated(j))) ELSE Raised
  IN  Check(Patched(Searched(Diffed(p)), CompileRules(p.new).ordering))

\* run_build
RunBuild(p) ==
  IF ~SchemaValid(p.procedure) THEN Raised
  ELSE IF ~Normal(p.new) THEN Refused("NEEDS_REVIEW")
  ELSE IF Verdict(Before(p.old)) # "ok" THEN Raised
  ELSE IF Verdict(p.new) # "ok" THEN Refused(Verdict(p.new))
  ELSE IF ~ValidDag(p.procedure) THEN Raised
  ELSE CompleteRun(p)
-----------------------------------------------------------------------------
Init ==
  /\ job \in Inputs
  /\ stage = "START"
  /\ build = None
  /\ report = None
  /\ answer = None

\* create_build and start_execution without a state machine: run_build in one
\* call; when it raises nothing is stored.
CreateBuild ==
  /\ stage = "START"
  /\ \E b \in {RunBuild(job)} :
       /\ stage' = IF b = Raised THEN "FAILED" ELSE "STORED"
       /\ build' = IF b = Raised THEN None ELSE b
  /\ UNCHANGED <<job, report, answer>>

\* EXTRACT_RULES, VALIDATE_RULE_IR, CHECK_IDEMPOTENT: the key is taken of the
\* rules as they were extracted.
Extract ==
  /\ stage = "START"
  /\ stage' = IF Normal(job.new) THEN "RULE_REVIEW" ELSE "FAILED"
  /\ job' = Adding(job, [key |-> CompileKey(job.new, job.procedure)])
  /\ UNCHANGED <<build, report, answer>>

\* Gate 1: the rules that no human rejected.
Review ==
  /\ stage = "RULE_REVIEW"
  /\ \E accepted \in SUBSET DOMAIN job.new : job' = [job EXCEPT !.new = Sublist(@, accepted)]
  /\ stage' = IF job'.new = <<>> THEN "NEEDS_REVIEW" ELSE "COMPILE_CONSTRAINTS"
  /\ UNCHANGED <<build, report, answer>>

\* compiler_handler, op compile; CHECK_CONFLICT.
Compile ==
  /\ stage = "COMPILE_CONSTRAINTS"
  /\ stage' = IF Verdict(job.new) = "ok" THEN "FIND_WITNESSES" ELSE "NEEDS_REVIEW"
  /\ job' = IF Verdict(job.new) = "ok" THEN Diffed(job) ELSE job
  /\ UNCHANGED <<build, report, answer>>

\* witness_handler; CHECK_WITNESSES.  A procedure without disagreement ends the
\* execution, and nothing is stored.
Search ==
  /\ stage = "FIND_WITNESSES"
  /\ job' = IF ValidDag(job.procedure) THEN Searched(job) ELSE job
  /\ stage' = CASE job' = job               -> "FAILED"
                [] job' # job /\ job'.witnesses = <<>> -> "READY"
                [] OTHER                    -> "LOCALIZE_PATCH"
  /\ UNCHANGED <<build, report, answer>>

\* compiler_handler, op localize_patch: no ordering is passed on.
LocalizePatch ==
  /\ stage = "LOCALIZE_PATCH"
  /\ stage' = "VALIDATE_PATCH"
  /\ job' = Patched(job, <<>>)
  /\ UNCHANGED <<build, report, answer>>

\* The verdict on a validated job: on to its impact, or to a human.
Judge(j) ==
  /\ stage' = IF Passes(j.validation) THEN "COMPUTE_IMPACT" ELSE "NEEDS_REVIEW"
  /\ job' = j

\* Mutant: the superseded rules count as they are marked.
MutantValidatePatch ==
  /\ stage = "VALIDATE_PATCH" /\ Verdict(job.old) = "ok" /\ ValidDag(job.patch.wf)
  /\ Judge(ValidatedAgainst(job, job.old))
  /\ UNCHANGED <<build, report, answer>>

\* validator_handler; CHECK_VALIDATION.  When a call of it raises, the
\* execution has failed.
ValidatePatch ==
  /\ stage = "VALIDATE_PATCH"
  /\ IF Verdict(Before(job.old)) = "ok" /\ ValidDag(job.patch.wf)
     THEN Judge(Validated(job))
     ELSE stage' = "FAILED" /\ UNCHANGED job
  /\ UNCHANGED <<build, report, answer>>

\* impact_handler
ComputeImpact ==
  /\ stage = "COMPUTE_IMPACT"
  /\ stage' = "PERSIST_BUILD"
  /\ job' = Assessed(job)
  /\ UNCHANGED <<build, report, answer>>

\* Mutant: the build is there before the execution is through.
MutantPersistEarly ==
  /\ stage = "PERSIST_BUILD"
  /\ build' = Build(job, "PATCH_VALIDATED", job.key, None)
  /\ UNCHANGED <<stage, job, report, answer>>

\* Mutant: the repaired procedure takes the place of the one it was made for.
MutantPersistPatched ==
  /\ stage = "PERSIST_BUILD"
  /\ stage' = "STORED"
  /\ build' = Build([job EXCEPT !.procedure = job.patch.wf], "PATCH_VALIDATED", job.key, None)
  /\ UNCHANGED <<job, report, answer>>

\* PERSIST_BUILD: what the execution has gathered becomes the build.  The
\* certificate (validator_handler, GENERATE_CERTIFICATE) names the affected
\* rules, and of the tests before only those that failed.
PersistBuild ==
  /\ stage = "PERSIST_BUILD"
  /\ stage' = "STORED"
  /\ build' = Build(job, "PATCH_VALIDATED", job.key,
                    Certificate(job, job.delta.affected, [failed |-> Len(job.witnesses)]))
  /\ UNCHANGED <<job, report, answer>>
-----------------------------------------------------------------------------
Stored == stage = "STORED" /\ build.patched # None

\* _outcome_mismatches: what a run of the engine does otherwise than a trace.
OutcomeMismatches(actual, outcome) ==
  {d \in DOMAIN outcome.seen : actual[d] # outcome.seen[d]}
    \cup {a \in DOMAIN outcome.required \cap DOMAIN actual.required :
            actual.required[a] # outcome.required[a]}
    \cup (outcome.completed \ DOMAIN actual.required)

\* compare_traces: the verdict on a trace of the procedure, and of its repair.
CompareTrace(b, t) ==
  LET Differs(w) == OutcomeMismatches(Execute(w, t.case, CompileRules(b.new).ordering), t.outcome) # {}
  IN  [vs_stale |-> Differs(b.procedure), vs_patched |-> Differs(b.patched)]

\* A build with the witnesses of a search that go beyond its own, and the
\* answer to the nomination that asked for it.
TakeUp(t, found, Validation(_)) ==
  LET known == Len(build.witnesses)
      With(all) == [build EXCEPT !.witnesses = all, !.validation = Validation(all)]
  IN  /\ build' = IF Len(found) <= known THEN build ELSE With(Append(build.witnesses, found[known + 1]))
      /\ answer' = [case |-> t.case, known |-> known, verified |-> Len(found) > known]

\* Mutant: the patch is not validated again.
MutantNominateUnvalidated(t) ==
  /\ Stored /\ CompareTrace(build, t).vs_stale
  /\ TakeUp(t, FindWitnesses(CompileRules(build.new), build.procedure, <<t.case>>, WitnessCap),
            LAMBDA all : build.validation)
  /\ UNCHANGED <<stage, job, report>>

\* Mutant: the search is not given the case of the trace.
MutantNominateNothing(t) ==
  /\ Stored /\ CompareTrace(build, t).vs_stale
  /\ TakeUp(t, FindWitnesses(CompileRules(build.new), build.procedure, <<>>, WitnessCap),
            LAMBDA all : build.validation)
  /\ UNCHANGED <<stage, job, report>>

\* nominate_witness: the case of a trace that disagrees with the procedure goes
\* through the search; a witness whose number the build does not have is added
\* and the patch validated again.  The old rules count as they are marked.
NominateWitness(t) ==
  /\ Stored
  /\ CompareTrace(build, t).vs_stale
  /\ Verdict(build.old) = "ok"
  /\ TakeUp(t, FindWitnesses(CompileRules(build.new), build.procedure, <<t.case>>, WitnessCap),
            LAMBDA all : Validate(all, CompileRules(build.new), CompileRules(build.old),
                                  build.patched, build.procedure, build.delta))
  /\ UNCHANGED <<stage, job, report>>

\* The checks of a verification that a build does not pass.
Mismatches(b, again) ==
  LET Same(check) == CASE check = "witness_ids"       -> Len(b.witnesses) = Len(again.witnesses)
                       [] check = "validation_failed" -> Failed(b.validation) = Failed(again.validation)
                       [] OTHER -> b[check] = again[check]
  IN  {c \in {"key", "patched", "ops", "certificate", "validation_failed", "witness_ids"} : ~Same(c)}

\* reverify_build: run_build on the stored inputs, compared with the build.
\* When run_build raises, nothing is reported.
Reverify ==
  /\ Stored
  /\ \E again \in {RunBuild([old |-> build.old, new |-> build.new, procedure |-> build.procedure])} :
       again # Raised /\ report' = Mismatches(build, again)
  /\ UNCHANGED <<stage, job, build, answer>>

Next ==
  \/ CreateBuild
  \/ Extract \/ Review \/ Compile \/ Search \/ LocalizePatch \/ ValidatePatch
  \/ ComputeImpact \/ PersistBuild
  \/ \E t \in Traces : NominateWitness(t)
  \/ Reverify

Spec == Init /\ [][Next]_vars
-----------------------------------------------------------------------------
Statuses == {"COMPILED", "PATCH_VALIDATED", "DRIFT_CONFIRMED", "CONFLICT", "NEEDS_REVIEW"}

\* The stages are the states of the machine, a stored build has one of
\* run_build's statuses, and only a build with a repair has been verified.
TypeOK ==
  /\ [old |-> job.old, procedure |-> job.procedure] \in {[old |-> i.old, procedure |-> i.procedure] : i \in Inputs}
  /\ stage \in {"START", "RULE_REVIEW", "COMPILE_CONSTRAINTS", "FIND_WITNESSES", "LOCALIZE_PATCH",
                "VALIDATE_PATCH", "COMPUTE_IMPACT", "PERSIST_BUILD",
                "STORED", "READY", "NEEDS_REVIEW", "FAILED"}
  /\ stage # "STORED" => build = None
  /\ stage = "STORED" => build.status \in Statuses
  /\ report # None => Stored

\* A procedure whose walk depends on the tests of its nodes alone.
Branchless(w) == \A e \in ToSet(w.edges) : e.type = "NEXT"
Certified == Stored /\ build.certificate # None

\* All combinations of the candidates are tried, none is cut off by the cap.
Uncut(rules, w, cap) == Len(Combinations(CompileRules(rules), w)) <= cap

\* Boundary candidates are enough: what the policy and the procedure disagree
\* about on any case has a witness of that kind and key, and when the search
\* finds nothing (READY: no human sees the build) they agree on every case.
\* The literals on the edges of a procedure are not searched, so this is about
\* procedures without branches, and about searches that the cap leaves whole.
WitnessesCoverDisagreements ==
  LET m == CompileRules(job.new)
      Witnessed(d) == d = NoFault \/ \E x \in ToSet(job.witnesses) : <<x.kind, x.key>> = d
  IN  /\ stage \in {"LOCALIZE_PATCH", "READY"}
      /\ Branchless(job.procedure) /\ Uncut(job.new, job.procedure, WitnessCap)
      => \A c \in Domain : Witnessed(Disagreement(m, job.procedure, c))

\* What the label of a change says about a case, before and after it.
Promise(delta, before, after) ==
  LET Of(req) == IF delta.action \in DOMAIN req THEN {req[delta.action]} ELSE {}
  IN  CASE delta.type = "THRESHOLD_RELAXED"   -> before.eligible => after.eligible
        [] delta.type = "THRESHOLD_TIGHTENED" -> after.eligible => before.eligible
        [] delta.type = "DEADLINE_EXTENDED"   -> before.on_time => after.on_time
        [] delta.type = "EXCEPTION_ADDED"     -> \A o \in Of(before.required), n \in Of(after.required) : n => o
        [] delta.type \in {"SEMANTICS_UNCHANGED", "PROVENANCE_ONLY"} ->
             /\ after.eligible = before.eligible /\ after.on_time = before.on_time
             /\ after.eligible => after.required = before.required
        [] OTHER -> TRUE

\* Bounds are replaced by bounds of their kind, field and direction, deadlines
\* one at a time, and nothing else is gone.
Succeeded(old, new) ==
  LET gone == ToSet(Without(old, new))
      come == {r \in ToSet(Without(new, old)) : r.kind \in {"threshold", "deadline"}}
      Replaces(s, r) == /\ s.kind = r.kind /\ SameField(s, r)
                        /\ \E side \in {Lower, Upper} : {r.condition.op, s.condition.op} \subseteq side
  IN  /\ \A r \in gone : \E s \in come : Replaces(s, r)
      /\ \A s \in come : \E r \in gone : Replaces(s, r)
      /\ Cardinality({r \in gone : r.kind = "deadline"}) <= 1

\* Every condition on an old obligation is one that the cohort of the label is
\* built from.
ObligationsTried(before, after, w) ==
  \A a \in DOMAIN before.obligations :
    IterComparisons(before.obligations[a].condition) \subseteq Literals(after, w)

\* A label that a certificate carries is true of every case, not only of the
\* cohort that the metamorphic suite tried: nobody loses by a change that is
\* shown to the reviewers as a relaxation, also where the label is computed
\* from the wrong end of a bound or from rules in another order.  The cohort
\* stands between the literals of the new rules and the repair.  A bound or
\* a condition that is only in the old rules is not in it, and dropping one
\* changes no label: such amendments are left out, and those whose cohort the
\* cap cuts.
LabelKeepsItsPromise ==
  LET before == CompileRules(Before(build.old))
      after  == CompileRules(build.new)
  IN  /\ Certified /\ Active(build.new) = build.new
      /\ Uncut(build.new, build.patched, MetamorphicCap)
      /\ Succeeded(build.old, build.new) /\ ObligationsTried(before, after, build.patched)
      => \A c \in Domain : Promise(build.delta, EvaluateExpected(before, c), EvaluateExpected(after, c))

\* A certified repair harms nobody: whomever the old procedure served as the
\* policy asks, the repaired one does too, on every case and not only on those
\* that the preservation suite replays.  (This is about procedures without
\* branches and cohorts that the cap leaves whole.  A case that was served
\* wrongly can be served wrongly still: a search keeps one witness of a kind,
\* and one fault can hide another.)
CertifiedBreaksNothing ==
  LET m == CompileRules(build.new)
  IN  /\ Certified /\ Branchless(build.procedure)
      /\ Uncut(build.new, build.procedure, CohortCap)
      => \A c \in Domain : Agrees(m, build.procedure, c) => Agrees(m, build.patched, c)

\* The two fronts come to the same result on the rules that gate 1 accepted,
\* although the handlers get no ordering to localize with, compile each for
\* itself and check neither the schema nor, unless there is a patch, the old
\* rules: where these conflict, run_build raises.
FrontsAgree ==
  LET Compiles == Verdict(Before(job.old)) = "ok"
      Same(local) ==
        /\ stage = "PERSIST_BUILD" =>
             /\ local.status = "PATCH_VALIDATED"
             /\ <<local.witnesses, local.ops, local.patched, local.validation>>
                  = <<job.witnesses, job.patch.ops, job.patch.wf, job.validation>>
             /\ [local.impact EXCEPT !.affected_nodes = {}] = [job.impact EXCEPT !.affected_nodes = {}]
        /\ stage = "READY" => IF Compiles THEN local.status = "COMPILED" ELSE local = Raised
        /\ stage = "NEEDS_REVIEW" /\ job.new # <<>> =>
             IF Compiles THEN local.status \in {"CONFLICT", "DRIFT_CONFIRMED"} ELSE local = Raised
  IN  SchemaValid(job.procedure) =>
        Same(RunBuild([old |-> job.old, new |-> job.new, procedure |-> job.procedure]))

\* A verification may blame the key (a rule was rejected after it was taken),
\* the certificate of the other front or a nominated witness, never the repair;
\* tests that fail now are those of a nominated witness.
ReverifyBlamesNoRepair ==
  report # None => /\ report \cap {"patched", "ops"} = {}
                   /\ "validation_failed" \in report => "witness_ids" \in report

\* What counts as validated repairs every witness the build shows, also the one
\* that was nominated later.
PassedMeansRepaired ==
  Stored /\ Passes(build.validation) =>
    \A x \in ToSet(build.witnesses) : Agrees(CompileRules(build.new), build.patched, x.case)

\* A nomination that is refused because "the pipeline already covers this case"
\* is refused rightly, the first time: the disagreement that the case shows has
\* its witness.  (A second one is refused whatever it shows: the search numbers
\* its findings anew, and the first took the number.)
RefusedMeansCovered ==
  LET m == CompileRules(build.new)
      Covered(d) == d = NoFault \/ \E x \in ToSet(build.witnesses) : <<x.kind, x.key>> = d
  IN  Stored /\ answer # None =>
        \/ answer.known > Len(FindWitnesses(m, build.procedure, <<>>, WitnessCap))
        \/ Covered(Disagreement(m, build.procedure, answer.case))

\* patcher.py:212 of a move: "Physically splice a before b so re-execution
\* observes the order."  A node that directly followed the one it is a
\* prerequisite of comes before it in the patched procedure, if it is the only
\* one that is moved and no new node was placed before it.  (What lies between
\* two nodes is not moved with them: those moves close a cycle, and so can the
\* second of two moves between neighbours.)
AdjacentMovesAreObserved ==
  LET old == OrderedNodes(job.procedure)
      new == OrderedNodes(job.patch.wf)
      moves == SelectSeq(job.patch.ops, LAMBDA o : o.op = "MOVE_NODE")
      Expected(a) == \A e \in ToSet(job.patch.wf.edges) : e.to = a => e.from \in NodeIds(job.procedure)
      Adjacent(a, b) == moves = <<Op("MOVE_NODE", a)>> /\ Expected(a) /\ IndexOf(old, a) = IndexOf(old, b) + 1
      At(token) == FindNode(job.procedure, old, token)
      Observed(a, b) == Adjacent(a, b) => Contains(new, a) /\ IndexOf(new, a) < IndexOf(new, b)
  IN  stage = "VALIDATE_PATCH" =>
        \A o \in ToSet(CompileRules(job.new).ordering) : Observed(At(o.before), At(o.after))
=============================================================================
