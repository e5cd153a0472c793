------------------------------ MODULE Validation ------------------------------
(***************************************************************************)
(* What is tried before a patch may be shown to a human, and the figures   *)
(* that go with it (services/regression/validator.py, services/impact,     *)
(* services/provenance).  A patch whose graph is not a valid one makes     *)
(* every execution of it raise; Validate is about the others.              *)
(***************************************************************************)
EXTENDS Repair

CONSTANTS
  BoundaryBase,   \* the case that boundary values are put into
  OrderingCase,   \* the case of the ordering suite
  BoundaryCap,    \* boundary values tried for a field (7 in the code)
  CohortCap,      \* cases of the preservation suite (60)
  MetamorphicCap, \* cases of the metamorphic suite (40)
  Grid,           \* field -> list of values of the impact cohort beyond the boundaries
  ImpactSize      \* cases of the impact cohort (100)

ASSUME CohortCapAssumption == CohortCap \in Nat

\* _boundary_values, put into the base case.
BoundaryCases(m, w) ==
  LET Values(f) == Prefix(ByText(f, Neighbors(f, LiteralsOf(m, w, f))), BoundaryCap)
      Cases(f)  == [i \in DOMAIN Values(f) |-> (f :> Values(f)[i]) @@ BoundaryBase]
  IN  FlattenSeq([i \in DOMAIN Fields |-> Cases(Fields[i])])

\* _integrity, of a valid graph, in which every node reaches an end: the results
\* of its checks, and of one for each constraint whose nodes are there.
IntegrityOf(w, order) ==
  LET submits == {IndexOf(order, id) : id \in IdsWhere(w, LAMBDA n : n.action = "submit")}
      late    == IdsWhere(w, LAMBDA n : n.required /\ submits # {}
                                         /\ \A s \in submits : IndexOf(order, n.id) > s)
  IN  <<TRUE, late = {}, TRUE>>
Integrity(w) == IntegrityOf(w, OrderedNodes(w))
PrerequisitesOf(w, m, order) ==
  LET At(token) == FindNode(w, order, token)
      bound == SelectSeq(m.ordering, LAMBDA o : At(o.before) # None /\ At(o.after) # None)
  IN  [i \in DOMAIN bound |-> IndexOf(order, At(bound[i].before)) < IndexOf(order, At(bound[i].after))]
Prerequisites(w, m) == PrerequisitesOf(w, m, OrderedNodes(w))

\* Mutant: only the labels of a relaxation and a tightening are tried.
MutantMetamorphic(delta, oldModel, m, w) ==
  \A c \in ToSet(CandidateCases(m, w, <<>>, MetamorphicCap)) :
    LET old == EvaluateExpected(oldModel, c).eligible
        new == EvaluateExpected(m, c).eligible
    IN  CASE delta.type = "THRESHOLD_RELAXED"   -> old => new
          [] delta.type = "THRESHOLD_TIGHTENED" -> new => old
          [] OTHER -> TRUE

\* What the type of a change promises, on a cohort.
PromiseHolds(delta, oldModel, m, w, cohort) ==
  LET Old(c) == EvaluateExpected(oldModel, c)
      New(c) == EvaluateExpected(m, c)
      Done(c) == Execute(w, c, m.ordering)
      Of(req) == IF delta.action \in DOMAIN req THEN {req[delta.action]} ELSE {}
  IN  CASE delta.type = "THRESHOLD_RELAXED"   -> \A c \in cohort : Old(c).eligible => New(c).eligible
        [] delta.type = "THRESHOLD_TIGHTENED" -> \A c \in cohort : New(c).eligible => Old(c).eligible
        [] delta.type = "DEADLINE_EXTENDED"   -> \A c \in cohort : Old(c).on_time => New(c).on_time
        [] delta.type = "OBLIGATION_REMOVED"  -> \A c \in cohort : TRUE \notin Of(Done(c).required)
        [] delta.type = "EXCEPTION_ADDED" ->
             delta.exception_condition # NoCondition =>
               \A c \in cohort : EvalCondition(delta.exception_condition, c)
                                   \/ \A o \in Of(Old(c).required), n \in Of(New(c).required) : o = n
        [] delta.type = "PROHIBITION_ADDED" ->
             \A c \in cohort : New(c).prohibitions_violated # <<>> /\ New(c).eligible => Done(c).prohibited
        [] delta.type \in {"SEMANTICS_UNCHANGED", "PROVENANCE_ONLY"} ->
             \A c \in cohort : ClassifyDisagreement(Old(c), New(c) @@ [prohibited |-> FALSE,
                                                                      order_ok |-> TRUE]) = NoFault
        [] OTHER -> TRUE

\* _metamorphic
Metamorphic(delta, oldModel, m, w) ==
  PromiseHolds(delta, oldModel, m, w, ToSet(CandidateCases(m, w, <<>>, MetamorphicCap)))

\* A node without its identity and its links: what it does.
Implementation(n) == [n EXCEPT !.links = {}, !.tokens = {}]

\* Every node that was added, or does something else, is linked to a rule.
Sourced(before, after) ==
  \A n \in ToSet(after.nodes) :
    n.links # {} \/ Implementation(n) \in {Implementation(o) : o \in ToSet(before.nodes)}

\* The figures of the results of each suite.  "failed" is the set of the tests
\* that failed, each by its suite and number: the code has their number.
FailedOf(results) ==
  UNION {{<<suite, i>> : i \in {j \in DOMAIN results[suite] : ~results[suite][j]}} : suite \in DOMAIN results}
TotalOf(results) == MapThenSumSet(LAMBDA suite : Len(results[suite]), DOMAIN results)
Tally(results) == [failed |-> FailedOf(results), total |-> TotalOf(results)]
Passes(validation) == validation.failed = {}
Failed(validation) == Cardinality(validation.failed)

\* The suites that replay cases: does the procedure do what the policy asks?
Replay(m, w, cases) == [i \in DOMAIN cases |-> Agrees(m, w, cases[i])]
Preserved(m, w) ==
  LET Right(cases) == Sublist(cases, {i \in DOMAIN cases : Agrees(m, w, cases[i])})
  IN  Right(CandidateCases(m, w, <<>>, CohortCap))
OrderIsRight(m, w) == Execute(w, OrderingCase, m.ordering).order_ok

\* Mutant: what was right before is not replayed.
MutantValidate(witnesses, m, oldModel, patched, original, delta) ==
  Tally([witness       |-> Replay(m, patched, [i \in DOMAIN witnesses |-> witnesses[i].case]),
         boundary      |-> Replay(m, patched, BoundaryCases(m, original)),
         ordering      |-> [i \in DOMAIN m.ordering |-> OrderIsRight(m, patched)],
         integrity     |-> Integrity(patched),
         prerequisites |-> Prerequisites(patched, m),
         metamorphic   |-> <<Metamorphic(delta, oldModel, m, patched)>>,
         provenance    |-> <<Sourced(original, patched)>>])

\* validate
Validate(witnesses, m, oldModel, patched, original, delta) ==
  Tally([witness       |-> Replay(m, patched, [i \in DOMAIN witnesses |-> witnesses[i].case]),
         boundary      |-> Replay(m, patched, BoundaryCases(m, original)),
         unchanged     |-> Replay(m, patched, Preserved(m, original)),
         ordering      |-> [i \in DOMAIN m.ordering |-> OrderIsRight(m, patched)],
         integrity     |-> Integrity(patched),
         prerequisites |-> Prerequisites(patched, m),
         metamorphic   |-> <<Metamorphic(delta, oldModel, m, patched)>>,
         provenance    |-> <<Sourced(original, patched)>>])
-----------------------------------------------------------------------------
\* coverage: the share of linked nodes among those that carry a rule, as a
\* pair of numbers.
Coverage(w) ==
  LET governed == SelectSeq(w.nodes, LAMBDA n : ~(n.kind = "plain" /\ n.action \in {None, "submit"}))
  IN  [linked |-> Len(SelectSeq(governed, LAMBDA n : n.links # {})), governed |-> Len(governed)]

\* synthetic_cohort: boundary cases first, then cases of a fixed grid.
SyntheticCohort(m, w) ==
  LET Known(boundary) == SelectSeq(Fields, LAMBDA f : f \in DOMAIN boundary[1] /\ Grid[f] # <<>>)
      More(boundary)  == SelectSeq(Product(Known(boundary), Grid), LAMBDA c : ~Contains(boundary, c))
      Extended(boundary, more) == Prefix(boundary \o [i \in DOMAIN more |-> more[i] @@ Base], ImpactSize)
      Cohort(boundary) == Extended(boundary, More(boundary))
  IN  Cohort(CandidateCases(m, w, <<>>, ImpactSize))

\* What changes for the cases of a cohort: who is eligible, whom both procedures
\* serve as the policy says, and how long the journeys are.
CohortImpact(cohort, before, after, m, oldModel) ==
  LET Eligible(model) == {i \in DOMAIN cohort : EvaluateExpected(model, cohort[i]).eligible}
      Served(w)   == {i \in DOMAIN cohort : Agrees(m, w, cohort[i])}
      Journeys(w) == [i \in DOMAIN cohort |-> Execute(w, cohort[i], m.ordering).length]
      Compare(old, new, same, from, to) ==
        [cohort_size      |-> Len(cohort),
         newly_eligible   |-> Cardinality(new \ old),
         newly_ineligible |-> Cardinality(old \ new),
         shorter_journeys |-> Cardinality({i \in DOMAIN cohort \ same : to[i] < from[i]}),
         longer_journeys  |-> Cardinality({i \in DOMAIN cohort \ same : to[i] > from[i]}),
         unchanged        |-> Cardinality(same \cup {i \in DOMAIN cohort : to[i] = from[i]})]
  IN  Compare(Eligible(oldModel), Eligible(m), Served(before) \cap Served(after),
              Journeys(before), Journeys(after))

\* The number of witnesses of each kind.
Behavioral(witnesses) ==
  [k \in {"wrong_rejection", "wrong_acceptance", "unnecessary_burden", "missing_safeguard",
          "wrong_journey", "deadline_mismatch", "prohibition_breach"} |->
     Len(SelectSeq(witnesses, LAMBDA x : x.kind = k))]

\* compute_impact_summary: who is affected, of the verified witnesses and of
\* the cohort.  The other procedures of a registry are not modelled.
ImpactSummary(delta, witnesses, faults, validation, before, after, m, oldModel) ==
  [semantic_changes |-> Cardinality(delta.affected),
   behavioral       |-> Behavioral(witnesses),
   affected_nodes   |-> UNION {f.nodes : f \in ToSet(faults)},
   cohort           |-> CohortImpact(SyntheticCohort(m, before), before, after, m, oldModel),
   tests_before     |-> Len(witnesses),
   tests_after      |-> validation,
   coverage         |-> Coverage(after)]

\* approval_guardrails, of a build whose rule reviews are resolved.
Approvable(validation, impact) ==
  /\ Passes(validation)
  /\ impact.coverage.linked = impact.coverage.governed
=============================================================================
