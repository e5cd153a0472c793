------------------------------ MODULE Diagnosis ------------------------------
(***************************************************************************)
(* Where a procedure disagrees with a model and which nodes are to blame   *)
(* (services/semantic_diff, services/witness, services/localizer).         *)
(***************************************************************************)
EXTENDS Rules, Workflow, TLC

CONSTANTS
  Fields,       \* the fields of cases, in the order of their names
  Actions,      \* the actions of forms, in the order of their names
  Base,         \* a value for the fields that every case has
  Defaults,     \* field -> values that are tried beside the boundaries, if any
  TextRank(_, _),  \* of a field and a value: where its text is in the order of texts
  ScoreFields   \* the fields by which an eligibility gate is looked up

NoFault == <<None, None>>

\* classify_disagreement: the kind and the key of what is wrong, or NoFault.
\* The model expects every order to be right.
ClassifyDisagreement(e, a) ==
  LET Needs(req, x) == x \in DOMAIN req /\ req[x]
      uneven  == SelectSeq(Actions, LAMBDA x : Needs(e.required, x) # Needs(a.required, x))
      journey == IF a.order_ok THEN NoFault ELSE <<"wrong_journey", "order">>
  IN  IF e.eligible # a.eligible
      THEN <<IF e.eligible THEN "wrong_rejection" ELSE "wrong_acceptance", "eligible">>
      ELSE IF e.on_time # a.on_time THEN <<"deadline_mismatch", "on_time">>
      ELSE IF e.prohibitions_violated # <<>> /\ ~a.prohibited /\ e.eligible
      THEN <<"prohibition_breach", Head(e.prohibitions_violated)>>
      ELSE IF ~e.eligible \/ uneven = <<>> THEN journey
      ELSE <<IF Needs(a.required, uneven[1]) THEN "unnecessary_burden" ELSE "missing_safeguard", uneven[1]>>

Disagreement(m, w, case) == ClassifyDisagreement(EvaluateExpected(m, case), Execute(w, case, m.ordering))
Agrees(m, w, case) == Disagreement(m, w, case) = NoFault
-----------------------------------------------------------------------------
\* _literals_per_field: the comparisons whose literals count.  The conditions
\* on the edges of the procedure are not looked at.
Literals(m, w) ==
  LET Tests(n) == (IF n.kind \in Gates THEN {n.test} ELSE {}) \cup IterComparisons(n.when)
      In(seq)  == UNION {IterComparisons(seq[i].condition) : i \in DOMAIN seq}
  IN  UNION {In(m.eligibility), In(m.exceptions), In(m.deadlines), In(m.prohibitions),
             UNION {IterComparisons(m.obligations[a].condition) : a \in DOMAIN m.obligations},
             UNION {Tests(w.nodes[i]) : i \in DOMAIN w.nodes}}
LiteralsOf(m, w, f) == UNION {c.values : c \in {x \in Literals(m, w) : x.field = f}}

\* The members of a set of numbers, from the least one.
Ascending(S) == [i \in 1..Cardinality(S) |-> CHOOSE v \in S : Cardinality({u \in S : u <= v}) = i]

\* sorted(values, key=str): the values of a field in the order of their texts.
\* "12" comes before "3".
ByText(f, S) ==
  [i \in 1..Cardinality(S) |->
     CHOOSE v \in S : Cardinality({u \in S : TextRank(f, u) <= TextRank(f, v)}) = i]

\* What a list has at some of its places.
Sublist(seq, places) ==
  LET In(order) == [n \in DOMAIN order |-> seq[order[n]]]
  IN  In(Ascending(places))

\* itertools.product: all ways to give the fields one of the values on their
\* lists, the last field varying first.
Times(field, values, rest) ==
  LET With(v) == [i \in DOMAIN rest |-> (field :> v) @@ rest[i]]
  IN  FlattenSeq([i \in DOMAIN values |-> With(values[i])])
Product(fields, listOf) ==
  LET OfLast[n \in Nat] ==  \* of the last n fields
        IF n = 0 THEN << <<>> >>
        ELSE Times(fields[Len(fields) - n + 1], listOf[fields[Len(fields) - n + 1]], OfLast[n - 1])
  IN  OfLast[Len(fields)]

\* The first n of a sequence, or as many as it has.
Prefix(seq, n) == [i \in 1..Cardinality((1..n) \cap DOMAIN seq) |-> seq[i]]

\* candidate_cases: boundary and default values of the fields with literals,
\* in all combinations, as many as the cap allows in the order of their texts;
\* and the cases on top.
Combinations(m, w) ==
  LET Values(f) == ByText(f, Neighbors(f, LiteralsOf(m, w, f)) \cup Defaults[f])
      Of(used)  == Product(used, [f \in ToSet(used) |-> Values(f)])
  IN  Of(SelectSeq(Fields, LAMBDA f : LiteralsOf(m, w, f) # {}))
Completed(combos) == [i \in DOMAIN combos |-> combos[i] @@ Base]
CandidateCases(m, w, extra, cap) == Completed(Prefix(Combinations(m, w), cap)) \o extra

\* Where a kind and key of disagreement turns up for the first time.
FirstFound(found) ==
  {i \in DOMAIN found : found[i] # NoFault /\ \A j \in 1..(i - 1) : found[j] # found[i]}

\* The witnesses among cases of which these disagreements were found.
WitnessesAmong(cases, found) ==
  Sublist([i \in DOMAIN cases |-> [kind |-> found[i][1], key |-> found[i][2], case |-> cases[i]]],
          FirstFound(found))

\* find_witnesses: the first case of each kind and key of disagreement.  The
\* number of a witness is its place.
Disagreements(m, w, cases) == [i \in DOMAIN cases |-> Disagreement(m, w, cases[i])]
FindWitnesses(m, w, extra, cap) ==
  LET Search(cases) == WitnessesAmong(cases, Disagreements(m, w, cases))
  IN  Search(CandidateCases(m, w, extra, cap))
-----------------------------------------------------------------------------
IdsWhere(w, Test(_)) == {n.id : n \in {x \in ToSet(w.nodes) : Test(x)}}
GateKinds == {"threshold_gate", "deadline_gate"}

\* localize: the nodes that a witness puts under suspicion.  The handler of the
\* cloud passes no ordering.
Localize(witness, w, ordering) ==
  LET score   == SelectSeq(Fields, LAMBDA f : f \in ScoreFields \cap DOMAIN witness.case)
      gates   == IdsWhere(w, LAMBDA n : n.kind \in GateKinds)
      scored  == IdsWhere(w, LAMBDA n : n.kind \in GateKinds /\ (score = <<>> \/ n.test.field = score[1]))
      ordered == {FindNode(w, OrderedNodes(w), t) :
                    t \in UNION {{ordering[i].before, ordering[i].after} : i \in DOMAIN ordering}} \ {None}
  IN  CASE witness.kind \in {"wrong_rejection", "wrong_acceptance"} ->
             IF scored = {} THEN {"NODE-ELIGIBILITY"} ELSE scored
        [] witness.kind \in {"unnecessary_burden", "missing_safeguard"} ->
             IdsWhere(w, LAMBDA n : n.action = witness.key)
        [] witness.kind = "deadline_mismatch" -> IF gates = {} THEN {w.nodes[1].id} ELSE gates
        [] witness.kind = "prohibition_breach" -> IdsWhere(w, LAMBDA n : n.kind = "prohibition_gate")
        [] OTHER -> IF ordered # {} THEN ordered
                    ELSE IdsWhere(w, LAMBDA n : n.kind = "approval" \/ n.action = "submit")

\* localize_all
LocalizeAll(witnesses, w, ordering) ==
  [i \in DOMAIN witnesses |-> [kind |-> witnesses[i].kind, key |-> witnesses[i].key,
                               nodes |-> Localize(witnesses[i], w, ordering)]]
=============================================================================
