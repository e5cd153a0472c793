-------------------------------- MODULE Rules --------------------------------
(***************************************************************************)
(* From Rule IR to a constraint model, what the model expects of a case,   *)
(* and the typed difference of two rule sets                               *)
(* (services/compiler/compiler.py, services/normalizer/normalizer.py).     *)
(*                                                                         *)
(* A rule is a record: rule_id, kind, action, condition, before and after  *)
(* (of a prerequisite), section (of its provenance), sourced (it quotes    *)
(* the policy) and status.                                                 *)
(***************************************************************************)
EXTENDS Expressions, Sequences, FiniteSets, SequencesExt

CONSTANTS
  Wildcard  \* the action of an exception that waives every obligation

ValidKinds == {"threshold", "obligation", "conditional_obligation", "prohibition",
               "prerequisite", "exception", "deadline"}

OfKind(rules, kind) == SelectSeq(rules, LAMBDA r : r.kind = kind)
MapSeq(F(_), seq) == [i \in DOMAIN seq |-> F(seq[i])]

\* validate_rule, for every rule: what normalize lets through.
Normal(rules) ==
  \A i \in DOMAIN rules : /\ rules[i].kind \in ValidKinds
                          /\ rules[i].sourced
                          /\ rules[i].kind = "conditional_obligation" => rules[i].condition # NoCondition
-----------------------------------------------------------------------------
Lower == {">", ">="}
Upper == {"<", "<="}
FieldOf(r) ==
  IF r.condition.op \in Connectives \cup {"none"} THEN None ELSE r.condition.field

\* _threshold_domain: can one value satisfy the conditions?  Bounds and
\* equalities are weighed, memberships only against equalities.
ThresholdDomain(conds) ==
  LET equals  == {c \in conds : c.op = "=="}
      allowed == {c \in conds : c.op = "IN"}
      Meets(l, u) == \A v \in l.values, x \in u.values :
                       v < x \/ (v = x /\ l.op = ">=" /\ u.op = "<=")
  IN  /\ \A c, d \in equals : c.values = d.values
      /\ \A c \in equals, b \in conds : \A v \in c.values :
           b.op \in Lower \cup Upper \cup {"IN"} => Satisfies(v, b)
      /\ equals = {} => /\ \A l, u \in conds : l.op \in Lower /\ u.op \in Upper => Meets(l, u)
                        /\ \A a \in allowed : \E v \in a.values : \A b \in allowed : v \in b.values

\* Two lower or two upper bounds of one field: nothing says which one rules.
Ambiguous(conds) ==
  \E side \in {Lower, Upper} : \E c, d \in conds : c # d /\ {c.op, d.op} \subseteq side

Active(rules) == SelectSeq(rules, LAMBDA r : r.status = "active")
Thresholds(rules, field) ==
  {r.condition : r \in {x \in ToSet(OfKind(Active(rules), "threshold")) : FieldOf(x) = field}}
ThresholdFields(rules) == {FieldOf(r) : r \in ToSet(OfKind(Active(rules), "threshold"))} \ {None}

\* Why compile_rules refuses a rule set, "ok" when it does not.
Verdict(rules) ==
  IF \E f \in ThresholdFields(rules) :
       Ambiguous(Thresholds(rules, f)) \/ ~ThresholdDomain(Thresholds(rules, f))
  THEN "CONFLICT"
  ELSE IF \E i \in DOMAIN rules : /\ rules[i].status = "active"
                                  /\ rules[i].kind = "conditional_obligation"
                                  /\ rules[i].condition = NoCondition
  THEN "NEEDS_REVIEW"
  ELSE "ok"

\* compile_rules, of a rule set that it does not refuse.  The last obligation
\* for an action counts; "actions" is the order of the obligations.
CompileRules(rules) ==
  LET on == Active(rules)
      obliging == SelectSeq(on, LAMBDA r : r.kind \in {"obligation", "conditional_obligation"})
      Obligation(a) == Last(SelectSeq(obliging, LAMBDA r : r.action = a))
      Note(seq, r) == IF Contains(seq, r.action) THEN seq ELSE Append(seq, r.action)
      Clause(r) == [condition |-> r.condition, rule |-> r.rule_id]
  IN  [eligibility  |-> MapSeq(Clause, OfKind(on, "threshold")),
       obligations  |-> [a \in {r.action : r \in ToSet(obliging)} |->
                           [conditional |-> Obligation(a).kind = "conditional_obligation",
                            condition   |-> IF Obligation(a).kind = "obligation" THEN NoCondition
                                            ELSE Obligation(a).condition,
                            rule        |-> Obligation(a).rule_id]],
       actions      |-> FoldLeft(Note, <<>>, obliging),
       exceptions   |-> OfKind(on, "exception"),
       prohibitions |-> MapSeq(Clause, OfKind(on, "prohibition")),
       ordering     |-> OfKind(on, "prerequisite"),
       deadlines    |-> MapSeq(Clause, OfKind(on, "deadline"))]

\* The exceptions that can waive an action.
Waiving(m, action) ==
  {e \in ToSet(m.exceptions) : e.action \in {action, Wildcard, None}}

\* required_for
RequiredFor(m, action, case) ==
  /\ m.obligations[action].conditional => EvalCondition(m.obligations[action].condition, case)
  /\ \A e \in Waiving(m, action) : ~EvalCondition(e.condition, case)

\* evaluate_expected
EvaluateExpected(m, case) ==
  LET Holds(seq) == \A i \in DOMAIN seq : EvalCondition(seq[i].condition, case)
      violated   == SelectSeq(m.prohibitions, LAMBDA p : EvalCondition(p.condition, case))
  IN  [eligible |-> Holds(m.eligibility),
       on_time  |-> Holds(m.deadlines),
       required |-> [a \in DOMAIN m.obligations |-> RequiredFor(m, a, case)],
       prohibitions_violated |-> [i \in DOMAIN violated |-> violated[i].rule]]
-----------------------------------------------------------------------------
\* _key: what makes two rules the same rule.
SameRule(r, s) ==
  \A f \in {"kind", "action", "condition", "before", "after"} : r[f] = s[f]
SameFamily(r, s) == r.kind = s.kind /\ r.action = s.action
SameField(r, s) == FieldOf(r) = FieldOf(s)

\* The dict {_key(r): r}: of rules that are the same the last one, at the place
\* of the first.
Keyed(rules) ==
  LET Put(seq, r) == IF \E i \in DOMAIN seq : SameRule(seq[i], r)
                     THEN [i \in DOMAIN seq |-> IF SameRule(seq[i], r) THEN r ELSE seq[i]]
                     ELSE Append(seq, r)
  IN  FoldLeft(Put, <<>>, rules)

\* The rules of the first list that the second does not have.
Without(rules, others) ==
  SelectSeq(rules, LAMBDA r : ~\E i \in DOMAIN others : SameRule(r, others[i]))

\* _threshold_cmp, of a bound and its successor.
ThresholdCmp(old, new) ==
  IF ~({old.op, new.op} \subseteq Lower \/ {old.op, new.op} \subseteq Upper)
  THEN "CONDITION_CHANGED"
  ELSE LET o == CHOOSE v \in old.values : TRUE
           n == CHOOSE v \in new.values : TRUE
       IN  IF n = o THEN "CONDITION_CHANGED"
           ELSE IF (n < o) = (old.op \in Lower) THEN "THRESHOLD_RELAXED" ELSE "THRESHOLD_TIGHTENED"

First(seq) == IF seq = <<>> THEN None ELSE Head(seq)

\* The change that an added rule makes.
ChangeOf(r, old, removed) ==
  LET family  == SelectSeq(old, LAMBDA o : SameFamily(o, r))
      sibling == IF family # <<>> /\ SameField(Last(family), r) THEN Last(family)
                 ELSE First(SelectSeq(removed, LAMBDA o : o.kind = "threshold" /\ SameField(o, r)))
      deadline == First(OfKind(removed, "deadline"))
  IN  CASE r.kind = "threshold" ->
             IF sibling = None THEN "THRESHOLD_ADDED" ELSE ThresholdCmp(sibling.condition, r.condition)
        [] r.kind = "obligation" -> "OBLIGATION_ADDED"
        [] r.kind = "conditional_obligation" ->
             IF \E i \in DOMAIN removed : removed[i].action = r.action
             THEN "CONDITION_CHANGED" ELSE "OBLIGATION_ADDED"
        [] r.kind = "exception"    -> "EXCEPTION_ADDED"
        [] r.kind = "prerequisite" -> "PREREQUISITE_ADDED"
        [] r.kind = "prohibition"  -> "PROHIBITION_ADDED"
        [] r.kind = "deadline" ->
             IF deadline = None \/ deadline.condition.values = r.condition.values THEN "DEADLINE_ADDED"
             ELSE IF \A v \in r.condition.values, o \in deadline.condition.values : v > o
                  THEN "DEADLINE_EXTENDED" ELSE "DEADLINE_TIGHTENED"

\* The change that a removed rule makes.  The removal of a threshold, a
\* deadline, a prohibition or a conditional obligation makes none.
RemovalOf(r, added) ==
  CASE r.kind = "obligation" /\ ~\E i \in DOMAIN added : added[i].action = r.action ->
         {"OBLIGATION_REMOVED"}
    [] r.kind = "exception" /\ OfKind(added, "exception") = <<>> -> {"EXCEPTION_REMOVED"}
    [] r.kind = "prerequisite" /\ OfKind(added, "prerequisite") = <<>> -> {"PREREQUISITE_REMOVED"}
    [] OTHER -> {}

\* The type of a change, of the changes that it is made of.
TypeOf(changes, old, new) ==
  IF Without(new, old) = <<>> /\ Without(old, new) = <<>>
  THEN IF \E i \in DOMAIN old, j \in DOMAIN new : SameRule(old[i], new[j]) /\ old[i].section # new[j].section
       THEN "PROVENANCE_ONLY" ELSE "SEMANTICS_UNCHANGED"
  ELSE IF Cardinality(changes) > 1 THEN "COMPOUND"
  ELSE IF changes = {} THEN "SEMANTICS_UNCHANGED" ELSE CHOOSE c \in changes : TRUE

\* semantic_rule_delta; "affected" holds the rules named by a change.
SemanticRuleDelta(old, new) ==
  LET Changes(added, removed) ==
        {ChangeOf(r, old, removed) : r \in ToSet(added)} \cup UNION {RemovalOf(r, added) : r \in ToSet(removed)}
      Delta(type, added, removed) ==
        [type       |-> type,
         behavioral |-> added # <<>> \/ removed # <<>>,
         added      |-> [i \in DOMAIN added |-> added[i].rule_id],
         affected   |-> {r.rule_id : r \in ToSet(added) \cup {x \in ToSet(removed) : RemovalOf(x, added) # {}}},
         action     |-> CASE type = "OBLIGATION_REMOVED" -> removed[1].action
                          [] type \in {"EXCEPTION_ADDED", "CONDITION_CHANGED"} -> added[1].action
                          [] OTHER -> None,
         exception_condition |-> IF type = "EXCEPTION_ADDED" THEN added[1].condition ELSE NoCondition]
      Compare(added, removed) == Delta(TypeOf(Changes(added, removed), Keyed(old), Keyed(new)), added, removed)
  IN  Compare(Without(Keyed(new), old), Without(Keyed(old), new))
=============================================================================
