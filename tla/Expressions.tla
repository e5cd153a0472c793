----------------------------- MODULE Expressions -----------------------------
(***************************************************************************)
(* Conditions of rules and of workflow nodes (services/workflow/expr.py).  *)
(*                                                                         *)
(* A case gives some fields a value.  The values of a field lie on a line  *)
(* (grades, amounts, dates: literals two or more apart, with the values a  *)
(* boundary test uses between them) or form an enumeration, whose members  *)
(* are only compared for equality.  A comparison carries the set of its    *)
(* literals: one, or the members of an IN or NOT_IN list.                  *)
(***************************************************************************)
EXTENDS Integers

CONSTANTS
  None,  \* no node, no action, no field, no rule
  Enums  \* the fields whose values are names and have no neighbours

\* A missing condition, and one without field and operator (a prerequisite).
NoCondition == [op |-> "none"]

Comparison(field, op, values) == [op |-> op, field |-> field, values |-> values]
AllOf(conds) == [op |-> "and", args |-> conds]
AnyOf(conds) == [op |-> "or", args |-> conds]
NoneOf(cond)  == [op |-> "not", args |-> {cond}]

Connectives == {"and", "or", "not"}
Operators == {">", ">=", "<", "<=", "==", "!=", "IN", "NOT_IN"}

\* The conditions with connectives at most ConditionDepth deep.  A patch puts
\* three of them around conditions of the policy.
ConditionDepth == 5
Nested[depth \in Nat] ==
  {NoCondition} \cup [op : Operators, field : STRING, values : SUBSET Int]
    \cup (IF depth = 0 THEN {} ELSE [op : Connectives, args : SUBSET Nested[depth - 1]])
Conditions == Nested[ConditionDepth]

\* OPS: what a comparison asks of the case's value.
Satisfies(x, cond) ==
  CASE cond.op = ">"      -> \A v \in cond.values : x > v
    [] cond.op = ">="     -> \A v \in cond.values : x >= v
    [] cond.op = "<"      -> \A v \in cond.values : x < v
    [] cond.op = "<="     -> \A v \in cond.values : x <= v
    [] cond.op \in {"==", "IN"}     -> x \in cond.values
    [] cond.op \in {"!=", "NOT_IN"} -> x \notin cond.values

\* eval_condition: a field the case does not have satisfies no comparison.
EvalCondition(cond, case) ==
  LET Holds[c \in Conditions] ==
        CASE c.op = "none" -> TRUE
          [] c.op = "and"  -> \A a \in c.args : Holds[a]
          [] c.op = "or"   -> \E a \in c.args : Holds[a]
          [] c.op = "not"  -> \A a \in c.args : ~Holds[a]
          [] OTHER         -> c.field \in DOMAIN case /\ Satisfies(case[c.field], c)
  IN  Holds[cond]

\* iter_comparisons: the comparisons at the leaves of a condition.
IterComparisons(cond) ==
  LET Leaves[c \in Conditions] ==
        CASE c.op = "none"        -> {}
          [] c.op \in Connectives -> UNION {Leaves[a] : a \in c.args}
          [] OTHER                -> {c}
  IN  Leaves[cond]

\* Mutant: no candidate above a literal.
MutantNeighbors(field, literals) ==
  IF field \in Enums THEN literals ELSE UNION {{l - 1, l} : l \in literals}

\* neighbors: the boundary candidates around the literals of a field.
Neighbors(field, literals) ==
  IF field \in Enums THEN literals
                     ELSE UNION {{l - 1, l, l + 1} : l \in literals}
=============================================================================
