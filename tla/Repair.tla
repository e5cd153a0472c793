------------------------------- MODULE Repair -------------------------------
(***************************************************************************)
(* The patch that is proposed for a set of faults                          *)
(* (services/patcher/patcher.py).  A patch in the making is the procedure  *)
(* so far, "wf", and the operations, "ops", each with its node.            *)
(***************************************************************************)
EXTENDS Diagnosis

CONSTANTS
  Fallback  \* the values required_for_action falls back on

Kinds(faults) == {faults[i].kind : i \in DOMAIN faults}
\* The actions that are a burden on someone without need.
Burdens(faults) == {faults[i].key : i \in {j \in DOMAIN faults : faults[j].kind = "unnecessary_burden"}}
Op(name, id) == [op |-> name, node |-> id]

\* _cost
CostOf(ops) ==
  LET Of(names) == Len(SelectSeq(ops, LAMBDA o : o.op \in names))
  IN  3 * Of({"ADD_NODE", "MOVE_NODE"}) + Of({"ADD_EDGE", "REMOVE_EDGE"})
        + 2 * Of({"CHANGE_CONDITION", "ADD_GATE", "ADD_PREREQUISITE"}) + Of({"CHANGE_REQUIRED_FLAG"})

\* Rewrite the nodes in place; Ops says what is noted about a changed one.
Rewrite(p, New(_), Ops(_)) ==
  LET nodes == p.wf.nodes
      Noted(i) == IF New(nodes[i]) = nodes[i] THEN <<>> ELSE Ops(New(nodes[i]))
  IN  [wf  |-> [p.wf EXCEPT !.nodes = [i \in DOMAIN nodes |-> New(nodes[i])]],
       ops |-> p.ops \o FlattenSeq([i \in DOMAIN nodes |-> Noted(i)])]

Node(id, kind, test, tokens, rule) ==
  [id |-> id, kind |-> kind, test |-> test, action |-> None, required |-> FALSE,
   when |-> NoCondition, tokens |-> tokens, links |-> {rule}]
Edge(from, to) == [from |-> from, to |-> to, type |-> "NEXT", condition |-> NoCondition]

\* The new node comes between the target and all that led to it.
Interpose(p, id, target) ==
  LET Leads(e) == e.to = target /\ e.from # id
      Led(leading) ==
        [wf  |-> [p.wf EXCEPT !.edges = SelectSeq(@, LAMBDA e : ~Leads(e))
                                          \o [i \in DOMAIN leading |-> Edge(leading[i].from, id)]
                                          \o <<Edge(id, target)>>],
         ops |-> p.ops \o FlattenSeq([i \in DOMAIN leading |-> <<Op("ADD_EDGE", id), Op("REMOVE_EDGE", id)>>])
                       \o <<Op("ADD_EDGE", id)>>]
  IN  Led(SelectSeq(p.wf.edges, Leads))

\* _splice_before: the new node comes before the target; without a target it
\* follows the anchor, if there is to be one.
SpliceBefore(p, anchored, id, role) ==
  LET others == Starts(p.wf) \ {id}
      After(anchor) == [wf  |-> [p.wf EXCEPT !.edges = Append(@, Edge(anchor, id))],
                          ops |-> Append(p.ops, Op("ADD_EDGE", id))]
      Place(target) ==
        CASE target # None -> Interpose(p, id, target)
          [] target = None /\ anchored /\ "NODE-START" \in NodeIds(p.wf) -> After("NODE-START")
          [] target = None /\ anchored /\ "NODE-START" \notin NodeIds(p.wf) /\ others # {} ->
               After(CHOOSE s \in others : TRUE)
          [] OTHER -> p
  IN  Place(FindNode(p.wf, OrderedNodes(p.wf), role))

\* A new node, placed before the node with the given role.
AddNode(p, op, node, anchored, role) ==
  SpliceBefore([wf  |-> [p.wf EXCEPT !.nodes = Append(@, node)],
                ops |-> Append(p.ops, Op(op, node.id))], anchored, node.id, role)
-----------------------------------------------------------------------------
\* 1: the gates of the procedure get the bound that the model has last for
\* their field.
AlignGates(m, p) ==
  LET bounds == SelectSeq(m.eligibility, LAMBDA c : FieldOf(c) # None) \o m.deadlines
      Bound(n) == SelectSeq(bounds, LAMBDA c : n.kind \in GateKinds /\ FieldOf(c) = n.test.field)
      Aligned(n) == IF Bound(n) = <<>> \/ Last(Bound(n)).condition = n.test THEN n
                    ELSE [n EXCEPT !.test = Last(Bound(n)).condition, !.links = {Last(Bound(n)).rule}]
  IN  Rewrite(p, Aligned, LAMBDA n : <<Op("CHANGE_CONDITION", n.id)>>)

\* When a step is required, its exceptions folded into the condition.
RequiredWhen(m, action) ==
  LET o    == m.obligations[action]
      excs == {e.condition : e \in Waiving(m, action)} \ {NoCondition}
      exc  == NoneOf(IF Cardinality(excs) = 1 THEN CHOOSE c \in excs : TRUE ELSE AnyOf(excs))
  IN  IF excs = {} THEN o.condition
      ELSE IF ~o.conditional THEN exc ELSE AllOf({o.condition, exc})

\* 2: the forms of the procedure get the requirement of the model.
AlignSteps(m, p) ==
  LET Aligned(n) ==
        IF n.kind # "form" \/ n.action \notin DOMAIN m.obligations THEN n
        ELSE LET new == [n EXCEPT !.required = TRUE, !.when = RequiredWhen(m, n.action)]
             IN  IF new = n THEN n ELSE [new EXCEPT !.links = {m.obligations[n.action].rule}]
      Noted(n) == <<Op("CHANGE_REQUIRED_FLAG", n.id)>>
                    \o (IF n.when = NoCondition THEN <<>> ELSE <<Op("ADD_GATE", n.id)>>)
  IN  Rewrite(p, Aligned, Noted)

\* 2c: a burden that no rule obliges any more is lifted.
LiftBurdens(m, burdens, p) ==
  LET obsolete == SelectSeq(Actions, LAMBDA a : a \notin DOMAIN m.obligations /\ a \in burdens)
      Lifted(n, a) == IF n.action = a /\ n.required THEN [n EXCEPT !.required = FALSE, !.when = NoCondition]
                      ELSE n
      Lift(q, a) == Rewrite(q, LAMBDA n : Lifted(n, a), LAMBDA n : <<Op("CHANGE_REQUIRED_FLAG", n.id)>>)
  IN  FoldLeft(Lift, p, obsolete)

\* required_for_action: is the step required of a probe taken from the
\* obligation's own bounds?
CouldRequire(m, action) ==
  LET o      == m.obligations[action]
      bounds == {c \in IterComparisons(o.condition) : c.op \in Lower \cup Upper \cup {"=="}}
      bound(f) == CHOOSE c \in bounds : c.field = f
      Try(c)   == (CHOOSE v \in c.values : TRUE) - (IF c.op = "<" THEN 1 ELSE 0)
      probe    == [f \in {c.field : c \in bounds} |-> Try(bound(f))] @@ Fallback
  IN  ~o.conditional \/ RequiredFor(m, action, probe)

\* 2b: a form for each obligation that no node carries out.
AddSteps(m, p) ==
  LET missing == SelectSeq(m.actions, LAMBDA a : /\ ~\E n \in ToSet(p.wf.nodes) : n.action = a
                                               /\ CouldRequire(m, a))
      Form(a) == [Node("NODE-" \o a, "form", NoCondition, {a}, m.obligations[a].rule) EXCEPT
                    !.action = a, !.required = TRUE, !.when = m.obligations[a].condition]
  IN  FoldLeft(LAMBDA q, a : AddNode(q, "ADD_NODE", Form(a), FALSE, "submit"), p, missing)

\* The order of nodes with one of them moved to just before another.
MoveBefore(ids, a, b) ==
  LET rest == SelectSeq(ids, LAMBDA id : id # a)
  IN  InsertAt(rest, IndexOf(rest, b), a)

\* Where the edges are that lead to the target b from elsewhere, from the moved
\* node a to elsewhere, and from one of the two to the other.
IntoTarget(edges, a, b) == {i \in DOMAIN edges : edges[i].to = b /\ edges[i].from # a}
OutOfMoved(edges, a, b) == {i \in DOMAIN edges : edges[i].from = a /\ edges[i].to # b}
Between(edges, a, b)    == {i \in DOMAIN edges : {edges[i].from, edges[i].to} = {a, b}}

\* The edges at some places stay, a comes in where b did and b goes on where a
\* did.
Spliced(edges, staying, a, b) ==
  LET Replace(toB, fromA) ==
        Sublist(edges, staying) \o [i \in DOMAIN toB |-> Edge(toB[i].from, a)] \o <<Edge(a, b)>>
          \o [i \in DOMAIN fromA |-> Edge(b, fromA[i].to)]
  IN  Replace(Sublist(edges, IntoTarget(edges, a, b)), Sublist(edges, OutOfMoved(edges, a, b)))

\* Mutant: the edges between the two are kept.
MutantSwap(p, a, b) ==
  LET edges == p.wf.edges
      staying == DOMAIN edges \ (IntoTarget(edges, a, b) \cup OutOfMoved(edges, a, b))
  IN  [wf  |-> [p.wf EXCEPT !.edges = Spliced(@, staying, a, b)],
       ops |-> p.ops \o <<Op("MOVE_NODE", a), Op("ADD_PREREQUISITE", a)>>]

\* 3, the prerequisite a comes after its target b: a changes places with b.
\* What lies between them is left where it is.
Swap(p, a, b) ==
  LET edges == p.wf.edges
      staying == DOMAIN edges \ (IntoTarget(edges, a, b) \cup OutOfMoved(edges, a, b) \cup Between(edges, a, b))
      Replaced(places, id) ==
        FlattenSeq([i \in 1..Cardinality(places) |-> <<Op("ADD_EDGE", id), Op("REMOVE_EDGE", id)>>])
  IN  [wf  |-> [p.wf EXCEPT !.edges = Spliced(@, staying, a, b)],
       ops |-> p.ops \o <<Op("MOVE_NODE", a), Op("ADD_PREREQUISITE", a)>>
                 \o (IF \E e \in ToSet(edges) : e.from = b /\ e.to = a THEN <<Op("REMOVE_EDGE", b)>> ELSE <<>>)
                 \o Replaced(IntoTarget(edges, a, b), a) \o <<Op("ADD_EDGE", a)>>
                 \o Replaced(OutOfMoved(edges, a, b), b)]

\* 3: every constraint is looked at in the order that the nodes had before
\* the first of them, save for the moves made since ("ids").
Reorder(m, p) ==
  LET order == OrderedNodes(p.wf)
      Missing(o) == Node("NODE-" \o o.before, "approval", NoCondition, {o.before}, o.rule_id)
      Precede(acc, o, a, b) ==
        CASE a # None /\ b # None /\ IndexOf(acc.ids, a) > IndexOf(acc.ids, b) ->
               [p |-> Swap(acc.p, a, b), ids |-> MoveBefore(acc.ids, a, b)]
          [] a = None /\ b # None ->
               [acc EXCEPT !.p = AddNode(@, "ADD_NODE", Missing(o), FALSE, o.after),
                           !.p.ops = Append(@, Op("ADD_PREREQUISITE", Missing(o).id))]
          [] OTHER -> acc
      Enforce(acc, o) == Precede(acc, o, FindNode(p.wf, order, o.before), FindNode(p.wf, order, o.after))
  IN  FoldLeft(Enforce, [p |-> p, ids |-> order], m.ordering).p

\* The fields that gates of a kind look at.
GateFields(w, kind) == {n.test.field : n \in {x \in ToSet(w.nodes) : x.kind = kind}}

\* 4: a gate for each deadline on a field that no deadline gate looks at.  All
\* of them get the same id.
AddDeadlines(m, p) ==
  LET missing == SelectSeq(m.deadlines, LAMBDA d : FieldOf(d) \notin GateFields(p.wf, "deadline_gate"))
      Gate(d) == Node("NODE-DEADLINE-GATE", "deadline_gate", d.condition, {"deadline"}, d.rule)
  IN  FoldLeft(LAMBDA q, d : AddNode(q, "ADD_NODE", Gate(d), TRUE, "submit"), p, missing)

\* 4b: a gate for each field with an exclusion that no gate of it states.
AddExclusions(m, p) ==
  LET Excluded(w, f) == \E n \in ToSet(w.nodes) :
                          n.kind = "threshold_gate" /\ n.test.field = f /\ n.test.op = "NOT_IN"
      Gate(c) == Node("NODE-EXCLUDE-" \o FieldOf(c), "threshold_gate", c.condition, {"exclude"}, c.rule)
      Exclude(q, c) == IF Excluded(q.wf, FieldOf(c)) THEN q ELSE AddNode(q, "ADD_GATE", Gate(c), TRUE, "submit")
  IN  FoldLeft(Exclude, p, SelectSeq(m.eligibility, LAMBDA c : c.condition.op = "NOT_IN"))

\* 5: a gate for each simple prohibition on a field that no prohibition gate
\* looked at.
AddProhibitions(m, p) ==
  LET Leaf(c) == CHOOSE l \in IterComparisons(c.condition) : TRUE
      missing == SelectSeq(m.prohibitions, LAMBDA c :
                   /\ Cardinality(IterComparisons(c.condition)) = 1
                   /\ Leaf(c).field \notin GateFields(p.wf, "prohibition_gate"))
      Gate(c) == Node("NODE-PROHIBIT-" \o Leaf(c).field, "prohibition_gate", Leaf(c), {"enforce"}, c.rule)
  IN  FoldLeft(LAMBDA q, c : AddNode(q, "ADD_NODE", Gate(c), TRUE, "submit"), p, missing)

\* propose, for faults of some kinds: each part runs when there is a fault it
\* is meant for.
ProposeFor(m, w, kinds, burdens) ==
  LET For(wanted, New(_), p) == IF wanted \cap kinds # {} THEN New(p) ELSE p
      Gates1(p)    == For({"wrong_rejection", "wrong_acceptance", "deadline_mismatch"}, LAMBDA q : AlignGates(m, q), p)
      Steps2(p)    == For({"unnecessary_burden", "missing_safeguard"}, LAMBDA q : AlignSteps(m, q), p)
      Steps2c(p)   == For({"unnecessary_burden"}, LAMBDA q : LiftBurdens(m, burdens, q), p)
      Steps2b(p)   == For({"missing_safeguard"}, LAMBDA q : AddSteps(m, q), p)
      Order3(p)    == For({"wrong_journey"}, LAMBDA q : Reorder(m, q), p)
      Deadline4(p) == For({"deadline_mismatch"}, LAMBDA q : AddDeadlines(m, q), p)
      Exclude4b(p) == For({"wrong_acceptance"}, LAMBDA q : AddExclusions(m, q), p)
      Prohibit5(p) == For({"prohibition_breach"}, LAMBDA q : AddProhibitions(m, q), p)
  IN  Prohibit5(Exclude4b(Deadline4(Order3(Steps2b(Steps2c(Steps2(Gates1([wf |-> w, ops |-> <<>>]))))))))
Propose(m, w, faults) == ProposeFor(m, w, Kinds(faults), Burdens(faults))
=============================================================================
