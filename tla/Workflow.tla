------------------------------- MODULE Workflow -------------------------------
(***************************************************************************)
(* The workflow interpreter (services/workflow/interpreter.py): graph      *)
(* integrity, the topological order used for analysis, and the execution   *)
(* of a procedure on a case.                                               *)
(*                                                                         *)
(* A workflow is a sequence of nodes and a sequence of edges.  A node is a *)
(* gate of one of three kinds with its test, a form with an action that is *)
(* required under a condition, an approval, or plain.  The names a node    *)
(* answers to (its id, label, role and words of them) are its set of       *)
(* tokens; the matching of words is not modelled.  An action belongs to    *)
(* one form; when two nodes have one id, the later of them counts.         *)
(***************************************************************************)
EXTENDS Expressions, Sequences, FiniteSets, SequencesExt

Gates == {"threshold_gate", "deadline_gate", "prohibition_gate"}

NodeIds(w) == {w.nodes[i].id : i \in DOMAIN w.nodes}
NodeOf(w, id) == w.nodes[Max({i \in DOMAIN w.nodes : w.nodes[i].id = id})]
EdgesFrom(w, id) == SelectSeq(w.edges, LAMBDA e : e.from = id)
Starts(w) == NodeIds(w) \ {w.edges[i].to : i \in DOMAIN w.edges}

Enter(queue, id) == IF Contains(queue, id) THEN queue ELSE Append(queue, id)

\* A turn of the loop of _ordered_nodes: a node enters the queue with the last
\* of its incoming edges.
TakeReady(w, t) ==
  IF t.queue = <<>> THEN t
  ELSE LET id    == Head(t.queue)
           done  == ToSet(t.order) \cup {id}
           Ready(e) == \A i \in DOMAIN w.edges : w.edges[i].to = e.to => w.edges[i].from \in done
       IN  [queue |-> FoldLeft(LAMBDA q, e : Enter(q, e.to), Tail(t.queue), SelectSeq(EdgesFrom(w, id), Ready)),
            order |-> Append(t.order, id)]

\* _ordered_nodes: ids in topological order, as far as there is one.  Each id is
\* taken once at most, so that there are no more turns than nodes.
OrderedNodes(w) ==
  LET starts == SelectSeq(w.nodes, LAMBDA n : n.id \in Starts(w))
      Turn[n \in Nat] ==
        IF n = 0 THEN [queue |-> FoldLeft(LAMBDA q, s : Enter(q, s.id), <<>>, starts), order |-> <<>>]
                 ELSE TakeReady(w, Turn[n - 1])
  IN  Turn[Len(w.nodes)].order

\* Where a walk comes that goes on from each id to next[id]: no farther than
\* there are ids.
Onward(next, seen) == seen \cup UNION {next[id] : id \in seen}
Reached(next, starts) ==
  LET Walk[n \in Nat] == IF n = 0 THEN starts ELSE Onward(next, Walk[n - 1])
  IN  Walk[Cardinality(DOMAIN next)]

\* validate_dag: known ends, no edge twice, no cycle, one start, no orphan.
ValidDag(w) ==
  /\ \A i \in DOMAIN w.edges : {w.edges[i].from, w.edges[i].to} \subseteq NodeIds(w)
  /\ \A i, j \in DOMAIN w.edges :
       (\A key \in {"from", "to", "condition"} : w.edges[i][key] = w.edges[j][key]) => i = j
  /\ ToSet(OrderedNodes(w)) = NodeIds(w)
  /\ Cardinality({i \in DOMAIN w.nodes : w.nodes[i].id \in Starts(w)}) = 1
  /\ Reached([id \in NodeIds(w) |-> {e.to : e \in ToSet(EdgesFrom(w, id))}], Starts(w)) = NodeIds(w)

\* _find_node: the first node in the order that answers to the token.
FindNode(w, order, token) ==
  LET places == {i \in DOMAIN order : token \in NodeOf(w, order[i]).tokens}
  IN  IF places = {} THEN None ELSE order[Min(places)]

IndexOf(order, id) == SelectInSeq(order, LAMBDA x : x = id)
-----------------------------------------------------------------------------
\* Is the node's step required of this case?
StepRequired(node, case) == node.required /\ EvalCondition(node.when, case)

\* A conditional step that the case does not need is passed by, not visited.
Skipped(node, case) ==
  node.kind = "form" /\ node.when # NoCondition /\ ~StepRequired(node, case)

\* A gate whose test turns the case away; a prohibition blocks when it holds.
Stops(node, case) ==
  \/ node.kind \in {"threshold_gate", "deadline_gate"} /\ ~EvalCondition(node.test, case)
  \/ node.kind = "prohibition_gate" /\ EvalCondition(node.test, case)

Terminal(node, case) == Stops(node, case) \/ (node.kind = "plain" /\ node.action = "submit")

\* _edge_enabled and the body of the loop: where the walk goes from a node.
Follow(w, case, id) ==
  IF Terminal(NodeOf(w, id), case) THEN {}
  ELSE {e.to : e \in {x \in ToSet(EdgesFrom(w, id)) :
                        x.type = "BRANCH" => EvalCondition(x.condition, case)}}

\* The nodes that a case comes to.
Visited(w, case) ==
  {NodeOf(w, id) : id \in Reached([id \in NodeIds(w) |-> Follow(w, case, id)], Starts(w))}

\* What is said about a constraint that puts the node a before the node b.
Complaints(a, b, order, path) ==
  {c \in {"misplaced", "missing", "unvisited"} :
     CASE c = "misplaced" -> a # None /\ b # None /\ IndexOf(order, a) > IndexOf(order, b)
       [] c = "missing"   -> a = None /\ b # None
       [] c = "unvisited" -> b \in path /\ a \notin path}

\* What the procedure has done with a case that came to these nodes.  "length"
\* is the number of entries of its trace.
Outcome(case, nodes, wrong) ==
  LET Stopped(kind) == \E n \in nodes : n.kind = kind /\ Stops(n, case)
      forms == {n \in nodes : n.kind = "form"}
  IN  [eligible   |-> ~Stopped("threshold_gate"),
       on_time    |-> ~Stopped("deadline_gate"),
       prohibited |-> Stopped("prohibition_gate"),
       required   |-> [a \in {n.action : n \in forms} |->
                         \E n \in forms : n.action = a /\ StepRequired(n, case)],
       order_ok   |-> wrong = {},
       length     |-> Cardinality(nodes) + Cardinality(wrong)]

\* Every complaint about the ordering, with the number of its constraint.
Disorder(w, ordering, order, path) ==
  UNION {{i} \X Complaints(FindNode(w, order, ordering[i].before), FindNode(w, order, ordering[i].after),
                           order, path) : i \in DOMAIN ordering}

\* execute
Execute(w, case, ordering) ==
  LET Run(nodes) ==
        Outcome(case, nodes, Disorder(w, ordering, OrderedNodes(w),
                                      {n.id : n \in {m \in nodes : ~Skipped(m, case)}}))
  IN  Run(Visited(w, case))
=============================================================================
