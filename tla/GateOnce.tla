------------------------------- MODULE GateOnce -------------------------------
(***************************************************************************)
(* What a human gate promises: one decision is put on record, and every    *)
(* execution that waits for it is resumed at most once, with that decision.*)
(***************************************************************************)
CONSTANTS Execs, Decisions, None

VARIABLES
  ledger,   \* the decision on record, if any
  result    \* what each execution was resumed with

Init ==
  /\ ledger = {}
  /\ result = [e \in Execs |-> None]

Decide ==
  /\ ledger = {}
  /\ \E o \in Decisions : ledger' = {o}
  /\ UNCHANGED result

Answer(e) ==
  /\ result[e] = None
  /\ \E o \in ledger : result' = [result EXCEPT ![e] = o]
  /\ UNCHANGED ledger

Next == Decide \/ \E e \in Execs : Answer(e)

Spec == Init /\ [][Next]_<<ledger, result>>
=============================================================================
