---------------------------- MODULE MCGateCallback ----------------------------
(***************************************************************************)
(* Model-checking instances of GateCallback: two or three reviewers on the *)
(* gate of a build that one or two executions arm.                         *)
(***************************************************************************)
EXTENDS GateCallback, TLC

Interchangeable == Permutations(Deciders) \cup Permutations(Execs)
=============================================================================
