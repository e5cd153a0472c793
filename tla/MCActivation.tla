----------------------------- MODULE MCActivation -----------------------------
(***************************************************************************)
(* Model-checking instances of Activation.  The version ids sort as in the *)
(* code: a candidate id extends the id of the version it patches.          *)
(***************************************************************************)
EXTENDS Activation, TLC

CONSTANTS b1, b2

MCRank == [v \in Versions |-> CASE v = Base -> 0 [] v = b1 -> 1 [] OTHER -> 2]
Interchangeable == Permutations(Requests \ Activators) \cup Permutations(Activators)
=============================================================================
