--------------------------- MODULE MCApprovalLedger ---------------------------
(***************************************************************************)
(* Model-checking instances of ApprovalLedger.                             *)
(***************************************************************************)
EXTENDS ApprovalLedger, TLC

Interchangeable == Permutations(Purged) \cup Permutations(Calls \ Purged)
=============================================================================
