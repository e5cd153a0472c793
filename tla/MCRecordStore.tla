---------------------------- MODULE MCRecordStore ----------------------------
(***************************************************************************)
(* Model-checking instances of RecordStore: three workers on one or two    *)
(* records.  Workers and records are interchangeable.                      *)
(***************************************************************************)
EXTENDS RecordStore, TLC

Interchangeable == Permutations(Clients) \cup Permutations(Keys)
=============================================================================
