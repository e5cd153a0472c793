----------------------------- MODULE MCBuildFlow -----------------------------
(***************************************************************************)
(* Model-checking instances of BuildFlow: policy texts with the same two   *)
(* rules, of which one text is clean, one leaves a clause for review and   *)
(* one contradicts itself.                                                 *)
(***************************************************************************)
EXTENDS BuildFlow, TLC

Text(status, backend) == [rules |-> Rules, status |-> status, backend |-> backend]
MCExtractions == {Text(s, "parser") : s \in {"EXTRACTED", "NEEDS_REVIEW", "CONFLICT"}}
MCModelExtractions == {Text("EXTRACTED", "model"), Text("NEEDS_REVIEW", "model")}

\* All rules together are repaired, a value in place of one conflicts with the
\* other, one rule alone changes nothing, and one value cannot be repaired.
MCVerdict ==
  [v \in SUBSET Values |->
     IF v = Rules THEN "valid"
     ELSE IF v \cap Edits = {} THEN "clean"
     ELSE IF v \subseteq Edits THEN "invalid" ELSE "refused"]

Interchangeable == Permutations(Rules) \cup Permutations(Execs) \cup Permutations(Requests)
=============================================================================
