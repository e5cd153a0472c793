---------------------------- MODULE BuildCatalogue ----------------------------
(***************************************************************************)
(* What the registry of builds promises to the executions: one entry per   *)
(* compile key, which never disappears; a duplicate reuses an entry that   *)
(* is there; an execution asks for approval of an entry that is there; and *)
(* what an execution came to is final.                                     *)
(***************************************************************************)
CONSTANTS Keys, RuleSets, Execs, None

VARIABLES
  catalogue,   \* what each key was compiled from, None before its first build
  outcome      \* what each execution came to, and of which key

Open == [result |-> "open", key |-> None]
Outcome(result, k) == [result |-> result, key |-> k]

Init ==
  /\ catalogue \in [Keys -> {None}]
  /\ outcome = [e \in Execs |-> Open]

\* An entry is made, or replaced by what the key was compiled from now.
Entered(k) ==
  /\ catalogue'[k] # None /\ catalogue'[k] \in RuleSets
  /\ catalogue' = [catalogue EXCEPT ![k] = catalogue'[k]]

Compile(k) ==
  /\ UNCHANGED outcome
  /\ Entered(k)

Reuse(e, k) ==
  /\ outcome[e] = Open
  /\ catalogue[k] # None
  /\ outcome' = [outcome EXCEPT ![e] = Outcome("reused", k)]
  /\ UNCHANGED catalogue

\* The build is stored no later than its execution starts to wait.
Submit(e, k) ==
  /\ outcome[e] = Open
  /\ outcome' = [outcome EXCEPT ![e] = Outcome("submitted", k)]
  /\ Entered(k)

Activate(e, k) ==
  /\ outcome[e] = Outcome("submitted", k)
  /\ outcome' = [outcome EXCEPT ![e] = Outcome("active", k)]
  /\ Entered(k)

Close(e) ==
  /\ outcome[e].result \in {"open", "submitted"}
  /\ outcome' = [outcome EXCEPT ![e] = Outcome("closed", None)]
  /\ UNCHANGED catalogue

Next ==
  \/ \E k \in Keys : Compile(k)
  \/ /\ outcome' # outcome
     /\ \/ \E e \in Execs, k \in Keys : Reuse(e, k) \/ Submit(e, k) \/ Activate(e, k)
        \/ \E e \in Execs : Close(e)

Spec == Init /\ [][Next]_<<catalogue, outcome>>
=============================================================================
