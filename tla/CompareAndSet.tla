---------------------------- MODULE CompareAndSet ----------------------------
(***************************************************************************)
(* What a collection of versioned records promises to callers that write   *)
(* with the version they read: a record is replaced in one step, by one    *)
(* whose reading is still the stored one, and every other reading of it is *)
(* then out of date for good.  Once somebody works on a record in another  *)
(* way nothing is promised of it any more: it is loose.                    *)
(***************************************************************************)
CONSTANTS Keys, Clients

VARIABLES
  key,      \* the record that each client works on
  present,  \* the records there are
  edits,    \* the edits that the payload of each record carries
  loose,    \* records of which nothing is promised
  current,  \* clients whose reading of their record is the stored one
  answer    \* what each client was told

Init ==
  /\ key \in [Clients -> Keys]
  /\ present \in SUBSET Keys
  /\ edits = [k \in Keys |-> {}]
  /\ loose = {}
  /\ current = {}
  /\ answer = [c \in Clients |-> "none"]

Tell(c, what) == answer' = [answer EXCEPT ![c] = what]

\* A client reads the record, or knows that it read it as absent.
Read(c) ==
  /\ answer[c] = "none" /\ key[c] \notin loose
  /\ Tell(c, "open")
  /\ current' = current \cup {c}
  /\ UNCHANGED <<key, present, edits, loose>>

\* A client that expects a new record to be absent, when it is not.
Miss(c) ==
  /\ answer[c] = "none" /\ key[c] \in present \ loose
  /\ Tell(c, "open")
  /\ UNCHANGED <<key, present, edits, loose, current>>

\* The one write that succeeds on this reading.
Replace(c) ==
  /\ c \in current
  /\ Tell(c, "won")
  /\ present' = present \cup {key[c]}
  /\ edits' = [edits EXCEPT ![key[c]] = @ \cup {c}]
  /\ current' = {d \in current : key[d] # key[c]}
  /\ UNCHANGED <<key, loose>>

\* A write is refused when its reading is out of date, and only then.
Refuse(c) ==
  /\ answer[c] = "open" /\ key[c] \notin loose /\ c \notin current
  /\ Tell(c, "lost")
  /\ UNCHANGED <<key, present, edits, loose, current>>

\* A client starts to work on some records without regard to versions.
Loosen(c) ==
  /\ answer[c] = "none"
  /\ Tell(c, "open")
  /\ \E some \in {{key[c]}, Keys} :
       /\ loose' = loose \cup some
       /\ present' = present \ some
       /\ edits' = [k \in Keys |-> IF k \in some THEN {} ELSE edits[k]]
       /\ current' = {d \in current : key[d] \notin some}
  /\ UNCHANGED key

\* A client on a loose record comes to an end.
Finish(c) ==
  /\ answer[c] = "open" /\ key[c] \in loose
  /\ \E what \in {"won", "lost"} : Tell(c, what)
  /\ UNCHANGED <<key, present, edits, loose, current>>

Next ==
  \E c \in Clients :
    Read(c) \/ Miss(c) \/ Replace(c) \/ Refuse(c) \/ Loosen(c) \/ Finish(c)

Spec == Init /\ [][Next]_<<key, present, edits, loose, current, answer>>
==============================================================================
