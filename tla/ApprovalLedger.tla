---------------------------- MODULE ApprovalLedger ----------------------------
(***************************************************************************)
(* The evidence collection approvals.json: how _record_approval mints the  *)
(* id APR-<date>-<sequence> of a decision while other workers mint theirs  *)
(* and the demo purge removes a build's rows (services/governance/store.py *)
(* and the bulk save it calls, services/storage.py).                       *)
(*                                                                         *)
(* Ids sort by date and then by sequence number, and that is the order in  *)
(* which the collection is read back: activate_procedure takes the last    *)
(* approval of that order.  The create-only put is one step here;          *)
(* RecordStore shows that of its concurrent callers at most one wins.      *)
(***************************************************************************)
EXTENDS Naturals, Sequences, FiniteSets

CONSTANTS
  Calls,        \* calls of _record_approval, one decision each
  MaxAttempts,  \* 8 in the code
  Purged,       \* the calls for the build that the demo purge removes
  LastDay       \* bound of the model: midnights

ASSUME CallsAssumption == Purged \subseteq Calls
ASSUME AttemptsAssumption == MaxAttempts \in Nat \ {0}
ASSUME DaysAssumption == LastDay \in Nat

VARIABLES
  today,
  rows,     \* the collection: day and sequence number of each row, and its call
  written,  \* the ids in the order in which rows were stored (history)
  pc,       \* where each call is
  day,      \* the date it put into its ids
  start,    \* the first sequence number it tries
  tried,    \* how many attempts it has lost
  purge,    \* where the purge is
  list      \* its list: the rows to keep, then the rows still to delete

vars == <<today, rows, written, pc, day, start, tried, purge, list>>

Id(r) == <<r.day, r.seq>>
Taken(d, n) == \E r \in rows : Id(r) = <<d, n>>

Init ==
  /\ today = 0
  /\ rows = {}
  /\ written = <<>>
  /\ pc = [c \in Calls |-> "idle"]
  /\ day = [c \in Calls |-> 0]
  /\ start = [c \in Calls |-> 1]
  /\ tried = [c \in Calls |-> 0]
  /\ purge = "idle"
  /\ list = {}

Midnight ==
  /\ today < LastDay
  /\ today' = today + 1
  /\ UNCHANGED <<rows, written, pc, day, start, tried, purge, list>>

\* The date is taken first ...
Date(c) ==
  /\ pc[c] = "idle"
  /\ pc' = [pc EXCEPT ![c] = "dated"]
  /\ day' = [day EXCEPT ![c] = today]
  /\ UNCHANGED <<today, rows, written, start, tried, purge, list>>

\* Mutants: the sequence starts below one, or is taken over all days.
MutantLoadZero(c) ==
  /\ pc[c] = "dated"
  /\ LET used == {r.seq : r \in {x \in rows : x.day = day[c]}} IN
       \E n \in {0} \cup used :
         /\ \A s \in used : s <= n
         /\ start' = [start EXCEPT ![c] = n]
  /\ pc' = [pc EXCEPT ![c] = "minting"]
  /\ UNCHANGED <<today, rows, written, day, tried, purge, list>>

MutantLoadAllDays(c) ==
  /\ pc[c] = "dated"
  /\ LET used == {r.seq : r \in rows} IN
       \E n \in {1} \cup {s + 1 : s \in used} :
         /\ \A s \in used : s < n
         /\ start' = [start EXCEPT ![c] = n]
  /\ pc' = [pc EXCEPT ![c] = "minting"]
  /\ UNCHANGED <<today, rows, written, day, tried, purge, list>>

\* ... then the collection is read: one more than the highest number of the day.
Load(c) ==
  /\ pc[c] = "dated"
  /\ LET used == {r.seq : r \in {x \in rows : x.day = day[c]}} IN
       \E n \in {1} \cup {s + 1 : s \in used} :
         /\ \A s \in used : s < n
         /\ start' = [start EXCEPT ![c] = n]
  /\ pc' = [pc EXCEPT ![c] = "minting"]
  /\ UNCHANGED <<today, rows, written, day, tried, purge, list>>

Number(c) == start[c] + tried[c]
Row(c) == [day |-> day[c], seq |-> Number(c), by |-> c]
\* Mutant: the put carries no expect=0.
MutantFree(c) == TRUE

Free(c) == ~Taken(day[c], Number(c))

\* put_item(..., expect=0) wins if the id is free ...
Mint(c) ==
  /\ pc[c] = "minting"
  /\ Free(c)
  /\ rows' = {r \in rows : Id(r) # Id(Row(c))} \cup {Row(c)}
  /\ written' = Append(written, Id(Row(c)))
  /\ pc' = [pc EXCEPT ![c] = "minted"]
  /\ UNCHANGED <<today, day, start, tried, purge, list>>

\* Mutant: one attempt too few.
MutantCollide(c) ==
  /\ pc[c] = "minting"
  /\ ~Free(c)
  /\ tried' = [tried EXCEPT ![c] = @ + 1]
  /\ pc' = [pc EXCEPT ![c] = IF tried[c] + 2 = MaxAttempts THEN "failed" ELSE "minting"]
  /\ UNCHANGED <<today, rows, written, day, start, purge, list>>

\* ... and else the next number is tried, MaxAttempts times in all.
Collide(c) ==
  /\ pc[c] = "minting"
  /\ ~Free(c)
  /\ tried' = [tried EXCEPT ![c] = @ + 1]
  /\ pc' = [pc EXCEPT ![c] = IF tried[c] + 1 = MaxAttempts THEN "failed" ELSE "minting"]
  /\ UNCHANGED <<today, rows, written, day, start, purge, list>>

\* purge_build_records: load the collection without the build's rows ...
PurgeLoad ==
  /\ Purged # {}
  /\ purge = "idle"
  /\ list' = {r \in rows : r.by \notin Purged}
  /\ purge' = "loaded"
  /\ UNCHANGED <<today, rows, written, pc, day, start, tried>>

\* ... _dd_save reads it again, and what is not in the list ...
PurgeDiff ==
  /\ purge = "loaded"
  /\ list' = rows \ list
  /\ purge' = "flushing"
  /\ UNCHANGED <<today, rows, written, pc, day, start, tried>>

\* ... is deleted, one row after the other.
PurgeFlush ==
  /\ purge = "flushing"
  /\ \E r \in list :
       /\ rows' = rows \ {r}
       /\ list' = list \ {r}
  /\ UNCHANGED <<today, written, pc, day, start, tried, purge>>

Next ==
  \/ Midnight
  \/ \E c \in Calls : Date(c) \/ Load(c) \/ Mint(c) \/ Collide(c)
  \/ PurgeLoad \/ PurgeDiff \/ PurgeFlush

Spec == Init /\ [][Next]_vars
-----------------------------------------------------------------------------
Days == 0..LastDay
Rows == [day : Days, seq : Nat \ {0}, by : Calls]

\* Type invariant.
TypeOK ==
  /\ today \in Days
  /\ rows \subseteq Rows
  /\ written \in Seq(Days \X (Nat \ {0}))
  /\ pc \in [Calls -> {"idle", "dated", "minting", "minted", "failed"}]
  /\ day \in [Calls -> Days]
  /\ start \in [Calls -> Nat \ {0}]
  /\ tried \in [Calls -> Nat]
  /\ purge \in {"idle", "loaded", "flushing"}
  /\ list \subseteq Rows

\* "An id collision here would silently merge two different decisions into one
\* evidence row" (_record_approval): until evidence is purged, every call that
\* returned has a row of its own.
EveryDecisionHasItsRow ==
  purge = "idle" => \A c \in Calls : pc[c] = "minted" => Row(c) \in rows

\* Until evidence is purged, no id is given twice, and the rows of a day are read
\* back in the order in which they were stored, for all interleavings of stale
\* loads and retries: the last approval on record is the last one in the list.
\* (Only across a midnight can a call that took its date before be stored after
\* a row of the new day.)
ReadBackInOrder ==
  purge = "idle" =>
    \A i, j \in DOMAIN written :
      i < j /\ written[i][1] = written[j][1] => written[i][2] < written[j][2]

\* "could not mint a unique approval id under contention": a call gives up only
\* if as many others as it has attempts minted, on its day, the numbers it tried;
\* also while the purge takes ids away and makes them free again.
GivesUpUnderContention ==
  \A c \in Calls :
    pc[c] = "failed" =>
      \A n \in start[c]..(start[c] + MaxAttempts - 1) :
        \E d \in Calls \ {c} : pc[d] = "minted" /\ day[d] = day[c] /\ Number(d) = n
=============================================================================
