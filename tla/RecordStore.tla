----------------------------- MODULE RecordStore -----------------------------
(***************************************************************************)
(* One collection of the registry table (services/storage.py, DynamoDB     *)
(* backend) under concurrent Lambda workers.                               *)
(*                                                                         *)
(* A record is its version and the set of edits its payload carries: every *)
(* client performs one operation, and the payload it writes is what it     *)
(* read plus its own edit.  An edit that disappears is a lost update.      *)
(*                                                                         *)
(* Version conventions of the code: 0 = absent, >= 1 = written by put_item,*)
(* -1 = written by a bulk save or living only in the legacy META blob.     *)
(* put_item is two steps: its own read of the row, then the (conditional)  *)
(* write; so are get_item followed by put_item, delete_item, and the bulk  *)
(* _save.  Any interleaving of those steps is allowed.                     *)
(***************************************************************************)
EXTENDS Integers, FiniteSets

CONSTANTS
  Keys,      \* record ids (sort keys) of the collection
  Clients,   \* worker invocations; each performs one operation
  Kinds,     \* the operations the callers of this collection use
  Seeds      \* how a record may have been left by earlier deployments

AllKinds == {"create", "cas", "blind", "delete", "bulk"}
AllSeeds == {"absent", "versioned", "bulk_saved", "blob"}

ASSUME KindsAssumption == Kinds \subseteq AllKinds
ASSUME SeedsAssumption == Seeds \subseteq AllSeeds

VARIABLES
  row,       \* per-record rows of the table
  blob,      \* the legacy META item, one entry per record
  pc,        \* where each client is in its operation
  kind,      \* the operation it performs ("none" before it starts)
  key,       \* the record it addresses
  expect,    \* put_item's expect argument
  snap,      \* the client's copy of what it read
  cur,       \* the version found by put_item's / delete_item's own read
  todo       \* keys a bulk save has still to flush

vars == <<row, blob, pc, kind, key, expect, snap, cur, todo>>

NoExpect == -2                                   \* expect=None
NoRecord == [ver |-> 0, edits |-> {}]
Record   == [ver : Nat \cup {-1}, edits : SUBSET Clients]
Nothing  == [k \in Keys |-> NoRecord]

\* What get_item returns: the per-record row shadows the legacy blob.
Current(k) == IF row[k].ver # 0 THEN row[k] ELSE blob[k]

Steps == {"idle", "got", "checked", "deleting", "popping", "popped",
          "loaded", "flushing", "won", "lost"}

Finished(c) == pc[c] \in {"won", "lost"}
-----------------------------------------------------------------------------
SeedRow(s)  == CASE s = "versioned"  -> [ver |-> 1, edits |-> {}]
                 [] s = "bulk_saved" -> [ver |-> -1, edits |-> {}]
                 [] OTHER            -> NoRecord
SeedBlob(s) == IF s = "blob" THEN [ver |-> -1, edits |-> {}] ELSE NoRecord

Init ==
  /\ \E seed \in [Keys -> Seeds] :
        /\ row = [k \in Keys |-> SeedRow(seed[k])]
        /\ blob = [k \in Keys |-> SeedBlob(seed[k])]
  /\ pc = [c \in Clients |-> "idle"]
  /\ kind = [c \in Clients |-> "none"]
  /\ key \in [Clients -> Keys]
  /\ expect = [c \in Clients |-> NoExpect]
  /\ snap = [c \in Clients |-> Nothing]
  /\ cur = [c \in Clients |-> 0]
  /\ todo = [c \in Clients |-> {}]

Goto(c, step) == pc' = [pc EXCEPT ![c] = step]

Begin(c, what, step) ==
  /\ pc[c] = "idle"
  /\ what \in Kinds
  /\ kind' = [kind EXCEPT ![c] = what]
  /\ Goto(c, step)

\* get_item by a caller that will write back: with the version it read (cas)
\* or with no version at all (blind: save_build, mark_build_status).
Get(c) ==
  \E what \in {"cas", "blind"} :
    /\ Begin(c, what, "got")
    /\ snap' = [snap EXCEPT ![c] = [Nothing EXCEPT ![key[c]] = Current(key[c])]]
    /\ expect' = [expect EXCEPT ![c] = IF what = "cas" THEN Current(key[c]).ver
                                                       ELSE NoExpect]
    /\ UNCHANGED <<row, blob, key, cur, todo>>

\* A create-only caller reads nothing first: put_item(..., expect=0).
Create(c) ==
  /\ Begin(c, "create", "got")
  /\ expect' = [expect EXCEPT ![c] = 0]
  /\ UNCHANGED <<row, blob, key, snap, cur, todo>>

\* Mutant: the next version is counted from the caller's expect.
MutantPutReadExpect(c) ==
  /\ pc[c] = "got"
  /\ cur' = [cur EXCEPT ![c] = expect[c]]
  /\ Goto(c, "checked")
  /\ UNCHANGED <<row, blob, kind, key, expect, snap, todo>>

\* Mutant: a versioned write is refused whenever the record exists.
MutantPutReadExists(c) ==
  /\ pc[c] = "got"
  /\ cur' = [cur EXCEPT ![c] = Current(key[c]).ver]
  /\ Goto(c, IF expect[c] # NoExpect /\ Current(key[c]).ver # 0 THEN "lost" ELSE "checked")
  /\ UNCHANGED <<row, blob, kind, key, expect, snap, todo>>

\* _dd_put_item, first half: read the row, refuse if the version moved.
PutRead(c) ==
  /\ pc[c] = "got"
  /\ LET found == Current(key[c]).ver IN
       /\ cur' = [cur EXCEPT ![c] = found]
       /\ Goto(c, IF expect[c] # NoExpect /\ found # expect[c] THEN "lost"
                                                               ELSE "checked")
  /\ UNCHANGED <<row, blob, kind, key, expect, snap, todo>>

\* Mutants: one of the two conditions is missing.
MutantConditionCreateOnly(c) == expect[c] = 0 => row[key[c]].ver = 0
MutantConditionVersionOnly(c) == expect[c] > 0 => row[key[c]].ver = expect[c]

\* The ConditionExpression the write carries.
Condition(c) ==
  /\ expect[c] = 0 => row[key[c]].ver = 0
  /\ expect[c] > 0 => row[key[c]].ver = expect[c]

\* Mutant: an existing version is kept.
MutantNextVersion(v) == IF v > 0 THEN v ELSE 1

NextVersion(v) == (IF v > 0 THEN v ELSE 0) + 1

\* Mutant: the write does not carry the condition, its outcome is judged after.
MutantPutWrite(c) ==
  /\ pc[c] = "checked"
  /\ row' = [row EXCEPT ![key[c]] = [ver   |-> NextVersion(cur[c]),
                                     edits |-> snap[c][key[c]].edits \cup {c}]]
  /\ Goto(c, IF Condition(c) THEN "won" ELSE "lost")
  /\ UNCHANGED <<blob, kind, key, expect, snap, cur, todo>>

\* _dd_put_item, second half: the write itself, decided by the database.
PutWrite(c) ==
  /\ pc[c] = "checked"
  /\ IF Condition(c)
       THEN /\ row' = [row EXCEPT ![key[c]] =
                         [ver   |-> NextVersion(cur[c]),
                          edits |-> snap[c][key[c]].edits \cup {c}]]
            /\ Goto(c, "won")
       ELSE /\ row' = row
            /\ Goto(c, "lost")
  /\ UNCHANGED <<blob, kind, key, expect, snap, cur, todo>>

\* delete_item: look whether a per-record row exists ...
DeleteRead(c) ==
  /\ Begin(c, "delete", "deleting")
  /\ cur' = [cur EXCEPT ![c] = row[key[c]].ver]
  /\ UNCHANGED <<row, blob, key, expect, snap, todo>>

\* ... delete it, and go on to the blob only if there was no row ...
DeleteRow(c) ==
  /\ pc[c] = "deleting"
  /\ row' = [row EXCEPT ![key[c]] = NoRecord]
  /\ Goto(c, IF cur[c] # 0 THEN "won" ELSE "popping")
  /\ UNCHANGED <<blob, kind, key, expect, snap, cur, todo>>

\* ... read the blob (delete_item answers False when the id is not in it) ...
PopRead(c) ==
  /\ pc[c] = "popping"
  /\ snap' = [snap EXCEPT ![c] = blob]
  /\ Goto(c, IF blob[key[c]].ver = 0 THEN "lost" ELSE "popped")
  /\ UNCHANGED <<row, blob, kind, key, expect, cur, todo>>

\* ... and write the whole blob back without the record.
PopWrite(c) ==
  /\ pc[c] = "popped"
  /\ blob' = [snap[c] EXCEPT ![key[c]] = NoRecord]
  /\ Goto(c, "won")
  /\ UNCHANGED <<row, kind, key, expect, snap, cur, todo>>

\* A caller of the bulk _save: load the whole list, then drop one record
\* (purge_build_records) or append one (workspaces, executions, traces).
\* Only list collections are saved this way, and they have no META blob.
BulkLoad(c) ==
  /\ Begin(c, "bulk", "loaded")
  /\ blob = Nothing
  /\ \/ snap' = [snap EXCEPT ![c] = [row EXCEPT ![key[c]] = NoRecord]]
     \/ /\ row[key[c]].ver = 0
        /\ snap' = [snap EXCEPT ![c] =
                      [row EXCEPT ![key[c]] = [ver |-> -1, edits |-> {c}]]]
  /\ UNCHANGED <<row, blob, key, expect, cur, todo>>

\* _dd_save, list branch: read the rows again and diff the caller's list
\* against them.
BulkDiff(c) ==
  /\ pc[c] = "loaded"
  /\ LET gone    == {k \in Keys : row[k].ver # 0 /\ snap[c][k].ver = 0}
         changed == {k \in Keys : /\ snap[c][k].ver # 0
                                  /\ \/ row[k].ver = 0
                                     \/ row[k].edits # snap[c][k].edits}
     IN  /\ todo' = [todo EXCEPT ![c] = gone \cup changed]
         /\ Goto(c, IF gone \cup changed = {} THEN "won" ELSE "flushing")
  /\ UNCHANGED <<row, blob, kind, key, expect, snap, cur>>

\* The batch writer: each item takes effect on its own, without a version.
BulkFlush(c) ==
  /\ pc[c] = "flushing"
  /\ \E k \in todo[c] :
       /\ row' = [row EXCEPT ![k] =
                    IF snap[c][k].ver = 0 THEN NoRecord
                    ELSE [ver |-> -1, edits |-> snap[c][k].edits]]
       /\ todo' = [todo EXCEPT ![c] = @ \ {k}]
       /\ Goto(c, IF todo[c] = {k} THEN "won" ELSE "flushing")
  /\ UNCHANGED <<blob, kind, key, expect, snap, cur>>

Next ==
  \E c \in Clients :
    \/ Get(c) \/ Create(c) \/ PutRead(c) \/ PutWrite(c)
    \/ DeleteRead(c) \/ DeleteRow(c) \/ PopRead(c) \/ PopWrite(c)
    \/ BulkLoad(c) \/ BulkDiff(c) \/ BulkFlush(c)

Spec == Init /\ [][Next]_vars
-----------------------------------------------------------------------------
\* Type invariant of the collection and of the clients' local state.
TypeOK ==
  /\ row \in [Keys -> Record]
  /\ blob \in [Keys -> Record]
  /\ pc \in [Clients -> Steps]
  /\ kind \in [Clients -> Kinds \cup {"none"}]
  /\ key \in [Clients -> Keys]
  /\ expect \in [Clients -> Nat \cup {-1, NoExpect}]
  /\ snap \in [Clients -> [Keys -> Record]]
  /\ cur \in [Clients -> Nat \cup {-1}]
  /\ todo \in [Clients -> SUBSET Keys]

Writes(c) == kind[c] \in {"create", "cas", "blind"}

\* Every write of record k so far carries the version its writer read, as in
\* the collections of callbacks, rule reviews and approvals: no blind put, no
\* delete, no bulk save, and no writer that found a record without a version.
Disciplined(k) ==
  \A c \in Clients :
    /\ kind[c] # "bulk"
    /\ key[c] = k => /\ kind[c] \notin {"blind", "delete"}
                     /\ kind[c] = "cas" => expect[c] # -1

\* No lost update: the edit of every writer that was told it succeeded is in
\* the stored payload, as long as the record is written with discipline.
NoLostUpdate ==
  \A c \in Clients :
    pc[c] = "won" /\ Writes(c) /\ Disciplined(key[c]) => c \in Current(key[c]).edits

\* A writer that gets ConcurrencyError was really beaten: another operation on
\* the same record has succeeded, or a bulk save has been at work ("reload and
\* retry" shows something new, and no two writers refuse each other).
LossMeansAnotherWon ==
  \A c \in Clients :
    pc[c] = "lost" /\ kind[c] = "cas" =>
      \E d \in Clients \ {c} : \/ pc[d] = "won" /\ key[d] = key[c]
                               \/ kind[d] = "bulk" /\ pc[d] \in {"flushing", "won"}

\* Create-only: of all the workers that mint the same id at most one wins,
\* whatever versioned, blind and legacy writers do to the record meanwhile
\* (unless it is taken away between the two, by a delete or a bulk save).
CreateOnce ==
  \A c, d \in Clients :
    /\ kind[c] = "create" /\ pc[c] = "won"
    /\ kind[d] = "create" /\ pc[d] = "won"
    /\ key[c] = key[d]
    /\ \A e \in Clients : kind[e] # "bulk" /\ (kind[e] = "delete" => key[e] # key[c])
    => c = d

\* A caller that is told its write lost the race leaves no trace of it: the
\* edit is in no row, now or later, whatever else works on the collection.
LoserLeavesNoTrace ==
  \A c \in Clients, k \in Keys :
    pc[c] = "lost" => c \notin row[k].edits /\ c \notin blob[k].edits

\* storage.py, _dd_put_item: "exact-version match -- a writer that read a
\* stale version cannot win".  A versioned write that succeeds replaces
\* exactly the payload its caller read.
StaleWriterCannotWin ==
  [][\A c \in Clients :
       pc[c] = "checked" /\ pc'[c] = "won" /\ kind[c] = "cas"
       => row[key[c]].edits = snap[c][key[c]].edits]_vars
\* The collection as its disciplined callers see it: a reading is the stored
\* one as long as the version it found is the version of the record, and a
\* request is open until it is told how it ended.
Loose    == {k \in Keys : ~Disciplined(k)}
Present  == {k \in Keys \ Loose : Current(k).ver # 0}
Edits    == [k \in Keys |-> IF k \in Loose THEN {} ELSE Current(k).edits]
UpToDate == {c \in Clients : /\ key[c] \notin Loose /\ pc[c] \in {"got", "checked"}
                             /\ expect[c] = Current(key[c]).ver}
Told     == [c \in Clients |-> CASE pc[c] = "idle" -> "none"
                                 [] Finished(c)    -> pc[c]
                                 [] OTHER          -> "open"]

\* put_item's read, comparison and conditional write, interleaved in any way,
\* are one atomic compare-and-set: a write succeeds if and only if its reading
\* is up to date, it replaces that reading and nothing else, and no reading is
\* ever up to date again.  GateCallback and BuildFlow write their records in
\* one step on the strength of this.
Register == INSTANCE CompareAndSet WITH
  present <- Present, edits <- Edits, loose <- Loose, current <- UpToDate, answer <- Told
ImplementsRegister == Register!Spec
=============================================================================
