--------------------------- MODULE RecordStoreProofs ---------------------------
(***************************************************************************)
(* Theorems about RecordStore, for any records, clients, kinds of writers  *)
(* and states that earlier deployments left.                               *)
(***************************************************************************)
EXTENDS RecordStore, TLAPS

LEMMA RecordFacts ==
  /\ NoRecord \in Record
  /\ Nothing \in [Keys -> Record]
  /\ \A v \in Nat \cup {-1}, E \in SUBSET Clients :
       [ver |-> NextVersion(v), edits |-> E] \in Record
  /\ \A v \in Nat \cup {-1} : NextVersion(v) \in Nat /\ NextVersion(v) >= 1 /\ NextVersion(v) > v
BY DEF NoRecord, Nothing, Record, NextVersion

LEMMA CurrentType == TypeOK => \A k \in Keys : Current(k) \in Record
BY DEF TypeOK, Current

\* One step keeps every variable in its type.
LEMMA TypeStep == TypeOK /\ [Next]_vars => TypeOK'
<1> SUFFICES ASSUME TypeOK, [Next]_vars PROVE TypeOK'
  OBVIOUS
<1> USE RecordFacts, CurrentType DEF TypeOK, Steps
<1>1. ASSUME NEW c \in Clients, Get(c) PROVE TypeOK'
  <2>1. Current(key[c]) \in Record /\ Current(key[c]).ver \in Nat \cup {-1}
    BY DEF Record
  <2>2. snap' \in [Clients -> [Keys -> Record]]
    BY <1>1, <2>1 DEF Get
  <2>3. expect' \in [Clients -> Nat \cup {-1, NoExpect}]
    BY <1>1, <2>1 DEF Get
  <2>4. QED
    BY <1>1, <2>2, <2>3 DEF Get, Begin, Goto
<1>2. ASSUME NEW c \in Clients, Create(c) PROVE TypeOK'
  BY <1>2 DEF Create, Begin, Goto
<1>3. ASSUME NEW c \in Clients, PutRead(c) PROVE TypeOK'
  <2>1. Current(key[c]).ver \in Nat \cup {-1}
    BY DEF Record
  <2>2. QED
    BY <1>3, <2>1 DEF PutRead, Goto
<1>4. ASSUME NEW c \in Clients, PutWrite(c) PROVE TypeOK'
  <2>1. snap[c][key[c]].edits \cup {c} \in SUBSET Clients
    BY DEF Record
  <2>2. [ver |-> NextVersion(cur[c]), edits |-> snap[c][key[c]].edits \cup {c}] \in Record
    BY <2>1
  <2>3. QED
    BY <1>4, <2>2 DEF PutWrite, Goto
<1>5. ASSUME NEW c \in Clients, DeleteRead(c) PROVE TypeOK'
  BY <1>5 DEF DeleteRead, Begin, Goto, Record
<1>6. ASSUME NEW c \in Clients, DeleteRow(c) PROVE TypeOK'
  BY <1>6 DEF DeleteRow, Goto
<1>7. ASSUME NEW c \in Clients, PopRead(c) PROVE TypeOK'
  BY <1>7 DEF PopRead, Goto
<1>8. ASSUME NEW c \in Clients, PopWrite(c) PROVE TypeOK'
  BY <1>8 DEF PopWrite, Goto
<1>9. ASSUME NEW c \in Clients, BulkLoad(c) PROVE TypeOK'
  <2>1. [ver |-> -1, edits |-> {c}] \in Record
    BY DEF Record
  <2>2. PICK image \in [Keys -> Record] : snap' = [snap EXCEPT ![c] = image]
    BY <1>9, <2>1 DEF BulkLoad
  <2>3. snap' \in [Clients -> [Keys -> Record]]
    BY <2>2
  <2>4. QED
    BY <1>9, <2>3 DEF BulkLoad, Begin, Goto
<1>10. ASSUME NEW c \in Clients, BulkDiff(c) PROVE TypeOK'
  BY <1>10 DEF BulkDiff, Goto
<1>11. ASSUME NEW c \in Clients, BulkFlush(c) PROVE TypeOK'
  <2>1. PICK k \in todo[c] :
          /\ row' = [row EXCEPT ![k] =
                       IF snap[c][k].ver = 0 THEN NoRecord
                       ELSE [ver |-> -1, edits |-> snap[c][k].edits]]
          /\ todo' = [todo EXCEPT ![c] = @ \ {k}]
          /\ Goto(c, IF todo[c] = {k} THEN "won" ELSE "flushing")
    BY <1>11 DEF BulkFlush
  <2>2. [ver |-> -1, edits |-> snap[c][k].edits] \in Record
    BY DEF Record
  <2>3. QED
    BY <1>11, <2>1, <2>2 DEF BulkFlush, Goto
<1>12. CASE UNCHANGED vars
  BY <1>12 DEF vars
<1>13. QED
  BY <1>1, <1>2, <1>3, <1>4, <1>5, <1>6, <1>7, <1>8, <1>9, <1>10, <1>11, <1>12 DEF Next

\* The collection and its clients stay within their types.
THEOREM TypeCorrect == Spec => []TypeOK
<1>1. Init => TypeOK
  <2> SUFFICES ASSUME Init PROVE TypeOK
    OBVIOUS
  <2>1. PICK seed \in [Keys -> Seeds] :
          /\ row = [k \in Keys |-> SeedRow(seed[k])]
          /\ blob = [k \in Keys |-> SeedBlob(seed[k])]
    BY DEF Init
  <2>2. \A s \in Seeds : SeedRow(s) \in Record /\ SeedBlob(s) \in Record
    BY SeedsAssumption DEF SeedRow, SeedBlob, Record, NoRecord, AllSeeds
  <2>3. QED
    BY <2>1, <2>2, RecordFacts DEF Init, TypeOK, Steps
<1>2. QED
  BY <1>1, TypeStep, PTL DEF Spec
-----------------------------------------------------------------------------
(***************************************************************************)
(* What a client does is settled when it begins.                           *)
(***************************************************************************)
PhaseInv ==
  \A c \in Clients :
    /\ pc[c] = "idle" <=> kind[c] = "none"
    /\ pc[c] = "idle" => snap[c] = Nothing
    /\ pc[c] \in {"got", "checked"} => kind[c] \in {"create", "cas", "blind"}
    /\ pc[c] \in {"deleting", "popping", "popped"} => kind[c] = "delete"
    /\ pc[c] \in {"loaded", "flushing"} => kind[c] = "bulk"
    /\ kind[c] = "create" => expect[c] = 0 /\ snap[c] = Nothing

LEMMA PhaseStep == TypeOK /\ PhaseInv /\ [Next]_vars => PhaseInv'
<1> SUFFICES ASSUME TypeOK, PhaseInv, [Next]_vars PROVE PhaseInv'
  OBVIOUS
<1> USE DEF TypeOK, PhaseInv
<1>1. ASSUME NEW c \in Clients, Get(c) PROVE PhaseInv'
  BY <1>1 DEF Get, Begin, Goto
<1>2. ASSUME NEW c \in Clients, Create(c) PROVE PhaseInv'
  BY <1>2 DEF Create, Begin, Goto
<1>3. ASSUME NEW c \in Clients, PutRead(c) PROVE PhaseInv'
  BY <1>3 DEF PutRead, Goto
<1>4. ASSUME NEW c \in Clients, PutWrite(c) PROVE PhaseInv'
  BY <1>4 DEF PutWrite, Goto
<1>5. ASSUME NEW c \in Clients, DeleteRead(c) PROVE PhaseInv'
  BY <1>5 DEF DeleteRead, Begin, Goto
<1>6. ASSUME NEW c \in Clients, DeleteRow(c) PROVE PhaseInv'
  BY <1>6 DEF DeleteRow, Goto
<1>7. ASSUME NEW c \in Clients, PopRead(c) PROVE PhaseInv'
  BY <1>7 DEF PopRead, Goto
<1>8. ASSUME NEW c \in Clients, PopWrite(c) PROVE PhaseInv'
  BY <1>8 DEF PopWrite, Goto
<1>9. ASSUME NEW c \in Clients, BulkLoad(c) PROVE PhaseInv'
  BY <1>9 DEF BulkLoad, Begin, Goto
<1>10. ASSUME NEW c \in Clients, BulkDiff(c) PROVE PhaseInv'
  BY <1>10 DEF BulkDiff, Goto
<1>11. ASSUME NEW c \in Clients, BulkFlush(c) PROVE PhaseInv'
  BY <1>11 DEF BulkFlush, Goto
<1>12. CASE UNCHANGED vars
  BY <1>12 DEF vars
<1>13. QED
  BY <1>1, <1>2, <1>3, <1>4, <1>5, <1>6, <1>7, <1>8, <1>9, <1>10, <1>11, <1>12 DEF Next

LEMMA PhaseInvariant == Spec => []PhaseInv
<1>1. Init => PhaseInv
  BY DEF Init, PhaseInv
<1>2. QED
  BY <1>1, PhaseStep, TypeCorrect, PTL DEF Spec

Step(c) == \/ Get(c) \/ Create(c) \/ PutRead(c) \/ PutWrite(c)
           \/ DeleteRead(c) \/ DeleteRow(c) \/ PopRead(c) \/ PopWrite(c)
           \/ BulkLoad(c) \/ BulkDiff(c) \/ BulkFlush(c)

\* A step of one client leaves the others alone, and its own kind and expected
\* version once it has begun.
LEMMA Settled ==
  ASSUME TypeOK, PhaseInv, NEW c \in Clients, Step(c)
  PROVE  /\ key' = key
         /\ \A d \in Clients \ {c} : /\ pc'[d] = pc[d] /\ kind'[d] = kind[d]
                                     /\ expect'[d] = expect[d] /\ snap'[d] = snap[d]
                                     /\ cur'[d] = cur[d]
         /\ kind[c] # "none" => kind'[c] = kind[c] /\ expect'[c] = expect[c]
<1> USE DEF TypeOK, PhaseInv, Begin, Goto
<1>1. CASE Get(c)         BY <1>1 DEF Get
<1>2. CASE Create(c)      BY <1>2 DEF Create
<1>3. CASE PutRead(c)     BY <1>3 DEF PutRead
<1>4. CASE PutWrite(c)    BY <1>4 DEF PutWrite
<1>5. CASE DeleteRead(c)  BY <1>5 DEF DeleteRead
<1>6. CASE DeleteRow(c)   BY <1>6 DEF DeleteRow
<1>7. CASE PopRead(c)     BY <1>7 DEF PopRead
<1>8. CASE PopWrite(c)    BY <1>8 DEF PopWrite
<1>9. CASE BulkLoad(c)
  <2>1. /\ pc[c] = "idle" /\ key' = key /\ expect' = expect /\ cur' = cur
        /\ \E what \in Kinds : kind' = [kind EXCEPT ![c] = what]
        /\ \E step \in {"loaded"} : pc' = [pc EXCEPT ![c] = step]
        /\ \E list \in [Keys -> Record] : snap' = [snap EXCEPT ![c] = list]
    <3>1. [ver |-> -1, edits |-> {c}] \in Record
      BY DEF Record
    <3>2. \E list \in [Keys -> Record] : snap' = [snap EXCEPT ![c] = list]
      BY <1>9, <3>1, RecordFacts DEF BulkLoad
    <3>3. QED
      BY <1>9, <3>2 DEF BulkLoad
  <2>2. QED
    BY <2>1
<1>10. CASE BulkDiff(c)   BY <1>10 DEF BulkDiff
<1>11. CASE BulkFlush(c)
  <2>1. \E step \in {"won", "flushing"} : pc' = [pc EXCEPT ![c] = step]
    BY <1>11 DEF BulkFlush
  <2>2. UNCHANGED <<kind, key, expect, snap, cur>>
    BY <1>11 DEF BulkFlush
  <2>3. QED
    BY <2>1, <2>2
<1>12. QED
  BY <1>1, <1>2, <1>3, <1>4, <1>5, <1>6, <1>7, <1>8, <1>9, <1>10, <1>11 DEF Step

\* Discipline is lost, never regained.
LEMMA DisciplineLasts ==
  ASSUME TypeOK, PhaseInv, NEW c \in Clients, Step(c), NEW k \in Keys, Disciplined(k)'
  PROVE  Disciplined(k)
BY Settled DEF Disciplined, PhaseInv
-----------------------------------------------------------------------------
(***************************************************************************)
(* A record that is written with discipline.  Either earlier deployments   *)
(* left it without a version, and then nobody ever writes it; or a writer  *)
(* under way expects a version it had, and as long as that is the current  *)
(* one the writer's copy is the stored payload.                            *)
(***************************************************************************)
WriterInv(c) ==
  /\ pc[c] \in {"idle", "got", "checked", "won", "lost"}
  /\ pc[c] \in {"got", "checked"} =>
       /\ expect[c] \in Nat
       /\ expect[c] <= row[key[c]].ver
       /\ expect[c] = row[key[c]].ver => snap[c][key[c]].edits = row[key[c]].edits
  /\ pc[c] = "checked" => cur[c] = expect[c]
  /\ pc[c] = "won" => c \in row[key[c]].edits

Versioned(k) ==
  /\ row[k].ver \in Nat
  /\ row[k].ver = 0 => row[k] = NoRecord /\ blob[k] = NoRecord
  /\ \A c \in Clients : key[c] = k => WriterInv(c)

Unversioned(k) ==
  /\ Current(k).ver = -1
  /\ \A c \in Clients : key[c] = k => pc[c] \in {"idle", "got", "lost"} /\ kind[c] # "cas"

PopsAgree(k) == \A d \in Clients : pc[d] = "popped" => snap[d][k] = blob[k]

RecordInv(k) == Disciplined(k) => PopsAgree(k) /\ (Versioned(k) \/ Unversioned(k))

\* A client on another record leaves this one as it is.
LEMMA Elsewhere ==
  ASSUME TypeOK, PhaseInv, NEW k \in Keys, Disciplined(k), Disciplined(k)', RecordInv(k),
         NEW c \in Clients, key[c] # k, Step(c)
  PROVE  row'[k] = row[k] /\ blob'[k] = blob[k] /\ PopsAgree(k)'
<1>1. kind[c] # "bulk" /\ kind'[c] # "bulk"
  BY DEF Disciplined
<1>2. key[c] \in Keys
  BY DEF TypeOK
<1> USE DEF TypeOK, PhaseInv, Begin, Goto, RecordInv, PopsAgree
<1>3. CASE Get(c)         BY <1>3 DEF Get
<1>4. CASE Create(c)      BY <1>4 DEF Create
<1>5. CASE PutRead(c)     BY <1>5 DEF PutRead
<1>6. CASE PutWrite(c)
  <2>1. row'[k] = row[k]
    BY <1>2, <1>6 DEF PutWrite
  <2>2. QED
    BY <1>6, <2>1 DEF PutWrite
<1>7. CASE DeleteRead(c)  BY <1>7 DEF DeleteRead
<1>8. CASE DeleteRow(c)   BY <1>2, <1>8 DEF DeleteRow
<1>9. CASE PopRead(c)     BY <1>9 DEF PopRead
<1>10. CASE PopWrite(c)
  <2>1. blob'[k] = blob[k]
    BY <1>2, <1>10 DEF PopWrite
  <2>2. QED
    BY <1>10, <2>1 DEF PopWrite
<1>11. CASE BulkLoad(c)   BY <1>1, <1>11 DEF BulkLoad
<1>12. CASE BulkDiff(c)   BY <1>1, <1>12 DEF BulkDiff
<1>13. CASE BulkFlush(c)  BY <1>1, <1>13 DEF BulkFlush
<1>14. QED
  BY <1>3, <1>4, <1>5, <1>6, <1>7, <1>8, <1>9, <1>10, <1>11, <1>12, <1>13 DEF Step

LEMMA VersionedIsCurrent ==
  ASSUME NEW k \in Keys, Versioned(k) PROVE Current(k) = row[k]
BY DEF Versioned, Current

\* The write of a versioned record: accepted, it moves the record to the next
\* version and keeps the edits that are stored; refused, it changes nothing.
LEMMA WriteEffect ==
  ASSUME TypeOK, NEW c \in Clients, Versioned(key[c]), PutWrite(c)
  PROVE  \/ /\ row' = [row EXCEPT ![key[c]] = [ver   |-> row[key[c]].ver + 1,
                                               edits |-> row[key[c]].edits \cup {c}]]
            /\ pc' = [pc EXCEPT ![c] = "won"]
         \/ /\ row' = row
            /\ pc' = [pc EXCEPT ![c] = "lost"]
<1>1. /\ pc[c] = "checked" /\ key[c] \in Keys /\ row[key[c]].ver \in Nat
      /\ expect[c] \in Nat /\ cur[c] = expect[c]
      /\ expect[c] = row[key[c]].ver => snap[c][key[c]].edits = row[key[c]].edits
  BY DEF PutWrite, Versioned, WriterInv, TypeOK
<1>2. Condition(c) <=> expect[c] = row[key[c]].ver
  BY <1>1 DEF Condition
<1>3. expect[c] = row[key[c]].ver => NextVersion(cur[c]) = row[key[c]].ver + 1
  BY <1>1 DEF NextVersion
<1>4. QED
  BY <1>1, <1>2, <1>3 DEF PutWrite, Goto

\* A client on this record.
LEMMA Here ==
  ASSUME TypeOK, PhaseInv, NEW k \in Keys, Disciplined(k), Disciplined(k)', RecordInv(k),
         NEW c \in Clients, key[c] = k, Step(c)
  PROVE  RecordInv(k)' /\ (row'[k] # row[k] => row'[k].ver > row[k].ver)
<1> DEFINE Goal == RecordInv(k)' /\ (row'[k] # row[k] => row'[k].ver > row[k].ver)
<1>1. /\ key' = key
      /\ kind[c] \notin {"blind", "delete", "bulk"} /\ kind'[c] \notin {"blind", "delete", "bulk"}
      /\ kind'[c] = "cas" => expect'[c] # -1
  BY Settled DEF Disciplined
<1>2. \A d \in Clients \ {c} : /\ pc'[d] = pc[d] /\ kind'[d] = kind[d]
                               /\ expect'[d] = expect[d] /\ snap'[d] = snap[d]
                               /\ cur'[d] = cur[d]
  BY Settled
<1>3. PopsAgree(k) /\ (Versioned(k) \/ Unversioned(k))
  BY DEF RecordInv
<1>4. ASSUME pc[c] # "popped", pc'[c] # "popped", blob' = blob PROVE PopsAgree(k)'
  BY <1>2, <1>3, <1>4 DEF PopsAgree
<1>5. ASSUME row' = row, blob' = blob, Versioned(k), WriterInv(c)' PROVE Versioned(k)'
  BY <1>1, <1>2, <1>5 DEF Versioned, WriterInv
<1>6. ASSUME row' = row, blob' = blob, Unversioned(k),
             pc'[c] \in {"idle", "got", "lost"}, kind'[c] # "cas"
      PROVE  Unversioned(k)'
  BY <1>1, <1>2, <1>6 DEF Unversioned, Current
<1>7. CASE Get(c)
  <2>1. /\ pc[c] = "idle" /\ pc'[c] = "got" /\ kind'[c] = "cas"
        /\ UNCHANGED <<row, blob>>
        /\ snap'[c][k] = Current(k)
        /\ expect'[c] = Current(k).ver
    BY <1>1, <1>7 DEF Get, Begin, Goto, TypeOK, Nothing
  <2>2. Versioned(k) /\ Current(k) = row[k]
    BY <1>1, <1>3, <2>1, VersionedIsCurrent DEF Unversioned
  <2>3. WriterInv(c)'
    BY <1>1, <2>1, <2>2 DEF WriterInv, Versioned
  <2>4. QED
    BY <1>4, <1>5, <2>1, <2>2, <2>3 DEF RecordInv
<1>8. CASE Create(c)
  <2>1. /\ pc[c] = "idle" /\ pc'[c] = "got" /\ kind'[c] = "create"
        /\ UNCHANGED <<row, blob, snap>>
        /\ expect'[c] = 0
        /\ snap[c][k].edits = {}
    BY <1>8 DEF Create, Begin, Goto, TypeOK, PhaseInv, Nothing, NoRecord
  <2>2. ASSUME Versioned(k) PROVE WriterInv(c)'
    <3>1. row[k].ver \in Nat /\ (row[k].ver = 0 => row[k].edits = {})
      BY <2>2 DEF Versioned, NoRecord
    <3>2. /\ key'[c] = k /\ row'[k] = row[k] /\ pc'[c] = "got" /\ expect'[c] = 0
          /\ snap'[c][k].edits = {}
      BY <1>1, <2>1
    <3>3. 0 <= row[k].ver /\ 0 \in Nat
      BY <3>1
    <3>4. expect'[c] = row'[k].ver => snap'[c][k].edits = row'[k].edits
      BY <3>1, <3>2
    <3>5. QED
      BY <3>2, <3>3, <3>4 DEF WriterInv
  <2>3. QED
    BY <1>3, <1>4, <1>5, <1>6, <2>1, <2>2 DEF RecordInv
<1>9. CASE PutRead(c)
  <2>1. /\ pc[c] = "got" /\ cur'[c] = Current(k).ver
        /\ UNCHANGED <<row, blob, kind, expect, snap>>
        /\ pc'[c] = IF expect[c] # NoExpect /\ Current(k).ver # expect[c]
                      THEN "lost" ELSE "checked"
    BY <1>9 DEF PutRead, Goto, TypeOK
  <2>2. CASE Versioned(k)
    <3>1. Current(k) = row[k] /\ expect[c] \in Nat /\ expect[c] # NoExpect
      BY <2>1, <2>2, VersionedIsCurrent DEF Versioned, WriterInv, NoExpect
    <3>2. WriterInv(c)'
      BY <1>1, <2>1, <2>2, <3>1 DEF WriterInv, Versioned
    <3>3. QED
      BY <1>4, <1>5, <2>1, <2>2, <3>2 DEF RecordInv
  <2>3. CASE Unversioned(k)
    <3>1. kind[c] = "create" /\ expect[c] = 0 /\ Current(k).ver = -1
      BY <1>1, <2>1, <2>3 DEF Unversioned, PhaseInv
    <3>2. pc'[c] = "lost" /\ kind'[c] = "create"
      BY <2>1, <3>1 DEF NoExpect
    <3>3. QED
      BY <1>4, <1>6, <2>1, <2>3, <3>2 DEF RecordInv
  <2>4. QED
    BY <1>3, <2>2, <2>3
<1>10. CASE PutWrite(c)
  <2>1. /\ pc[c] = "checked"
        /\ UNCHANGED <<blob, kind, expect, snap, cur>>
    BY <1>10 DEF PutWrite
  <2>2. Versioned(k)
    BY <1>3, <2>1 DEF Unversioned
  <2>3. CASE row' = row /\ pc' = [pc EXCEPT ![c] = "lost"]
    <3>1. pc'[c] = "lost"
      BY <2>3 DEF TypeOK
    <3>2. WriterInv(c)'
      BY <3>1 DEF WriterInv
    <3>3. QED
      BY <1>4, <1>5, <2>1, <2>2, <2>3, <3>1, <3>2 DEF RecordInv
  <2>4. CASE /\ row' = [row EXCEPT ![k] = [ver   |-> row[k].ver + 1,
                                           edits |-> row[k].edits \cup {c}]]
             /\ pc' = [pc EXCEPT ![c] = "won"]
    <3>1. /\ row'[k].ver = row[k].ver + 1 /\ c \in row'[k].edits
          /\ row[k].edits \subseteq row'[k].edits
          /\ pc'[c] = "won" /\ row[k].ver \in Nat
      BY <2>2, <2>4 DEF TypeOK, Versioned
    <3>2. \A d \in Clients : key[d] = k => WriterInv(d)'
      BY <1>1, <1>2, <2>2, <3>1 DEF Versioned, WriterInv
    <3>3. Versioned(k)'
      BY <1>1, <3>1, <3>2 DEF Versioned
    <3>4. QED
      BY <1>4, <2>1, <3>1, <3>3 DEF RecordInv
  <2>5. QED
    BY <1>10, <2>2, <2>3, <2>4, WriteEffect
<1>11. ASSUME \/ DeleteRead(c) \/ DeleteRow(c) \/ PopRead(c) \/ PopWrite(c)
              \/ BulkLoad(c) \/ BulkDiff(c) \/ BulkFlush(c)
       PROVE  FALSE
  BY <1>1, <1>11 DEF DeleteRead, DeleteRow, PopRead, PopWrite, BulkLoad, BulkDiff,
                     BulkFlush, Begin, PhaseInv, TypeOK
<1>12. QED
  BY <1>7, <1>8, <1>9, <1>10, <1>11 DEF Step

LEMMA RecordStep ==
  ASSUME TypeOK, PhaseInv, NEW k \in Keys, RecordInv(k), [Next]_vars
  PROVE  /\ RecordInv(k)'
         /\ Disciplined(k)' /\ row'[k] # row[k] => row'[k].ver > row[k].ver
<1>1. CASE UNCHANGED vars
  BY <1>1 DEF vars, RecordInv, Disciplined, PopsAgree, Versioned, WriterInv, Unversioned, Current
<1>2. ASSUME NEW c \in Clients, Step(c), Disciplined(k)'
      PROVE  RecordInv(k)' /\ (row'[k] # row[k] => row'[k].ver > row[k].ver)
  <2>1. Disciplined(k)
    BY <1>2, DisciplineLasts
  <2>2. CASE key[c] = k
    BY <1>2, <2>1, <2>2, Here
  <2>3. CASE key[c] # k
    <3>1. row'[k] = row[k] /\ blob'[k] = blob[k] /\ PopsAgree(k)'
      BY <1>2, <2>1, <2>3, Elsewhere
    <3>2. \A d \in Clients : key'[d] = key[d] /\
            (key[d] = k => /\ pc'[d] = pc[d] /\ kind'[d] = kind[d] /\ expect'[d] = expect[d]
                           /\ snap'[d] = snap[d] /\ cur'[d] = cur[d])
      BY <1>2, <2>3, Settled
    <3>3. Versioned(k) => Versioned(k)'
      BY <3>1, <3>2 DEF Versioned, WriterInv
    <3>4. Unversioned(k) => Unversioned(k)'
      BY <3>1, <3>2 DEF Unversioned, Current
    <3>5. QED
      BY <2>1, <3>1, <3>3, <3>4 DEF RecordInv
  <2>4. QED
    BY <2>2, <2>3
<1>3. QED
  BY <1>1, <1>2 DEF Next, Step, RecordInv

LEMMA RecordInit == Init => \A k \in Keys : RecordInv(k)
<1> SUFFICES ASSUME Init, NEW k \in Keys PROVE RecordInv(k)
  OBVIOUS
<1>1. PICK seed \in [Keys -> Seeds] :
        /\ row = [x \in Keys |-> SeedRow(seed[x])]
        /\ blob = [x \in Keys |-> SeedBlob(seed[x])]
  BY DEF Init
<1>2. \A s \in Seeds :
        \/ SeedRow(s).ver = -1
        \/ SeedRow(s).ver = 0 /\ SeedBlob(s).ver = -1
        \/ /\ SeedRow(s).ver \in Nat
           /\ SeedRow(s).ver = 0 => SeedRow(s) = NoRecord /\ SeedBlob(s) = NoRecord
  BY SeedsAssumption DEF SeedRow, SeedBlob, NoRecord, AllSeeds
<1>3. \/ Current(k).ver = -1
      \/ row[k].ver \in Nat /\ (row[k].ver = 0 => row[k] = NoRecord /\ blob[k] = NoRecord)
  BY <1>1, <1>2 DEF Current
<1>4. QED
  BY <1>3 DEF Init, RecordInv, PopsAgree, Versioned, Unversioned, WriterInv

LEMMA RecordInvariant == Spec => [](TypeOK /\ PhaseInv /\ \A k \in Keys : RecordInv(k))
<1>1. TypeOK /\ PhaseInv /\ (\A k \in Keys : RecordInv(k)) /\ [Next]_vars
        => (\A k \in Keys : RecordInv(k))'
  BY RecordStep
<1>2. QED
  BY <1>1, RecordInit, TypeCorrect, PhaseInvariant, PTL DEF Spec

\* The edit of a writer that was told it succeeded stays in the stored record,
\* as long as everybody writes the record with discipline.
THEOREM WinnersPersist == Spec => []NoLostUpdate
<1>1. TypeOK /\ PhaseInv /\ (\A k \in Keys : RecordInv(k)) => NoLostUpdate
  <2> SUFFICES ASSUME TypeOK, \A k \in Keys : RecordInv(k),
                      NEW c \in Clients, pc[c] = "won", Disciplined(key[c])
               PROVE  c \in Current(key[c]).edits
    BY DEF NoLostUpdate
  <2>1. key[c] \in Keys
    BY DEF TypeOK
  <2>2. Versioned(key[c])
    BY <2>1 DEF RecordInv, Unversioned
  <2>3. Current(key[c]) = row[key[c]]
    BY <2>1, <2>2, VersionedIsCurrent
  <2>4. QED
    BY <2>2, <2>3 DEF Versioned, WriterInv
<1>2. QED
  BY <1>1, RecordInvariant, PTL

\* A version number names one payload for ever: no step changes a record that
\* is written with discipline without moving to a version it never had before.
VersionNeverReused ==
  [][\A k \in Keys :
       Disciplined(k)' /\ row'[k] # row[k] => row'[k].ver > row[k].ver]_vars

\* Versions of a record that is written with discipline only grow.
THEOREM VersionsAdvance == Spec => VersionNeverReused
<1>1. TypeOK /\ PhaseInv /\ (\A k \in Keys : RecordInv(k)) /\ [Next]_vars
        => [\A k \in Keys :
              Disciplined(k)' /\ row'[k] # row[k] => row'[k].ver > row[k].ver]_vars
  BY RecordStep
<1>2. QED
  BY <1>1, RecordInvariant, PTL DEF Spec, VersionNeverReused

\* A versioned write that succeeds on a record written with discipline replaces
\* exactly the payload its writer had read: the version it expects is then the
\* version of that payload (_dd_put_item's "exact-version match").
LEMMA FreshWrite ==
  ASSUME TypeOK, PhaseInv, NEW c \in Clients, RecordInv(key[c]), Disciplined(key[c]),
         [Next]_vars, pc[c] = "checked", pc'[c] = "won"
  PROVE  row[key[c]].edits = snap[c][key[c]].edits
<1>1. key[c] \in Keys /\ Versioned(key[c])
  BY DEF TypeOK, RecordInv, Unversioned
<1>2. /\ expect[c] \in Nat
      /\ expect[c] = row[key[c]].ver => snap[c][key[c]].edits = row[key[c]].edits
  BY <1>1 DEF Versioned, WriterInv
<1>3. PICK d \in Clients : Step(d)
  BY DEF Next, Step, vars
<1>4. d = c
  BY <1>3, Settled
<1>5. PutWrite(c) /\ Condition(c)
  BY <1>3, <1>4 DEF Step, Get, Create, PutRead, PutWrite, DeleteRead, DeleteRow, PopRead, PopWrite,
       BulkLoad, BulkDiff, BulkFlush, Begin, Goto, TypeOK
<1>6. expect[c] = row[key[c]].ver
  BY <1>2, <1>5 DEF Condition
<1>7. QED
  BY <1>2, <1>6

\* No writer of a record that is written with discipline, of all the workers on
\* a collection of any kind, wins with a stale copy (_dd_put_item).
DisciplinedWritesAreFresh ==
  [][\A c \in Clients :
       pc[c] = "checked" /\ pc'[c] = "won" /\ Disciplined(key[c])
       => row[key[c]].edits = snap[c][key[c]].edits]_vars

\* On a disciplined record a versioned or create-only put that succeeds replaces
\* exactly what its writer read (_dd_put_item's two conditions).
THEOREM FreshWriters == Spec => DisciplinedWritesAreFresh
<1>1. TypeOK /\ PhaseInv /\ (\A k \in Keys : RecordInv(k)) /\ [Next]_vars
        => [\A c \in Clients :
              pc[c] = "checked" /\ pc'[c] = "won" /\ Disciplined(key[c])
              => row[key[c]].edits = snap[c][key[c]].edits]_vars
  <2> SUFFICES ASSUME TypeOK, PhaseInv, \A k \in Keys : RecordInv(k), [Next]_vars,
                      NEW c \in Clients, pc[c] = "checked", pc'[c] = "won", Disciplined(key[c])
               PROVE  row[key[c]].edits = snap[c][key[c]].edits
    OBVIOUS
  <2>1. key[c] \in Keys
    BY DEF TypeOK
  <2>2. QED
    BY <2>1, FreshWrite
<1>2. QED
  BY <1>1, RecordInvariant, PTL DEF Spec, DisciplinedWritesAreFresh

\* In a collection that only ever sees create-only and versioned puts, every
\* record is written with discipline and no version is -1.
LegacyFree ==
  /\ \A k \in Keys : row[k].ver \in Nat /\ blob[k] = NoRecord
  /\ \A c \in Clients : kind[c] \in {"none", "create", "cas"} /\ expect[c] # -1

LEMMA LegacyFreeStep ==
  ASSUME Kinds \subseteq {"create", "cas"}
  PROVE  TypeOK /\ PhaseInv /\ LegacyFree /\ [Next]_vars => LegacyFree'
<1> SUFFICES ASSUME TypeOK, PhaseInv, LegacyFree, [Next]_vars PROVE LegacyFree'
  OBVIOUS
<1> USE DEF TypeOK, LegacyFree, Begin, Goto
<1>1. ASSUME NEW c \in Clients, Get(c) PROVE LegacyFree'
  <2>1. Current(key[c]).ver \in Nat
    BY DEF Current, NoRecord
  <2>2. QED
    BY <1>1, <2>1 DEF Get, NoExpect
<1>2. ASSUME NEW c \in Clients, Create(c) PROVE LegacyFree'
  BY <1>2 DEF Create
<1>3. ASSUME NEW c \in Clients, PutRead(c) PROVE LegacyFree'
  BY <1>3 DEF PutRead
<1>4. ASSUME NEW c \in Clients, PutWrite(c) PROVE LegacyFree'
  <2>1. NextVersion(cur[c]) \in Nat
    BY DEF NextVersion
  <2>2. \A k \in Keys : row'[k].ver \in Nat
    BY <1>4, <2>1 DEF PutWrite
  <2>3. QED
    BY <1>4, <2>2 DEF PutWrite
<1>5. ASSUME NEW c \in Clients,
             \/ DeleteRead(c) \/ DeleteRow(c) \/ PopRead(c) \/ PopWrite(c)
             \/ BulkLoad(c) \/ BulkDiff(c) \/ BulkFlush(c)
      PROVE  FALSE
  BY <1>5 DEF PhaseInv, DeleteRead, DeleteRow, PopRead, PopWrite, BulkLoad, BulkDiff, BulkFlush
<1>6. CASE UNCHANGED vars
  BY <1>6 DEF vars
<1>7. QED
  BY <1>1, <1>2, <1>3, <1>4, <1>5, <1>6 DEF Next

\* storage.py, _dd_put_item: "a writer that read a stale version cannot win".
\* So it is, for any number of workers and records, in a collection that has
\* known only create-only and versioned puts since it was empty or versioned;
\* store_stale_writer shows that one unconditional put per record is too many.
THEOREM StaleWritersLose ==
  ASSUME Kinds \subseteq {"create", "cas"}, Seeds \subseteq {"absent", "versioned"}
  PROVE  Spec => StaleWriterCannotWin
<1>1. Init => LegacyFree
  <2> SUFFICES ASSUME Init PROVE LegacyFree
    OBVIOUS
  <2>1. PICK seed \in [Keys -> Seeds] :
          /\ row = [k \in Keys |-> SeedRow(seed[k])]
          /\ blob = [k \in Keys |-> SeedBlob(seed[k])]
    BY DEF Init
  <2>2. \A s \in Seeds : SeedRow(s).ver \in Nat /\ SeedBlob(s) = NoRecord
    BY DEF SeedRow, SeedBlob, NoRecord
  <2>3. \A k \in Keys : row[k].ver \in Nat /\ blob[k] = NoRecord
    BY <2>1, <2>2
  <2>4. \A c \in Clients : kind[c] = "none" /\ expect[c] # -1
    BY DEF Init, NoExpect
  <2>5. QED
    BY <2>3, <2>4 DEF LegacyFree
<1>2. LegacyFree => \A k \in Keys : Disciplined(k)
  BY DEF LegacyFree, Disciplined
<1>3. TypeOK /\ PhaseInv /\ (\A k \in Keys : RecordInv(k)) /\ LegacyFree /\ [Next]_vars
        => [\A c \in Clients :
              pc[c] = "checked" /\ pc'[c] = "won" /\ kind[c] = "cas"
              => row[key[c]].edits = snap[c][key[c]].edits]_vars
  <2> SUFFICES ASSUME TypeOK, PhaseInv, \A k \in Keys : RecordInv(k), LegacyFree, [Next]_vars,
                      NEW c \in Clients, pc[c] = "checked", pc'[c] = "won"
               PROVE  row[key[c]].edits = snap[c][key[c]].edits
    OBVIOUS
  <2>1. key[c] \in Keys
    BY DEF TypeOK
  <2>2. QED
    BY <1>2, <2>1, FreshWrite
<1>4. QED
  BY <1>1, <1>3, LegacyFreeStep, RecordInvariant, PTL DEF Spec, StaleWriterCannotWin
-----------------------------------------------------------------------------
(***************************************************************************)
(* Minting: a record that nobody takes away again, whatever versioned and  *)
(* unconditional writers do to it and however it was left (procedure       *)
(* versions, rows of the governance ledger).                               *)
(***************************************************************************)
Kept(k) == \A e \in Clients : kind[e] # "bulk" /\ (kind[e] = "delete" => key[e] # k)

Minted(c, k) == kind[c] = "create" /\ pc[c] = "won" /\ key[c] = k

MintInv(k) ==
  Kept(k) => /\ \A c \in Clients : Minted(c, k) => row[k].ver # 0
             /\ \A c, d \in Clients : Minted(c, k) /\ Minted(d, k) => c = d

LEMMA MintStep ==
  ASSUME TypeOK, PhaseInv, NEW k \in Keys, MintInv(k), NEW c \in Clients, Step(c)
  PROVE  MintInv(k)'
<1> SUFFICES ASSUME Kept(k)'
             PROVE  /\ \A d \in Clients : Minted(d, k)' => row'[k].ver # 0
                    /\ \A d, e \in Clients : Minted(d, k)' /\ Minted(e, k)' => d = e
  BY DEF MintInv
<1>1. Kept(k)
  BY Settled DEF Kept, PhaseInv
<1>2. /\ \A d \in Clients : Minted(d, k) => row[k].ver # 0
      /\ \A d, e \in Clients : Minted(d, k) /\ Minted(e, k) => d = e
  BY <1>1 DEF MintInv
<1>3. \A d \in Clients \ {c} : Minted(d, k)' => Minted(d, k)
  BY Settled DEF Minted
<1>4. /\ kind'[c] # "bulk" /\ (kind'[c] = "delete" => key[c] # k)
      /\ kind[c] # "bulk" /\ (kind[c] = "delete" => key[c] # k)
      /\ key' = key /\ key[c] \in Keys
  BY <1>1, Settled DEF Kept, TypeOK
<1>5. CASE PutWrite(c)
  <2>1. /\ pc[c] = "checked"
        /\ \/ row' = row /\ pc'[c] = "lost"
           \/ /\ Condition(c) /\ pc'[c] = "won"
              /\ row' = [row EXCEPT ![key[c]] = [ver   |-> NextVersion(cur[c]),
                                                 edits |-> snap[c][key[c]].edits \cup {c}]]
    BY <1>5 DEF PutWrite, Goto, TypeOK
  <2>2. NextVersion(cur[c]) # 0
    BY RecordFacts DEF TypeOK
  <2>3. CASE row' = row /\ pc'[c] = "lost"
    BY <1>2, <1>3, <2>3 DEF Minted
  <2>4. CASE row' # row \/ pc'[c] # "lost"
    <3>1. row[k].ver # 0 => row'[k].ver # 0
      BY <2>1, <2>2, <2>4 DEF TypeOK
    <3>2. Minted(c, k)' => row'[k].ver # 0 /\ row[k].ver = 0
      <4> SUFFICES ASSUME Minted(c, k)' PROVE row'[k].ver # 0 /\ row[k].ver = 0
        OBVIOUS
      <4>1. key[c] = k /\ expect[c] = 0
        BY <1>4, <1>5 DEF Minted, PutWrite, PhaseInv
      <4>2. QED
        BY <2>1, <2>2, <2>4, <4>1 DEF Condition, TypeOK
    <3>3. QED
      BY <1>2, <1>3, <3>1, <3>2
  <2>5. QED
    BY <2>3, <2>4
<1>6. CASE ~PutWrite(c)
  <2> USE DEF Step
  <2>1. row'[k] = row[k]
    <3>1. CASE DeleteRow(c)
      BY <1>4, <3>1 DEF DeleteRow, PhaseInv, TypeOK
    <3>2. CASE BulkFlush(c)
      BY <1>4, <3>2 DEF BulkFlush, PhaseInv
    <3>3. CASE ~DeleteRow(c) /\ ~BulkFlush(c)
      BY <1>6, <3>3 DEF Get, Create, PutRead, DeleteRead, PopRead, PopWrite, BulkLoad, BulkDiff
    <3>4. QED
      BY <3>1, <3>2, <3>3
  <2>2. kind'[c] = "create" => pc'[c] # "won"
    BY <1>6 DEF Get, Create, PutRead, DeleteRead, DeleteRow, PopRead, PopWrite, BulkLoad,
                BulkDiff, BulkFlush, Begin, Goto, TypeOK, PhaseInv
  <2>3. QED
    BY <1>2, <1>3, <2>1, <2>2 DEF Minted
<1>7. QED
  BY <1>5, <1>6

LEMMA MintInvariant == Spec => [](\A k \in Keys : MintInv(k))
<1>1. Init => \A k \in Keys : MintInv(k)
  BY DEF Init, MintInv, Minted
<1>2. TypeOK /\ PhaseInv /\ (\A k \in Keys : MintInv(k)) /\ [Next]_vars
        => (\A k \in Keys : MintInv(k))'
  <2> SUFFICES ASSUME TypeOK, PhaseInv, NEW k \in Keys, MintInv(k), [Next]_vars
               PROVE  MintInv(k)'
    OBVIOUS
  <2>1. CASE UNCHANGED vars
    BY <2>1 DEF vars, MintInv, Kept, Minted
  <2>2. ASSUME NEW c \in Clients, Step(c) PROVE MintInv(k)'
    BY <2>2, MintStep
  <2>3. QED
    BY <2>1, <2>2 DEF Next, Step
<1>3. QED
  BY <1>1, <1>2, TypeCorrect, PhaseInvariant, PTL DEF Spec

\* At most one of the workers that mint the same record id wins.
THEOREM MintedOnce == Spec => []CreateOnce
<1>1. TypeOK /\ (\A k \in Keys : MintInv(k)) => CreateOnce
  BY DEF TypeOK, CreateOnce, MintInv, Minted, Kept
<1>2. QED
  BY <1>1, TypeCorrect, MintInvariant, PTL
-----------------------------------------------------------------------------
(***************************************************************************)
(* A writer that is refused was beaten: somebody has completed an          *)
(* operation on the record, or a bulk save has been at work.               *)
(***************************************************************************)
Worked(k) == \E d \in Clients : \/ pc[d] = "won" /\ key[d] = k
                                \/ kind[d] = "bulk" /\ pc[d] \in {"flushing", "won"}

Legacy == \A k \in Keys : blob[k].ver \in {0, -1}

\* A delete's copies of the row's presence and of the blob are stale only if
\* somebody has worked on the record since.
DeleterInv(d) ==
  /\ pc[d] = "deleting" /\ cur[d] = 0 /\ row[key[d]].ver # 0 => Worked(key[d])
  /\ pc[d] = "popped" =>
       \A k \in Keys : snap[d][k].ver \in {0, -1} /\ (snap[d][k] # blob[k] => Worked(k))

CasInv(c) ==
  kind[c] = "cas" =>
    /\ pc[c] \in {"got", "checked"} =>
         /\ expect[c] \in Nat \cup {-1}
         /\ expect[c] # Current(key[c]).ver => Worked(key[c])
    /\ pc[c] = "lost" => Worked(key[c])

LossInv == Legacy /\ \A c \in Clients : DeleterInv(c) /\ CasInv(c)

\* A record is seen to move only by somebody who has worked on it, and work
\* once done stays done.
LEMMA WorkDone ==
  ASSUME TypeOK, PhaseInv, LossInv, NEW c \in Clients, Step(c)
  PROVE  /\ Legacy'
         /\ \A k \in Keys : Worked(k) => Worked(k)'
         /\ \A k \in Keys : /\ Current(k)'.ver # Current(k).ver => Worked(k)'
                            /\ blob'[k] # blob[k] => Worked(k)'
                            /\ row[k].ver = 0 /\ row'[k].ver # 0 => Worked(k)'
<1>1. /\ key' = key /\ key[c] \in Keys
      /\ \A d \in Clients \ {c} : pc'[d] = pc[d] /\ kind'[d] = kind[d]
      /\ kind[c] # "none" => kind'[c] = kind[c]
  BY Settled DEF TypeOK
<1>2. pc[c] = "won" => FALSE
  BY DEF Step, Get, Create, PutRead, PutWrite, DeleteRead, DeleteRow, PopRead, PopWrite,
         BulkLoad, BulkDiff, BulkFlush, Begin
<1>3. pc[c] = "flushing" => pc'[c] \in {"flushing", "won"} /\ kind'[c] = "bulk"
  BY <1>1 DEF Step, Get, Create, PutRead, PutWrite, DeleteRead, DeleteRow, PopRead, PopWrite,
         BulkLoad, BulkDiff, BulkFlush, Begin, Goto, TypeOK, PhaseInv
<1>4. \A k \in Keys : Worked(k) => Worked(k)'
  BY <1>1, <1>2, <1>3 DEF Worked
<1>5. \A k \in Keys : pc'[c] = "won" /\ key[c] = k => Worked(k)'
  BY <1>1 DEF Worked
<1> DEFINE Goal == /\ Legacy'
                   /\ \A k \in Keys : /\ Current(k)'.ver # Current(k).ver => Worked(k)'
                                      /\ blob'[k] # blob[k] => Worked(k)'
                                      /\ row[k].ver = 0 /\ row'[k].ver # 0 => Worked(k)'
<1>6. ASSUME row' = row, blob' = blob PROVE Goal
  BY <1>6 DEF Current, Legacy, LossInv
<1>7. ASSUME PutWrite(c) PROVE Goal
  <2>1. CASE row' = row
    BY <1>6, <1>7, <2>1 DEF PutWrite
  <2>2. CASE row' # row
    <3>1. pc'[c] = "won" /\ blob' = blob /\ \A k \in Keys \ {key[c]} : row'[k] = row[k]
      BY <1>1, <1>7, <2>2 DEF PutWrite, Goto, TypeOK
    <3>2. QED
      BY <1>5, <3>1 DEF Current, Legacy, LossInv
  <2>3. QED
    BY <2>1, <2>2
<1>8. ASSUME DeleteRow(c) PROVE Goal
  <2>1. /\ blob' = blob /\ row' = [row EXCEPT ![key[c]] = NoRecord]
        /\ pc[c] = "deleting" /\ (cur[c] # 0 => pc'[c] = "won")
    BY <1>8 DEF DeleteRow, Goto, TypeOK
  <2>2. \A k \in Keys \ {key[c]} : row'[k] = row[k]
    BY <2>1 DEF TypeOK
  <2>3. row[key[c]].ver # 0 => Worked(key[c])'
    BY <1>1, <1>4, <1>5, <2>1 DEF LossInv, DeleterInv
  <2>4. row'[key[c]].ver = 0
    BY <1>1, <2>1 DEF TypeOK, NoRecord
  <2>5. ASSUME NEW k \in Keys, Current(k)'.ver # Current(k).ver PROVE Worked(k)'
    <3>1. row'[k] # row[k]
      BY <2>1, <2>5 DEF Current
    <3>2. k = key[c]
      BY <2>2, <3>1
    <3>3. CASE row[k].ver = 0
      <4>1. Current(k) = blob[k] /\ Current(k)' = blob[k]
        BY <2>1, <2>4, <3>2, <3>3 DEF Current
      <4>2. QED
        BY <2>5, <4>1
    <3>4. QED
      BY <1>1, <2>3, <3>2, <3>3 DEF Worked
  <2>6. \A k \in Keys : ~(row[k].ver = 0 /\ row'[k].ver # 0)
    BY <2>2, <2>4
  <2>7. QED
    BY <2>1, <2>5, <2>6 DEF Legacy, LossInv
<1>9. ASSUME PopWrite(c) PROVE Goal
  <2>1. /\ row' = row /\ pc[c] = "popped" /\ pc'[c] = "won"
        /\ blob' = [snap[c] EXCEPT ![key[c]] = NoRecord]
    BY <1>9 DEF PopWrite, Goto, TypeOK
  <2>2. \A k \in Keys : snap[c][k].ver \in {0, -1} /\ (snap[c][k] # blob[k] => Worked(k))
    BY <2>1 DEF LossInv, DeleterInv
  <2>3. /\ \A k \in Keys \ {key[c]} : blob'[k] = snap[c][k]
        /\ blob'[key[c]].ver = 0
    BY <1>1, <2>1 DEF TypeOK, NoRecord
  <2>4. \A k \in Keys : blob'[k] # blob[k] => Worked(k)'
    BY <1>4, <1>5, <2>1, <2>2, <2>3
  <2>5. Legacy'
    BY <2>2, <2>3 DEF Legacy
  <2>6. QED
    BY <2>1, <2>4, <2>5 DEF Current
<1>10. ASSUME BulkFlush(c) PROVE Goal
  <2>1. blob' = blob /\ pc[c] = "flushing"
    BY <1>10 DEF BulkFlush
  <2>2. \A k \in Keys : Worked(k)'
    BY <1>3, <2>1 DEF Worked
  <2>3. QED
    BY <2>1, <2>2 DEF Legacy, LossInv
<1>11. ASSUME \/ Get(c) \/ Create(c) \/ PutRead(c) \/ DeleteRead(c) \/ PopRead(c)
              \/ BulkLoad(c) \/ BulkDiff(c)
       PROVE  Goal
  BY <1>6, <1>11 DEF Get, Create, PutRead, DeleteRead, PopRead, BulkLoad, BulkDiff
<1>12. QED
  BY <1>4, <1>7, <1>8, <1>9, <1>10, <1>11 DEF Step

\* The client that moves.
LEMMA OwnLoss ==
  ASSUME TypeOK, PhaseInv, LossInv, NEW c \in Clients, Step(c)
  PROVE  DeleterInv(c)' /\ CasInv(c)'
<1>1. key' = key /\ key[c] \in Keys
  BY Settled DEF TypeOK
<1>2. DeleterInv(c) /\ CasInv(c) /\ Legacy
  BY DEF LossInv
<1>3. \A k \in Keys : Worked(k) => Worked(k)'
  BY WorkDone
<1> USE DEF TypeOK, PhaseInv, Begin, Goto
<1>4. CASE Get(c)
  <2>1. /\ UNCHANGED <<row, blob>> /\ pc'[c] = "got"
        /\ kind'[c] = "cas" => expect'[c] = Current(key[c]).ver
    BY <1>4 DEF Get
  <2>2. Current(key[c]).ver \in Nat \cup {-1}
    BY <1>1, CurrentType DEF Record
  <2>3. QED
    BY <1>1, <2>1, <2>2 DEF DeleterInv, CasInv, Current
<1>5. CASE PutRead(c)
  <2>1. /\ UNCHANGED <<row, blob, kind, expect>> /\ pc[c] = "got"
        /\ \/ pc'[c] = "checked"
           \/ pc'[c] = "lost" /\ Current(key[c]).ver # expect[c]
    BY <1>5 DEF PutRead
  <2>2. QED
    BY <1>1, <1>2, <1>3, <2>1 DEF DeleterInv, CasInv, Current
<1>6. CASE PutWrite(c)
  <2>1. CASE Condition(c)
    BY <1>1, <1>6, <2>1 DEF PutWrite, DeleterInv, CasInv
  <2>2. CASE ~Condition(c)
    <3>1. /\ UNCHANGED <<row, blob, kind, expect>> /\ pc[c] = "checked" /\ pc'[c] = "lost"
      BY <1>6, <2>2 DEF PutWrite
    <3>2. kind[c] = "cas" => expect[c] # Current(key[c]).ver
      BY <1>1, <1>2, <2>2, <3>1 DEF Condition, Current, Legacy, CasInv
    <3>3. QED
      BY <1>1, <1>2, <1>3, <3>1, <3>2 DEF DeleterInv, CasInv
  <2>3. QED
    BY <2>1, <2>2
<1>7. CASE DeleteRead(c)
  BY <1>1, <1>7 DEF DeleteRead, DeleterInv, CasInv
<1>8. CASE DeleteRow(c)
  BY <1>1, <1>8 DEF DeleteRow, DeleterInv, CasInv
<1>9. CASE PopRead(c)
  BY <1>1, <1>2, <1>9 DEF PopRead, DeleterInv, CasInv, Legacy
<1>10. CASE Create(c) \/ PopWrite(c) \/ BulkLoad(c) \/ BulkDiff(c) \/ BulkFlush(c)
  BY <1>1, <1>10 DEF Create, PopWrite, BulkLoad, BulkDiff, BulkFlush, DeleterInv, CasInv
<1>11. QED
  BY <1>4, <1>5, <1>6, <1>7, <1>8, <1>9, <1>10 DEF Step

LEMMA LossStep ==
  ASSUME TypeOK, PhaseInv, LossInv, [Next]_vars PROVE LossInv'
<1>1. CASE UNCHANGED vars
  BY <1>1 DEF vars, LossInv, Legacy, DeleterInv, CasInv, Worked, Current
<1>2. ASSUME NEW c \in Clients, Step(c) PROVE LossInv'
  <2>1. ASSUME NEW d \in Clients, d # c PROVE DeleterInv(d)' /\ CasInv(d)'
    <3>1. /\ key' = key /\ key[d] \in Keys
          /\ pc'[d] = pc[d] /\ kind'[d] = kind[d] /\ expect'[d] = expect[d]
          /\ snap'[d] = snap[d] /\ cur'[d] = cur[d]
      BY <1>2, <2>1, Settled DEF TypeOK
    <3>2. DeleterInv(d) /\ CasInv(d)
      BY DEF LossInv
    <3>3. DeleterInv(d)'
      BY <1>2, <3>1, <3>2, WorkDone DEF DeleterInv
    <3>4. CasInv(d)'
      BY <1>2, <3>1, <3>2, WorkDone DEF CasInv
    <3>5. QED
      BY <3>3, <3>4
  <2>2. QED
    BY <1>2, <2>1, OwnLoss, WorkDone DEF LossInv
<1>3. QED
  BY <1>1, <1>2 DEF Next, Step

LEMMA LossInit == Init => LossInv
<1> SUFFICES ASSUME Init PROVE LossInv
  OBVIOUS
<1>1. PICK seed \in [Keys -> Seeds] : blob = [k \in Keys |-> SeedBlob(seed[k])]
  BY DEF Init
<1>2. \A s \in Seeds : SeedBlob(s).ver \in {0, -1}
  BY DEF SeedBlob, NoRecord
<1>3. QED
  BY <1>1, <1>2 DEF Init, LossInv, Legacy, DeleterInv, CasInv

\* A writer is refused only if somebody else's operation on the record has
\* succeeded, or a bulk save has been at work.
THEOREM LosersWereBeaten == Spec => []LossMeansAnotherWon
<1>1. TypeOK /\ PhaseInv /\ LossInv => LossMeansAnotherWon
  <2> SUFFICES ASSUME TypeOK, PhaseInv, LossInv,
                      NEW c \in Clients, pc[c] = "lost", kind[c] = "cas"
               PROVE  \E d \in Clients \ {c} :
                        \/ pc[d] = "won" /\ key[d] = key[c]
                        \/ kind[d] = "bulk" /\ pc[d] \in {"flushing", "won"}
    BY DEF LossMeansAnotherWon
  <2>1. Worked(key[c])
    BY DEF LossInv, CasInv
  <2>2. QED
    BY <2>1 DEF Worked
<1>2. QED
  BY <1>1, LossInit, LossStep, TypeCorrect, PhaseInvariant, PTL DEF Spec
-----------------------------------------------------------------------------
(***************************************************************************)
(* A client whose write has not gone through: nobody has seen its edit.    *)
(* Only a bulk saver carries its edit around before it writes, and that    *)
(* one is never refused.                                                   *)
(***************************************************************************)
Apart == {"idle", "got", "checked", "deleting", "popping", "popped", "lost"}

Unseen(c) ==
  /\ \A k \in Keys : c \notin row[k].edits /\ c \notin blob[k].edits
  /\ \A d \in Clients, k \in Keys : c \notin snap[d][k].edits

TraceInv == \A c \in Clients : pc[c] \in Apart => Unseen(c)

LEMMA TraceStep ==
  ASSUME TypeOK, PhaseInv, TraceInv, [Next]_vars PROVE TraceInv'
<1>1. CASE UNCHANGED vars
  BY <1>1 DEF vars, TraceInv, Unseen
<1>2. ASSUME NEW d \in Clients, Step(d), NEW c \in Clients, pc'[c] \in Apart PROVE Unseen(c)'
  <2> USE DEF TypeOK, Begin, Goto, Apart
  <2>a. key[d] \in Keys
    OBVIOUS
  <2>b. c # d => pc[c] \in Apart
    BY <1>2, Settled
  <2>1. CASE Get(d) \/ Create(d) \/ PutRead(d) \/ DeleteRead(d) \/ PopRead(d)
    <3>1. pc[c] \in Apart
      BY <1>2, <2>b, <2>1 DEF Get, Create, PutRead, DeleteRead, PopRead
    <3>2. Unseen(c)
      BY <3>1 DEF TraceInv
    <3>3. c \notin Current(key[d]).edits /\ c \notin NoRecord.edits
      BY <2>a, <3>2 DEF Unseen, Current, NoRecord
    <3>4. \A k \in Keys : c \notin [Nothing EXCEPT ![key[d]] = Current(key[d])][k].edits
      BY <2>a, <3>3 DEF Nothing
    <3>5. row' = row /\ blob' = blob
      BY <2>1 DEF Get, Create, PutRead, DeleteRead, PopRead
    <3>6. \A e \in Clients, k \in Keys : c \notin snap'[e][k].edits
      BY <2>1, <3>2, <3>4 DEF Get, Create, PutRead, DeleteRead, PopRead, Unseen
    <3>7. QED
      BY <3>2, <3>5, <3>6 DEF Unseen
  <2>2. CASE PutWrite(d)
    <3>1. pc[c] \in Apart
      BY <1>2, <2>b, <2>2 DEF PutWrite
    <3>2. Unseen(c)
      BY <3>1 DEF TraceInv
    <3>3. CASE ~Condition(d)
      BY <2>2, <3>2, <3>3 DEF PutWrite, Unseen
    <3>4. CASE Condition(d)
      <4>1. c # d
        BY <1>2, <2>2, <3>4 DEF PutWrite
      <4>2. c \notin snap[d][key[d]].edits \cup {d}
        BY <2>a, <3>2, <4>1 DEF Unseen
      <4>3. PICK rec : rec = [ver |-> NextVersion(cur[d]), edits |-> snap[d][key[d]].edits \cup {d}]
        OBVIOUS
      <4>4. row' = [row EXCEPT ![key[d]] = rec] /\ c \notin rec.edits /\ UNCHANGED <<blob, snap>>
        BY <2>2, <3>4, <4>2, <4>3 DEF PutWrite
      <4>5. QED
        BY <3>2, <4>4 DEF Unseen
    <3>5. QED
      BY <3>3, <3>4
  <2>3. CASE DeleteRow(d)
    <3>1. pc[c] \in Apart
      BY <1>2, <2>b, <2>3 DEF DeleteRow
    <3>2. QED
      BY <2>3, <3>1 DEF DeleteRow, TraceInv, Unseen, NoRecord
  <2>4. CASE PopWrite(d)
    <3>1. pc[c] \in Apart
      BY <1>2, <2>b, <2>4 DEF PopWrite
    <3>2. QED
      BY <2>4, <3>1 DEF PopWrite, TraceInv, Unseen, NoRecord
  <2>5. CASE BulkLoad(d)
    <3>1. c # d /\ pc[c] \in Apart
      BY <1>2, <2>b, <2>5 DEF BulkLoad
    <3>2. Unseen(c) /\ c \notin NoRecord.edits /\ c \notin [ver |-> -1, edits |-> {d}].edits
      BY <3>1 DEF TraceInv, NoRecord
    <3>3. PICK rec \in {NoRecord, [ver |-> -1, edits |-> {d}]} :
            snap' = [snap EXCEPT ![d] = [row EXCEPT ![key[d]] = rec]]
      BY <2>5 DEF BulkLoad
    <3>4. c \notin rec.edits
      BY <3>2, <3>3
    <3>5. \A k \in Keys : c \notin snap'[d][k].edits
      BY <3>2, <3>3, <3>4 DEF Unseen
    <3>6. \A e \in Clients \ {d} : snap'[e] = snap[e]
      BY <3>3
    <3>7. QED
      BY <2>5, <3>2, <3>5, <3>6 DEF BulkLoad, Unseen
  <2>6. CASE BulkDiff(d)
    <3>1. c # d
      BY <1>2, <2>6 DEF BulkDiff
    <3>2. QED
      BY <2>6, <2>b, <3>1 DEF BulkDiff, TraceInv, Unseen
  <2>7. CASE BulkFlush(d)
    <3>1. PICK k \in todo[d] :
            /\ row' = [row EXCEPT ![k] = IF snap[d][k].ver = 0 THEN NoRecord
                                         ELSE [ver |-> -1, edits |-> snap[d][k].edits]]
            /\ Goto(d, IF todo[d] = {k} THEN "won" ELSE "flushing")
      BY <2>7 DEF BulkFlush
    <3>2. c # d
      BY <1>2, <3>1
    <3>3. Unseen(c) /\ k \in Keys
      BY <2>b, <3>1, <3>2 DEF TraceInv
    <3>4. PICK rec : /\ rec = IF snap[d][k].ver = 0 THEN NoRecord ELSE [ver |-> -1, edits |-> snap[d][k].edits]
                     /\ row' = [row EXCEPT ![k] = rec]
      BY <3>1
    <3>5. c \notin rec.edits
      BY <3>3, <3>4 DEF Unseen, NoRecord
    <3>6. QED
      BY <2>7, <3>3, <3>4, <3>5 DEF BulkFlush, Unseen
  <2>8. QED
    BY <1>2, <2>1, <2>2, <2>3, <2>4, <2>5, <2>6, <2>7 DEF Step
<1>3. QED
  BY <1>1, <1>2 DEF Next, Step, TraceInv

LEMMA TraceInit == Init => TraceInv
<1> SUFFICES ASSUME Init PROVE TraceInv
  OBVIOUS
<1>1. PICK seed \in [Keys -> Seeds] :
        row = [k \in Keys |-> SeedRow(seed[k])] /\ blob = [k \in Keys |-> SeedBlob(seed[k])]
  BY DEF Init
<1>2. \A s \in Seeds : SeedRow(s).edits = {} /\ SeedBlob(s).edits = {}
  BY SeedsAssumption DEF SeedRow, SeedBlob, NoRecord, AllSeeds
<1>3. QED
  BY <1>1, <1>2 DEF Init, TraceInv, Unseen, Nothing, NoRecord

\* A write that was refused with ConcurrencyError is nowhere in the collection,
\* neither then nor after anybody else's operation.
THEOREM RefusedWritesVanish == Spec => []LoserLeavesNoTrace
<1>1. TraceInv => LoserLeavesNoTrace
  BY DEF TraceInv, Apart, Unseen, LoserLeavesNoTrace
<1>2. QED
  BY <1>1, TraceInit, TraceStep, TypeCorrect, PhaseInvariant, PTL DEF Spec
-----------------------------------------------------------------------------
(***************************************************************************)
(* The collection implements compare-and-set registers.                    *)
(***************************************************************************)
StoreInv == TypeOK /\ PhaseInv /\ \A k \in Keys : RecordInv(k)

LEMMA StoreInvariant == Spec => []StoreInv
BY RecordInvariant, PTL DEF StoreInv

\* What a step leaves of the view of the others: records become loose only when
\* a client begins, those that do not keep what is stored, save perhaps the one
\* that the step is about, and nobody else is told anything.
LEMMA OthersStay ==
  ASSUME StoreInv, NEW c \in Clients, Step(c)
  PROVE  /\ key' = key /\ key[c] \in Keys
         /\ Loose \subseteq Loose'
         /\ pc[c] # "idle" => Loose' = Loose
         /\ \A k \in Keys \ Loose' : k # key[c] => Current(k)' = Current(k)
         /\ \A d \in Clients \ {c} : pc'[d] = pc[d] /\ expect'[d] = expect[d]
<1>1. /\ key' = key /\ key[c] \in Keys
      /\ \A d \in Clients \ {c} : pc'[d] = pc[d] /\ kind'[d] = kind[d] /\ expect'[d] = expect[d]
      /\ kind[c] # "none" => kind'[c] = kind[c] /\ expect'[c] = expect[c]
  BY Settled DEF StoreInv, TypeOK
<1>2. \A k \in Keys : Disciplined(k)' => Disciplined(k)
  BY DisciplineLasts DEF StoreInv
<1>3. ASSUME pc[c] # "idle", NEW k \in Keys PROVE Disciplined(k)' = Disciplined(k)
  BY <1>1, <1>3 DEF StoreInv, PhaseInv, Disciplined
<1>4. ASSUME NEW k \in Keys, Disciplined(k)', k # key[c] PROVE Current(k)' = Current(k)
  BY <1>2, <1>4, Elsewhere DEF StoreInv, Current
<1>5. QED
  BY <1>1, <1>2, <1>3, <1>4 DEF Loose

ToldOf(step) == CASE step = "idle"            -> "none"
                  [] step \in {"won", "lost"} -> step
                  [] OTHER                    -> "open"

LEMMA ToldValues ==
  /\ \A c \in Clients : Told[c] = ToldOf(pc[c])
  /\ ToldOf("idle") = "none" /\ ToldOf("won") = "won" /\ ToldOf("lost") = "lost"
  /\ \A step \in Steps \ {"idle", "won", "lost"} : ToldOf(step) = "open"
BY DEF Told, ToldOf, Finished, Steps

\* What is told in a step is told to the client that takes it.
LEMMA ToldStep ==
  ASSUME StoreInv, NEW c \in Clients, Step(c)
  PROVE  Told' = [Told EXCEPT ![c] = ToldOf(pc'[c])]
<1>1. \A d \in Clients \ {c} : pc'[d] = pc[d]
  BY OthersStay
<1>2. \A d \in Clients : Told[d] = ToldOf(pc[d]) /\ Told'[d] = ToldOf(pc'[d])
  BY DEF Told, ToldOf, Finished
<1>3. Told = [d \in Clients |-> Told[d]] /\ Told' = [d \in Clients |-> Told'[d]]
  BY DEF Told
<1>4. QED
  BY <1>1, <1>2, <1>3

\* The view after a step that changes no record of which something is promised.
LEMMA ViewKept ==
  ASSUME StoreInv, NEW c \in Clients, Step(c), \A k \in Keys \ Loose' : Current(k)' = Current(k)
  PROVE  /\ Present' = Present \ Loose'
         /\ Edits' = [k \in Keys |-> IF k \in Loose' THEN {} ELSE Edits[k]]
         /\ \A d \in Clients \ {c} : d \in UpToDate' <=> d \in UpToDate /\ key[d] \notin Loose'
<1>1. Loose \subseteq Loose' /\ Loose' \subseteq Keys /\ key' = key
  BY OthersStay DEF Loose
<1>2. Present' = Present \ Loose'
  BY <1>1 DEF Present
<1>3. Edits' = [k \in Keys |-> IF k \in Loose' THEN {} ELSE Edits[k]]
  BY <1>1 DEF Edits
<1>4. \A d \in Clients : key[d] \in Keys
  BY DEF StoreInv, TypeOK
<1>5. \A d \in Clients \ {c} : d \in UpToDate' <=> d \in UpToDate /\ key[d] \notin Loose'
  BY <1>1, <1>4, OthersStay DEF UpToDate
<1>6. QED
  BY <1>2, <1>3, <1>5

\* A client begins.
LEMMA Beginning ==
  ASSUME StoreInv, NEW c \in Clients, Step(c), pc[c] = "idle"
  PROVE  /\ row' = row /\ blob' = blob
         /\ pc'[c] \in {"got", "deleting", "loaded"}
         /\ pc'[c] = "got" => \/ expect'[c] = Current(key[c]).ver
                              \/ expect'[c] = NoExpect /\ kind'[c] = "blind"
                              \/ expect'[c] = 0 /\ kind'[c] = "create"
         /\ pc'[c] = "deleting" => kind'[c] = "delete"
         /\ pc'[c] = "loaded" => kind'[c] = "bulk"
BY DEF Step, Get, Create, PutRead, PutWrite, DeleteRead, DeleteRow, PopRead, PopWrite,
       BulkLoad, BulkDiff, BulkFlush, Begin, Goto, StoreInv, TypeOK

\* It works without regard to versions, or on a record that others work on in
\* such a way.
LEMMA BeginsLoose ==
  ASSUME StoreInv, NEW c \in Clients, Step(c), pc[c] = "idle", key[c] \in Loose'
  PROVE  Register!Loosen(c)
<1>1. Told[c] = "none" /\ Told' = [Told EXCEPT ![c] = "open"]
  BY Beginning, ToldStep, ToldValues DEF Steps
<1>2. \A k \in Keys : Current(k)' = Current(k)
  BY Beginning DEF Current
<1>3. /\ Present' = Present \ Loose'
      /\ Edits' = [k \in Keys |-> IF k \in Loose' THEN {} ELSE Edits[k]]
      /\ \A d \in Clients \ {c} : d \in UpToDate' <=> d \in UpToDate /\ key[d] \notin Loose'
  BY <1>2, ViewKept
<1>4. PICK some \in {{key[c]}, Keys} : Loose' = Loose \cup some
  <2>1. /\ kind[c] = "none" /\ key[c] \in Keys /\ key' = key
        /\ \A d \in Clients \ {c} : kind'[d] = kind[d] /\ expect'[d] = expect[d]
    BY Settled, OthersStay DEF StoreInv, PhaseInv
  <2>2. CASE kind'[c] = "bulk"
    BY <2>2 DEF Loose, Disciplined
  <2>3. CASE kind'[c] # "bulk"
    <3>1. \A k \in Keys \ {key[c]} : Disciplined(k)' <=> Disciplined(k)
      BY <2>1, <2>3 DEF Disciplined
    <3>2. QED
      BY <2>1, <3>1 DEF Loose
  <2>4. QED
    BY <2>2, <2>3
<1>5. UpToDate \subseteq Clients /\ UpToDate' \subseteq Clients /\ c \notin UpToDate /\ c \notin UpToDate'
  BY OthersStay DEF UpToDate
<1>6. \A d \in UpToDate : key[d] \notin Loose
  BY DEF UpToDate
<1>7. UpToDate' = {d \in UpToDate : key[d] \notin some}
  BY <1>3, <1>4, <1>5, <1>6
<1>8. Present' = Present \ some
  BY <1>3, <1>4 DEF Present
<1>9. Edits' = [k \in Keys |-> IF k \in some THEN {} ELSE Edits[k]]
  <2>1. \A k \in Loose : Edits[k] = {}
    BY DEF Edits, Loose
  <2>2. QED
    BY <1>3, <1>4, <2>1
<1>10. key' = key
  BY OthersStay
<1>11. QED
  BY <1>1, <1>4, <1>7, <1>8, <1>9, <1>10 DEF Register!Loosen, Register!Tell

\* A client goes on, or comes to an end, with a loose record.
LEMMA GoesOnLoose ==
  ASSUME StoreInv, NEW c \in Clients, Step(c), pc[c] # "idle", key[c] \in Loose
  PROVE  Register!Finish(c) \/ UNCHANGED <<key, Present, Edits, Loose, UpToDate, Told>>
<1>1. key' = key /\ key[c] \in Keys /\ Loose' = Loose
  BY OthersStay
<1>2. \A k \in Keys \ Loose' : Current(k)' = Current(k)
  BY <1>1, OthersStay
<1>3. /\ Present' = Present \ Loose'
      /\ Edits' = [k \in Keys |-> IF k \in Loose' THEN {} ELSE Edits[k]]
      /\ \A d \in Clients \ {c} : d \in UpToDate' <=> d \in UpToDate /\ key[d] \notin Loose'
  BY <1>2, ViewKept
<1>4. Present' = Present /\ Edits' = Edits
  BY <1>1, <1>3 DEF Present, Edits
<1>5. UpToDate' = UpToDate
  <2>1. UpToDate \subseteq Clients /\ UpToDate' \subseteq Clients /\ c \notin UpToDate /\ c \notin UpToDate'
    BY <1>1 DEF UpToDate
  <2>2. \A d \in UpToDate : key[d] \notin Loose
    BY DEF UpToDate
  <2>3. QED
    BY <1>1, <1>3, <2>1, <2>2
<1>6. pc[c] \in Steps \ {"idle", "won", "lost"} /\ pc'[c] \in Steps \ {"idle"}
  BY DEF Step, Get, Create, PutRead, PutWrite, DeleteRead, DeleteRow, PopRead, PopWrite,
         BulkLoad, BulkDiff, BulkFlush, Begin, Goto, StoreInv, TypeOK, Steps
<1>7. Told[c] = "open" /\ (Told' = Told \/ \E what \in {"won", "lost"} : Told' = [Told EXCEPT ![c] = what])
  <2>1. Told[c] = "open" /\ Told' = [Told EXCEPT ![c] = ToldOf(pc'[c])]
    BY <1>6, ToldStep, ToldValues
  <2>2. ToldOf(pc'[c]) \in {"open", "won", "lost"}
    BY <1>6, ToldValues
  <2>3. [Told EXCEPT ![c] = "open"] = Told
    BY <2>1 DEF Told
  <2>4. QED
    BY <2>1, <2>2, <2>3
<1>8. QED
  BY <1>1, <1>4, <1>5, <1>7 DEF Register!Finish, Register!Tell

\* A client begins to work on a record with regard to its version.
LEMMA BeginsToRead ==
  ASSUME StoreInv, NEW c \in Clients, Step(c), pc[c] = "idle", key[c] \notin Loose'
  PROVE  Register!Read(c) \/ Register!Miss(c)
<1>1. /\ key' = key /\ key[c] \in Keys /\ key[c] \notin Loose
      /\ Disciplined(key[c])'
  BY OthersStay DEF Loose
<1>2. kind'[c] \notin {"blind", "delete", "bulk"}
  BY <1>1 DEF Disciplined
<1>3. /\ pc'[c] = "got" /\ row' = row /\ blob' = blob
      /\ expect'[c] = Current(key[c]).ver \/ expect'[c] = 0
  BY <1>2, Beginning
<1>4. \A k \in Keys : Current(k)' = Current(k)
  BY <1>3 DEF Current
<1>5. Told[c] = "none" /\ Told' = [Told EXCEPT ![c] = "open"]
  BY <1>3, ToldStep, ToldValues DEF Steps
<1>6. Loose' = Loose
  <2>1. \A d \in Clients \ {c} : kind'[d] = kind[d] /\ expect'[d] = expect[d]
    BY Settled DEF StoreInv
  <2>2. kind[c] = "none"
    BY DEF StoreInv, PhaseInv
  <2>3. kind'[c] = "cas" => expect'[c] # -1
    BY <1>1 DEF Disciplined
  <2>4. \A k \in Keys : Disciplined(k)' <=> Disciplined(k)
    BY <1>1, <1>2, <2>1, <2>2, <2>3 DEF Disciplined
  <2>5. QED
    BY <2>4 DEF Loose
<1>7. Present' = Present /\ Edits' = Edits
  BY <1>4, <1>6 DEF Present, Edits
<1>8. \A d \in Clients \ {c} : d \in UpToDate' <=> d \in UpToDate
  <2>1. \A d \in UpToDate : key[d] \notin Loose
    BY DEF UpToDate
  <2>2. QED
    BY <1>4, <1>6, <2>1, ViewKept
<1>9. UpToDate \subseteq Clients /\ UpToDate' \subseteq Clients /\ c \notin UpToDate
  BY DEF UpToDate
<1>10. c \in UpToDate' <=> expect'[c] = Current(key[c]).ver
  BY <1>1, <1>3, <1>4, <1>6 DEF UpToDate
<1>11. CASE expect'[c] = Current(key[c]).ver
  <2>1. UpToDate' = UpToDate \cup {c}
    BY <1>8, <1>9, <1>10, <1>11
  <2>2. QED
    BY <1>1, <1>5, <1>6, <1>7, <2>1 DEF Register!Read, Register!Tell
<1>12. CASE expect'[c] # Current(key[c]).ver
  <2>1. UpToDate' = UpToDate
    BY <1>8, <1>9, <1>10, <1>12
  <2>2. key[c] \in Present
    BY <1>1, <1>3, <1>12 DEF Present
  <2>3. QED
    BY <1>1, <1>5, <1>6, <1>7, <2>1, <2>2 DEF Register!Miss, Register!Tell
<1>13. QED
  BY <1>11, <1>12

\* The database's condition is that the reading is up to date.
LEMMA ConditionIsUpToDate ==
  ASSUME StoreInv, NEW c \in Clients, pc[c] = "checked", key[c] \notin Loose
  PROVE  /\ Versioned(key[c]) /\ key[c] \in Keys
         /\ Condition(c) <=> c \in UpToDate
<1>1. key[c] \in Keys /\ Disciplined(key[c])
  BY DEF StoreInv, TypeOK, Loose
<1>2. Versioned(key[c])
  BY <1>1 DEF StoreInv, RecordInv, Unversioned
<1>3. expect[c] \in Nat /\ row[key[c]].ver \in Nat /\ Current(key[c]) = row[key[c]]
  BY <1>1, <1>2, VersionedIsCurrent DEF Versioned, WriterInv
<1>4. QED
  BY <1>1, <1>2, <1>3 DEF Condition, UpToDate

\* A write that goes through.
LEMMA WriteReplaces ==
  ASSUME StoreInv, NEW c \in Clients, NEW k \in Keys, key[c] = k, k \notin Loose,
         PutWrite(c), Condition(c)
  PROVE  Register!Replace(c)
<1>1. Step(c) /\ pc[c] = "checked"
  BY DEF Step, PutWrite
<1>2. /\ Versioned(k) /\ c \in UpToDate
      /\ key' = key /\ Loose' = Loose /\ k \notin Loose'
      /\ \A x \in Keys \ Loose' : x # k => Current(x)' = Current(x)
      /\ \A d \in Clients \ {c} : pc'[d] = pc[d] /\ expect'[d] = expect[d]
  BY <1>1, ConditionIsUpToDate, OthersStay
<1>3. /\ pc'[c] = "won" /\ row[k].ver \in Nat /\ Current(k) = row[k]
      /\ row'[k] = [ver |-> row[k].ver + 1, edits |-> row[k].edits \cup {c}]
  <2>1. pc' = [pc EXCEPT ![c] = "won"]
    BY DEF PutWrite, Goto
  <2>2. pc'[c] = "won"
    BY <2>1 DEF StoreInv, TypeOK
  <2>3. row' = [row EXCEPT ![k] = [ver |-> row[k].ver + 1, edits |-> row[k].edits \cup {c}]]
    BY <1>2, <2>2, WriteEffect DEF StoreInv, TypeOK
  <2>4. QED
    BY <1>2, <2>2, <2>3, VersionedIsCurrent DEF StoreInv, TypeOK, Versioned
<1>4. Current(k)' = row'[k] /\ Current(k)'.ver = Current(k).ver + 1
      /\ Current(k)'.edits = Current(k).edits \cup {c} /\ Current(k)'.ver # 0
  BY <1>3 DEF Current
<1>5. Told' = [Told EXCEPT ![c] = "won"]
  BY <1>1, <1>3, ToldStep, ToldValues
<1>6. Present' = Present \cup {k}
  BY <1>2, <1>4 DEF Present, Loose
<1>7. Edits' = [Edits EXCEPT ![k] = @ \cup {c}]
  <2>1. \A x \in Keys : Edits'[x] = IF x = k THEN Edits[x] \cup {c} ELSE Edits[x]
    BY <1>2, <1>4 DEF Edits
  <2>2. Edits = [x \in Keys |-> Edits[x]] /\ Edits' = [x \in Keys |-> Edits'[x]]
    BY DEF Edits
  <2>3. QED
    BY <1>2, <2>1, <2>2
<1>8. UpToDate' = {d \in UpToDate : key[d] # k}
  <2>1. \A d \in Clients : key[d] = k => d \notin UpToDate'
    <3>1. \A d \in Clients : key[d] = k /\ pc[d] \in {"got", "checked"} => expect[d] <= row[k].ver /\ expect[d] \in Nat
      BY <1>2 DEF Versioned, WriterInv
    <3>2. QED
      BY <1>2, <1>3, <1>4, <3>1 DEF UpToDate
  <2>2. \A d \in Clients : key[d] \in Keys
    BY DEF StoreInv, TypeOK
  <2>3. \A d \in Clients : key[d] # k => (d \in UpToDate' <=> d \in UpToDate)
    BY <1>2, <2>2 DEF UpToDate
  <2>4. UpToDate \subseteq Clients /\ UpToDate' \subseteq Clients
    BY DEF UpToDate
  <2>5. QED
    BY <2>1, <2>3, <2>4
<1>9. QED
  BY <1>2, <1>5, <1>6, <1>7, <1>8 DEF Register!Replace, Register!Tell

\* put_item's own comparison, and a write that the database refuses.
LEMMA ComparesOrFails ==
  ASSUME StoreInv, NEW c \in Clients, key[c] \notin Loose,
         PutRead(c) \/ (PutWrite(c) /\ ~Condition(c))
  PROVE  Register!Refuse(c) \/ UNCHANGED <<key, Present, Edits, Loose, UpToDate, Told>>
<1>1. Step(c) /\ pc[c] \in {"got", "checked"}
  BY DEF Step, PutRead, PutWrite
<1>2. /\ key' = key /\ Loose' = Loose /\ key[c] \in Keys /\ row' = row /\ blob' = blob
      /\ expect' = expect
  BY <1>1, OthersStay DEF PutRead, PutWrite
<1>3. \A k \in Keys : Current(k)' = Current(k)
  BY <1>2 DEF Current
<1>4. Present' = Present /\ Edits' = Edits
  BY <1>2, <1>3 DEF Present, Edits
<1>5. \/ pc'[c] = "lost" /\ c \notin UpToDate
      \/ pc'[c] = "checked"
  <2>1. CASE PutRead(c)
    BY <2>1 DEF PutRead, Goto, UpToDate, StoreInv, TypeOK
  <2>2. CASE PutWrite(c) /\ ~Condition(c)
    BY <2>2, ConditionIsUpToDate DEF PutWrite, Goto, StoreInv, TypeOK
  <2>3. QED
    BY <2>1, <2>2
<1>6. UpToDate' = UpToDate
  <2>1. \A d \in Clients \ {c} : d \in UpToDate' <=> d \in UpToDate
    <3>1. \A d \in UpToDate : key[d] \notin Loose
      BY DEF UpToDate
    <3>2. QED
      BY <1>1, <1>2, <1>3, <3>1, ViewKept
  <2>2. c \in UpToDate' <=> c \in UpToDate
    BY <1>1, <1>2, <1>3, <1>5 DEF UpToDate
  <2>3. UpToDate \subseteq Clients /\ UpToDate' \subseteq Clients
    BY DEF UpToDate
  <2>4. QED
    BY <2>1, <2>2, <2>3
<1>7. Told[c] = "open" /\ Told' = [Told EXCEPT ![c] = ToldOf(pc'[c])]
  BY <1>1, ToldStep, ToldValues DEF Steps
<1>8. CASE pc'[c] = "lost" /\ c \notin UpToDate
  BY <1>2, <1>4, <1>6, <1>7, <1>8, ToldValues DEF Register!Refuse, Register!Tell
<1>9. CASE pc'[c] = "checked"
  <2>1. Told' = [Told EXCEPT ![c] = "open"]
    BY <1>7, <1>9, ToldValues DEF Steps
  <2>2. Told' = Told
    BY <1>7, <2>1 DEF Told
  <2>3. QED
    BY <1>2, <1>4, <1>6, <2>2
<1>10. QED
  BY <1>5, <1>8, <1>9

\* Every step is one of a compare-and-set, or none at all.
LEMMA RegisterStep ==
  StoreInv /\ [Next]_vars => [Register!Next]_<<key, Present, Edits, Loose, UpToDate, Told>>
<1> SUFFICES ASSUME StoreInv, [Next]_vars
             PROVE  Register!Next \/ UNCHANGED <<key, Present, Edits, Loose, UpToDate, Told>>
  OBVIOUS
<1>1. CASE UNCHANGED vars
  BY <1>1 DEF vars, Present, Edits, Loose, UpToDate, Told, Disciplined, Current, Finished
<1>2. ASSUME NEW c \in Clients, Step(c)
      PROVE  \/ Register!Read(c) \/ Register!Miss(c) \/ Register!Replace(c) \/ Register!Refuse(c)
             \/ Register!Loosen(c) \/ Register!Finish(c)
             \/ UNCHANGED <<key, Present, Edits, Loose, UpToDate, Told>>
  <2>1. PICK k \in Keys : key[c] = k
    BY DEF StoreInv, TypeOK
  <2>2. Loose \subseteq Loose' /\ (pc[c] # "idle" => Loose' = Loose)
    BY <1>2, OthersStay
  <2>3. CASE pc[c] = "idle" /\ k \in Loose'
    BY <1>2, <2>1, <2>3, BeginsLoose
  <2>4. CASE pc[c] = "idle" /\ k \notin Loose'
    BY <1>2, <2>1, <2>4, BeginsToRead
  <2>5. CASE pc[c] # "idle" /\ k \in Loose
    BY <1>2, <2>1, <2>5, GoesOnLoose
  <2>6. CASE pc[c] # "idle" /\ k \notin Loose
    <3>1. PutRead(c) \/ PutWrite(c)
      <4>1. Disciplined(k)
        BY <2>6 DEF Loose
      <4>2. kind[c] \notin {"blind", "delete", "bulk"}
        BY <2>1, <4>1 DEF Disciplined
      <4>3. QED
        BY <1>2, <2>6, <4>2 DEF Step, StoreInv, PhaseInv, Get, Create, DeleteRead, DeleteRow, PopRead,
             PopWrite, BulkLoad, BulkDiff, BulkFlush, Begin
    <3>2. QED
      BY <2>1, <2>6, <3>1, WriteReplaces, ComparesOrFails
  <2>7. QED
    BY <2>3, <2>4, <2>5, <2>6
<1>3. QED
  BY <1>1, <1>2 DEF Next, Step, Register!Next

LEMMA RegisterInit == Init => Register!Init
<1> SUFFICES ASSUME Init PROVE Register!Init
  OBVIOUS
<1>1. PICK seed \in [Keys -> Seeds] :
        row = [k \in Keys |-> SeedRow(seed[k])] /\ blob = [k \in Keys |-> SeedBlob(seed[k])]
  BY DEF Init
<1>2. \A s \in Seeds : SeedRow(s).edits = {} /\ SeedBlob(s).edits = {}
  BY SeedsAssumption DEF SeedRow, SeedBlob, NoRecord, AllSeeds
<1>3. \A k \in Keys : Current(k).edits = {}
  BY <1>1, <1>2 DEF Current
<1>4. Loose = {}
  BY DEF Init, Loose, Disciplined
<1>5. Present \in SUBSET Keys /\ Edits = [k \in Keys |-> {}]
  BY <1>3, <1>4 DEF Present, Edits
<1>6. UpToDate = {}
  BY DEF Init, UpToDate
<1>7. Told = [c \in Clients |-> "none"]
  <2>1. \A c \in Clients : Told[c] = "none"
    BY ToldValues DEF Init
  <2>2. QED
    BY <2>1 DEF Told
<1>8. QED
  BY <1>4, <1>5, <1>6, <1>7 DEF Init, Register!Init

\* Whatever the interleaving of the reads and writes that put_item, delete_item
\* and the bulk save are made of, the records that are written with discipline
\* are atomic compare-and-set registers.
THEOREM StoreImplementsRegister == Spec => ImplementsRegister
BY RegisterInit, RegisterStep, StoreInvariant, PTL DEF Spec, Register!Spec, ImplementsRegister

=============================================================================
