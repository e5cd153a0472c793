------------------------- MODULE ApprovalLedgerProofs -------------------------
(***************************************************************************)
(* Theorems about ApprovalLedger: for any number of concurrent calls, of   *)
(* attempts and of days, evidence is kept and read back in its order.      *)
(***************************************************************************)
EXTENDS ApprovalLedger, TLAPS

LEMMA TypeStep == TypeOK /\ [Next]_vars => TypeOK'
<1> SUFFICES ASSUME TypeOK, [Next]_vars PROVE TypeOK'
  OBVIOUS
<1>1. CASE Midnight
  BY <1>1, DaysAssumption DEF Midnight, TypeOK, Days
<1>2. ASSUME NEW c \in Calls, Date(c) PROVE TypeOK'
  BY <1>2 DEF Date, TypeOK
<1>3. ASSUME NEW c \in Calls, Load(c) PROVE TypeOK'
  <2>1. PICK n \in {1} \cup {s + 1 : s \in {r.seq : r \in {x \in rows : x.day = day[c]}}} :
          start' = [start EXCEPT ![c] = n]
    BY <1>3 DEF Load
  <2>2. n \in Nat \ {0}
    BY <2>1 DEF TypeOK, Rows
  <2>3. QED
    BY <1>3, <2>1, <2>2 DEF Load, TypeOK
<1>4. ASSUME NEW c \in Calls, Mint(c) PROVE TypeOK'
  <2>1. Row(c) \in Rows /\ Id(Row(c)) \in Days \X (Nat \ {0})
    BY DEF TypeOK, Row, Number, Id, Rows
  <2>2. written' \in Seq(Days \X (Nat \ {0})) /\ rows' \subseteq Rows
    BY <1>4, <2>1 DEF Mint, TypeOK
  <2>3. QED
    BY <1>4, <2>2 DEF Mint, TypeOK
<1>5. ASSUME NEW c \in Calls, Collide(c) PROVE TypeOK'
  BY <1>5 DEF Collide, TypeOK
<1>6. CASE PurgeLoad \/ PurgeDiff \/ PurgeFlush
  BY <1>6 DEF PurgeLoad, PurgeDiff, PurgeFlush, TypeOK
<1>7. CASE UNCHANGED vars
  BY <1>7 DEF vars, TypeOK
<1>8. QED
  BY <1>1, <1>2, <1>3, <1>4, <1>5, <1>6, <1>7 DEF Next

\* The collection, the calls and the purge stay within their types.
THEOREM TypeCorrect == Spec => []TypeOK
<1>1. Init => TypeOK
  BY DaysAssumption DEF Init, TypeOK, Days
<1>2. QED
  BY <1>1, TypeStep, PTL DEF Spec
-----------------------------------------------------------------------------
(***************************************************************************)
(* Until a purge the numbers of a day have no gap, and a call has seen     *)
(* every number below the one it tries taken: the first free number it     *)
(* meets is above all others.                                              *)
(***************************************************************************)
Dense == \A r \in rows : \A n \in 1..r.seq : Taken(r.day, n)

CallInv(c) ==
  /\ pc[c] \in {"idle", "dated"} => tried[c] = 0
  /\ pc[c] = "minting" => \A n \in 1..(Number(c) - 1) : Taken(day[c], n)

Stored == \A i \in DOMAIN written : \E r \in rows : Id(r) = written[i]

LedgerInv ==
  /\ purge = "idle"
  /\ Dense /\ Stored
  /\ \A c \in Calls : CallInv(c)
  /\ EveryDecisionHasItsRow /\ ReadBackInOrder

UnlessPurged == purge = "idle" => LedgerInv

\* The purge never becomes idle again.
LEMMA IdleBefore == [Next]_vars /\ purge' = "idle" => purge = "idle"
BY DEF Next, vars, Midnight, Date, Load, Mint, Collide, PurgeLoad, PurgeDiff, PurgeFlush

LEMMA RowsStay ==
  ASSUME TypeOK, LedgerInv, [Next]_vars, purge' = "idle"
  PROVE  rows \subseteq rows' /\ purge' = "idle"
BY DEF Next, vars, LedgerInv, Midnight, Date, Load, Mint, Collide, PurgeLoad, PurgeDiff,
       PurgeFlush, Free, Taken, Row, Id

LEMMA TakenStays ==
  ASSUME rows \subseteq rows', NEW d, NEW n, Taken(d, n)
  PROVE  \E r \in rows' : Id(r) = <<d, n>>
BY DEF Taken

LEMMA LocalStep ==
  ASSUME [Next]_vars, purge = "idle", purge' = "idle"
  PROVE  \/ rows' = rows /\ written' = written
         \/ \E c \in Calls : Mint(c)
BY DEF Next, vars, Midnight, Date, Load, Collide, PurgeLoad, PurgeDiff, PurgeFlush

\* The number a call mints is above all numbers of its day.
LEMMA MintsAbove ==
  ASSUME TypeOK, LedgerInv, NEW c \in Calls, Mint(c), NEW r \in rows, r.day = day[c]
  PROVE  r.seq < Number(c)
<1>1. r.seq \in Nat \ {0} /\ Number(c) \in Nat \ {0}
  BY DEF TypeOK, Rows, Number
<1>2. CASE Number(c) <= r.seq
  <2>1. Number(c) \in 1..r.seq
    BY <1>1, <1>2
  <2>2. Taken(day[c], Number(c))
    BY <2>1 DEF LedgerInv, Dense
  <2>3. QED
    BY <2>2 DEF Mint, Free
<1>3. QED
  BY <1>1, <1>2

LEMMA DenseStep ==
  ASSUME TypeOK, LedgerInv, [Next]_vars, purge' = "idle" PROVE Dense' /\ Stored'
<1>1. CASE rows' = rows /\ written' = written
  BY <1>1 DEF LedgerInv, Dense, Stored, Taken
<1>2. ASSUME NEW c \in Calls, Mint(c) PROVE Dense' /\ Stored'
  <2>1. rows' = rows \cup {Row(c)}
    BY <1>2 DEF Mint, Free, Taken, Row, Id
  <2>2. Row(c).day = day[c] /\ Row(c).seq = Number(c) /\ Id(Row(c)) = <<day[c], Number(c)>>
    BY DEF Row, Id
  <2>3. Number(c) \in Nat
    BY DEF TypeOK, Number
  <2>4. ASSUME NEW r \in rows', NEW n \in 1..r.seq PROVE \E x \in rows' : Id(x) = <<r.day, n>>
    <3>1. CASE r \in rows
      BY <2>1, <2>4, <3>1 DEF LedgerInv, Dense, Taken
    <3>2. CASE r = Row(c) /\ n = Number(c)
      BY <2>1, <2>2, <3>2
    <3>3. CASE r = Row(c) /\ n # Number(c)
      <4>1. n \in 1..(Number(c) - 1)
        BY <2>2, <2>3, <2>4, <3>3
      <4>2. Taken(day[c], n)
        BY <1>2, <4>1 DEF LedgerInv, CallInv, Mint
      <4>3. QED
        BY <2>1, <2>2, <3>3, <4>2 DEF Taken
    <3>4. QED
      BY <2>1, <3>1, <3>2, <3>3
  <2>5. Dense'
    BY <2>4 DEF Dense, Taken
  <2>6. ASSUME NEW i \in DOMAIN written' PROVE \E r \in rows' : Id(r) = written'[i]
    <3>1. written' = Append(written, Id(Row(c))) /\ written \in Seq(Days \X (Nat \ {0}))
      BY <1>2 DEF Mint, TypeOK
    <3>2. CASE i \in DOMAIN written
      BY <2>1, <3>1, <3>2 DEF LedgerInv, Stored
    <3>3. CASE i \notin DOMAIN written
      <4>1. written'[i] = Id(Row(c))
        BY <2>6, <3>1, <3>3
      <4>2. QED
        BY <2>1, <4>1
    <3>4. QED
      BY <3>2, <3>3
  <2>7. QED
    BY <2>5, <2>6 DEF Stored
<1>3. QED
  BY <1>1, <1>2, LocalStep DEF LedgerInv

LEMMA OrderStep ==
  ASSUME TypeOK, LedgerInv, [Next]_vars, purge' = "idle" PROVE ReadBackInOrder'
<1>1. CASE written' = written
  BY <1>1 DEF LedgerInv, ReadBackInOrder
<1>2. ASSUME NEW c \in Calls, Mint(c) PROVE ReadBackInOrder'
  <2>1. written' = Append(written, Id(Row(c))) /\ written \in Seq(Days \X (Nat \ {0}))
    BY <1>2 DEF Mint, TypeOK
  <2>2. Id(Row(c)) = <<day[c], Number(c)>>
    BY DEF Row, Id
  <2> SUFFICES ASSUME NEW i \in DOMAIN written', NEW j \in DOMAIN written', i < j,
                      written'[i][1] = written'[j][1]
               PROVE  written'[i][2] < written'[j][2]
    BY DEF ReadBackInOrder
  <2>3. i \in DOMAIN written /\ written'[i] = written[i]
    BY <2>1
  <2>4. CASE j \in DOMAIN written
    BY <2>1, <2>3, <2>4 DEF LedgerInv, ReadBackInOrder
  <2>5. CASE j \notin DOMAIN written
    <3>1. written'[j] = <<day[c], Number(c)>>
      BY <2>1, <2>2, <2>5
    <3>2. PICK r \in rows : Id(r) = written[i]
      BY <2>3 DEF LedgerInv, Stored
    <3>3. r.day = day[c] /\ written[i][2] = r.seq
      BY <2>3, <3>1, <3>2 DEF Id
    <3>4. r.seq < Number(c)
      BY <1>2, <3>3, MintsAbove
    <3>5. QED
      BY <2>3, <3>1, <3>3, <3>4
  <2>6. QED
    BY <2>4, <2>5
<1>3. QED
  BY <1>1, <1>2, LocalStep DEF LedgerInv

LEMMA CallStep ==
  ASSUME TypeOK, LedgerInv, [Next]_vars, purge' = "idle", NEW q \in Calls PROVE CallInv(q)'
<1>1. rows \subseteq rows' /\ CallInv(q)
  BY RowsStay DEF LedgerInv
<1>2. ASSUME pc'[q] = pc[q], day'[q] = day[q], start'[q] = start[q], tried'[q] = tried[q]
      PROVE  CallInv(q)'
  BY <1>1, <1>2, TakenStays DEF CallInv, Number, Taken
<1>3. ASSUME NEW c \in Calls, Date(c) \/ Load(c) \/ Mint(c) \/ Collide(c), c # q
      PROVE  CallInv(q)'
  BY <1>2, <1>3 DEF Date, Load, Mint, Collide, TypeOK
<1>4. CASE Midnight \/ PurgeLoad \/ PurgeDiff \/ PurgeFlush \/ UNCHANGED vars
  BY <1>2, <1>4 DEF Midnight, PurgeLoad, PurgeDiff, PurgeFlush, vars
<1>5. CASE Date(q)
  BY <1>1, <1>5 DEF Date, CallInv, TypeOK
<1>6. CASE Load(q)
  <2>1. PICK n \in {1} \cup {s + 1 : s \in {r.seq : r \in {x \in rows : x.day = day[q]}}} :
          start' = [start EXCEPT ![q] = n]
    BY <1>6 DEF Load
  <2>2. pc'[q] = "minting" /\ day' = day /\ tried'[q] = 0 /\ start'[q] = n /\ rows' = rows
    BY <1>1, <1>6, <2>1 DEF Load, CallInv, TypeOK
  <2>3. n = 1 \/ \E r \in rows : r.day = day[q] /\ n = r.seq + 1
    BY <2>1
  <2>4. ASSUME NEW k \in 1..(n - 1) PROVE Taken(day[q], k)
    <3>1. PICK r \in rows : r.day = day[q] /\ n = r.seq + 1
      BY <2>3, <2>4
    <3>2. r.seq \in Nat
      BY <3>1 DEF TypeOK, Rows
    <3>3. k \in 1..r.seq
      BY <2>4, <3>1, <3>2
    <3>4. QED
      BY <3>1, <3>3 DEF LedgerInv, Dense
  <2>5. n \in Nat
    BY <2>3 DEF TypeOK, Rows
  <2>6. Number(q)' = n
    BY <2>2, <2>5 DEF Number
  <2>7. QED
    BY <2>2, <2>4, <2>6 DEF CallInv, Taken
<1>7. CASE Mint(q)
  BY <1>7 DEF Mint, CallInv, TypeOK
<1>8. CASE Collide(q)
  <2>1. /\ pc[q] = "minting" /\ Taken(day[q], Number(q)) /\ rows' = rows /\ day' = day
        /\ start' = start /\ tried'[q] = tried[q] + 1 /\ pc'[q] \in {"minting", "failed"}
    BY <1>8 DEF Collide, Free, TypeOK
  <2>2. start[q] \in Nat /\ tried[q] \in Nat
    BY DEF TypeOK
  <2>3. Number(q)' = Number(q) + 1
    BY <2>1, <2>2 DEF Number
  <2>4. ASSUME NEW k \in 1..Number(q) PROVE Taken(day[q], k)
    <3>1. k = Number(q) \/ k \in 1..(Number(q) - 1)
      BY <2>2, <2>4 DEF Number
    <3>2. QED
      BY <1>1, <2>1, <3>1 DEF CallInv
  <2>5. 1..(Number(q)' - 1) = 1..Number(q)
    BY <2>2, <2>3 DEF Number
  <2>6. QED
    BY <2>1, <2>4, <2>5 DEF CallInv, Taken
<1>9. QED
  BY <1>3, <1>4, <1>5, <1>6, <1>7, <1>8 DEF Next

LEMMA KeptStep ==
  ASSUME TypeOK, LedgerInv, [Next]_vars, purge' = "idle" PROVE EveryDecisionHasItsRow'
<1> SUFFICES ASSUME NEW q \in Calls, pc'[q] = "minted" PROVE Row(q)' \in rows'
  BY DEF EveryDecisionHasItsRow
<1>1. CASE Mint(q)
  BY <1>1 DEF Mint, Row, Number
<1>2. CASE ~Mint(q)
  <2>1. pc[q] = "minted" /\ day'[q] = day[q] /\ start'[q] = start[q] /\ tried'[q] = tried[q]
    BY <1>2 DEF Next, vars, Midnight, Date, Load, Mint, Collide, PurgeLoad, PurgeDiff,
                PurgeFlush, TypeOK
  <2>2. Row(q)' = Row(q)
    BY <2>1 DEF Row, Number
  <2>3. QED
    BY <2>1, <2>2, RowsStay DEF LedgerInv, EveryDecisionHasItsRow
<1>3. QED
  BY <1>1, <1>2

LEMMA LedgerHolds == Spec => []UnlessPurged
<1>1. Init => UnlessPurged
  BY DEF Init, UnlessPurged, LedgerInv, Dense, Stored, CallInv, EveryDecisionHasItsRow, ReadBackInOrder, Number
<1>2. TypeOK /\ UnlessPurged /\ [Next]_vars => UnlessPurged'
  <2> SUFFICES ASSUME TypeOK, LedgerInv, [Next]_vars, purge' = "idle" PROVE LedgerInv'
    BY IdleBefore DEF UnlessPurged
  <2>1. QED
    BY DenseStep, OrderStep, CallStep, KeptStep DEF LedgerInv
<1>3. QED
  BY TypeCorrect, <1>1, <1>2, PTL DEF Spec

\* No decision is merged into the evidence row of another one.
THEOREM DecisionsKeepTheirRows == Spec => []EveryDecisionHasItsRow
<1>1. UnlessPurged => EveryDecisionHasItsRow
  BY DEF UnlessPurged, LedgerInv, EveryDecisionHasItsRow
<1>2. QED
  BY LedgerHolds, <1>1, PTL

\* Within a day the order of the ids is the order in which decisions were stored.
THEOREM IdsFollowTheWrites == Spec => []ReadBackInOrder
<1>1. UnlessPurged => ReadBackInOrder
  BY DEF UnlessPurged, LedgerInv, ReadBackInOrder
<1>2. QED
  BY LedgerHolds, <1>1, PTL
-----------------------------------------------------------------------------
(***************************************************************************)
(* Giving up.  Every row is the row of a call that has returned, and each  *)
(* number a call lost was minted by another call of its day.               *)
(***************************************************************************)
MintedBy(c, n) == \E d \in Calls \ {c} : pc[d] = "minted" /\ day[d] = day[c] /\ Number(d) = n

LostInv(c) ==
  /\ pc[c] \in {"idle", "dated"} => tried[c] = 0
  /\ pc[c] = "failed" => tried[c] = MaxAttempts
  /\ pc[c] \in {"minting", "failed"} =>
       \A n \in start[c]..(Number(c) - 1) : MintedBy(c, n)

Owned == \A r \in rows : pc[r.by] = "minted" /\ r = Row(r.by)

ContentionInv == Owned /\ \A c \in Calls : LostInv(c)

\* A call that has returned keeps its number, and a waiting one its day.
LEMMA MintedStays ==
  ASSUME TypeOK, [Next]_vars, NEW c \in Calls, NEW n, MintedBy(c, n), day'[c] = day[c]
  PROVE  MintedBy(c, n)'
<1>1. PICK d \in Calls \ {c} : pc[d] = "minted" /\ day[d] = day[c] /\ Number(d) = n
  BY DEF MintedBy
<1>2. pc'[d] = "minted" /\ day'[d] = day[d] /\ start'[d] = start[d] /\ tried'[d] = tried[d]
  BY <1>1 DEF Next, vars, Midnight, Date, Load, Mint, Collide, PurgeLoad, PurgeDiff,
              PurgeFlush, TypeOK
<1>3. QED
  BY <1>1, <1>2 DEF MintedBy, Number

LEMMA OwnedStep ==
  ASSUME TypeOK, Owned, [Next]_vars PROVE Owned'
<1> SUFFICES ASSUME NEW r \in rows' PROVE pc'[r.by] = "minted" /\ r = Row(r.by)'
  BY DEF Owned
<1>1. ASSUME NEW c \in Calls, Mint(c), r = Row(c)
      PROVE  pc'[r.by] = "minted" /\ r = Row(r.by)'
  BY <1>1 DEF Mint, Row, Number, TypeOK
<1>2. CASE r \in rows
  <2>1. r.by \in Calls /\ pc[r.by] = "minted" /\ r = Row(r.by)
    BY <1>2 DEF Owned, TypeOK, Rows
  <2>2. /\ pc'[r.by] = "minted" /\ day'[r.by] = day[r.by]
        /\ start'[r.by] = start[r.by] /\ tried'[r.by] = tried[r.by]
    BY <2>1 DEF Next, vars, Midnight, Date, Load, Mint, Collide, PurgeLoad, PurgeDiff,
                PurgeFlush, TypeOK
  <2>3. QED
    BY <2>1, <2>2 DEF Row, Number
<1>3. r \in rows \/ \E c \in Calls : Mint(c) /\ r = Row(c)
  BY DEF Next, vars, Midnight, Date, Load, Mint, Collide, PurgeLoad, PurgeDiff, PurgeFlush
<1>4. QED
  BY <1>1, <1>2, <1>3

LEMMA LostStep ==
  ASSUME TypeOK, ContentionInv, [Next]_vars, NEW q \in Calls PROVE LostInv(q)'
<1>1. LostInv(q)
  BY DEF ContentionInv
<1>2. ASSUME pc'[q] = pc[q], day'[q] = day[q], start'[q] = start[q], tried'[q] = tried[q]
      PROVE  LostInv(q)'
  <2>1. Number(q)' = Number(q)
    BY <1>2 DEF Number
  <2>2. QED
    BY <1>1, <1>2, <2>1, MintedStays DEF LostInv
<1>3. CASE Collide(q)
  <2>1. /\ pc[q] = "minting" /\ Taken(day[q], Number(q)) /\ day' = day /\ start' = start
        /\ tried'[q] = tried[q] + 1
        /\ pc'[q] = IF tried[q] + 1 = MaxAttempts THEN "failed" ELSE "minting"
    BY <1>3 DEF Collide, Free, TypeOK
  <2>2. start[q] \in Nat /\ tried[q] \in Nat
    BY DEF TypeOK
  <2>3. Number(q)' = Number(q) + 1
    BY <2>1, <2>2 DEF Number
  <2>4. PICK r \in rows : Id(r) = <<day[q], Number(q)>>
    BY <2>1 DEF Taken
  <2>5. r.by \in Calls /\ pc[r.by] = "minted" /\ r = Row(r.by)
    BY <2>4 DEF ContentionInv, Owned, TypeOK, Rows
  <2>6. MintedBy(q, Number(q))
    BY <2>1, <2>4, <2>5 DEF MintedBy, Id, Row
  <2>7. ASSUME NEW n \in start[q]..Number(q) PROVE MintedBy(q, n)'
    <3>1. n = Number(q) \/ n \in start[q]..(Number(q) - 1)
      BY <2>2, <2>7 DEF Number
    <3>2. MintedBy(q, n)
      BY <1>1, <2>1, <2>6, <3>1 DEF LostInv
    <3>3. QED
      BY <2>1, <3>2, MintedStays
  <2>8. start'[q]..(Number(q)' - 1) = start[q]..Number(q)
    BY <2>1, <2>2, <2>3 DEF Number
  <2>9. QED
    BY <2>1, <2>7, <2>8 DEF LostInv
<1>4. CASE Load(q)
  <2>1. PICK n \in {1} \cup {s + 1 : s \in {r.seq : r \in {x \in rows : x.day = day[q]}}} :
          start' = [start EXCEPT ![q] = n]
    BY <1>4 DEF Load
  <2>2. n \in Nat
    BY <2>1 DEF TypeOK, Rows
  <2>3. pc'[q] = "minting" /\ tried'[q] = 0 /\ start'[q] = n
    BY <1>1, <1>4, <2>1 DEF Load, LostInv, TypeOK
  <2>4. start'[q]..(Number(q)' - 1) = {}
    BY <2>2, <2>3 DEF Number
  <2>5. QED
    BY <2>3, <2>4 DEF LostInv
<1>5. CASE Date(q)
  BY <1>1, <1>5 DEF Date, LostInv, TypeOK
<1>6. CASE Mint(q)
  BY <1>6 DEF Mint, LostInv, TypeOK
<1>7. CASE ~(Collide(q) \/ Load(q) \/ Date(q) \/ Mint(q))
  <2>1. ASSUME NEW c \in Calls, Date(c) \/ Load(c) \/ Mint(c) \/ Collide(c), c # q
        PROVE  LostInv(q)'
    BY <1>2, <2>1 DEF Date, Load, Mint, Collide, TypeOK
  <2>2. CASE Midnight \/ PurgeLoad \/ PurgeDiff \/ PurgeFlush \/ UNCHANGED vars
    BY <1>2, <2>2 DEF Midnight, PurgeLoad, PurgeDiff, PurgeFlush, vars
  <2>3. QED
    BY <1>7, <2>1, <2>2 DEF Next
<1>8. QED
  BY <1>3, <1>4, <1>5, <1>6, <1>7

\* A call fails only after others minted every number it tried, also while the
\* purge deletes rows.
THEOREM ContentionOnly == Spec => []GivesUpUnderContention
<1>1. Init => ContentionInv
  BY AttemptsAssumption DEF Init, ContentionInv, Owned, LostInv
<1>2. TypeOK /\ ContentionInv /\ [Next]_vars => ContentionInv'
  BY OwnedStep, LostStep DEF ContentionInv
<1>3. TypeOK /\ ContentionInv => GivesUpUnderContention
  BY AttemptsAssumption DEF TypeOK, ContentionInv, LostInv, MintedBy, GivesUpUnderContention, Number
<1>4. QED
  BY TypeCorrect, <1>1, <1>2, <1>3, PTL DEF Spec
=============================================================================
