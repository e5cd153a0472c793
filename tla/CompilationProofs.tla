--------------------------- MODULE CompilationProofs ---------------------------
(***************************************************************************)
(* What holds of the pipeline whatever the policies, the procedures, the   *)
(* bounds of the grids and the cap of the search are.  The lists that a    *)
(* stage selects from (Ascending, Sublist, WitnessesAmong) come first, then *)
(* what a search, a validation and a proposal promise, what each stage     *)
(* adds to a job, and what run_build makes of its inputs.  The invariant   *)
(* says of every stage what the job has been through, and of a stored      *)
(* build what run_build would make of its inputs again.  The edges of a    *)
(* procedure in which a node was moved come last.                          *)
(***************************************************************************)
EXTENDS Compilation, FiniteSetTheorems, SequenceTheorems, TLAPS

LEMMA Listed ==
  ASSUME NEW k \in Nat, NEW f, f = [i \in 1..k |-> f[i]]
  PROVE  f \in Seq({f[i] : i \in DOMAIN f}) /\ Len(f) = k
<1> DEFINE T == {f[i] : i \in DOMAIN f}
<1>1. DOMAIN f = 1..k
 OBVIOUS
<1>2. \A i \in 1..k : f[i] \in T
  BY <1>1
<1> HIDE DEF T
<1>3. [i \in 1..k |-> f[i]] \in [1..k -> T]
  BY <1>2
<1>4. f \in [1..k -> T]
  BY <1>3
<1>5. f \in Seq(T)
  BY <1>4, SeqDef
<1> QED BY <1>1, <1>5, LenProperties DEF T

LEMMA RankGrows ==
  ASSUME NEW S \in SUBSET Nat, IsFiniteSet(S), NEW u \in S, NEW v \in S, u < v
  PROVE  Cardinality({x \in S : x <= u}) < Cardinality({x \in S : x <= v})
<1> DEFINE U == {x \in S : x <= u}
           V == {x \in S : x <= v}
<1>1. U \in SUBSET V
  <2>1. \A x \in S : x <= u => x <= v
    OBVIOUS
  <2> QED BY <2>1
<1>4. v \in V /\ v \notin U /\ V \in SUBSET S
  OBVIOUS
<1> HIDE DEF U, V
<1>2. IsFiniteSet(V)
  BY <1>4, FS_Subset
<1>3. Cardinality(U) <= Cardinality(V) /\ Cardinality(U) # Cardinality(V) /\ IsFiniteSet(U)
  BY <1>1, <1>2, <1>4, FS_Subset
<1> QED BY <1>2, <1>3, FS_CardinalityType DEF U, V

Rank(S, v) == Cardinality({u \in S : u <= v})

\* Every member has a rank, no two the same, and Ascending goes by rank.
LEMMA AscendingByRank ==
  ASSUME NEW S \in SUBSET Nat, IsFiniteSet(S)
  PROVE  /\ Cardinality(S) \in Nat
         /\ Ascending(S) = [i \in 1..Cardinality(S) |-> Ascending(S)[i]]
         /\ \A i \in 1..Cardinality(S) : Ascending(S)[i] \in S /\ Rank(S, Ascending(S)[i]) = i
         /\ \A v \in S : Rank(S, v) \in 1..Cardinality(S) /\ Ascending(S)[Rank(S, v)] = v
<1> DEFINE C == Cardinality(S)
           f == [v \in S |-> Rank(S, v)]
<1>1. C \in Nat
  BY FS_CardinalityType
<1>2. ASSUME NEW v \in S PROVE Rank(S, v) \in 1..C
  <2> DEFINE V == {u \in S : u <= v}
  <2>1. V \in SUBSET S /\ v \in V
    OBVIOUS
  <2>2. Rank(S, v) = Cardinality(V)
    BY DEF Rank
  <2> HIDE DEF V
  <2>3. IsFiniteSet(V) /\ Cardinality(V) <= C
    BY <2>1, FS_Subset
  <2>4. Cardinality(V) \in Nat /\ Cardinality(V) # 0
    BY <2>1, <2>3, FS_CardinalityType, FS_EmptySet
  <2>5. QED
    BY <1>1, <2>2, <2>3, <2>4
<1>3. ASSUME NEW u \in S, NEW v \in S, u # v PROVE Rank(S, u) # Rank(S, v)
  <2>1. u < v \/ v < u
    BY <1>3
  <2>2. Rank(S, u) \in Nat /\ Rank(S, v) \in Nat
    BY <1>2, <1>1
  <2>3. CASE u < v
    BY <2>2, <2>3, RankGrows DEF Rank
  <2>4. CASE v < u
    BY <2>2, <2>4, RankGrows DEF Rank
  <2>5. QED
    BY <2>1, <2>3, <2>4
<1>4. f \in Injection(S, 1..C)
  BY <1>2, <1>3 DEF Injection, IsInjective
<1>5. IsFiniteSet(1..C) /\ Cardinality(1..C) = C
  BY <1>1, FS_Interval
<1> HIDE DEF f
<1>6. f \in Surjection(S, 1..C)
  BY <1>4, <1>5, FS_Injection
<1>7. ASSUME NEW i \in 1..C PROVE \E v \in S : Rank(S, v) = i
  BY <1>6 DEF Surjection, f
<1>8. ASSUME NEW i \in 1..C PROVE Ascending(S)[i] \in S /\ Rank(S, Ascending(S)[i]) = i
  <2>1. Ascending(S)[i] = CHOOSE v \in S : Rank(S, v) = i
    BY DEF Ascending, Rank
  <2>2. QED
    BY <1>7, <2>1
<1>9. \A v \in S : Ascending(S)[Rank(S, v)] = v
  BY <1>2, <1>3, <1>8
<1>10. Ascending(S) = [i \in 1..Cardinality(S) |-> Ascending(S)[i]]
  BY DEF Ascending
<1>11. QED
  BY <1>1, <1>2, <1>8, <1>9, <1>10

\* A sublist has what the list has at the places, and nothing else.
LEMMA SublistContents ==
  ASSUME NEW seq, NEW places \in SUBSET Nat, IsFiniteSet(places)
  PROVE  LET s == Sublist(seq, places)
         IN  /\ Cardinality(places) \in Nat
             /\ s = [n \in 1..Cardinality(places) |-> s[n]]
             /\ \A n \in DOMAIN s : \E p \in places : s[n] = seq[p]
             /\ \A p \in places : /\ Rank(places, p) \in DOMAIN s
                                  /\ s[Rank(places, p)] = seq[p]
<1> DEFINE A == Ascending(places)
           C == Cardinality(places)
<1>1. C \in Nat /\ DOMAIN A = 1..C
  BY AscendingByRank DEF Ascending
<1>2. /\ \A i \in 1..C : A[i] \in places
      /\ \A v \in places : Rank(places, v) \in 1..C /\ A[Rank(places, v)] = v
  BY AscendingByRank
<1>3. Sublist(seq, places) = [n \in DOMAIN A |-> seq[A[n]]]
  BY DEF Sublist
<1> HIDE DEF A, C
<1>4. Sublist(seq, places) = [n \in 1..C |-> seq[A[n]]]
  BY <1>1, <1>3
<1>5. QED
  BY <1>1, <1>2, <1>4 DEF C

\* A set of numbers that is not empty has a least one.
LEMMA LeastOfFinite ==
  ASSUME NEW S \in SUBSET Nat, IsFiniteSet(S), S # {}
  PROVE  \E a \in S : \A u \in S : a <= u
<1> DEFINE a == Ascending(S)[1]
<1>1. Cardinality(S) \in Nat /\ Cardinality(S) # 0
  BY FS_CardinalityType, FS_EmptySet
<1>2. a \in S /\ Rank(S, a) = 1
  BY <1>1, AscendingByRank
<1> HIDE DEF a
<1>3. ASSUME NEW u \in S, u < a PROVE FALSE
  <2>1. Rank(S, u) < Rank(S, a)
    BY <1>2, <1>3, RankGrows DEF Rank
  <2>2. Rank(S, u) \in 1..Cardinality(S)
    BY AscendingByRank
  <2>3. QED
    BY <1>1, <1>2, <2>1, <2>2
<1>4. QED
  BY <1>2, <1>3

-----------------------------------------------------------------------------
IsList(s) == s \in Seq({s[i] : i \in DOMAIN s})

LEMMA ListLength ==
  ASSUME NEW s, IsList(s)
  PROVE  Len(s) \in Nat /\ DOMAIN s = 1..Len(s)
  BY LenProperties DEF IsList

LEMMA ListAppend ==
  ASSUME NEW s, NEW x, IsList(s)
  PROVE  /\ IsList(Append(s, x))
         /\ Len(Append(s, x)) = Len(s) + 1
         /\ \A i \in DOMAIN s : i \in DOMAIN Append(s, x) /\ Append(s, x)[i] = s[i]
         /\ Append(s, x)[Len(s) + 1] = x
<1> DEFINE T == {s[i] : i \in DOMAIN s} \cup {x}
           t == Append(s, x)
<1>1. s \in Seq(T) /\ x \in T
  BY SeqMonotonic DEF IsList
<1> HIDE DEF T
<1>2. /\ t \in Seq(T) /\ Len(t) = Len(s) + 1 /\ t[Len(s) + 1] = x
      /\ \A i \in 1..Len(s) : t[i] = s[i]
  BY <1>1, AppendProperties
<1>3. Len(t) \in Nat /\ t = [i \in 1..Len(t) |-> t[i]]
  BY <1>2, LenProperties
<1> HIDE DEF t
<1>4. IsList(t) /\ DOMAIN t = 1..Len(t)
  BY <1>3, Listed DEF IsList
<1>5. QED
  BY <1>2, <1>4, ListLength DEF t

\* The grid of a search is a list, and a case that is added comes after it.
LEMMA CasesOfSearch ==
  ASSUME NEW m, NEW w, NEW c, NEW cap \in Nat
  PROVE  LET g == CandidateCases(m, w, <<>>, cap)
         IN  IsList(g) /\ CandidateCases(m, w, <<c>>, cap) = Append(g, c)
<1> DEFINE all == Combinations(m, w)
           N == Cardinality((1..cap) \cap DOMAIN all)
           g == Completed(Prefix(all, cap))
<1>1. N \in Nat
  <2>1. IsFiniteSet(1..cap)
    BY FS_Interval
  <2>2. IsFiniteSet((1..cap) \cap DOMAIN all)
    BY <2>1, FS_Subset
  <2>3. QED
    BY <2>2, FS_CardinalityType
<1>2. DOMAIN Prefix(all, cap) = 1..N
  BY DEF Prefix
<1>3. g = [i \in 1..N |-> g[i]]
  BY <1>2 DEF Completed
<1>4. /\ CandidateCases(m, w, <<>>, cap) = g \o <<>>
      /\ CandidateCases(m, w, <<c>>, cap) = g \o <<c>>
  BY DEF CandidateCases
<1> HIDE DEF g, N, all
<1>5. IsList(g)
  BY <1>1, <1>3, Listed DEF IsList
<1>6. g \o <<>> = g
  BY <1>5, ConcatEmptySeq DEF IsList
<1>7. g \o <<c>> = Append(g, c)
  <2> DEFINE T == {g[i] : i \in DOMAIN g} \cup {c}
  <2>1. g \in Seq(T) /\ c \in T
    BY <1>5, SeqMonotonic DEF IsList
  <2> HIDE DEF T
  <2>2. QED
    BY <2>1, AppendIsConcat
<1>8. QED
  BY <1>4, <1>5, <1>6, <1>7
-----------------------------------------------------------------------------
Says(x, d) == <<x.kind, x.key>> = d

LEMMA DisagreementIsPair ==
  ASSUME NEW m, NEW w, NEW c
  PROVE  LET d == Disagreement(m, w, c) IN <<d[1], d[2]>> = d
<1> DEFINE Pair(d) == <<d[1], d[2]>> = d
<1>1. \A e, a : Pair(ClassifyDisagreement(e, a))
  BY DEF ClassifyDisagreement, NoFault
<1>2. QED
  BY <1>1 DEF Disagreement

\* Every disagreement that a search meets has its witness, at the rank of the
\* case that showed it first.
LEMMA WitnessOfEach ==
  ASSUME NEW m, NEW w, NEW cases, IsList(cases)
  PROVE  LET found  == Disagreements(m, w, cases)
             firsts == FirstFound(found)
             s      == WitnessesAmong(cases, found)
         IN  /\ firsts \in SUBSET DOMAIN cases /\ IsFiniteSet(firsts)
             /\ IsList(s) /\ Len(s) = Cardinality(firsts)
             /\ \A i \in firsts : Rank(firsts, i) \in DOMAIN s /\ Says(s[Rank(firsts, i)], found[i])
             /\ \A i \in DOMAIN cases : found[i] = NoFault \/ \E j \in firsts : found[j] = found[i]
             /\ \A n \in DOMAIN s : Says(s[n], Disagreement(m, w, s[n].case))
<1> DEFINE found  == Disagreements(m, w, cases)
           firsts == FirstFound(found)
           all    == [i \in DOMAIN cases |-> [kind |-> found[i][1], key |-> found[i][2], case |-> cases[i]]]
           s      == WitnessesAmong(cases, found)
<1>1. Len(cases) \in Nat /\ DOMAIN cases = 1..Len(cases)
  BY ListLength
<1>2. DOMAIN found = DOMAIN cases /\ \A i \in DOMAIN cases : found[i] = Disagreement(m, w, cases[i])
  BY DEF Disagreements
<1>3. s = Sublist(all, firsts)
  BY DEF WitnessesAmong
<1>4. \A i \in DOMAIN cases : all[i].kind = found[i][1] /\ all[i].key = found[i][2]
  OBVIOUS
<1>5. \A i \in DOMAIN cases : Says(all[i], found[i])
  BY <1>2, <1>4, DisagreementIsPair DEF Says
<1>6. \A i : i \in firsts <=> /\ i \in DOMAIN cases /\ found[i] # NoFault
                            /\ \A j \in 1..(i - 1) : found[j] # found[i]
  BY <1>2 DEF FirstFound
<1> HIDE DEF found, firsts, all, s
<1>7. firsts \in SUBSET DOMAIN cases /\ firsts \in SUBSET Nat /\ IsFiniteSet(firsts)
  <2>1. firsts \in SUBSET (1..Len(cases))
    BY <1>1, <1>6
  <2>2. IsFiniteSet(1..Len(cases))
    BY <1>1, FS_Interval
  <2>3. IsFiniteSet(firsts)
    BY <2>1, <2>2, FS_Subset
  <2>4. QED
    BY <1>1, <2>1, <2>3
<1>8. /\ Cardinality(firsts) \in Nat
      /\ s = [n \in 1..Cardinality(firsts) |-> s[n]]
      /\ \A p \in firsts : Rank(firsts, p) \in DOMAIN s /\ s[Rank(firsts, p)] = all[p]
  BY <1>3, <1>7, SublistContents
<1>9. IsList(s) /\ Len(s) = Cardinality(firsts)
  BY <1>8, Listed DEF IsList
<1>10. \A p \in firsts : Says(s[Rank(firsts, p)], found[p])
  BY <1>5, <1>7, <1>8
<1>11. ASSUME NEW i \in DOMAIN cases, found[i] # NoFault PROVE \E j \in firsts : found[j] = found[i]
  <2> DEFINE same == {j \in DOMAIN cases : found[j] = found[i]}
  <2>1. same \in SUBSET Nat /\ IsFiniteSet(same) /\ same # {}
    <3>1. IsFiniteSet(1..Len(cases))
      BY <1>1, FS_Interval
    <3>2. same \in SUBSET (1..Len(cases)) /\ i \in same
      BY <1>1
    <3>3. QED
      BY <1>1, <3>1, <3>2, FS_Subset
  <2> HIDE DEF same
  <2>2. PICK a \in same : \A u \in same : a <= u
    BY <2>1, LeastOfFinite
  <2>3. a \in DOMAIN cases /\ found[a] = found[i]
    BY DEF same
  <2>4. \A j \in 1..(a - 1) : found[j] # found[a]
    BY <1>1, <2>2, <2>3 DEF same
  <2>5. QED
    BY <1>6, <1>11, <2>3, <2>4
<1>12. ASSUME NEW n \in DOMAIN s PROVE Says(s[n], Disagreement(m, w, s[n].case))
  <2>1. PICK i \in firsts : s[n] = all[i]
    BY <1>3, <1>7, SublistContents
  <2>2. i \in DOMAIN cases
    BY <1>7, <2>1
  <2>3. all[i].case = cases[i]
    BY <2>2 DEF all
  <2>4. QED
    BY <1>2, <1>5, <2>1, <2>2, <2>3
<1>13. QED
  BY <1>7, <1>8, <1>9, <1>10, <1>11, <1>12 DEF found, firsts, s

\* One more case in a search: its disagreement is none, or one that has its
\* witness without it, or the one that the last of the witnesses shows.
LEMMA OneMoreCase ==
  ASSUME NEW m, NEW w, NEW c
  PROVE  LET first == FindWitnesses(m, w, <<>>, WitnessCap)
             again == FindWitnesses(m, w, <<c>>, WitnessCap)
             d     == Disagreement(m, w, c)
         IN  /\ IsList(first) /\ IsList(again)
             /\ \/ d = NoFault
                \/ \E x \in ToSet(first) : Says(x, d)
                \/ Len(again) = Len(first) + 1 /\ Says(again[Len(first) + 1], d)
<1> DEFINE g  == CandidateCases(m, w, <<>>, WitnessCap)
           h  == Append(g, c)
           f0 == Disagreements(m, w, g)
           f1 == Disagreements(m, w, h)
           F0 == FirstFound(f0)
           F1 == FirstFound(f1)
           first == WitnessesAmong(g, f0)
           again == WitnessesAmong(h, f1)
           d  == Disagreement(m, w, c)
           n  == Len(g) + 1
<1>1. IsList(g) /\ CandidateCases(m, w, <<c>>, WitnessCap) = h
  BY CasesOfSearch, WitnessCapAssumption
<1>2. FindWitnesses(m, w, <<>>, WitnessCap) = first /\ FindWitnesses(m, w, <<c>>, WitnessCap) = again
  BY <1>1 DEF FindWitnesses
<1> HIDE DEF g
<1>3. /\ IsList(h) /\ Len(h) = n /\ h[n] = c
      /\ \A i \in DOMAIN g : h[i] = g[i]
  BY <1>1, ListAppend
<1>4. Len(g) \in Nat /\ DOMAIN g = 1..Len(g) /\ DOMAIN h = 1..n
  BY <1>1, <1>3, ListLength
<1>5. /\ DOMAIN f0 = 1..Len(g) /\ DOMAIN f1 = 1..n /\ f1[n] = d
      /\ \A i \in 1..Len(g) : f1[i] = f0[i]
  BY <1>3, <1>4 DEF Disagreements
<1>6. /\ F0 \in SUBSET DOMAIN g /\ IsFiniteSet(F0)
      /\ IsList(first) /\ Len(first) = Cardinality(F0)
      /\ \A i \in F0 : Rank(F0, i) \in DOMAIN first /\ Says(first[Rank(F0, i)], f0[i])
      /\ \A i \in DOMAIN g : f0[i] = NoFault \/ \E j \in F0 : f0[j] = f0[i]
  BY <1>1, WitnessOfEach
<1>7. /\ F1 \in SUBSET DOMAIN h /\ IsFiniteSet(F1)
      /\ IsList(again) /\ Len(again) = Cardinality(F1)
      /\ \A i \in F1 : Rank(F1, i) \in DOMAIN again /\ Says(again[Rank(F1, i)], f1[i])
  BY <1>3, WitnessOfEach
<1>8. \A i \in 1..Len(g) : i \in F0 <=> i \in F1
  BY <1>4, <1>5 DEF FirstFound
<1>9. n \in F1 <=> d # NoFault /\ \A j \in 1..Len(g) : f0[j] # d
  BY <1>4, <1>5 DEF FirstFound
<1> HIDE DEF f0, f1, F0, F1, h, first, again, d, n
<1>10. CASE d # NoFault /\ \E j \in 1..Len(g) : f0[j] = d
  <2>1. PICK j \in F0 : f0[j] = d
    BY <1>4, <1>6, <1>10
  <2>2. Rank(F0, j) \in DOMAIN first /\ Says(first[Rank(F0, j)], d)
    BY <1>6, <2>1
  <2>3. QED
    BY <1>2, <1>6, <1>7, <2>2 DEF ToSet, d
<1>11. CASE d # NoFault /\ \A j \in 1..Len(g) : f0[j] # d
  <2>1. n \in F1 /\ n \notin F0
    BY <1>4, <1>6, <1>9, <1>11 DEF n
  <2>2. F1 = F0 \cup {n}
    BY <1>4, <1>6, <1>7, <1>8, <2>1 DEF n
  <2>3. Cardinality(F1) = Cardinality(F0) + 1
    BY <1>6, <2>1, <2>2, FS_AddElement
  <2>4. \A u \in F1 : u <= n
    BY <1>4, <1>7 DEF n
  <2>5. Rank(F1, n) = Cardinality(F1)
    <3>1. {u \in F1 : u <= n} = F1
      BY <2>4
    <3>2. QED
      BY <3>1 DEF Rank
  <2>6. Says(again[Cardinality(F1)], d)
    BY <1>5, <1>7, <2>1, <2>5
  <2>7. QED
    BY <1>2, <1>6, <1>7, <2>3, <2>6 DEF d
<1>12. QED
  BY <1>2, <1>6, <1>7, <1>10, <1>11 DEF d

\* What a search finds, with a case added to the grid or without, is there.
LEMMA FoundIsReal ==
  ASSUME NEW m, NEW w, NEW c
  PROVE  \A extra \in {<<>>, <<c>>} : \A x \in ToSet(FindWitnesses(m, w, extra, WitnessCap)) :
           Says(x, Disagreement(m, w, x.case))
<1> DEFINE g == CandidateCases(m, w, <<>>, WitnessCap)
<1>1. IsList(g) /\ CandidateCases(m, w, <<c>>, WitnessCap) = Append(g, c)
  BY CasesOfSearch, WitnessCapAssumption
<1>2. IsList(Append(g, c))
  BY <1>1, ListAppend
<1>3. ASSUME NEW extra \in {<<>>, <<c>>} PROVE IsList(CandidateCases(m, w, extra, WitnessCap))
  BY <1>1, <1>2
<1>4. ASSUME NEW extra, IsList(CandidateCases(m, w, extra, WitnessCap)),
             NEW x \in ToSet(FindWitnesses(m, w, extra, WitnessCap))
      PROVE  Says(x, Disagreement(m, w, x.case))
  <2> DEFINE h == CandidateCases(m, w, extra, WitnessCap)
             s == WitnessesAmong(h, Disagreements(m, w, h))
  <2>1. FindWitnesses(m, w, extra, WitnessCap) = s
    BY DEF FindWitnesses
  <2>2. \A n \in DOMAIN s : Says(s[n], Disagreement(m, w, s[n].case))
    BY <1>4, WitnessOfEach
  <2> HIDE DEF s
  <2>3. PICK n \in DOMAIN s : x = s[n]
    BY <2>1 DEF ToSet
  <2>4. QED
    BY <2>2, <2>3
<1>5. QED
  BY <1>3, <1>4

\* A search does not miss what one of its candidates shows.
LEMMA NothingMissed ==
  ASSUME NEW m, NEW w, NEW c \in ToSet(CandidateCases(m, w, <<>>, WitnessCap))
  PROVE  Agrees(m, w, c) \/ \E x \in ToSet(FindWitnesses(m, w, <<>>, WitnessCap)) : Says(x, Disagreement(m, w, c))
<1> DEFINE g      == CandidateCases(m, w, <<>>, WitnessCap)
           found  == Disagreements(m, w, g)
           firsts == FirstFound(found)
           s      == WitnessesAmong(g, found)
<1>1. IsList(g)
  BY CasesOfSearch, WitnessCapAssumption
<1>2. FindWitnesses(m, w, <<>>, WitnessCap) = s
  BY DEF FindWitnesses
<1>3. PICK i \in DOMAIN g : c = g[i]
  BY DEF ToSet
<1>4. found[i] = Disagreement(m, w, c)
  BY <1>3 DEF Disagreements
<1>5. /\ \A j \in firsts : Rank(firsts, j) \in DOMAIN s /\ Says(s[Rank(firsts, j)], found[j])
      /\ found[i] = NoFault \/ \E j \in firsts : found[j] = found[i]
  BY <1>1, WitnessOfEach
<1> HIDE DEF found, firsts, s
<1>6. CASE found[i] = NoFault
  BY <1>4, <1>6 DEF Agrees
<1>7. CASE \E j \in firsts : found[j] = found[i]
  <2>1. PICK j \in firsts : found[j] = found[i]
    BY <1>7
  <2>2. s[Rank(firsts, j)] \in ToSet(s) /\ Says(s[Rank(firsts, j)], found[i])
    BY <1>5, <2>1 DEF ToSet
  <2>3. QED
    BY <1>2, <1>4, <2>2
<1>8. QED
  BY <1>5, <1>6, <1>7
-----------------------------------------------------------------------------
\* In a validation that passes, no test of any suite has failed.
LEMMA NothingFailed ==
  ASSUME NEW R, Passes(Tally(R)), NEW suite \in DOMAIN R, NEW i \in DOMAIN R[suite]
  PROVE  R[suite][i]
<1>1. FailedOf(R) = {}
  BY DEF Passes, Tally
<1>2. SUFFICES ASSUME ~R[suite][i] PROVE FALSE
  OBVIOUS
<1>3. <<suite, i>> \in {<<suite, k>> : k \in {l \in DOMAIN R[suite] : ~R[suite][l]}}
  BY <1>2
<1>4. <<suite, i>> \in FailedOf(R)
  BY <1>3 DEF FailedOf
<1>5. QED
  BY <1>1, <1>4

\* What each suite of the validation has tried.
LEMMA PassedSuites ==
  ASSUME NEW witnesses, NEW m, NEW old, NEW patched, NEW w, NEW delta,
         Passes(Validate(witnesses, m, old, patched, w, delta))
  PROVE  /\ \A i \in DOMAIN witnesses : Agrees(m, patched, witnesses[i].case)
         /\ \A i \in DOMAIN BoundaryCases(m, w) : Agrees(m, patched, BoundaryCases(m, w)[i])
         /\ \A i \in DOMAIN Preserved(m, w) : Agrees(m, patched, Preserved(m, w)[i])
         /\ \A i \in DOMAIN m.ordering : OrderIsRight(m, patched)
         /\ Integrity(patched)[2]
         /\ Metamorphic(delta, old, m, patched)
         /\ Sourced(w, patched)
<1> DEFINE cases == [i \in DOMAIN witnesses |-> witnesses[i].case]
           R == [witness       |-> Replay(m, patched, cases),
                 boundary      |-> Replay(m, patched, BoundaryCases(m, w)),
                 unchanged     |-> Replay(m, patched, Preserved(m, w)),
                 ordering      |-> [i \in DOMAIN m.ordering |-> OrderIsRight(m, patched)],
                 integrity     |-> Integrity(patched),
                 prerequisites |-> Prerequisites(patched, m),
                 metamorphic   |-> <<Metamorphic(delta, old, m, patched)>>,
                 provenance    |-> <<Sourced(w, patched)>>]
<1>1. Validate(witnesses, m, old, patched, w, delta) = Tally(R)
  BY DEF Validate
<1>2. /\ "witness" \in DOMAIN R /\ R["witness"] = Replay(m, patched, cases)
      /\ "boundary" \in DOMAIN R /\ R["boundary"] = Replay(m, patched, BoundaryCases(m, w))
      /\ "unchanged" \in DOMAIN R /\ R["unchanged"] = Replay(m, patched, Preserved(m, w))
  OBVIOUS
<1>3. /\ "ordering" \in DOMAIN R /\ R["ordering"] = [i \in DOMAIN m.ordering |-> OrderIsRight(m, patched)]
      /\ "integrity" \in DOMAIN R /\ R["integrity"] = Integrity(patched)
      /\ "metamorphic" \in DOMAIN R /\ R["metamorphic"] = <<Metamorphic(delta, old, m, patched)>>
      /\ "provenance" \in DOMAIN R /\ R["provenance"] = <<Sourced(w, patched)>>
  OBVIOUS
<1> HIDE DEF R, cases
<1>4. \A suite \in DOMAIN R : \A i \in DOMAIN R[suite] : R[suite][i]
  BY <1>1, NothingFailed
<1>5. ASSUME NEW list, NEW suite \in DOMAIN R, R[suite] = Replay(m, patched, list), NEW i \in DOMAIN list
      PROVE  Agrees(m, patched, list[i])
  <2>1. i \in DOMAIN Replay(m, patched, list) /\ Replay(m, patched, list)[i] = Agrees(m, patched, list[i])
    BY DEF Replay
  <2>2. QED
    BY <1>4, <1>5, <2>1
<1>6. \A i \in DOMAIN witnesses : Agrees(m, patched, witnesses[i].case)
  <2>1. DOMAIN cases = DOMAIN witnesses /\ \A i \in DOMAIN witnesses : cases[i] = witnesses[i].case
    BY DEF cases
  <2>2. \A i \in DOMAIN cases : Agrees(m, patched, cases[i])
    BY <1>2, <1>5
  <2>3. QED
    BY <2>1, <2>2
<1>7. \A i \in DOMAIN BoundaryCases(m, w) : Agrees(m, patched, BoundaryCases(m, w)[i])
  BY <1>2, <1>5
<1>8. \A i \in DOMAIN Preserved(m, w) : Agrees(m, patched, Preserved(m, w)[i])
  BY <1>2, <1>5
<1>9. \A i \in DOMAIN m.ordering : OrderIsRight(m, patched)
  BY <1>3, <1>4
<1>10. Integrity(patched)[2]
  <2>1. 2 \in DOMAIN Integrity(patched)
    BY DEF Integrity, IntegrityOf
  <2>2. QED
    BY <1>3, <1>4, <2>1
<1>11. Metamorphic(delta, old, m, patched)
  <2>1. 1 \in DOMAIN R["metamorphic"] /\ R["metamorphic"][1] = Metamorphic(delta, old, m, patched)
    BY <1>3
  <2>2. QED
    BY <1>3, <1>4, <2>1
<1>12. Sourced(w, patched)
  <2>1. 1 \in DOMAIN R["provenance"] /\ R["provenance"][1] = Sourced(w, patched)
    BY <1>3
  <2>2. QED
    BY <1>3, <1>4, <2>1
<1>13. QED
  BY <1>6, <1>7, <1>8, <1>9, <1>10, <1>11, <1>12

\* What passes the validation agrees with the model on every witness.
LEMMA PassedWitnesses ==
  ASSUME NEW witnesses, NEW m, NEW old, NEW patched, NEW w, NEW delta,
         Passes(Validate(witnesses, m, old, patched, w, delta)),
         NEW x \in ToSet(witnesses)
  PROVE  Agrees(m, patched, x.case)
<1>1. \A i \in DOMAIN witnesses : Agrees(m, patched, witnesses[i].case)
  BY PassedSuites
<1>2. PICK i \in DOMAIN witnesses : x = witnesses[i]
  BY DEF ToSet
<1>3. QED
  BY <1>1, <1>2

\* What is proposed does not depend on the nodes that are to blame, and without
\* faults nothing is.
LEMMA ProposalOfKinds ==
  ASSUME NEW m, NEW w, NEW witnesses, NEW o1, NEW o2
  PROVE  Propose(m, w, LocalizeAll(witnesses, w, o1)) = Propose(m, w, LocalizeAll(witnesses, w, o2))
<1> DEFINE f(o) == LocalizeAll(witnesses, w, o)
<1>1. ASSUME NEW o PROVE /\ Kinds(f(o)) = {witnesses[i].kind : i \in DOMAIN witnesses}
                         /\ Burdens(f(o)) = {witnesses[i].key : i \in {j \in DOMAIN witnesses :
                                               witnesses[j].kind = "unnecessary_burden"}}
  <2>1. /\ DOMAIN f(o) = DOMAIN witnesses
        /\ \A i \in DOMAIN witnesses : f(o)[i].kind = witnesses[i].kind /\ f(o)[i].key = witnesses[i].key
    BY DEF LocalizeAll
  <2> HIDE DEF f
  <2>2. QED
    BY <2>1 DEF Kinds, Burdens
<1>2. QED
  BY <1>1 DEF Propose

LEMMA NothingToPropose ==
  ASSUME NEW m, NEW w, NEW o
  PROVE  Propose(m, w, LocalizeAll(<<>>, w, o)) = [wf |-> w, ops |-> <<>>]
<1>1. Kinds(LocalizeAll(<<>>, w, o)) = {}
  BY DEF Kinds, LocalizeAll
<1>2. ASSUME NEW b PROVE ProposeFor(m, w, {}, b) = [wf |-> w, ops |-> <<>>]
  BY DEF ProposeFor
<1>3. QED
  BY <1>1, <1>2 DEF Propose

\* The impact of two patches with the same witnesses is the same but for the
\* nodes that are to blame.
LEMMA ImpactOfKinds ==
  ASSUME NEW d, NEW x, NEW f1, NEW f2, NEW v, NEW b, NEW a, NEW m, NEW o
  PROVE  [ImpactSummary(d, x, f1, v, b, a, m, o) EXCEPT !.affected_nodes = {}]
           = [ImpactSummary(d, x, f2, v, b, a, m, o) EXCEPT !.affected_nodes = {}]
<1> DEFINE changes == Cardinality(d.affected)
           kinds   == Behavioral(x)
           people  == CohortImpact(SyntheticCohort(m, b), b, a, m, o)
           tests   == Len(x)
           links   == Coverage(a)
           Record(nodes) == [semantic_changes |-> changes, behavioral |-> kinds, affected_nodes |-> nodes,
                             cohort |-> people, tests_before |-> tests, tests_after |-> v, coverage |-> links]
           nodes(f) == UNION {g.nodes : g \in ToSet(f)}
<1>1. ASSUME NEW f
      PROVE  [ImpactSummary(d, x, f, v, b, a, m, o) EXCEPT !.affected_nodes = {}] = Record({})
  <2> DEFINE I == ImpactSummary(d, x, f, v, b, a, m, o)
  <2>1. I = Record(nodes(f))
    BY DEF ImpactSummary
  <2> HIDE DEF changes, kinds, people, tests, links, nodes, I
  <2>2. [I EXCEPT !.affected_nodes = {}] = Record({})
    BY <2>1
  <2>3. QED
    BY <2>2 DEF I
<1> HIDE DEF Record
<1>2. QED
  BY <1>1

-----------------------------------------------------------------------------
\* Rules that are taken out leave rules that are well formed.
LEMMA AcceptedAreNormal ==
  ASSUME NEW rules, IsList(rules), Normal(rules), NEW accepted \in SUBSET DOMAIN rules
  PROVE  Normal(Sublist(rules, accepted))
<1>1. Len(rules) \in Nat /\ DOMAIN rules = 1..Len(rules)
  BY ListLength
<1>2. IsFiniteSet(1..Len(rules))
  BY <1>1, FS_Interval
<1>3. accepted \in SUBSET Nat /\ accepted \in SUBSET (1..Len(rules))
  BY <1>1
<1>4. IsFiniteSet(accepted)
  BY <1>2, <1>3, FS_Subset
<1>5. \A n \in DOMAIN Sublist(rules, accepted) : \E p \in accepted : Sublist(rules, accepted)[n] = rules[p]
  BY <1>3, <1>4, SublistContents
<1>6. QED
  BY <1>5 DEF Normal

\* A well-formed rule set that is refused has a conflict.
LEMMA RefusedIsConflict ==
  ASSUME NEW rules, Normal(rules), Verdict(rules) # "ok"
  PROVE  Verdict(rules) = "CONFLICT"
  BY DEF Verdict, Normal
-----------------------------------------------------------------------------
\* What each stage adds to a job, and that it leaves the rest of it alone.
Has(j, names) == names \subseteq DOMAIN j
Keeps(k, j, names) == DOMAIN k = DOMAIN j \cup names /\ \A f \in DOMAIN j \ names : k[f] = j[f]

LEMMA Added ==
  ASSUME NEW j, NEW more
  PROVE  /\ Keeps(Adding(j, more), j, DOMAIN more)
         /\ \A f \in DOMAIN more : Adding(j, more)[f] = more[f]
  BY DEF Adding, Keeps

LEMMA DiffedFields ==
  ASSUME NEW j
  PROVE  /\ Keeps(Diffed(j), j, {"delta"})
         /\ Diffed(j).delta = SemanticRuleDelta(j.old, j.new)
<1> DEFINE x0 == SemanticRuleDelta(j.old, j.new)
           more == [delta |-> x0]
<1>1. DOMAIN more = {"delta"} /\ more["delta"] = x0
  OBVIOUS
<1>2. Diffed(j) = Adding(j, more)
  BY DEF Diffed
<1> HIDE DEF more, x0
<1>3. Keeps(Diffed(j), j, {"delta"})
  BY <1>1, <1>2, Added
<1>4. \A f \in DOMAIN more : Adding(j, more)[f] = more[f]
  BY Added
<1>5. QED
  BY <1>1, <1>2, <1>3, <1>4 DEF x0

LEMMA SearchedFields ==
  ASSUME NEW j
  PROVE  /\ Keeps(Searched(j), j, {"witnesses"})
         /\ Searched(j).witnesses = FindWitnesses(CompileRules(j.new), j.procedure, <<>>, WitnessCap)
<1> DEFINE x0 == FindWitnesses(CompileRules(j.new), j.procedure, <<>>, WitnessCap)
           more == [witnesses |-> x0]
<1>1. DOMAIN more = {"witnesses"} /\ more["witnesses"] = x0
  OBVIOUS
<1>2. Searched(j) = Adding(j, more)
  BY DEF Searched
<1> HIDE DEF more, x0
<1>3. Keeps(Searched(j), j, {"witnesses"})
  BY <1>1, <1>2, Added
<1>4. \A f \in DOMAIN more : Adding(j, more)[f] = more[f]
  BY Added
<1>5. QED
  BY <1>1, <1>2, <1>3, <1>4 DEF x0

LEMMA PatchedFields ==
  ASSUME NEW j, NEW o
  PROVE  /\ Keeps(Patched(j, o), j, {"faults", "patch"})
         /\ Patched(j, o).faults = LocalizeAll(j.witnesses, j.procedure, o)
         /\ Patched(j, o).patch = Propose(CompileRules(j.new), j.procedure, LocalizeAll(j.witnesses, j.procedure, o))
<1> DEFINE x0 == LocalizeAll(j.witnesses, j.procedure, o)
           x1 == Propose(CompileRules(j.new), j.procedure, LocalizeAll(j.witnesses, j.procedure, o))
           more == [faults |-> x0, patch |-> x1]
<1>1. DOMAIN more = {"faults", "patch"} /\ more["faults"] = x0 /\ more["patch"] = x1
  OBVIOUS
<1>2. Patched(j, o) = Adding(j, more)
  BY DEF Patched
<1> HIDE DEF more, x0, x1
<1>3. Keeps(Patched(j, o), j, {"faults", "patch"})
  BY <1>1, <1>2, Added
<1>4. \A f \in DOMAIN more : Adding(j, more)[f] = more[f]
  BY Added
<1>5. QED
  BY <1>1, <1>2, <1>3, <1>4 DEF x0, x1

LEMMA ValidatedFields ==
  ASSUME NEW j
  PROVE  /\ Keeps(Validated(j), j, {"validation"})
         /\ Validated(j).validation = Validate(j.witnesses, CompileRules(j.new), CompileRules(Before(j.old)),
                                    j.patch.wf, j.procedure, j.delta)
<1> DEFINE x0 == Validate(j.witnesses, CompileRules(j.new), CompileRules(Before(j.old)),
                                    j.patch.wf, j.procedure, j.delta)
           more == [validation |-> x0]
<1>1. DOMAIN more = {"validation"} /\ more["validation"] = x0
  OBVIOUS
<1>2. Validated(j) = Adding(j, more)
  BY DEF Validated, ValidatedAgainst
<1> HIDE DEF more, x0
<1>3. Keeps(Validated(j), j, {"validation"})
  BY <1>1, <1>2, Added
<1>4. \A f \in DOMAIN more : Adding(j, more)[f] = more[f]
  BY Added
<1>5. QED
  BY <1>1, <1>2, <1>3, <1>4 DEF x0

LEMMA AssessedFields ==
  ASSUME NEW j
  PROVE  /\ Keeps(Assessed(j), j, {"impact"})
         /\ Assessed(j).impact = ImpactSummary(j.delta, j.witnesses, j.faults, j.validation, j.procedure,
                                     j.patch.wf, CompileRules(j.new), CompileRules(Before(j.old)))
<1> DEFINE x0 == ImpactSummary(j.delta, j.witnesses, j.faults, j.validation, j.procedure,
                                     j.patch.wf, CompileRules(j.new), CompileRules(Before(j.old)))
           more == [impact |-> x0]
<1>1. DOMAIN more = {"impact"} /\ more["impact"] = x0
  OBVIOUS
<1>2. Assessed(j) = Adding(j, more)
  BY DEF Assessed
<1> HIDE DEF more, x0
<1>3. Keeps(Assessed(j), j, {"impact"})
  BY <1>1, <1>2, Added
<1>4. \A f \in DOMAIN more : Adding(j, more)[f] = more[f]
  BY Added
<1>5. QED
  BY <1>1, <1>2, <1>3, <1>4 DEF x0

-----------------------------------------------------------------------------
\* run_build on inputs that it does not refuse: what the build holds, whatever
\* ordering the faults were localized with.
LEMMA FullRun ==
  ASSUME NEW old, NEW new, NEW w, NEW o,
         SchemaValid(w), Normal(new), Verdict(Before(old)) = "ok", Verdict(new) = "ok", ValidDag(w)
  PROVE  LET m == CompileRules(new)
             d == SemanticRuleDelta(old, new)
             x == FindWitnesses(m, w, <<>>, WitnessCap)
             q == Propose(m, w, LocalizeAll(x, w, o))
             v == Validate(x, m, CompileRules(Before(old)), q.wf, w, d)
             i == ImpactSummary(d, x, LocalizeAll(x, w, o), v, w, q.wf, m, CompileRules(Before(old)))
             b == RunBuild([old |-> old, new |-> new, procedure |-> w])
         IN  /\ ~ValidDag(q.wf) => b = Raised
             /\ ValidDag(q.wf) =>
                  /\ \E status, key, faults, impact, certificate :
                       /\ b = [status |-> status, key |-> key, old |-> old, new |-> new, procedure |-> w,
                              delta |-> d, witnesses |-> x, faults |-> faults, ops |-> q.ops, patched |-> q.wf,
                              validation |-> v, impact |-> impact, certificate |-> certificate]
                       /\ [impact EXCEPT !.affected_nodes = {}] = [i EXCEPT !.affected_nodes = {}]
                  /\ b.status = StatusOf(x, v)
<1> DEFINE m == CompileRules(new)
           d == SemanticRuleDelta(old, new)
           x == FindWitnesses(m, w, <<>>, WitnessCap)
           f == LocalizeAll(x, w, m.ordering)
           q == Propose(m, w, LocalizeAll(x, w, o))
           v == Validate(x, m, CompileRules(Before(old)), q.wf, w, d)
           i == ImpactSummary(d, x, f, v, w, q.wf, m, CompileRules(Before(old)))
           io == ImpactSummary(d, x, LocalizeAll(x, w, o), v, w, q.wf, m, CompileRules(Before(old)))
           p == [old |-> old, new |-> new, procedure |-> w]
           j1 == Diffed(p)
           j2 == Searched(j1)
           j3 == Patched(j2, m.ordering)
           j4 == Validated(j3)
           j5 == Assessed(j4)
           status == StatusOf(x, v)
<1>1. q = Propose(m, w, f)
  BY ProposalOfKinds
<1>2. [i EXCEPT !.affected_nodes = {}] = [io EXCEPT !.affected_nodes = {}]
  BY ImpactOfKinds
<1>3. p.old = old /\ p.new = new /\ p.procedure = w /\ DOMAIN p = {"old", "new", "procedure"}
  OBVIOUS
<1>4. \E key, certificate :
        RunBuild(p) = IF ValidDag(j3.patch.wf)
                      THEN Build(j5, StatusOf(j5.witnesses, j5.validation), key, certificate)
                      ELSE Raised
  <2> HIDE DEF p, j1, j2, j3, j4, j5
  <2>1. RunBuild(p) = IF ValidDag(j3.patch.wf)
                      THEN Build(j5, StatusOf(j5.witnesses, j5.validation),
                                 CompileKey(j5.new, j5.procedure),
                                 IF StatusOf(j5.witnesses, j5.validation) = "PATCH_VALIDATED"
                                 THEN Certificate(j5, IF j5.delta.added # <<>> THEN ToSet(j5.delta.added)
                                                                               ELSE j5.delta.affected,
                                                  [failed |-> Len(j5.witnesses), total |-> Len(j5.witnesses)])
                                 ELSE None)
                      ELSE Raised
    BY <1>3 DEF RunBuild, CompleteRun, j1, j2, j3, j4, j5, m
  <2>2. QED
    BY <2>1
<1> HIDE DEF p, m, d, x, f, q, v, i, io
<1>5. j1.old = old /\ j1.new = new /\ j1.procedure = w /\ j1.delta = d
      /\ DOMAIN j1 = {"old", "new", "procedure", "delta"}
  BY <1>3, DiffedFields DEF Keeps, d
<1> HIDE DEF j1
<1>6. j2.old = old /\ j2.new = new /\ j2.procedure = w /\ j2.delta = d /\ j2.witnesses = x
      /\ DOMAIN j2 = {"old", "new", "procedure", "delta", "witnesses"}
  BY <1>5, SearchedFields DEF Keeps, m, x
<1> HIDE DEF j2
<1>7. j3.old = old /\ j3.new = new /\ j3.procedure = w /\ j3.delta = d /\ j3.witnesses = x
      /\ j3.faults = f /\ j3.patch = q
      /\ DOMAIN j3 = {"old", "new", "procedure", "delta", "witnesses", "faults", "patch"}
  <2>1. /\ Keeps(j3, j2, {"faults", "patch"})
        /\ j3.faults = LocalizeAll(j2.witnesses, j2.procedure, m.ordering)
        /\ j3.patch = Propose(CompileRules(j2.new), j2.procedure,
                              LocalizeAll(j2.witnesses, j2.procedure, m.ordering))
    BY PatchedFields DEF j3
  <2>2. j3.faults = f
    BY <1>6, <2>1 DEF f
  <2>3. j3.patch = Propose(m, w, f)
    BY <1>6, <2>1 DEF f, m
  <2>4. QED
    BY <1>1, <1>6, <2>1, <2>2, <2>3 DEF Keeps
<1> HIDE DEF j3
<1>8. j4.old = old /\ j4.new = new /\ j4.procedure = w /\ j4.delta = d /\ j4.witnesses = x
      /\ j4.faults = f /\ j4.patch = q /\ j4.validation = v
      /\ DOMAIN j4 = {"old", "new", "procedure", "delta", "witnesses", "faults", "patch", "validation"}
  BY <1>7, ValidatedFields DEF Keeps, m, v
<1> HIDE DEF j4
<1>9. j5.old = old /\ j5.new = new /\ j5.procedure = w /\ j5.delta = d /\ j5.witnesses = x
      /\ j5.faults = f /\ j5.patch = q /\ j5.validation = v /\ j5.impact = i
  BY <1>8, AssessedFields DEF Keeps, m, i
<1> HIDE DEF j5
<1>10. PICK key, certificate :
         RunBuild(p) = IF ValidDag(q.wf) THEN Build(j5, status, key, certificate) ELSE Raised
  BY <1>4, <1>7, <1>9
<1>11. Build(j5, status, key, certificate)
         = [status |-> status, key |-> key, old |-> old, new |-> new, procedure |-> w,
            delta |-> d, witnesses |-> x, faults |-> f, ops |-> q.ops, patched |-> q.wf,
            validation |-> v, impact |-> i, certificate |-> certificate]
  BY <1>9 DEF Build
<1>12. /\ ~ValidDag(q.wf) => RunBuild(p) = Raised
       /\ ValidDag(q.wf) =>
            \E st, k, faults, impact, c :
              /\ RunBuild(p) = [status |-> st, key |-> k, old |-> old, new |-> new, procedure |-> w,
                                delta |-> d, witnesses |-> x, faults |-> faults, ops |-> q.ops, patched |-> q.wf,
                                validation |-> v, impact |-> impact, certificate |-> c]
              /\ [impact EXCEPT !.affected_nodes = {}] = [io EXCEPT !.affected_nodes = {}]
  <2> HIDE DEF status
  <2>1. ~ValidDag(q.wf) => RunBuild(p) = Raised
    BY <1>10
  <2>2. ValidDag(q.wf) =>
          RunBuild(p) = [status |-> status, key |-> key, old |-> old, new |-> new, procedure |-> w,
                         delta |-> d, witnesses |-> x, faults |-> f, ops |-> q.ops, patched |-> q.wf,
                         validation |-> v, impact |-> i, certificate |-> certificate]
    BY <1>10, <1>11
  <2>3. QED
    BY <1>2, <2>1, <2>2, Zenon
<1>13. ValidDag(q.wf) => RunBuild(p).status = status
  <2> HIDE DEF status
  <2>1. QED
    BY <1>10, <1>11
<1>14. QED
  BY <1>12, <1>13 DEF p, m, d, x, q, v, io
-----------------------------------------------------------------------------
Given == {"old", "new", "procedure"}
Input(j) == [old |-> j.old, new |-> j.new, procedure |-> j.procedure]
Baseline(new, w) == FindWitnesses(CompileRules(new), w, <<>>, WitnessCap)

\* What a job has been through, by the results that it carries.
CompiledJob(j) ==
  /\ Has(j, Given \cup {"delta"})
  /\ Normal(j.new) /\ Verdict(j.new) = "ok"
  /\ j.delta = SemanticRuleDelta(j.old, j.new)
SearchedJob(j) ==
  /\ CompiledJob(j) /\ Has(j, {"witnesses"})
  /\ ValidDag(j.procedure)
  /\ j.witnesses = Baseline(j.new, j.procedure)
PatchedJob(j) ==
  /\ SearchedJob(j) /\ Has(j, {"faults", "patch"})
  /\ j.witnesses # <<>>
  /\ j.faults = LocalizeAll(j.witnesses, j.procedure, <<>>)
  /\ j.patch = Propose(CompileRules(j.new), j.procedure, j.faults)
ValidatedJob(j) ==
  /\ PatchedJob(j) /\ Has(j, {"validation"})
  /\ Verdict(Before(j.old)) = "ok" /\ ValidDag(j.patch.wf)
  /\ j.validation = Validate(j.witnesses, CompileRules(j.new), CompileRules(Before(j.old)),
                             j.patch.wf, j.procedure, j.delta)
AssessedJob(j) ==
  /\ ValidatedJob(j) /\ Has(j, {"impact"})
  /\ j.impact = ImpactSummary(j.delta, j.witnesses, j.faults, j.validation, j.procedure, j.patch.wf,
                              CompileRules(j.new), CompileRules(Before(j.old)))

\* What the stage says about the job.
JobInv ==
  /\ Has(job, Given)
  /\ stage = "START" => job \in Inputs
  /\ stage = "RULE_REVIEW" => IsList(job.new)
  /\ stage \in {"RULE_REVIEW", "COMPILE_CONSTRAINTS", "NEEDS_REVIEW"} => Normal(job.new)
  /\ stage = "FIND_WITNESSES" => CompiledJob(job)
  /\ stage \in {"READY", "LOCALIZE_PATCH"} =>
       SearchedJob(job) /\ (job.witnesses = <<>>) = (stage = "READY")
  /\ stage = "VALIDATE_PATCH" => PatchedJob(job)
  /\ stage = "COMPUTE_IMPACT" => ValidatedJob(job) /\ Passes(job.validation)
  /\ stage = "PERSIST_BUILD" => AssessedJob(job) /\ Passes(job.validation)
  /\ stage = "NEEDS_REVIEW" =>
       \/ job.new = <<>>
       \/ Verdict(job.new) # "ok"
       \/ ValidatedJob(job) /\ ~Passes(job.validation)

\* A build has all the fields of a build.
Whole(b) ==
  b = [status |-> b.status, key |-> b.key, old |-> b.old, new |-> b.new, procedure |-> b.procedure,
       delta |-> b.delta, witnesses |-> b.witnesses, faults |-> b.faults, ops |-> b.ops,
       patched |-> b.patched, validation |-> b.validation, impact |-> b.impact,
       certificate |-> b.certificate]

\* A stored build is what run_build makes of its inputs, but for the witnesses
\* that were nominated, the validation with them, the key and the certificate.
Reproduced(b, again) ==
  \/ again = Raised
  \/ /\ again.patched = b.patched /\ again.ops = b.ops
     /\ again.witnesses = Baseline(b.new, b.procedure)
     /\ b.witnesses = again.witnesses => b.validation = again.validation
Genuine(b) ==
  \A x \in ToSet(b.witnesses) : Says(x, Disagreement(CompileRules(b.new), b.procedure, x.case))
StoredInv ==
  Stored => /\ Whole(build) /\ Genuine(build)
            /\ IsList(build.witnesses)
            /\ \/ build.witnesses = Baseline(build.new, build.procedure)
               \/ Len(build.witnesses) > Len(Baseline(build.new, build.procedure))
            /\ Reproduced(build, RunBuild(Input(build)))
EarlyInv == stage # "STORED" => answer = None

Inv == /\ TypeOK /\ JobInv /\ StoredInv /\ EarlyInv
       /\ PassedMeansRepaired /\ RefusedMeansCovered /\ ReverifyBlamesNoRepair

\* run_build either refuses or raises, or its inputs are in order.
LEMMA RunRefuses ==
  ASSUME NEW p
  PROVE  /\ ~SchemaValid(p.procedure) => RunBuild(p) = Raised
         /\ SchemaValid(p.procedure) =>
              /\ ~Normal(p.new) => RunBuild(p) = Refused("NEEDS_REVIEW")
              /\ Normal(p.new) =>
                   /\ Verdict(Before(p.old)) # "ok" => RunBuild(p) = Raised
                   /\ Verdict(Before(p.old)) = "ok" =>
                        /\ Verdict(p.new) # "ok" => RunBuild(p) = Refused("CONFLICT")
                        /\ Verdict(p.new) = "ok" /\ ~ValidDag(p.procedure) => RunBuild(p) = Raised
<1>1. CASE ~SchemaValid(p.procedure)
  BY <1>1 DEF RunBuild
<1>2. CASE SchemaValid(p.procedure) /\ ~Normal(p.new)
  BY <1>2 DEF RunBuild
<1>3. CASE SchemaValid(p.procedure) /\ Normal(p.new) /\ Verdict(Before(p.old)) # "ok"
  BY <1>3 DEF RunBuild
<1>4. CASE SchemaValid(p.procedure) /\ Normal(p.new) /\ Verdict(Before(p.old)) = "ok" /\ Verdict(p.new) # "ok"
  <2>1. RunBuild(p) = Refused(Verdict(p.new))
    BY <1>4 DEF RunBuild
  <2>2. Verdict(p.new) = "CONFLICT"
    BY <1>4, RefusedIsConflict
  <2>3. QED
    BY <1>4, <2>1, <2>2
<1>5. CASE SchemaValid(p.procedure) /\ Normal(p.new) /\ Verdict(Before(p.old)) = "ok" /\ Verdict(p.new) = "ok"
  BY <1>5 DEF RunBuild
<1>6. QED
  BY <1>1, <1>2, <1>3, <1>4, <1>5

LEMMA RunCases ==
  ASSUME NEW p
  PROVE  LET b == RunBuild(p)
         IN  \/ b = Raised
             \/ b = Refused("NEEDS_REVIEW")
             \/ b = Refused("CONFLICT")
             \/ /\ SchemaValid(p.procedure) /\ Normal(p.new) /\ Verdict(Before(p.old)) = "ok"
                /\ Verdict(p.new) = "ok" /\ ValidDag(p.procedure)
  BY RunRefuses

LEMMA InitInv == Init => Inv
<1> SUFFICES ASSUME Init PROVE Inv
  OBVIOUS
<1>1. stage = "START" /\ build = None /\ report = None /\ answer = None /\ job \in Inputs
  BY DEF Init
<1>2. DOMAIN job = Given
  <2>1. job = [old |-> job.old, new |-> job.new, procedure |-> job.procedure]
    BY <1>1, InputsAssumption
  <2>2. QED
    BY <2>1 DEF Given
<1>3. TypeOK
  BY <1>1 DEF TypeOK
<1>4. JobInv
  BY <1>1, <1>2 DEF JobInv, Has
<1>5. QED
  BY <1>1, <1>3, <1>4 DEF Inv, StoredInv, EarlyInv, Stored, PassedMeansRepaired, RefusedMeansCovered,
                          ReverifyBlamesNoRepair

\* A step of the state machine that stores nothing: only the job is at stake.
LEMMA QuietStep ==
  ASSUME Inv, stage # "STORED", JobInv', UNCHANGED <<build, report, answer>>,
         stage' \in {"RULE_REVIEW", "COMPILE_CONSTRAINTS", "FIND_WITNESSES", "LOCALIZE_PATCH",
                     "VALIDATE_PATCH", "COMPUTE_IMPACT", "PERSIST_BUILD", "READY", "NEEDS_REVIEW", "FAILED"},
         job'.old = job.old, job'.procedure = job.procedure
  PROVE  Inv'
<1>1. TypeOK'
  BY DEF Inv, TypeOK, Stored
<1>2. QED
  BY <1>1 DEF Inv, StoredInv, EarlyInv, Stored, PassedMeansRepaired, RefusedMeansCovered,
              ReverifyBlamesNoRepair

LEMMA ExtractStep == Inv /\ Extract => Inv'
<1> SUFFICES ASSUME Inv, Extract PROVE Inv'
  OBVIOUS
<1> DEFINE k == CompileKey(job.new, job.procedure)
           more == [key |-> k]
<1>1. /\ stage = "START" /\ job \in Inputs /\ Has(job, Given)
      /\ stage' = (IF Normal(job.new) THEN "RULE_REVIEW" ELSE "FAILED")
      /\ job' = Adding(job, more)
      /\ UNCHANGED <<build, report, answer>>
  BY DEF Extract, Inv, JobInv
<1>2. DOMAIN more = {"key"}
  OBVIOUS
<1> HIDE DEF more
<1>3. DOMAIN job' = DOMAIN job \cup {"key"} /\ job'.old = job.old /\ job'.new = job.new
      /\ job'.procedure = job.procedure
  <2>1. Keeps(job', job, {"key"})
    BY <1>1, <1>2, Added
  <2>2. {"old", "new", "procedure"} \subseteq DOMAIN job \ {"key"}
    BY <1>1 DEF Has, Given
  <2>3. QED
    BY <2>1, <2>2 DEF Keeps
<1>4. IsList(job.new)
  BY <1>1, InputsAssumption DEF IsList
<1>5. JobInv'
  BY <1>1, <1>3, <1>4 DEF JobInv, Has, IsList
<1>6. QED
  BY <1>1, <1>3, <1>5, QuietStep

LEMMA ReviewStep == Inv /\ Review => Inv'
<1> SUFFICES ASSUME Inv, Review PROVE Inv'
  OBVIOUS
<1>1. stage = "RULE_REVIEW" /\ Has(job, Given) /\ IsList(job.new) /\ Normal(job.new)
  BY DEF Review, Inv, JobInv
<1>2. PICK accepted \in SUBSET DOMAIN job.new : job' = [job EXCEPT !.new = Sublist(job.new, accepted)]
  BY DEF Review
<1>3. DOMAIN job' = DOMAIN job /\ job'.old = job.old /\ job'.procedure = job.procedure
      /\ job'.new = Sublist(job.new, accepted)
  BY <1>1, <1>2 DEF Has, Given
<1>4. Normal(job'.new)
  BY <1>1, <1>3, AcceptedAreNormal
<1>5. /\ stage' = (IF job'.new = <<>> THEN "NEEDS_REVIEW" ELSE "COMPILE_CONSTRAINTS")
      /\ UNCHANGED <<build, report, answer>>
  BY DEF Review
<1>6. JobInv'
  BY <1>1, <1>3, <1>4, <1>5 DEF JobInv, Has
<1>7. QED
  BY <1>1, <1>3, <1>5, <1>6, QuietStep

\* What a stage adds disturbs nothing that the earlier ones established.
LEMMA StaysCompiled ==
  ASSUME NEW j, NEW k, NEW names, CompiledJob(j), Keeps(k, j, names),
         names \subseteq {"witnesses", "faults", "patch", "validation", "impact"}
  PROVE  /\ CompiledJob(k)
         /\ k.old = j.old /\ k.new = j.new /\ k.procedure = j.procedure /\ k.delta = j.delta
<1>1. Given \cup {"delta"} \subseteq DOMAIN j \ names
  BY DEF CompiledJob, Has, Given
<1>2. DOMAIN k = DOMAIN j \cup names /\ \A f \in DOMAIN j \ names : k[f] = j[f]
  BY DEF Keeps
<1>3. k.old = j.old /\ k.new = j.new /\ k.procedure = j.procedure /\ k.delta = j.delta
  BY <1>1, <1>2 DEF Given
<1>4. Has(k, Given \cup {"delta"})
  BY <1>1, <1>2 DEF Has
<1>5. QED
  BY <1>3, <1>4 DEF CompiledJob

LEMMA CompileStep == Inv /\ Compile => Inv'
<1> SUFFICES ASSUME Inv, Compile PROVE Inv'
  OBVIOUS
<1>1. stage = "COMPILE_CONSTRAINTS" /\ Has(job, Given) /\ Normal(job.new)
  BY DEF Compile, Inv, JobInv
<1>2. /\ stage' = (IF Verdict(job.new) = "ok" THEN "FIND_WITNESSES" ELSE "NEEDS_REVIEW")
      /\ job' = (IF Verdict(job.new) = "ok" THEN Diffed(job) ELSE job)
      /\ UNCHANGED <<build, report, answer>>
  BY DEF Compile
<1>3. CASE Verdict(job.new) # "ok"
  <2>1. JobInv'
    BY <1>1, <1>2, <1>3 DEF JobInv
  <2>2. QED
    BY <1>1, <1>2, <1>3, <2>1, QuietStep
<1>4. CASE Verdict(job.new) = "ok"
  <2>1. Keeps(job', job, {"delta"}) /\ job'.delta = SemanticRuleDelta(job.old, job.new)
    BY <1>2, <1>4, DiffedFields
  <2>2. Given \subseteq DOMAIN job \ {"delta"}
    BY <1>1 DEF Has, Given
  <2>3. job'.old = job.old /\ job'.new = job.new /\ job'.procedure = job.procedure
    BY <2>1, <2>2 DEF Keeps, Given
  <2>4. Has(job', Given) /\ Has(job', Given \cup {"delta"})
    BY <2>1, <2>2 DEF Keeps, Has
  <2>5. CompiledJob(job')
    BY <1>1, <1>4, <2>1, <2>3, <2>4 DEF CompiledJob
  <2>6. JobInv'
    BY <1>2, <1>4, <2>4, <2>5 DEF JobInv
  <2>7. QED
    BY <1>1, <1>2, <1>4, <2>3, <2>6, QuietStep
<1>5. QED
  BY <1>3, <1>4

LEMMA SearchStep == Inv /\ Search => Inv'
<1> SUFFICES ASSUME Inv, Search PROVE Inv'
  OBVIOUS
<1>1. stage = "FIND_WITNESSES" /\ Has(job, Given) /\ CompiledJob(job)
  BY DEF Search, Inv, JobInv
<1>2. /\ job' = (IF ValidDag(job.procedure) THEN Searched(job) ELSE job)
      /\ UNCHANGED <<build, report, answer>>
  BY DEF Search
<1>3. \/ stage' = "FAILED"
      \/ job' # job /\ stage' = (IF job'.witnesses = <<>> THEN "READY" ELSE "LOCALIZE_PATCH")
  BY DEF Search
<1>4. CASE stage' = "FAILED"
  <2>1. job'.old = job.old /\ job'.procedure = job.procedure /\ Has(job', Given)
    <3>1. CASE ValidDag(job.procedure)
      <4>1. Keeps(job', job, {"witnesses"})
        BY <1>2, <3>1, SearchedFields
      <4>2. CompiledJob(job') /\ job'.old = job.old /\ job'.procedure = job.procedure
        BY <1>1, <4>1, StaysCompiled
      <4>3. QED
        BY <4>2 DEF CompiledJob, Has
    <3>2. QED
      BY <1>1, <1>2, <3>1
  <2>2. JobInv'
    BY <1>4, <2>1 DEF JobInv
  <2>3. QED
    BY <1>1, <1>2, <1>4, <2>1, <2>2, QuietStep
<1>5. CASE stage' # "FAILED"
  <2>1. ValidDag(job.procedure) /\ job' = Searched(job)
    BY <1>2, <1>3, <1>5
  <2>2. Keeps(job', job, {"witnesses"}) /\ job'.witnesses = Baseline(job.new, job.procedure)
    BY <2>1, SearchedFields DEF Baseline
  <2>3. CompiledJob(job') /\ job'.old = job.old /\ job'.new = job.new /\ job'.procedure = job.procedure
    BY <1>1, <2>2, StaysCompiled
  <2>4. Has(job', Given) /\ Has(job', {"witnesses"})
    BY <2>2, <2>3 DEF CompiledJob, Has, Keeps
  <2>5. SearchedJob(job')
    BY <2>1, <2>2, <2>3, <2>4 DEF SearchedJob
  <2>6. stage' = (IF job'.witnesses = <<>> THEN "READY" ELSE "LOCALIZE_PATCH")
    BY <1>3, <1>5
  <2>7. JobInv'
    BY <2>4, <2>5, <2>6 DEF JobInv
  <2>8. QED
    BY <1>1, <1>2, <2>3, <2>6, <2>7, QuietStep
<1>6. QED
  BY <1>4, <1>5

LEMMA LocalizeStep == Inv /\ LocalizePatch => Inv'
<1> SUFFICES ASSUME Inv, LocalizePatch PROVE Inv'
  OBVIOUS
<1>1. stage = "LOCALIZE_PATCH" /\ SearchedJob(job) /\ job.witnesses # <<>>
  BY DEF LocalizePatch, Inv, JobInv
<1>2. stage' = "VALIDATE_PATCH" /\ job' = Patched(job, <<>>) /\ UNCHANGED <<build, report, answer>>
  BY DEF LocalizePatch
<1>3. /\ Keeps(job', job, {"faults", "patch"})
      /\ job'.faults = LocalizeAll(job.witnesses, job.procedure, <<>>)
      /\ job'.patch = Propose(CompileRules(job.new), job.procedure, LocalizeAll(job.witnesses, job.procedure, <<>>))
  BY <1>2, PatchedFields
<1>4. CompiledJob(job') /\ job'.old = job.old /\ job'.new = job.new /\ job'.procedure = job.procedure
  BY <1>1, <1>3, StaysCompiled DEF SearchedJob
<1>5. job'.witnesses = job.witnesses /\ Has(job', {"witnesses"}) /\ Has(job', {"faults", "patch"})
  BY <1>1, <1>3 DEF SearchedJob, Has, Keeps
<1>6. SearchedJob(job')
  BY <1>1, <1>4, <1>5 DEF SearchedJob
<1>7. PatchedJob(job')
  BY <1>1, <1>3, <1>4, <1>5, <1>6 DEF PatchedJob
<1>8. JobInv'
  BY <1>2, <1>4, <1>7 DEF JobInv, CompiledJob, Has
<1>9. QED
  BY <1>1, <1>2, <1>4, <1>8, QuietStep

LEMMA ValidateStep == Inv /\ ValidatePatch => Inv'
<1> SUFFICES ASSUME Inv, ValidatePatch PROVE Inv'
  OBVIOUS
<1>1. stage = "VALIDATE_PATCH" /\ PatchedJob(job) /\ Has(job, Given)
  BY DEF ValidatePatch, Inv, JobInv
<1>2. UNCHANGED <<build, report, answer>>
  BY DEF ValidatePatch
<1>3. CASE ~(Verdict(Before(job.old)) = "ok" /\ ValidDag(job.patch.wf))
  <2>1. stage' = "FAILED" /\ job' = job
    BY <1>3 DEF ValidatePatch
  <2>2. JobInv'
    BY <1>1, <2>1 DEF JobInv
  <2>3. QED
    BY <1>1, <1>2, <2>1, <2>2, QuietStep
<1>4. CASE Verdict(Before(job.old)) = "ok" /\ ValidDag(job.patch.wf)
  <2>1. /\ job' = Validated(job)
        /\ stage' = (IF Passes(job'.validation) THEN "COMPUTE_IMPACT" ELSE "NEEDS_REVIEW")
    BY <1>4 DEF ValidatePatch, Judge
  <2>2. /\ Keeps(job', job, {"validation"})
        /\ job'.validation = Validate(job.witnesses, CompileRules(job.new), CompileRules(Before(job.old)),
                                      job.patch.wf, job.procedure, job.delta)
    BY <2>1, ValidatedFields
  <2>3. /\ CompiledJob(job') /\ job'.delta = job.delta
        /\ job'.old = job.old /\ job'.new = job.new /\ job'.procedure = job.procedure
    BY <1>1, <2>2, StaysCompiled DEF PatchedJob, SearchedJob
  <2>4. /\ job'.witnesses = job.witnesses /\ job'.faults = job.faults /\ job'.patch = job.patch
        /\ Has(job', {"witnesses"}) /\ Has(job', {"faults", "patch"}) /\ Has(job', {"validation"})
    BY <1>1, <2>2 DEF PatchedJob, SearchedJob, Has, Keeps
  <2>5. SearchedJob(job')
    BY <1>1, <2>3, <2>4 DEF PatchedJob, SearchedJob
  <2>6. PatchedJob(job')
    BY <1>1, <2>3, <2>4, <2>5 DEF PatchedJob
  <2>7. ValidatedJob(job')
    BY <1>4, <2>2, <2>3, <2>4, <2>6 DEF ValidatedJob
  <2>8. Has(job', Given) /\ Normal(job'.new)
    BY <2>3 DEF CompiledJob, Has
  <2>9. JobInv'
    BY <2>1, <2>7, <2>8 DEF JobInv
  <2>10. QED
    BY <1>1, <1>2, <2>1, <2>3, <2>9, QuietStep
<1>5. QED
  BY <1>3, <1>4

LEMMA ImpactStep == Inv /\ ComputeImpact => Inv'
<1> SUFFICES ASSUME Inv, ComputeImpact PROVE Inv'
  OBVIOUS
<1>1. stage = "COMPUTE_IMPACT" /\ ValidatedJob(job) /\ Passes(job.validation)
  BY DEF ComputeImpact, Inv, JobInv
<1>2. stage' = "PERSIST_BUILD" /\ job' = Assessed(job) /\ UNCHANGED <<build, report, answer>>
  BY DEF ComputeImpact
<1>3. /\ Keeps(job', job, {"impact"})
      /\ job'.impact = ImpactSummary(job.delta, job.witnesses, job.faults, job.validation, job.procedure,
                                     job.patch.wf, CompileRules(job.new), CompileRules(Before(job.old)))
  BY <1>2, AssessedFields
<1>4. /\ CompiledJob(job') /\ job'.delta = job.delta
      /\ job'.old = job.old /\ job'.new = job.new /\ job'.procedure = job.procedure
  BY <1>1, <1>3, StaysCompiled DEF ValidatedJob, PatchedJob, SearchedJob
<1>5. /\ job'.witnesses = job.witnesses /\ job'.faults = job.faults /\ job'.patch = job.patch
      /\ job'.validation = job.validation
      /\ Has(job', {"witnesses"}) /\ Has(job', {"faults", "patch"}) /\ Has(job', {"validation"})
      /\ Has(job', {"impact"})
  BY <1>1, <1>3 DEF ValidatedJob, PatchedJob, SearchedJob, Has, Keeps
<1>6. SearchedJob(job')
  BY <1>1, <1>4, <1>5 DEF ValidatedJob, PatchedJob, SearchedJob
<1>7. PatchedJob(job')
  BY <1>1, <1>4, <1>5, <1>6 DEF ValidatedJob, PatchedJob
<1>8. ValidatedJob(job')
  BY <1>1, <1>4, <1>5, <1>7 DEF ValidatedJob
<1>9. AssessedJob(job')
  BY <1>3, <1>4, <1>5, <1>8 DEF AssessedJob
<1>10. JobInv'
  BY <1>1, <1>2, <1>4, <1>5, <1>9 DEF JobInv, CompiledJob, Has
<1>11. QED
  BY <1>1, <1>2, <1>4, <1>10, QuietStep
-----------------------------------------------------------------------------
LEMMA RecordIsWhole ==
  ASSUME NEW b, NEW status, NEW key, NEW old, NEW new, NEW procedure, NEW delta, NEW witnesses,
         NEW faults, NEW ops, NEW patched, NEW validation, NEW impact, NEW certificate,
         b = [status |-> status, key |-> key, old |-> old, new |-> new, procedure |-> procedure,
              delta |-> delta, witnesses |-> witnesses, faults |-> faults, ops |-> ops,
              patched |-> patched, validation |-> validation, impact |-> impact,
              certificate |-> certificate]
  PROVE  /\ Whole(b)
         /\ b.status = status /\ b.old = old /\ b.new = new /\ b.procedure = procedure
         /\ b.delta = delta /\ b.witnesses = witnesses /\ b.ops = ops /\ b.patched = patched
         /\ b.validation = validation /\ b.impact = impact
  BY DEF Whole

\* The fields of the build that run_build finishes.
Repaired(new, w, o) ==
  Propose(CompileRules(new), w, LocalizeAll(Baseline(new, w), w, o))
Assessment(b, faults) ==
  ImpactSummary(b.delta, b.witnesses, faults, b.validation, b.procedure, b.patched,
                CompileRules(b.new), CompileRules(Before(b.old)))
Finished(b, old, new, w, o) ==
  /\ Whole(b) /\ b.old = old /\ b.new = new /\ b.procedure = w
  /\ b.delta = SemanticRuleDelta(old, new)
  /\ b.witnesses = Baseline(new, w)
  /\ b.ops = Repaired(new, w, o).ops /\ b.patched = Repaired(new, w, o).wf
  /\ b.validation = Validate(b.witnesses, CompileRules(new), CompileRules(Before(old)), b.patched, w, b.delta)
  /\ [b.impact EXCEPT !.affected_nodes = {}]
       = [Assessment(b, LocalizeAll(b.witnesses, w, o)) EXCEPT !.affected_nodes = {}]
  /\ b.status = StatusOf(b.witnesses, b.validation)

LEMMA FullRunFields ==
  ASSUME NEW old, NEW new, NEW w, NEW o,
         SchemaValid(w), Normal(new), Verdict(Before(old)) = "ok", Verdict(new) = "ok", ValidDag(w)
  PROVE  LET b == RunBuild([old |-> old, new |-> new, procedure |-> w])
         IN  IF ValidDag(Repaired(new, w, o).wf) THEN Finished(b, old, new, w, o) ELSE b = Raised
<1> DEFINE m == CompileRules(new)
           d == SemanticRuleDelta(old, new)
           x == FindWitnesses(m, w, <<>>, WitnessCap)
           q == Propose(m, w, LocalizeAll(x, w, o))
           v == Validate(x, m, CompileRules(Before(old)), q.wf, w, d)
           i == ImpactSummary(d, x, LocalizeAll(x, w, o), v, w, q.wf, m, CompileRules(Before(old)))
           b == RunBuild([old |-> old, new |-> new, procedure |-> w])
           Plain(y) == [y EXCEPT !.affected_nodes = {}]
<1>0. x = Baseline(new, w) /\ q = Repaired(new, w, o)
  BY DEF Baseline, Repaired
<1>1. /\ ~ValidDag(q.wf) => b = Raised
      /\ ValidDag(q.wf) =>
           /\ \E status, key, faults, impact, certificate :
                /\ b = [status |-> status, key |-> key, old |-> old, new |-> new, procedure |-> w,
                       delta |-> d, witnesses |-> x, faults |-> faults, ops |-> q.ops, patched |-> q.wf,
                       validation |-> v, impact |-> impact, certificate |-> certificate]
                /\ Plain(impact) = Plain(i)
           /\ b.status = StatusOf(x, v)
  BY FullRun
<1> HIDE DEF m, d, x, q, v, i, b, Plain
<1>2. CASE ~ValidDag(q.wf)
  <2>1. ~ValidDag(q.wf) /\ b = Raised
    BY <1>1, <1>2
  <2>2. QED
    BY <1>0, <2>1 DEF b
<1>3. CASE ValidDag(q.wf)
  <2>1. PICK status, key, faults, impact, certificate :
          /\ b = [status |-> status, key |-> key, old |-> old, new |-> new, procedure |-> w,
                 delta |-> d, witnesses |-> x, faults |-> faults, ops |-> q.ops, patched |-> q.wf,
                 validation |-> v, impact |-> impact, certificate |-> certificate]
          /\ Plain(impact) = Plain(i)
    BY <1>1, <1>3
  <2>2. /\ Whole(b)
        /\ b.old = old /\ b.new = new /\ b.procedure = w /\ b.delta = d
        /\ b.witnesses = x /\ b.ops = q.ops /\ b.patched = q.wf /\ b.validation = v
        /\ b.impact = impact
    BY <2>1, RecordIsWhole
  <2>3. Plain(b.impact) = Plain(i)
    BY <2>1, <2>2
  <2>4. b.status = StatusOf(x, v)
    BY <1>1, <1>3
  <2>5. /\ b.delta = SemanticRuleDelta(old, new) /\ b.witnesses = Baseline(new, w)
        /\ b.ops = Repaired(new, w, o).ops /\ b.patched = Repaired(new, w, o).wf
    BY <1>0, <2>2 DEF d
  <2>6. b.validation = Validate(b.witnesses, CompileRules(new), CompileRules(Before(old)), b.patched, w, b.delta)
    BY <2>2 DEF v, m
  <2>7. Assessment(b, LocalizeAll(b.witnesses, w, o)) = i
    BY <2>2 DEF Assessment, i, m
  <2>8. [b.impact EXCEPT !.affected_nodes = {}]
          = [Assessment(b, LocalizeAll(b.witnesses, w, o)) EXCEPT !.affected_nodes = {}]
    BY <2>3, <2>7 DEF Plain
  <2>9. b.status = StatusOf(b.witnesses, b.validation)
    BY <2>2, <2>4
  <2>10. Finished(b, old, new, w, o)
    BY <2>2, <2>5, <2>6, <2>8, <2>9 DEF Finished
  <2>11. QED
    BY <1>0, <1>3, <2>10 DEF b
<1>4. QED
  BY <1>2, <1>3

\* A build that holds what run_build finishes on its inputs satisfies all that
\* is said of a stored one.
LEMMA FreshBuild ==
  ASSUME NEW b, NEW o, Whole(b),
         Normal(b.new), Verdict(b.new) = "ok", Verdict(Before(b.old)) = "ok", ValidDag(b.procedure),
         b.witnesses = Baseline(b.new, b.procedure),
         b.ops = Repaired(b.new, b.procedure, o).ops, b.patched = Repaired(b.new, b.procedure, o).wf,
         b.validation = Validate(b.witnesses, CompileRules(b.new), CompileRules(Before(b.old)),
                                 b.patched, b.procedure, SemanticRuleDelta(b.old, b.new))
  PROVE  /\ IsList(b.witnesses)
         /\ Reproduced(b, RunBuild(Input(b)))
         /\ Passes(b.validation) =>
              \A x \in ToSet(b.witnesses) : Agrees(CompileRules(b.new), b.patched, x.case)
<1>1. IsList(b.witnesses)
  BY OneMoreCase DEF Baseline
<1>2. Passes(b.validation) =>
        \A y \in ToSet(b.witnesses) : Agrees(CompileRules(b.new), b.patched, y.case)
  BY PassedWitnesses
<1> DEFINE i == [old |-> b.old, new |-> b.new, procedure |-> b.procedure]
           r == RunBuild(i)
<1>3. i.procedure = b.procedure /\ Input(b) = i
  BY DEF Input
<1>4. CASE ~SchemaValid(b.procedure)
  <2> HIDE DEF i
  <2>1. r = Raised
    BY <1>3, <1>4, RunRefuses
  <2>2. QED
    BY <1>1, <1>2, <1>3, <2>1 DEF Reproduced
<1>5. CASE SchemaValid(b.procedure)
  <2>1. r = Raised \/ Finished(r, b.old, b.new, b.procedure, o)
    BY <1>5, FullRunFields
  <2> HIDE DEF i, r
  <2>2. \/ r = Raised
        \/ r.witnesses = b.witnesses /\ r.ops = b.ops /\ r.patched = b.patched /\ r.validation = b.validation
    BY <2>1 DEF Finished
  <2>3. Reproduced(b, r)
    BY <2>2 DEF Reproduced
  <2>4. QED
    BY <1>1, <1>2, <1>3, <2>3 DEF r
<1>6. QED
  BY <1>4, <1>5

\* The step that stores a build.
LEMMA StoringStep ==
  ASSUME Inv, stage # "STORED", stage' = "STORED", UNCHANGED <<job, report, answer>>,
         build'.status \in Statuses,
         build'.patched # None =>
           /\ Whole(build') /\ IsList(build'.witnesses)
           /\ build'.witnesses = Baseline(build'.new, build'.procedure)
           /\ Reproduced(build', RunBuild(Input(build')))
           /\ Passes(build'.validation) =>
                \A x \in ToSet(build'.witnesses) : Agrees(CompileRules(build'.new), build'.patched, x.case)
  PROVE  Inv'
<1>1. report = None /\ answer = None /\ Has(job, Given)
  BY DEF Inv, TypeOK, Stored, EarlyInv, JobInv
<1>2. TypeOK'
  BY <1>1 DEF Inv, TypeOK, Stored
<1>3. JobInv'
  BY <1>1 DEF JobInv
<1>4. build'.patched # None => Genuine(build')
  BY FoundIsReal DEF Genuine, Baseline
<1>5. StoredInv'
  BY <1>4 DEF StoredInv, Stored
<1>6. EarlyInv' /\ PassedMeansRepaired' /\ RefusedMeansCovered' /\ ReverifyBlamesNoRepair'
  BY <1>1 DEF EarlyInv, PassedMeansRepaired, RefusedMeansCovered, ReverifyBlamesNoRepair, Stored
<1>7. QED
  BY <1>2, <1>3, <1>5, <1>6 DEF Inv

LEMMA CreateBuildStep == Inv /\ CreateBuild => Inv'
<1> SUFFICES ASSUME Inv, CreateBuild PROVE Inv'
  OBVIOUS
<1> DEFINE b == RunBuild(job)
<1>1. stage = "START" /\ Has(job, Given) /\ job = Input(job)
  BY InputsAssumption DEF CreateBuild, Inv, JobInv, Input
<1>2. /\ stage' = (IF b = Raised THEN "FAILED" ELSE "STORED")
      /\ build' = (IF b = Raised THEN None ELSE b)
      /\ UNCHANGED <<job, report, answer>>
  BY DEF CreateBuild
<1>3. b = RunBuild([old |-> job.old, new |-> job.new, procedure |-> job.procedure])
  BY <1>1 DEF Input
<1> HIDE DEF b
<1>4. CASE b = Raised
  <2>1. build' = build
    BY <1>1, <1>2, <1>4 DEF Inv, TypeOK
  <2>2. JobInv'
    BY <1>1, <1>2, <1>4 DEF JobInv
  <2>3. QED
    BY <1>1, <1>2, <1>4, <2>1, <2>2, QuietStep
<1>5. CASE b = Refused("NEEDS_REVIEW") \/ b = Refused("CONFLICT")
  <2>1. b # Raised /\ b.patched = None /\ b.status \in Statuses
    BY <1>5 DEF Refused, Raised, Statuses
  <2>2. QED
    BY <1>1, <1>2, <2>1, StoringStep
<1>6. CASE /\ b # Raised
           /\ SchemaValid(job.procedure) /\ Normal(job.new) /\ Verdict(Before(job.old)) = "ok"
           /\ Verdict(job.new) = "ok" /\ ValidDag(job.procedure)
  <2>1. Finished(b, job.old, job.new, job.procedure, <<>>)
    BY <1>3, <1>6, FullRunFields
  <2>2. Whole(b) /\ b.old = job.old /\ b.new = job.new /\ b.procedure = job.procedure
    BY <2>1 DEF Finished
  <2>3. /\ b.witnesses = Baseline(b.new, b.procedure)
        /\ b.ops = Repaired(b.new, b.procedure, <<>>).ops /\ b.patched = Repaired(b.new, b.procedure, <<>>).wf
    BY <2>1, <2>2 DEF Finished
  <2>4. b.validation = Validate(b.witnesses, CompileRules(b.new), CompileRules(Before(b.old)),
                                b.patched, b.procedure, SemanticRuleDelta(b.old, b.new))
    BY <2>1, <2>2 DEF Finished
  <2>5. b.status \in Statuses
    BY <2>1 DEF Finished, StatusOf, Statuses
  <2>6. /\ Normal(b.new) /\ Verdict(b.new) = "ok" /\ Verdict(Before(b.old)) = "ok" /\ ValidDag(b.procedure)
    BY <1>6, <2>2
  <2>7. /\ IsList(b.witnesses)
        /\ Reproduced(b, RunBuild(Input(b)))
        /\ Passes(b.validation) =>
             \A y \in ToSet(b.witnesses) : Agrees(CompileRules(b.new), b.patched, y.case)
    BY <2>2, <2>3, <2>4, <2>6, FreshBuild
  <2>8. stage' = "STORED" /\ build' = b
    BY <1>2, <1>6
  <2>9. QED
    BY <1>1, <1>2, <2>2, <2>3, <2>5, <2>7, <2>8, StoringStep
<1>7. QED
  BY <1>3, <1>4, <1>5, <1>6, <1>1, RunCases DEF b

LEMMA PersistStep == Inv /\ PersistBuild => Inv'
<1> SUFFICES ASSUME Inv, PersistBuild PROVE Inv'
  OBVIOUS
<1> DEFINE b == Build(job, "PATCH_VALIDATED", job.key,
                      Certificate(job, job.delta.affected, [failed |-> Len(job.witnesses)]))
<1>1. stage = "PERSIST_BUILD" /\ AssessedJob(job) /\ Passes(job.validation)
  BY DEF PersistBuild, Inv, JobInv
<1>2. stage' = "STORED" /\ build' = b /\ UNCHANGED <<job, report, answer>>
  BY DEF PersistBuild
<1>3. /\ Whole(b) /\ b.status = "PATCH_VALIDATED" /\ b.old = job.old /\ b.new = job.new
      /\ b.procedure = job.procedure /\ b.witnesses = job.witnesses
      /\ b.ops = job.patch.ops /\ b.patched = job.patch.wf /\ b.validation = job.validation
  BY RecordIsWhole DEF Build
<1> HIDE DEF b
<1>4. /\ Normal(job.new) /\ Verdict(job.new) = "ok" /\ Verdict(Before(job.old)) = "ok"
      /\ ValidDag(job.procedure) /\ job.witnesses = Baseline(job.new, job.procedure)
      /\ job.delta = SemanticRuleDelta(job.old, job.new)
      /\ job.patch = Propose(CompileRules(job.new), job.procedure,
                             LocalizeAll(job.witnesses, job.procedure, <<>>))
      /\ job.validation = Validate(job.witnesses, CompileRules(job.new), CompileRules(Before(job.old)),
                                   job.patch.wf, job.procedure, job.delta)
  BY <1>1 DEF AssessedJob, ValidatedJob, PatchedJob, SearchedJob, CompiledJob
<1>5. /\ Normal(b.new) /\ Verdict(b.new) = "ok" /\ Verdict(Before(b.old)) = "ok" /\ ValidDag(b.procedure)
      /\ b.witnesses = Baseline(b.new, b.procedure)
  BY <1>3, <1>4
<1>6. job.patch = Repaired(b.new, b.procedure, <<>>)
  BY <1>3, <1>4 DEF Repaired
<1>7. b.validation = Validate(b.witnesses, CompileRules(b.new), CompileRules(Before(b.old)),
                              b.patched, b.procedure, SemanticRuleDelta(b.old, b.new))
  BY <1>3, <1>4
<1>8. /\ IsList(b.witnesses)
      /\ Reproduced(b, RunBuild(Input(b)))
      /\ Passes(b.validation) =>
           \A y \in ToSet(b.witnesses) : Agrees(CompileRules(b.new), b.patched, y.case)
  BY <1>3, <1>5, <1>6, <1>7, FreshBuild
<1>9. build'.status \in Statuses
  BY <1>2, <1>3 DEF Statuses
<1>10. QED
  BY <1>1, <1>2, <1>3, <1>5, <1>8, <1>9, StoringStep

\* A nomination that the search does not answer with a new number.
LEMMA NominateCovered ==
  ASSUME Inv, Stored, NEW t, UNCHANGED <<stage, job, report, build>>,
         LET found == FindWitnesses(CompileRules(build.new), build.procedure, <<t.case>>, WitnessCap)
         IN  Len(found) <= Len(build.witnesses),
         answer'.case = t.case, answer'.known = Len(build.witnesses)
  PROVE  Inv'
<1> DEFINE m     == CompileRules(build.new)
           first == FindWitnesses(m, build.procedure, <<>>, WitnessCap)
           found == FindWitnesses(m, build.procedure, <<t.case>>, WitnessCap)
           d     == Disagreement(m, build.procedure, t.case)
<1>1. /\ IsList(first)
      /\ \/ d = NoFault
         \/ \E x \in ToSet(first) : Says(x, d)
         \/ Len(found) = Len(first) + 1
  BY OneMoreCase
<1>2. build.witnesses = first \/ Len(build.witnesses) > Len(first)
  BY DEF Inv, StoredInv, Baseline
<1>3. Len(found) <= Len(build.witnesses)
  OBVIOUS
<1> HIDE DEF first, found, d
<1>4. \/ Len(build.witnesses) > Len(first)
      \/ d = NoFault
      \/ \E x \in ToSet(build.witnesses) : Says(x, d)
  BY <1>1, <1>2, <1>3, ListLength
<1>5. RefusedMeansCovered'
  <2>1. RefusedMeansCovered' <=> \/ answer' = None
                                \/ Len(build.witnesses) > Len(first)
                                \/ d = NoFault
                                \/ \E x \in ToSet(build.witnesses) : Says(x, d)
    BY DEF RefusedMeansCovered, Stored, first, d, Says
  <2>2. QED
    BY <1>4, <2>1
<1>6. TypeOK' /\ JobInv' /\ StoredInv' /\ EarlyInv' /\ PassedMeansRepaired' /\ ReverifyBlamesNoRepair'
  BY DEF Inv, TypeOK, JobInv, StoredInv, EarlyInv, Stored, PassedMeansRepaired, ReverifyBlamesNoRepair
<1>7. QED
  BY <1>5, <1>6 DEF Inv

Revised(c, b, all, v) ==
  /\ Whole(c) /\ c.status = b.status /\ c.old = b.old /\ c.new = b.new
  /\ c.procedure = b.procedure /\ c.witnesses = all /\ c.ops = b.ops
  /\ c.patched = b.patched /\ c.validation = v /\ c.delta = b.delta

LEMMA RevisedBuild ==
  ASSUME NEW b, NEW c, NEW all, NEW v, Whole(b), c = [b EXCEPT !.witnesses = all, !.validation = v]
  PROVE  Revised(c, b, all, v)
<1>1. c = [status |-> b.status, key |-> b.key, old |-> b.old, new |-> b.new,
           procedure |-> b.procedure, delta |-> b.delta, witnesses |-> all,
           faults |-> b.faults, ops |-> b.ops, patched |-> b.patched,
           validation |-> v, impact |-> b.impact, certificate |-> b.certificate]
  BY DEF Whole
<1>2. QED
  BY <1>1, RecordIsWhole DEF Revised

\* A nomination that is taken up: the last of the witnesses found is appended,
\* and the patch validated with it.
LEMMA NominateTaken ==
  ASSUME Inv, Stored, NEW t, UNCHANGED <<stage, job, report>>,
         LET found == FindWitnesses(CompileRules(build.new), build.procedure, <<t.case>>, WitnessCap)
             known == Len(build.witnesses)
             all   == Append(build.witnesses, found[known + 1])
         IN  /\ Len(found) > known
             /\ build' = [build EXCEPT !.witnesses = all,
                           !.validation = Validate(all, CompileRules(build.new), CompileRules(build.old),
                                                   build.patched, build.procedure, build.delta)],
         answer'.case = t.case, answer'.known = Len(build.witnesses)
  PROVE  Inv'
<1> DEFINE m     == CompileRules(build.new)
           first == FindWitnesses(m, build.procedure, <<>>, WitnessCap)
           found == FindWitnesses(m, build.procedure, <<t.case>>, WitnessCap)
           d     == Disagreement(m, build.procedure, t.case)
           known == Len(build.witnesses)
           new   == found[known + 1]
           all   == Append(build.witnesses, new)
           v     == Validate(all, m, CompileRules(build.old), build.patched, build.procedure, build.delta)
<1>1. /\ IsList(first)
      /\ \/ d = NoFault
         \/ \E x \in ToSet(first) : Says(x, d)
         \/ Len(found) = Len(first) + 1 /\ Says(found[Len(first) + 1], d)
  BY OneMoreCase
<1>2. /\ Whole(build) /\ Genuine(build) /\ IsList(build.witnesses)
      /\ build.witnesses = first \/ known > Len(first)
      /\ Reproduced(build, RunBuild(Input(build)))
  BY DEF Inv, StoredInv, Baseline
<1>3. Len(found) > known /\ build' = [build EXCEPT !.witnesses = all, !.validation = v]
  OBVIOUS
<1>4. Passes(v) => \A x \in ToSet(all) : Agrees(m, build.patched, x.case)
  BY PassedWitnesses
<1>5. IsList(found) /\ \A x \in ToSet(found) : Says(x, Disagreement(m, build.procedure, x.case))
  BY FoundIsReal, OneMoreCase
<1> HIDE DEF first, found, new, v
<1>6. /\ IsList(all) /\ Len(all) = known + 1 /\ all[known + 1] = new
      /\ \A i \in DOMAIN build.witnesses : i \in DOMAIN all /\ all[i] = build.witnesses[i]
  BY <1>2, ListAppend
<1>7. known \in Nat /\ Len(first) \in Nat /\ DOMAIN all = 1..(known + 1)
  BY <1>1, <1>2, <1>6, ListLength
<1> HIDE DEF known, all
<1>8. \A c : c = [build EXCEPT !.witnesses = all, !.validation = v] => Revised(c, build, all, v)
  BY <1>2, RevisedBuild
<1>9. /\ Whole(build') /\ build'.status = build.status /\ build'.old = build.old /\ build'.new = build.new
      /\ build'.procedure = build.procedure /\ build'.witnesses = all /\ build'.ops = build.ops
      /\ build'.patched = build.patched /\ build'.validation = v
  BY <1>3, <1>8 DEF Revised
<1>10. Stored' /\ stage = "STORED"
  BY <1>9 DEF Stored
<1>11. ASSUME NEW x \in ToSet(build.witnesses) PROVE x \in ToSet(all)
  BY <1>6 DEF ToSet
<1>12. new \in ToSet(all)
  BY <1>6, <1>7 DEF ToSet
<1>13. Len(all) > Len(first)
  BY <1>2, <1>6, <1>7 DEF known
<1>14. \/ known > Len(first)
       \/ d = NoFault
       \/ \E x \in ToSet(all) : Says(x, d)
  BY <1>1, <1>2, <1>7, <1>11, <1>12 DEF known, new
<1>15. TypeOK'
  BY <1>9, <1>10 DEF Inv, TypeOK
<1>16. JobInv' /\ EarlyInv' /\ ReverifyBlamesNoRepair'
  BY <1>10 DEF Inv, JobInv, EarlyInv, Stored, ReverifyBlamesNoRepair
<1>17. PassedMeansRepaired'
  BY <1>4, <1>9 DEF PassedMeansRepaired
<1>18. StoredInv'
  <2>1. Input(build') = Input(build)
    BY <1>9 DEF Input
  <2>2. Baseline(build'.new, build'.procedure) = first
    BY <1>9 DEF Baseline, first
  <2>3. build'.witnesses # first
    BY <1>7, <1>9, <1>13, <1>6
  <2>4. Reproduced(build', RunBuild(Input(build')))
    <3> DEFINE r == RunBuild(Input(build))
    <3> HIDE DEF r
    <3>1. \/ r = Raised
          \/ r.patched = build.patched /\ r.ops = build.ops /\ r.witnesses = first
      BY <1>2 DEF Reproduced, Baseline, first, r
    <3>2. Reproduced(build', r)
      BY <1>9, <2>2, <2>3, <3>1 DEF Reproduced
    <3>3. QED
      BY <2>1, <3>2 DEF r
  <2>5. ASSUME NEW x \in ToSet(all) PROVE Says(x, Disagreement(m, build.procedure, x.case))
    <3>1. PICK i \in DOMAIN all : x = all[i]
      BY DEF ToSet
    <3>2. CASE i = known + 1
      <4>1. new \in ToSet(found)
        BY <1>3, <1>7, <1>5, ListLength DEF new, ToSet
      <4>2. QED
        BY <1>6, <1>5, <3>1, <3>2, <4>1
    <3>3. CASE i # known + 1
      <4>1. i \in DOMAIN build.witnesses
        BY <1>2, <1>7, <3>1, <3>3, ListLength DEF known
      <4>2. x \in ToSet(build.witnesses)
        BY <1>6, <3>1, <4>1 DEF ToSet
      <4>3. QED
        BY <1>2, <4>2 DEF Genuine
    <3>4. QED
      BY <3>2, <3>3
  <2>6. Genuine(build')
    BY <1>9, <2>5 DEF Genuine
  <2>7. QED
    BY <1>6, <1>9, <1>13, <2>2, <2>4, <2>6 DEF StoredInv
<1>19. RefusedMeansCovered'
  <2> HIDE DEF d
  <2>1. Disagreement(CompileRules(build'.new), build'.procedure, answer'.case) = d
    BY <1>9 DEF d
  <2>2. FindWitnesses(CompileRules(build'.new), build'.procedure, <<>>, WitnessCap) = first
    BY <1>9 DEF first
  <2>3. answer'.known = known
    BY DEF known
  <2>4. QED
    BY <1>9, <1>14, <2>1, <2>2, <2>3 DEF RefusedMeansCovered, Says
<1>20. QED
  BY <1>15, <1>16, <1>17, <1>18, <1>19 DEF Inv

LEMMA NominateStep == ASSUME NEW t \in Traces PROVE Inv /\ NominateWitness(t) => Inv'
<1> SUFFICES ASSUME Inv, NominateWitness(t) PROVE Inv'
  OBVIOUS
<1> DEFINE found == FindWitnesses(CompileRules(build.new), build.procedure, <<t.case>>, WitnessCap)
           known == Len(build.witnesses)
           all   == Append(build.witnesses, found[known + 1])
           with  == [build EXCEPT !.witnesses = all,
                       !.validation = Validate(all, CompileRules(build.new), CompileRules(build.old),
                                               build.patched, build.procedure, build.delta)]
<1>1. /\ Stored /\ UNCHANGED <<stage, job, report>>
      /\ build' = (IF Len(found) <= known THEN build ELSE with)
      /\ answer' = [case |-> t.case, known |-> known, verified |-> Len(found) > known]
  BY DEF NominateWitness, TakeUp
<1>2. Len(found) \in Nat /\ known \in Nat
  <2>1. IsList(found) /\ IsList(build.witnesses)
    BY <1>1, OneMoreCase DEF Inv, StoredInv
  <2>2. QED
    BY <2>1, ListLength
<1> HIDE DEF found, all, with
<1>3. answer'.case = t.case /\ answer'.known = known
  BY <1>1
<1>4. CASE Len(found) <= known
  BY <1>1, <1>3, <1>4, NominateCovered DEF found
<1>5. CASE Len(found) > known
  <2>1. build' = with
    BY <1>1, <1>2, <1>5
  <2>2. QED
    BY <1>1, <1>3, <1>5, <2>1, NominateTaken DEF found, all, with
<1>6. QED
  BY <1>2, <1>4, <1>5

LEMMA ReverifyStep == Inv /\ Reverify => Inv'
<1> SUFFICES ASSUME Inv, Reverify PROVE Inv'
  OBVIOUS
<1> DEFINE r == RunBuild(Input(build))
<1>1. Stored /\ r # Raised /\ report' = Mismatches(build, r) /\ UNCHANGED <<stage, job, build, answer>>
  BY DEF Reverify, Input
<1> HIDE DEF r
<1>2. /\ r.patched = build.patched /\ r.ops = build.ops
      /\ r.witnesses = Baseline(build.new, build.procedure)
      /\ build.witnesses = r.witnesses => build.validation = r.validation
      /\ IsList(build.witnesses)
      /\ build.witnesses = r.witnesses \/ Len(build.witnesses) > Len(r.witnesses)
  BY <1>1 DEF Inv, StoredInv, Reproduced, r
<1>3. Len(build.witnesses) \in Nat
  BY <1>2, ListLength
<1>4. "patched" \notin report' /\ "ops" \notin report'
  BY <1>1, <1>2 DEF Mismatches
<1>5. ASSUME "witness_ids" \notin report' PROVE "validation_failed" \notin report'
  <2>1. Len(build.witnesses) = Len(r.witnesses)
    BY <1>1, <1>5 DEF Mismatches
  <2>2. build.validation = r.validation
    BY <1>2, <1>3, <2>1
  <2>3. QED
    BY <1>1, <2>2 DEF Mismatches
<1>6. ReverifyBlamesNoRepair'
  BY <1>4, <1>5 DEF ReverifyBlamesNoRepair
<1>7. TypeOK' /\ JobInv' /\ StoredInv' /\ EarlyInv' /\ PassedMeansRepaired' /\ RefusedMeansCovered'
  BY <1>1 DEF Inv, TypeOK, JobInv, StoredInv, EarlyInv, Stored, PassedMeansRepaired, RefusedMeansCovered
<1>8. QED
  BY <1>6, <1>7 DEF Inv

LEMMA StepInv == Inv /\ [Next]_vars => Inv'
<1> SUFFICES ASSUME Inv, [Next]_vars PROVE Inv'
  OBVIOUS
<1>1. CASE CreateBuild
  BY <1>1, CreateBuildStep
<1>2. CASE Extract
  BY <1>2, ExtractStep
<1>3. CASE Review
  BY <1>3, ReviewStep
<1>4. CASE Compile
  BY <1>4, CompileStep
<1>5. CASE Search
  BY <1>5, SearchStep
<1>6. CASE LocalizePatch
  BY <1>6, LocalizeStep
<1>7. CASE ValidatePatch
  BY <1>7, ValidateStep
<1>8. CASE ComputeImpact
  BY <1>8, ImpactStep
<1>9. CASE PersistBuild
  BY <1>9, PersistStep
<1>10. CASE \E t \in Traces : NominateWitness(t)
  BY <1>10, NominateStep
<1>11. CASE Reverify
  BY <1>11, ReverifyStep
<1>12. CASE UNCHANGED vars
  BY <1>12 DEF vars, Inv, TypeOK, JobInv, StoredInv, EarlyInv, Stored, PassedMeansRepaired,
               RefusedMeansCovered, ReverifyBlamesNoRepair
<1>13. QED
  BY <1>1, <1>2, <1>3, <1>4, <1>5, <1>6, <1>7, <1>8, <1>9, <1>10, <1>11, <1>12 DEF Next

LEMMA Invariance == Spec => []Inv
  BY InitInv, StepInv, PTL DEF Spec

\* The stages of the state machine and the statuses of a build are the ones
\* that the code names; nothing is stored before a pipeline is through, and
\* only a build with a repair is ever verified again (pipeline.py, asl.json).
THEOREM TypeCorrect == Spec => []TypeOK
  BY Invariance, PTL DEF Inv

\* What counts as validated repairs every witness that the build shows: after
\* run_build, after PERSIST_BUILD, and after a nomination that brought one more
\* (validate in validator.py, nominate_witness in actions.py).
THEOREM ValidatedRepairs == Spec => []PassedMeansRepaired
  BY Invariance, PTL DEF Inv

\* The first nomination that is refused as covered is refused rightly, whatever
\* the rules, the procedure and the case of the trace: the search numbers its
\* findings by the first case that shows them, so one more case can only add a
\* number at the end (find_witnesses and nominate_witness).
THEOREM RefusalsAreRight == Spec => []RefusedMeansCovered
  BY Invariance, PTL DEF Inv

\* Whatever the rules, the procedure and the nominations before it, a
\* verification of a stored build never blames the repair, and fewer or more
\* failing tests only together with a nominated witness (reverify_build).
THEOREM RepairIsReproduced == Spec => []ReverifyBlamesNoRepair
  BY Invariance, PTL DEF Inv

\* Every witness that a stored build shows to the reviewers is real: on its
\* case the procedure departs from the rules in the way that its kind and its
\* key say, also when the case was taken from a runtime trace (find_witnesses,
\* classify_disagreement and nominate_witness).
WitnessesAreReal ==
  Stored => \A x \in ToSet(build.witnesses) :
              <<x.kind, x.key>> = Disagreement(CompileRules(build.new), build.procedure, x.case)
THEOREM WitnessesShowTheirKind == Spec => []WitnessesAreReal
<1>1. Inv => WitnessesAreReal
  BY DEF Inv, StoredInv, Genuine, Says, WitnessesAreReal
<1>2. QED
  BY <1>1, Invariance, PTL
-----------------------------------------------------------------------------
\* The validation that a stored build shows is one of the repair it shows, with
\* all of its witnesses, be it of the pipeline or of the last nomination.
ShowsItsValidation(b) ==
  \E old \in {b.old, Before(b.old)} :
    b.validation = Validate(b.witnesses, CompileRules(b.new), CompileRules(old),
                            b.patched, b.procedure, b.delta)
Retested == Stored => ShowsItsValidation(build)

\* As far as its candidates go, the search is complete, whatever the policy, the
\* procedure and the cap (find_witnesses): what goes on to a repair has a witness
\* for everything that a candidate shows, and a procedure is only called ready,
\* without a human who looks at it, when it agrees with the policy on all of them.
CandidatesAreWitnessed ==
  LET m == CompileRules(job.new)
      Witnessed(c) == \/ Agrees(m, job.procedure, c)
                      \/ \E x \in ToSet(job.witnesses) : Says(x, Disagreement(m, job.procedure, c))
  IN  /\ stage \in {"LOCALIZE_PATCH", "VALIDATE_PATCH", "COMPUTE_IMPACT", "PERSIST_BUILD"} =>
           \A c \in ToSet(CandidateCases(m, job.procedure, <<>>, WitnessCap)) : Witnessed(c)
      /\ stage = "READY" =>
           \A c \in ToSet(CandidateCases(m, job.procedure, <<>>, WitnessCap)) : Agrees(m, job.procedure, c)
THEOREM SearchIsComplete == Spec => []CandidatesAreWitnessed
<1>1. Inv => CandidatesAreWitnessed
  <2> SUFFICES ASSUME Inv PROVE CandidatesAreWitnessed
    OBVIOUS
  <2> DEFINE m == CompileRules(job.new)
             w == job.procedure
             g == CandidateCases(m, w, <<>>, WitnessCap)
             reached == stage \in {"READY", "LOCALIZE_PATCH", "VALIDATE_PATCH", "COMPUTE_IMPACT", "PERSIST_BUILD"}
  <2>1. reached => job.witnesses = FindWitnesses(m, w, <<>>, WitnessCap)
    BY DEF Inv, JobInv, AssessedJob, ValidatedJob, PatchedJob, SearchedJob, Baseline
  <2>2. stage = "READY" => job.witnesses = <<>>
    BY DEF Inv, JobInv
  <2> HIDE DEF m, w
  <2>3. ASSUME reached, NEW c \in ToSet(g)
        PROVE  Agrees(m, w, c) \/ \E x \in ToSet(job.witnesses) : Says(x, Disagreement(m, w, c))
    BY <2>1, <2>3, NothingMissed
  <2>4. ToSet(<<>>) = {}
    BY DEF ToSet
  <2> HIDE DEF g
  <2>5. ASSUME stage = "READY", NEW c \in ToSet(g) PROVE Agrees(m, w, c)
    BY <2>2, <2>3, <2>4, <2>5
  <2>6. QED
    BY <2>3, <2>5 DEF CandidatesAreWitnessed, m, w, g
<1>2. QED
  BY <1>1, Invariance, PTL

LEMMA CreateRetested == Inv /\ CreateBuild => Retested'
<1> SUFFICES ASSUME Inv, CreateBuild PROVE Retested'
  OBVIOUS
<1> DEFINE b == RunBuild(job)
<1>1. job = Input(job)
  BY InputsAssumption DEF CreateBuild, Inv, JobInv, Input
<1>2. /\ stage' = (IF b = Raised THEN "FAILED" ELSE "STORED")
      /\ build' = (IF b = Raised THEN None ELSE b)
  BY DEF CreateBuild
<1>3. b = RunBuild([old |-> job.old, new |-> job.new, procedure |-> job.procedure])
  BY <1>1 DEF Input
<1> HIDE DEF b
<1>4. CASE b = Raised \/ b = Refused("NEEDS_REVIEW") \/ b = Refused("CONFLICT")
  <2>1. ~Stored'
    BY <1>2, <1>4 DEF Stored, Raised, Refused
  <2>2. QED
    BY <2>1 DEF Retested
<1>5. CASE /\ b # Raised
           /\ SchemaValid(job.procedure) /\ Normal(job.new) /\ Verdict(Before(job.old)) = "ok"
           /\ Verdict(job.new) = "ok" /\ ValidDag(job.procedure)
  <2>1. Finished(b, job.old, job.new, job.procedure, <<>>)
    BY <1>3, <1>5, FullRunFields
  <2>2. b.validation = Validate(b.witnesses, CompileRules(b.new), CompileRules(Before(b.old)),
                                b.patched, b.procedure, b.delta)
    BY <2>1 DEF Finished
  <2>3. ShowsItsValidation(b)
    BY <2>2 DEF ShowsItsValidation
  <2>4. build' = b
    BY <1>2, <1>5
  <2>5. ShowsItsValidation(build')
    BY <2>3, <2>4
  <2>6. QED
    BY <2>5 DEF Retested
<1>6. QED
  BY <1>1, <1>3, <1>4, <1>5, RunCases DEF b

LEMMA PersistRetested == Inv /\ PersistBuild => Retested'
<1> SUFFICES ASSUME Inv, PersistBuild PROVE Retested'
  OBVIOUS
<1> DEFINE b == Build(job, "PATCH_VALIDATED", job.key,
                      Certificate(job, job.delta.affected, [failed |-> Len(job.witnesses)]))
<1>1. AssessedJob(job) /\ build' = b
  BY DEF PersistBuild, Inv, JobInv
<1>2. /\ b.old = job.old /\ b.new = job.new /\ b.procedure = job.procedure /\ b.delta = job.delta
      /\ b.witnesses = job.witnesses /\ b.patched = job.patch.wf /\ b.validation = job.validation
  BY RecordIsWhole DEF Build
<1> HIDE DEF b
<1>3. job.validation = Validate(job.witnesses, CompileRules(job.new), CompileRules(Before(job.old)),
                                job.patch.wf, job.procedure, job.delta)
  BY <1>1 DEF AssessedJob, ValidatedJob
<1>4. b.validation = Validate(b.witnesses, CompileRules(b.new), CompileRules(Before(b.old)),
                              b.patched, b.procedure, b.delta)
  BY <1>2, <1>3
<1>5. ShowsItsValidation(build')
  BY <1>1, <1>4 DEF ShowsItsValidation
<1>6. QED
  BY <1>5 DEF Retested

LEMMA NominateRetested == ASSUME NEW t \in Traces PROVE Inv /\ Retested /\ NominateWitness(t) => Retested'
<1> SUFFICES ASSUME Inv, Retested, NominateWitness(t) PROVE Retested'
  OBVIOUS
<1> DEFINE found == FindWitnesses(CompileRules(build.new), build.procedure, <<t.case>>, WitnessCap)
           known == Len(build.witnesses)
           all   == Append(build.witnesses, found[known + 1])
           v     == Validate(all, CompileRules(build.new), CompileRules(build.old),
                             build.patched, build.procedure, build.delta)
<1>1. /\ Stored
      /\ build' = (IF Len(found) <= known THEN build ELSE [build EXCEPT !.witnesses = all, !.validation = v])
  BY DEF NominateWitness, TakeUp
<1>2. Whole(build) /\ ShowsItsValidation(build)
  BY <1>1 DEF Inv, StoredInv, Retested
<1> HIDE DEF found, known, all
<1>3. CASE build' = build
  BY <1>2, <1>3 DEF Retested
<1>4. CASE build' = [build EXCEPT !.witnesses = all, !.validation = v]
  <2>1. v = Validate(all, CompileRules(build.new), CompileRules(build.old),
                     build.patched, build.procedure, build.delta)
    OBVIOUS
  <2> HIDE DEF v
  <2>2. \A c : c = [build EXCEPT !.witnesses = all, !.validation = v] => Revised(c, build, all, v)
    BY <1>2, RevisedBuild
  <2>3. Revised(build', build, all, v)
    BY <1>4, <2>2
  <2>4. build'.validation = Validate(build'.witnesses, CompileRules(build'.new), CompileRules(build'.old),
                                     build'.patched, build'.procedure, build'.delta)
    BY <2>1, <2>3 DEF Revised
  <2>5. ShowsItsValidation(build')
    BY <2>4 DEF ShowsItsValidation
  <2>6. QED
    BY <2>5 DEF Retested
<1>5. QED
  BY <1>1, <1>3, <1>4

LEMMA StepRetested == Inv /\ Retested /\ [Next]_vars => Retested'
<1> SUFFICES ASSUME Inv, Retested, [Next]_vars PROVE Retested'
  OBVIOUS
<1>1. CASE UNCHANGED build /\ (stage' = "STORED" => stage = "STORED")
  BY <1>1 DEF Retested, Stored
<1>2. CASE CreateBuild
  BY <1>2, CreateRetested
<1>3. CASE PersistBuild
  BY <1>3, PersistRetested
<1>4. CASE \E t \in Traces : NominateWitness(t)
  BY <1>4, NominateRetested
<1>5. CASE Reverify \/ UNCHANGED vars
  BY <1>1, <1>5 DEF Reverify, vars
<1>6. CASE Extract \/ Review \/ Compile
  BY <1>1, <1>6 DEF Extract, Review, Compile
<1>7. CASE Search \/ LocalizePatch
  BY <1>1, <1>7 DEF Search, LocalizePatch
<1>8. CASE ValidatePatch \/ ComputeImpact
  BY <1>1, <1>8 DEF ValidatePatch, Judge, ComputeImpact
<1>9. QED
  BY <1>2, <1>3, <1>4, <1>5, <1>6, <1>7, <1>8 DEF Next

\* What a passed validation stands for, in terms of the repaired procedure and
\* of the one it repairs.
NobodyIsHarmed(m, w, patched) ==
  \A c \in ToSet(CandidateCases(m, w, <<>>, CohortCap)) : Agrees(m, w, c) => Agrees(m, patched, c)
BoundariesAreRight(m, w, patched) ==
  \A c \in ToSet(BoundaryCases(m, w)) : Agrees(m, patched, c)
PrerequisitesComeFirst(m, patched) ==
  LET order == OrderedNodes(patched)
  IN  \A o \in ToSet(m.ordering) :
        LET a == FindNode(patched, order, o.before)
            b == FindNode(patched, order, o.after)
        IN  b # None => a # None /\ ~(IndexOf(order, a) > IndexOf(order, b))
StepsComeBeforeSubmission(patched) ==
  LET place(n) == IndexOf(OrderedNodes(patched), n.id)
      submits  == {n \in ToSet(patched.nodes) : n.action = "submit"}
  IN  \A n \in ToSet(patched.nodes) :
        n.required /\ submits # {} => \E s \in submits : ~(place(n) > place(s))

LEMMA PreservedMeans ==
  ASSUME NEW m, NEW w, NEW patched,
         \A i \in DOMAIN Preserved(m, w) : Agrees(m, patched, Preserved(m, w)[i])
  PROVE  NobodyIsHarmed(m, w, patched)
<1> DEFINE cases  == CandidateCases(m, w, <<>>, CohortCap)
           places == {i \in DOMAIN cases : Agrees(m, w, cases[i])}
<1>1. Preserved(m, w) = Sublist(cases, places)
  BY DEF Preserved
<1>2. IsList(cases)
  BY CasesOfSearch, CohortCapAssumption
<1> HIDE DEF cases
<1>3. places \in SUBSET Nat /\ IsFiniteSet(places)
  <2>1. Len(cases) \in Nat /\ DOMAIN cases = 1..Len(cases)
    BY <1>2, ListLength
  <2>2. IsFiniteSet(1..Len(cases)) /\ places \in SUBSET (1..Len(cases))
    BY <2>1, FS_Interval
  <2>3. QED
    BY <2>2, FS_Subset
<1>4. SUFFICES ASSUME NEW c \in ToSet(cases), Agrees(m, w, c) PROVE Agrees(m, patched, c)
  BY DEF NobodyIsHarmed, cases
<1>5. PICK i \in DOMAIN cases : c = cases[i]
  BY DEF ToSet
<1>6. i \in places
  BY <1>4, <1>5
<1> HIDE DEF places
<1>7. Rank(places, i) \in DOMAIN Sublist(cases, places) /\ Sublist(cases, places)[Rank(places, i)] = cases[i]
  BY <1>3, <1>6, SublistContents
<1>8. QED
  BY <1>1, <1>5, <1>7

LEMMA OrderMeans ==
  ASSUME NEW m, NEW patched, \A i \in DOMAIN m.ordering : OrderIsRight(m, patched)
  PROVE  PrerequisitesComeFirst(m, patched)
<1> DEFINE order == OrderedNodes(patched)
           path  == {n.id : n \in {x \in Visited(patched, OrderingCase) : ~Skipped(x, OrderingCase)}}
           A(o)  == FindNode(patched, order, o.before)
           B(o)  == FindNode(patched, order, o.after)
           wrong == Disorder(patched, m.ordering, order, path)
<1>1. SUFFICES ASSUME NEW o \in ToSet(m.ordering), B(o) # None
               PROVE  A(o) # None /\ ~(IndexOf(order, A(o)) > IndexOf(order, B(o)))
  BY DEF PrerequisitesComeFirst
<1>2. PICK i \in DOMAIN m.ordering : o = m.ordering[i]
  BY DEF ToSet
<1>3. wrong = {}
  <2>1. Execute(patched, OrderingCase, m.ordering).order_ok
    BY <1>2 DEF OrderIsRight
  <2>2. Execute(patched, OrderingCase, m.ordering) = Outcome(OrderingCase, Visited(patched, OrderingCase), wrong)
    BY DEF Execute
  <2> HIDE DEF wrong
  <2>3. Outcome(OrderingCase, Visited(patched, OrderingCase), wrong).order_ok = (wrong = {})
    BY DEF Outcome
  <2>4. QED
    BY <2>1, <2>2, <2>3
<1> HIDE DEF path, order
<1>4. Complaints(A(o), B(o), order, path) = {}
  <2>1. wrong = UNION {{j} \X Complaints(A(m.ordering[j]), B(m.ordering[j]), order, path) : j \in DOMAIN m.ordering}
    BY DEF Disorder
  <2> HIDE DEF wrong
  <2>2. {i} \X Complaints(A(o), B(o), order, path) \subseteq wrong
    BY <1>2, <2>1
  <2> DEFINE K == Complaints(A(o), B(o), order, path)
  <2> HIDE DEF A, B, K
  <2>3. ASSUME NEW c \in K PROVE FALSE
    <3>1. <<i, c>> \in {i} \X K
      OBVIOUS
    <3>2. <<i, c>> \in wrong
      BY <2>2, <3>1 DEF K
    <3>3. QED
      BY <1>3, <3>2
  <2>4. QED
    BY <2>3 DEF K
<1> HIDE DEF wrong
<1>5. "misplaced" \notin Complaints(A(o), B(o), order, path) /\ "missing" \notin Complaints(A(o), B(o), order, path)
  BY <1>4
<1> HIDE DEF A, B
<1>6. ~(A(o) # None /\ B(o) # None /\ IndexOf(order, A(o)) > IndexOf(order, B(o)))
  BY <1>5 DEF Complaints
<1>7. ~(A(o) = None /\ B(o) # None)
  BY <1>5 DEF Complaints
<1>8. QED
  BY <1>1, <1>6, <1>7

LEMMA IntegrityMeans ==
  ASSUME NEW patched, Integrity(patched)[2]
  PROVE  StepsComeBeforeSubmission(patched)
<1> DEFINE place(id) == IndexOf(OrderedNodes(patched), id)
           nodes   == ToSet(patched.nodes)
           submits == {place(id) : id \in {n.id : n \in {x \in nodes : x.action = "submit"}}}
           late    == {n.id : n \in {x \in nodes : x.required /\ submits # {} /\ \A s \in submits : place(x.id) > s}}
<1>1. Integrity(patched)[2] = (late = {})
  BY DEF Integrity, IntegrityOf, IdsWhere
<1>2. late = {}
  BY <1>1
<1>3. SUFFICES ASSUME NEW n \in nodes, n.required, NEW t \in nodes, t.action = "submit"
               PROVE  \E s \in nodes : s.action = "submit" /\ ~(place(n.id) > place(s.id))
  BY DEF StepsComeBeforeSubmission
<1> HIDE DEF place, nodes
<1>4. ~(\A s \in submits : place(n.id) > s)
  <2>1. place(t.id) \in submits
    BY <1>3
  <2>2. ASSUME \A s \in submits : place(n.id) > s PROVE FALSE
    <3> HIDE DEF submits
    <3>1. n.id \in late
      BY <1>3, <2>1, <2>2
    <3>2. QED
      BY <1>2, <3>1
  <2>3. QED
    BY <2>2
<1>5. QED
  BY <1>4

\* A stored build that counts as validated, for any policy, procedure, traces
\* and caps (validate in validator.py): no case of the cohort for which the old
\* procedure did what the policy asks is served otherwise by the repaired one;
\* it is right on every boundary; in it no prerequisite is missing or comes
\* after its target, and no required step comes after every submission; the label
\* of the change is kept on the cohort; and every node that is new or does
\* something else is linked to a rule.
PassedIsTested ==
  Stored /\ Passes(build.validation) =>
    LET m == CompileRules(build.new)
    IN  /\ NobodyIsHarmed(m, build.procedure, build.patched)
        /\ BoundariesAreRight(m, build.procedure, build.patched)
        /\ PrerequisitesComeFirst(m, build.patched)
        /\ StepsComeBeforeSubmission(build.patched)
        /\ \E old \in {build.old, Before(build.old)} : Metamorphic(build.delta, CompileRules(old), m, build.patched)
        /\ Sourced(build.procedure, build.patched)
THEOREM PassedBuildsAreTested == Spec => []PassedIsTested
<1>1. Init => Retested
  BY DEF Init, Retested, Stored
<1>2. Spec => []Retested
  BY <1>1, StepRetested, Invariance, PTL DEF Spec
<1>3. Retested => PassedIsTested
  <2> SUFFICES ASSUME Retested, Stored, Passes(build.validation) PROVE PassedIsTested
    BY DEF PassedIsTested
  <2> DEFINE m == CompileRules(build.new)
             w == build.procedure
             q == build.patched
  <2>1. PICK old \in {build.old, Before(build.old)} :
          build.validation = Validate(build.witnesses, m, CompileRules(old), q, w, build.delta)
    BY DEF Retested, ShowsItsValidation
  <2> HIDE DEF m, w, q
  <2>2. /\ \A i \in DOMAIN BoundaryCases(m, w) : Agrees(m, q, BoundaryCases(m, w)[i])
        /\ \A i \in DOMAIN Preserved(m, w) : Agrees(m, q, Preserved(m, w)[i])
        /\ \A i \in DOMAIN m.ordering : OrderIsRight(m, q)
        /\ Integrity(q)[2]
        /\ Metamorphic(build.delta, CompileRules(old), m, q)
        /\ Sourced(w, q)
    BY <2>1, PassedSuites
  <2>3. NobodyIsHarmed(m, w, q)
    BY <2>2, PreservedMeans
  <2>4. BoundariesAreRight(m, w, q)
    BY <2>2 DEF BoundariesAreRight, ToSet
  <2>5. PrerequisitesComeFirst(m, q)
    BY <2>2, OrderMeans
  <2>6. StepsComeBeforeSubmission(q)
    BY <2>2, IntegrityMeans
  <2>7. QED
    BY <2>1, <2>2, <2>3, <2>4, <2>5, <2>6 DEF PassedIsTested, m, w, q
<1>4. QED
  BY <1>2, <1>3, PTL

-----------------------------------------------------------------------------
\* run_build and the stage of the state machine agree.
LEMMA InvFronts == Inv => FrontsAgree
<1> SUFFICES ASSUME Inv, SchemaValid(job.procedure) PROVE FrontsAgree
  BY DEF FrontsAgree
<1> DEFINE p == [old |-> job.old, new |-> job.new, procedure |-> job.procedure]
           b == RunBuild(p)
           o == <<>>
           Plain(i) == [i EXCEPT !.affected_nodes = {}]
<1>1. p.old = job.old /\ p.new = job.new /\ p.procedure = job.procedure
  OBVIOUS
<1>2. ASSUME CompiledJob(job), Verdict(Before(job.old)) = "ok", ValidDag(job.procedure),
             ValidDag(Repaired(job.new, job.procedure, o).wf)
      PROVE  Finished(b, job.old, job.new, job.procedure, o)
  <2>1. Normal(job.new) /\ Verdict(job.new) = "ok"
    BY <1>2 DEF CompiledJob
  <2> HIDE DEF o
  <2>2. IF ValidDag(Repaired(job.new, job.procedure, o).wf)
        THEN Finished(b, job.old, job.new, job.procedure, o) ELSE b = Raised
    BY <1>2, <2>1, FullRunFields
  <2>3. QED
    BY <1>2, <2>2
<1>3. ASSUME Normal(job.new), Verdict(Before(job.old)) # "ok" PROVE b = Raised
  <2> HIDE DEF p
  <2>1. QED
    BY <1>1, <1>3, RunRefuses
<1>4. ASSUME Normal(job.new), Verdict(Before(job.old)) = "ok", Verdict(job.new) # "ok"
      PROVE  b = Refused("CONFLICT")
  <2> HIDE DEF p
  <2>1. QED
    BY <1>1, <1>4, RunRefuses
<1>5. ASSUME PatchedJob(job)
      PROVE  /\ CompiledJob(job) /\ ValidDag(job.procedure) /\ job.witnesses # <<>>
             /\ job.witnesses = Baseline(job.new, job.procedure)
             /\ job.faults = LocalizeAll(job.witnesses, job.procedure, o)
             /\ job.patch = Repaired(job.new, job.procedure, o)
             /\ job.delta = SemanticRuleDelta(job.old, job.new)
  BY <1>5 DEF PatchedJob, SearchedJob, CompiledJob, Repaired
<1> HIDE DEF p, o, b
<1>6. ASSUME ValidatedJob(job)
      PROVE  /\ Finished(b, job.old, job.new, job.procedure, o)
             /\ b.delta = job.delta /\ b.witnesses = job.witnesses /\ b.ops = job.patch.ops
             /\ b.patched = job.patch.wf /\ b.validation = job.validation
             /\ b.status = StatusOf(job.witnesses, job.validation)
  <2>1. /\ PatchedJob(job) /\ Verdict(Before(job.old)) = "ok" /\ ValidDag(job.patch.wf)
        /\ job.validation = Validate(job.witnesses, CompileRules(job.new), CompileRules(Before(job.old)),
                                     job.patch.wf, job.procedure, job.delta)
    BY <1>6 DEF ValidatedJob
  <2>2. Finished(b, job.old, job.new, job.procedure, o)
    BY <1>2, <1>5, <2>1
  <2>3. b.delta = job.delta /\ b.witnesses = job.witnesses /\ b.ops = job.patch.ops /\ b.patched = job.patch.wf
    BY <1>5, <2>1, <2>2 DEF Finished
  <2>4. b.validation = job.validation
    BY <2>1, <2>2, <2>3 DEF Finished
  <2>5. QED
    BY <2>2, <2>3, <2>4 DEF Finished
<1>7. ASSUME stage = "PERSIST_BUILD"
      PROVE  /\ b.status = "PATCH_VALIDATED"
             /\ b.witnesses = job.witnesses /\ b.ops = job.patch.ops /\ b.patched = job.patch.wf
             /\ b.validation = job.validation
             /\ Plain(b.impact) = Plain(job.impact)
  <2>1. AssessedJob(job) /\ Passes(job.validation)
    BY <1>7 DEF Inv, JobInv
  <2>2. ValidatedJob(job) /\ PatchedJob(job)
    BY <2>1 DEF AssessedJob, ValidatedJob
  <2>3. job.witnesses # <<>>
    BY <1>5, <2>2
  <2>4. b.status = "PATCH_VALIDATED"
    BY <1>6, <2>1, <2>2, <2>3 DEF StatusOf
  <2>5. Plain(b.impact) = Plain(Assessment(b, LocalizeAll(b.witnesses, job.procedure, o)))
    BY <1>6, <2>2 DEF Finished
  <2>6. b.old = job.old /\ b.new = job.new /\ b.procedure = job.procedure
    BY <1>6, <2>2 DEF Finished
  <2>7. Assessment(b, LocalizeAll(b.witnesses, job.procedure, o)) = job.impact
    <3>1. LocalizeAll(b.witnesses, job.procedure, o) = job.faults
      BY <1>5, <1>6, <2>2
    <3>2. job.impact = ImpactSummary(job.delta, job.witnesses, job.faults, job.validation, job.procedure,
                                     job.patch.wf, CompileRules(job.new), CompileRules(Before(job.old)))
      BY <2>1 DEF AssessedJob
    <3>3. b.delta = job.delta /\ b.witnesses = job.witnesses /\ b.patched = job.patch.wf
          /\ b.validation = job.validation
      BY <1>6, <2>2
    <3>4. Assessment(b, job.faults) = job.impact
      BY <2>6, <3>2, <3>3 DEF Assessment
    <3>5. QED
      BY <3>1, <3>4
  <2> HIDE DEF Plain
  <2>8. Plain(b.impact) = Plain(job.impact)
    BY <2>5, <2>7
  <2>9. QED
    BY <1>6, <2>2, <2>4, <2>8
<1>8. ASSUME stage = "READY"
      PROVE  IF Verdict(Before(job.old)) = "ok" THEN b.status = "COMPILED" ELSE b = Raised
  <2>1. SearchedJob(job) /\ job.witnesses = <<>>
    BY <1>8 DEF Inv, JobInv
  <2>2. /\ CompiledJob(job) /\ Normal(job.new) /\ ValidDag(job.procedure)
        /\ Baseline(job.new, job.procedure) = <<>>
    BY <2>1 DEF SearchedJob, CompiledJob
  <2>3. Repaired(job.new, job.procedure, o) = [wf |-> job.procedure, ops |-> <<>>]
    BY <2>2, NothingToPropose DEF Repaired
  <2>4. ValidDag(Repaired(job.new, job.procedure, o).wf)
    BY <2>2, <2>3
  <2>5. CASE Verdict(Before(job.old)) = "ok"
    <3>1. Finished(b, job.old, job.new, job.procedure, o)
      BY <1>2, <2>2, <2>4, <2>5
    <3>2. QED
      BY <2>2, <2>5, <3>1 DEF Finished, StatusOf
  <2>6. QED
    BY <1>3, <2>2, <2>5
<1>9. ASSUME stage = "NEEDS_REVIEW", job.new # <<>>
      PROVE  IF Verdict(Before(job.old)) = "ok" THEN b.status \in {"CONFLICT", "DRIFT_CONFIRMED"} ELSE b = Raised
  <2>1. Normal(job.new) /\ (Verdict(job.new) # "ok" \/ (ValidatedJob(job) /\ ~Passes(job.validation)))
    <3>1. JobInv
      BY DEF Inv
    <3>2. Normal(job.new)
      BY <1>9, <3>1 DEF JobInv
    <3>3. \/ job.new = <<>>
          \/ Verdict(job.new) # "ok"
          \/ ValidatedJob(job) /\ ~Passes(job.validation)
      BY <1>9, <3>1 DEF JobInv
    <3>4. QED
      BY <1>9, <3>2, <3>3
  <2>2. CASE Verdict(Before(job.old)) = "ok" /\ Verdict(job.new) # "ok"
    <3>1. b = Refused("CONFLICT")
      BY <1>4, <2>1, <2>2
    <3>2. b.status = "CONFLICT"
      BY <3>1 DEF Refused
    <3>3. QED
      BY <2>2, <3>2
  <2>3. CASE Verdict(Before(job.old)) = "ok" /\ ValidatedJob(job) /\ ~Passes(job.validation)
    <3>1. job.witnesses # <<>>
      BY <1>5, <2>3 DEF ValidatedJob
    <3>2. b.status = "DRIFT_CONFIRMED"
      BY <1>6, <2>3, <3>1 DEF StatusOf
    <3>3. QED
      BY <2>3, <3>2
  <2>4. QED
    BY <1>3, <2>1, <2>2, <2>3
<1>10. QED
  BY <1>7, <1>8, <1>9 DEF FrontsAgree, Plain, b, p

\* Whatever gate 1 rejected and whatever the rules and the procedure are, the
\* handlers of the state machine (aws_handlers.py) come to what run_build
\* (pipeline.py) makes of the same inputs: the same witnesses, operations,
\* repair and validation where they persist a build, nothing to repair where
\* they end READY, and a refusal where they ask for a human.
THEOREM BothFronts == Spec => []FrontsAgree
  BY Invariance, InvFronts, PTL
-----------------------------------------------------------------------------
\* The moves of a repair.  What a list has of another one is a list.
LEMMA SublistIsList ==
  ASSUME NEW seq, NEW places \in SUBSET Nat, IsFiniteSet(places)
  PROVE  IsList(Sublist(seq, places))
<1> DEFINE s == Sublist(seq, places)
<1>1. Cardinality(places) \in Nat /\ s = [n \in 1..Cardinality(places) |-> s[n]]
  BY SublistContents
<1> HIDE DEF s
<1>2. QED
  BY <1>1, Listed DEF IsList, s

Joined(u, s, t) ==
  /\ \A n \in DOMAIN u : (\E i \in DOMAIN s : u[n] = s[i]) \/ (\E i \in DOMAIN t : u[n] = t[i])
  /\ \A i \in DOMAIN s : \E n \in DOMAIN u : u[n] = s[i]
  /\ \A i \in DOMAIN t : \E n \in DOMAIN u : u[n] = t[i]

LEMMA ListConcat ==
  ASSUME NEW s, NEW t, IsList(s), IsList(t)
  PROVE  IsList(s \o t) /\ Joined(s \o t, s, t)
<1> DEFINE T == {s[i] : i \in DOMAIN s} \cup {t[i] : i \in DOMAIN t}
           u == s \o t
<1>1. s \in Seq(T) /\ t \in Seq(T)
  BY SeqMonotonic DEF IsList
<1>2. /\ Len(s) \in Nat /\ DOMAIN s = 1..Len(s)
      /\ Len(t) \in Nat /\ DOMAIN t = 1..Len(t)
  BY ListLength
<1> HIDE DEF T
<1>3. /\ u \in Seq(T) /\ Len(u) = Len(s) + Len(t)
      /\ \A i \in 1..(Len(s) + Len(t)) : u[i] = IF i <= Len(s) THEN s[i] ELSE t[i - Len(s)]
  BY <1>1, ConcatProperties
<1>4. Len(u) \in Nat /\ u = [i \in 1..Len(u) |-> u[i]] /\ DOMAIN u = 1..Len(u)
  BY <1>3, LenProperties
<1> HIDE DEF u
<1>5. IsList(u)
  BY <1>4, Listed DEF IsList
<1>6. ASSUME NEW n \in DOMAIN u
      PROVE  (\E i \in DOMAIN s : u[n] = s[i]) \/ (\E i \in DOMAIN t : u[n] = t[i])
  <2>1. CASE n <= Len(s)
    BY <1>2, <1>3, <1>4, <2>1
  <2>2. CASE ~(n <= Len(s))
    <3>1. n - Len(s) \in DOMAIN t /\ u[n] = t[n - Len(s)]
      BY <1>2, <1>3, <1>4, <2>2
    <3>2. QED
      BY <3>1
  <2>3. QED
    BY <2>1, <2>2
<1>7. ASSUME NEW i \in DOMAIN s PROVE \E n \in DOMAIN u : u[n] = s[i]
  <2>1. i \in DOMAIN u /\ u[i] = s[i]
    BY <1>2, <1>3, <1>4
  <2>2. QED
    BY <2>1
<1>8. ASSUME NEW i \in DOMAIN t PROVE \E n \in DOMAIN u : u[n] = t[i]
  <2>1. Len(s) + i \in DOMAIN u /\ u[Len(s) + i] = t[i]
    BY <1>2, <1>3, <1>4
  <2>2. QED
    BY <2>1
<1>9. QED
  BY <1>5, <1>6, <1>7, <1>8 DEF u, Joined

\* The edges of a procedure after one node has been moved to just before
\* another: those that stay, and the new ones.
LEMMA SplicedContents ==
  ASSUME NEW edges, IsList(edges), NEW staying \in SUBSET DOMAIN edges, NEW a, NEW b
  PROVE  LET s == Spliced(edges, staying, a, b)
         IN  /\ \A n \in DOMAIN s :
                  \/ \E i \in staying : s[n] = edges[i]
                  \/ \E i \in IntoTarget(edges, a, b) : s[n] = Edge(edges[i].from, a)
                  \/ s[n] = Edge(a, b)
                  \/ \E i \in OutOfMoved(edges, a, b) : s[n] = Edge(b, edges[i].to)
             /\ \A i \in staying : \E n \in DOMAIN s : s[n] = edges[i]
             /\ \E n \in DOMAIN s : s[n] = Edge(a, b)
<1> DEFINE In   == IntoTarget(edges, a, b)
           Out  == OutOfMoved(edges, a, b)
           stay == Sublist(edges, staying)
           toB  == Sublist(edges, In)
           fromA == Sublist(edges, Out)
           into == [i \in DOMAIN toB |-> Edge(toB[i].from, a)]
           out  == [i \in DOMAIN fromA |-> Edge(b, fromA[i].to)]
           link == <<Edge(a, b)>>
<1>1. IsFiniteSet(DOMAIN edges) /\ DOMAIN edges \in SUBSET Nat
  <2>1. Len(edges) \in Nat /\ DOMAIN edges = 1..Len(edges)
    BY ListLength
  <2>2. QED
    BY <2>1, FS_Interval
<1>2. In \in SUBSET DOMAIN edges /\ Out \in SUBSET DOMAIN edges
  BY DEF IntoTarget, OutOfMoved
<1>3. ASSUME NEW places \in SUBSET DOMAIN edges
      PROVE  places \in SUBSET Nat /\ IsFiniteSet(places)
  BY <1>1, FS_Subset
<1>4. Spliced(edges, staying, a, b) = ((stay \o into) \o link) \o out
  BY DEF Spliced
<1>5. /\ IsList(stay)
      /\ \A n \in DOMAIN stay : \E i \in staying : stay[n] = edges[i]
      /\ \A i \in staying : \E n \in DOMAIN stay : stay[n] = edges[i]
  BY <1>3, SublistContents, SublistIsList
<1>6. IsList(toB) /\ \A n \in DOMAIN toB : \E i \in In : toB[n] = edges[i]
  <2>1. In \in SUBSET Nat /\ IsFiniteSet(In)
    BY <1>2, <1>3
  <2> HIDE DEF In
  <2>2. QED
    BY <2>1, SublistContents, SublistIsList
<1>7. IsList(fromA) /\ \A n \in DOMAIN fromA : \E i \in Out : fromA[n] = edges[i]
  <2>1. Out \in SUBSET Nat /\ IsFiniteSet(Out)
    BY <1>2, <1>3
  <2> HIDE DEF Out
  <2>2. QED
    BY <2>1, SublistContents, SublistIsList
<1> HIDE DEF In, Out, stay, toB, fromA
<1>8. /\ IsList(into)
      /\ \A n \in DOMAIN into : \E i \in In : into[n] = Edge(edges[i].from, a)
  <2>1. Len(toB) \in Nat /\ DOMAIN toB = 1..Len(toB)
    BY <1>6, ListLength
  <2>2. into = [i \in 1..Len(toB) |-> into[i]] /\ DOMAIN into = DOMAIN toB
    BY <2>1
  <2>3. \A n \in DOMAIN toB : into[n] = Edge(toB[n].from, a)
    OBVIOUS
  <2> HIDE DEF into
  <2>4. IsList(into)
    BY <2>1, <2>2, Listed DEF IsList
  <2>5. QED
    BY <1>6, <2>2, <2>3, <2>4
<1>9. /\ IsList(out)
      /\ \A n \in DOMAIN out : \E i \in Out : out[n] = Edge(b, edges[i].to)
  <2>1. Len(fromA) \in Nat /\ DOMAIN fromA = 1..Len(fromA)
    BY <1>7, ListLength
  <2>2. out = [i \in 1..Len(fromA) |-> out[i]] /\ DOMAIN out = DOMAIN fromA
    BY <2>1
  <2>3. \A n \in DOMAIN fromA : out[n] = Edge(b, fromA[n].to)
    OBVIOUS
  <2> HIDE DEF out
  <2>4. IsList(out)
    BY <2>1, <2>2, Listed DEF IsList
  <2>5. QED
    BY <1>7, <2>2, <2>3, <2>4
<1>10. IsList(link) /\ DOMAIN link = {1} /\ link[1] = Edge(a, b)
  <2>1. link = [i \in 1..1 |-> link[i]] /\ DOMAIN link = {1} /\ link[1] = Edge(a, b)
    OBVIOUS
  <2> HIDE DEF link
  <2>2. QED
    BY <2>1, Listed DEF IsList
<1> HIDE DEF into, out, link
<1> DEFINE s1 == stay \o into
           s2 == s1 \o link
           s3 == s2 \o out
<1>11. IsList(s1) /\ Joined(s1, stay, into)
  BY <1>5, <1>8, ListConcat
<1> HIDE DEF s1
<1>12. IsList(s2) /\ Joined(s2, s1, link)
  BY <1>10, <1>11, ListConcat
<1> HIDE DEF s2
<1>13. Joined(s3, s2, out)
  BY <1>9, <1>12, ListConcat
<1> HIDE DEF s3
<1>14. ASSUME NEW n \in DOMAIN s3
       PROVE  \/ \E i \in staying : s3[n] = edges[i]
              \/ \E i \in In : s3[n] = Edge(edges[i].from, a)
              \/ s3[n] = Edge(a, b)
              \/ \E i \in Out : s3[n] = Edge(b, edges[i].to)
  <2>1. CASE \E i \in DOMAIN out : s3[n] = out[i]
    BY <1>9, <2>1
  <2>2. CASE \E i \in DOMAIN s2 : s3[n] = s2[i]
    <3>1. PICK i \in DOMAIN s2 : s3[n] = s2[i]
      BY <2>2
    <3>2. CASE \E j \in DOMAIN link : s2[i] = link[j]
      BY <1>10, <3>1, <3>2
    <3>3. CASE \E j \in DOMAIN s1 : s2[i] = s1[j]
      <4>1. PICK j \in DOMAIN s1 : s2[i] = s1[j]
        BY <3>3
      <4>2. CASE \E k \in DOMAIN stay : s1[j] = stay[k]
        BY <1>5, <3>1, <4>1, <4>2
      <4>3. CASE \E k \in DOMAIN into : s1[j] = into[k]
        BY <1>8, <3>1, <4>1, <4>3
      <4>4. QED
        BY <1>11, <4>2, <4>3 DEF Joined
    <3>4. QED
      BY <1>12, <3>2, <3>3 DEF Joined
  <2>3. QED
    BY <1>13, <2>1, <2>2 DEF Joined
<1>15. ASSUME NEW i \in staying PROVE \E n \in DOMAIN s3 : s3[n] = edges[i]
  <2>1. PICK k \in DOMAIN stay : stay[k] = edges[i]
    BY <1>5
  <2>2. PICK j \in DOMAIN s1 : s1[j] = stay[k]
    BY <1>11 DEF Joined
  <2>3. PICK l \in DOMAIN s2 : s2[l] = s1[j]
    BY <1>12 DEF Joined
  <2>4. PICK n \in DOMAIN s3 : s3[n] = s2[l]
    BY <1>13 DEF Joined
  <2>5. QED
    BY <2>1, <2>2, <2>3, <2>4
<1>16. \E n \in DOMAIN s3 : s3[n] = Edge(a, b)
  <2>1. PICK l \in DOMAIN s2 : s2[l] = Edge(a, b)
    BY <1>10, <1>12 DEF Joined
  <2>2. PICK n \in DOMAIN s3 : s3[n] = s2[l]
    BY <1>13 DEF Joined
  <2>3. QED
    BY <2>1, <2>2
<1>17. Spliced(edges, staying, a, b) = s3
  BY <1>4 DEF s1, s2, s3
<1>18. QED
  BY <1>14, <1>15, <1>16, <1>17 DEF In, Out

\* An order of the nodes in which every edge goes on.  A procedure that has one
\* has no cycle.
Forward(edges, rank) == \A i \in DOMAIN edges : rank[edges[i].from] < rank[edges[i].to]
Staying(edges, a, b) ==
  DOMAIN edges \ (IntoTarget(edges, a, b) \cup OutOfMoved(edges, a, b) \cup Between(edges, a, b))

LEMMA SwapEdges ==
  ASSUME NEW p, NEW a, NEW b, "wf" \in DOMAIN p, "edges" \in DOMAIN p.wf
  PROVE  Swap(p, a, b).wf.edges = Spliced(p.wf.edges, Staying(p.wf.edges, a, b), a, b)
  BY DEF Swap, Staying

\* The move of a node to just before the one that it directly follows, "so
\* re-execution observes the order" (patcher.py, propose): whatever the
\* procedure, if its edges go on in an order in which a comes right after b, then
\* those of the patched one go on in the same order with a and b exchanged.  So
\* no cycle is closed, and everything else stays where it was.
THEOREM AdjacentSwapKeepsOrder ==
  ASSUME NEW p, NEW Ids, NEW a \in Ids, NEW b \in Ids, NEW rank \in [Ids -> Nat],
         "wf" \in DOMAIN p, "edges" \in DOMAIN p.wf, IsList(p.wf.edges),
         \A i \in DOMAIN p.wf.edges : p.wf.edges[i].from \in Ids /\ p.wf.edges[i].to \in Ids,
         rank[a] = rank[b] + 1,
         \A c \in Ids \ {a, b} : rank[c] \notin {rank[a], rank[b]},
         Forward(p.wf.edges, rank)
  PROVE  Forward(Swap(p, a, b).wf.edges, [rank EXCEPT ![a] = rank[b], ![b] = rank[a]])
<1> DEFINE edges == p.wf.edges
           new   == Spliced(edges, Staying(edges, a, b), a, b)
           after == [rank EXCEPT ![a] = rank[b], ![b] = rank[a]]
<1>1. Swap(p, a, b).wf.edges = new
  BY SwapEdges
<1>2. /\ \A n \in DOMAIN new :
           \/ \E i \in Staying(edges, a, b) : new[n] = edges[i]
           \/ \E i \in IntoTarget(edges, a, b) : new[n] = Edge(edges[i].from, a)
           \/ new[n] = Edge(a, b)
           \/ \E i \in OutOfMoved(edges, a, b) : new[n] = Edge(b, edges[i].to)
  <2>1. Staying(edges, a, b) \in SUBSET DOMAIN edges /\ IsList(edges)
    BY DEF Staying
  <2> HIDE DEF edges
  <2>2. QED
    BY <2>1, SplicedContents
<1>3. a # b /\ after[a] = rank[b] /\ after[b] = rank[a] /\ \A c \in Ids \ {a, b} : after[c] = rank[c]
  OBVIOUS
<1>4. \A c \in Ids : rank[c] \in Nat
  OBVIOUS
<1>5. ASSUME NEW i \in DOMAIN edges
      PROVE  edges[i].from \in Ids /\ edges[i].to \in Ids /\ rank[edges[i].from] < rank[edges[i].to]
  BY DEF Forward
<1> HIDE DEF edges, new, after
<1>6. ASSUME NEW n \in DOMAIN new PROVE after[new[n].from] < after[new[n].to]
  <2>1. CASE \E i \in Staying(edges, a, b) : new[n] = edges[i]
    <3>1. PICK i \in Staying(edges, a, b) : new[n] = edges[i]
      BY <2>1
    <3> DEFINE c == edges[i].from
               d == edges[i].to
    <3>2. /\ i \in DOMAIN edges
          /\ ~(d = b /\ c # a) /\ ~(c = a /\ d # b) /\ {c, d} # {a, b}
      BY DEF Staying, IntoTarget, OutOfMoved, Between
    <3>3. c \in Ids /\ d \in Ids /\ rank[c] < rank[d]
      BY <1>5, <3>2
    <3>4. new[n].from = c /\ new[n].to = d
      BY <3>1
    <3> HIDE DEF c, d
    <3>5. c # a /\ d # b /\ ~(c = b /\ d = a)
      BY <3>2
    <3>6. CASE c = b
      BY <1>3, <1>4, <3>3, <3>4, <3>5, <3>6
    <3>7. CASE c # b /\ d = a
      BY <1>3, <1>4, <3>3, <3>4, <3>5, <3>7
    <3>8. CASE c # b /\ d # a
      BY <1>3, <3>3, <3>4, <3>5, <3>8
    <3>9. QED
      BY <3>6, <3>7, <3>8
  <2>2. CASE \E i \in IntoTarget(edges, a, b) : new[n] = Edge(edges[i].from, a)
    <3>1. PICK i \in IntoTarget(edges, a, b) : new[n] = Edge(edges[i].from, a)
      BY <2>2
    <3> DEFINE c == edges[i].from
    <3>2. i \in DOMAIN edges /\ edges[i].to = b /\ c # a
      BY DEF IntoTarget
    <3>3. c \in Ids /\ rank[c] < rank[b]
      BY <1>5, <3>2
    <3>4. new[n].from = c /\ new[n].to = a
      BY <3>1 DEF Edge
    <3> HIDE DEF c
    <3>5. QED
      BY <1>3, <1>4, <3>2, <3>3, <3>4
  <2>3. CASE new[n] = Edge(a, b)
    <3>1. new[n].from = a /\ new[n].to = b
      BY <2>3 DEF Edge
    <3>2. QED
      BY <1>3, <1>4, <3>1
  <2>4. CASE \E i \in OutOfMoved(edges, a, b) : new[n] = Edge(b, edges[i].to)
    <3>1. PICK i \in OutOfMoved(edges, a, b) : new[n] = Edge(b, edges[i].to)
      BY <2>4
    <3> DEFINE d == edges[i].to
    <3>2. i \in DOMAIN edges /\ edges[i].from = a /\ d # b
      BY DEF OutOfMoved
    <3>3. d \in Ids /\ rank[a] < rank[d]
      BY <1>5, <3>2
    <3>4. new[n].from = b /\ new[n].to = d
      BY <3>1 DEF Edge
    <3> HIDE DEF d
    <3>5. QED
      BY <1>3, <1>4, <3>2, <3>3, <3>4
  <2>5. QED
    BY <1>2, <2>1, <2>2, <2>3, <2>4
<1>7. QED
  BY <1>1, <1>6 DEF Forward, after

\* What lies between the two is not moved with them (patcher.py, propose): when
\* some nodes have all their ways in from b or from one another, and one of
\* them leads to a, the patched procedure has a cycle, which validate_dag
\* raises on.
THEOREM DistantSwapClosesCycle ==
  ASSUME NEW p, NEW Ids, NEW a \in Ids, NEW b \in Ids, NEW Middle \in SUBSET (Ids \ {a, b}),
         a # b,
         "wf" \in DOMAIN p, "edges" \in DOMAIN p.wf, IsList(p.wf.edges),
         \A m \in Middle : \E i \in DOMAIN p.wf.edges :
           p.wf.edges[i].from \in Middle \cup {b} /\ p.wf.edges[i].to = m,
         \E i \in DOMAIN p.wf.edges : p.wf.edges[i].from \in Middle /\ p.wf.edges[i].to = a
  PROVE  ~\E rank \in [Ids -> Nat] : Forward(Swap(p, a, b).wf.edges, rank)
<1> DEFINE edges == p.wf.edges
           new   == Spliced(edges, Staying(edges, a, b), a, b)
           Leads(c, d) == \E n \in DOMAIN new : new[n].from = c /\ new[n].to = d
<1>1. Swap(p, a, b).wf.edges = new
  BY SwapEdges
<1>2. /\ \A i \in Staying(edges, a, b) : \E n \in DOMAIN new : new[n] = edges[i]
      /\ \E n \in DOMAIN new : new[n] = Edge(a, b)
  <2>1. Staying(edges, a, b) \in SUBSET DOMAIN edges /\ IsList(edges)
    BY DEF Staying
  <2> HIDE DEF edges
  <2>2. /\ \A i \in Staying(edges, a, b) : \E n \in DOMAIN Spliced(edges, Staying(edges, a, b), a, b) :
                Spliced(edges, Staying(edges, a, b), a, b)[n] = edges[i]
        /\ \E n \in DOMAIN Spliced(edges, Staying(edges, a, b), a, b) :
                Spliced(edges, Staying(edges, a, b), a, b)[n] = Edge(a, b)
    BY <2>1, SplicedContents
  <2>3. QED
    BY <2>2
<1>3. ASSUME NEW m \in Middle PROVE \E c \in Middle \cup {b} : Leads(c, m)
  <2>1. PICK i \in DOMAIN edges : edges[i].from \in Middle \cup {b} /\ edges[i].to = m
    OBVIOUS
  <2>2. i \in Staying(edges, a, b)
    BY <2>1 DEF Staying, IntoTarget, OutOfMoved, Between
  <2> HIDE DEF edges, new
  <2>3. QED
    BY <1>2, <2>1, <2>2
<1>4. \E c \in Middle : Leads(c, a)
  <2>1. PICK i \in DOMAIN edges : edges[i].from \in Middle /\ edges[i].to = a
    OBVIOUS
  <2>2. i \in Staying(edges, a, b)
    BY <2>1 DEF Staying, IntoTarget, OutOfMoved, Between
  <2> HIDE DEF edges, new
  <2>3. QED
    BY <1>2, <2>1, <2>2
<1>5. Leads(a, b)
  <2> HIDE DEF edges, new
  <2>1. PICK n \in DOMAIN new : new[n] = Edge(a, b)
    BY <1>2
  <2>2. QED
    BY <2>1 DEF Edge
<1> HIDE DEF edges, new
<1>6. SUFFICES ASSUME NEW rank \in [Ids -> Nat], Forward(new, rank) PROVE FALSE
  BY <1>1
<1>7. ASSUME NEW c, NEW d, Leads(c, d) PROVE rank[c] < rank[d]
  <2>1. PICK n \in DOMAIN new : new[n].from = c /\ new[n].to = d
    BY <1>7
  <2>2. QED
    BY <1>6, <2>1 DEF Forward
<1> DEFINE cycle == Middle \cup {a, b}
           R == {rank[c] : c \in cycle}
<1>8. ASSUME NEW d \in cycle PROVE \E c \in cycle : rank[c] < rank[d]
  <2>1. CASE d \in Middle
    BY <1>3, <1>7, <2>1
  <2>2. CASE d = a
    BY <1>4, <1>7, <2>2
  <2>3. CASE d = b
    BY <1>5, <1>7, <2>3
  <2>4. QED
    BY <2>1, <2>2, <2>3
<1>9. R \in SUBSET Nat /\ R # {}
  OBVIOUS
<1>10. PICK n \in R : \A r \in R : n <= r
  <2> DEFINE Less == OpToRel(<, Nat)
  <2>1. IsWellFoundedOn(Less, Nat)
    BY NatLessThanWellFounded
  <2>2. \A k, l \in Nat : k < l => <<k, l>> \in Less
    BY DEF OpToRel
  <2> HIDE DEF R, Less
  <2>3. PICK n \in R : \A r \in R : <<r, n>> \notin Less
    BY <1>9, <2>1, WFMin
  <2>4. ASSUME NEW r \in R PROVE n <= r
    <3>1. r \in Nat /\ n \in Nat
      BY <1>9
    <3>2. ~(r < n)
      BY <2>2, <2>3, <3>1
    <3>3. QED
      BY <3>1, <3>2
  <2>5. QED
    BY <2>4
<1>11. PICK d \in cycle : n = rank[d]
  BY <1>10
<1>12. PICK c \in cycle : rank[c] < rank[d]
  BY <1>8
<1>13. n <= rank[c] /\ rank[c] \in Nat /\ n \in Nat
  BY <1>9, <1>10
<1>14. QED
  BY <1>11, <1>12, <1>13
=============================================================================
