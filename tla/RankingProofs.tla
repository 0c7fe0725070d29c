---------------------------- MODULE RankingProofs ----------------------------
(***************************************************************************)
(* Lemmas about what a recall computes from the hits of its searches: what *)
(* is kept, what is repeated and what comes first.                         *)
(***************************************************************************)
EXTENDS Ranking, OrderingProofs

(***************************************************************************)
(* Sorting.                                                                *)
(***************************************************************************)
\* p lists the places of a sequence with keys, the largest key first and equal
\* keys in their order.
StableOrder(p, key, N) ==
  /\ p \in [1..N -> 1..N]
  /\ \A i \in 1..N : \E n \in 1..N : p[n] = i
  /\ \A m, n \in 1..N :
       \/ key[p[m]] > key[p[n]]
       \/ key[p[m]] = key[p[n]] /\ p[m] < p[n]
       <=> m < n

\* What the stable sort returns.
LEMMA StableSorts ==
  ASSUME NEW H, NEW hits \in Seq(H), NEW key \in [DOMAIN hits -> Int]
  PROVE  \E p : /\ StableOrder(p, key, Len(hits))
                /\ StableSort(hits, key) = [n \in 1..Len(hits) |-> hits[p[n]]]
<1> DEFINE N == Len(hits)
           S == 1..N
           Before(i, j) == key[i] > key[j] \/ (key[i] = key[j] /\ i < j)
           R == {e \in S \X S : Before(e[1], e[2])}
           p == Sorted(DOMAIN hits, Before)
<1>1. N \in Nat /\ DOMAIN hits = S
  OBVIOUS
<1>2. \A i \in S : key[i] \in Int /\ i \in Int
  BY <1>1
<1>3. \A i, j \in S : <<i, j>> \in R <=> Before(i, j)
  OBVIOUS
<1>4. StrictOrder(R, S)
  <2>1. \A i \in S : ~Before(i, i)
    BY <1>2
  <2>2. \A i, j, k \in S : Before(i, j) /\ Before(j, k) => Before(i, k)
    BY <1>2
  <2>3. \A i, j \in S : i = j \/ Before(i, j) \/ Before(j, i)
    BY <1>2
  <2> HIDE DEF Before, R
  <2> QED
    BY <1>3, <2>1, <2>2, <2>3 DEF StrictOrder
<1>5. IsFiniteSet(S) /\ Cardinality(S) = N
  <2> HIDE DEF N, R
  <2>1. 1 \in Int /\ N \in Int
    BY <1>1
  <2>2. IsFiniteSet(1..N) /\ Cardinality(1..N) = IF 1 > N THEN 0 ELSE N - 1 + 1
    BY <2>1, FS_Interval
  <2> QED
    BY <1>1, <2>2
<1>6. StableSort(hits, key) = [n \in S |-> hits[p[n]]]
  BY <1>1 DEF StableSort
<1>7. p = [n \in 1..Cardinality(S) |->
             CHOOSE x \in S : Cardinality({y \in S : Before(y, x)}) = n - 1]
  BY <1>1 DEF Sorted
<1> HIDE DEF p, R
<1>8. \A x \in S : Rank(R, S, x) = Cardinality({y \in S : Before(y, x)})
  <2>1. \A x \in S : {y \in S : <<y, x>> \in R} = {y \in S : Before(y, x)}
    BY <1>3
  <2> HIDE DEF Before
  <2> QED
    BY <2>1 DEF Rank
<1> HIDE DEF Before, N, S
<1>9. \A n \in 1..N : \E x \in S : Rank(R, S, x) = n - 1
  BY <1>4, <1>5, RanksAreTaken
<1>10. ASSUME NEW n \in 1..N
       PROVE  p[n] \in S /\ Rank(R, S, p[n]) = n - 1
  <2>1. p[n] = CHOOSE x \in S : Cardinality({y \in S : Before(y, x)}) = n - 1
    BY <1>5, <1>7
  <2>2. \E x \in S : Cardinality({y \in S : Before(y, x)}) = n - 1
    BY <1>8, <1>9
  <2>3. p[n] \in S /\ Cardinality({y \in S : Before(y, p[n])}) = n - 1
    BY <2>1, <2>2
  <2> QED
    BY <1>8, <2>3
<1>11. /\ \A m, n \in 1..N : <<p[m], p[n]>> \in R <=> m < n
       /\ \A x \in S : \E n \in 1..N : p[n] = x
  BY <1>4, <1>5, <1>10, ListedByRank
<1>12. p \in [1..N -> S]
  BY <1>5, <1>7, <1>10
<1>13. \A m, n \in 1..N : Before(p[m], p[n]) <=> m < n
  BY <1>3, <1>10, <1>11
<1>14. StableOrder(p, key, N)
  BY <1>11, <1>12, <1>13 DEF StableOrder, S, Before
<1> QED
  BY <1>6, <1>14 DEF N, S

\* No row is listed twice.
Distinct(hits) == \A i, j \in DOMAIN hits : hits[i].row = hits[j].row => i = j

\* It keeps every hit, and repeats none.
LEMMA StableSortKeeps ==
  ASSUME NEW H, NEW hits \in Seq(H), NEW key \in [DOMAIN hits -> Int]
  PROVE  /\ StableSort(hits, key) \in Seq(H) /\ Len(StableSort(hits, key)) = Len(hits)
         /\ ToSet(StableSort(hits, key)) = ToSet(hits)
         /\ Distinct(hits) => Distinct(StableSort(hits, key))
<1> DEFINE N == Len(hits)
           sorted == StableSort(hits, key)
<1>1. N \in Nat /\ DOMAIN hits = 1..N /\ \A i \in 1..N : hits[i] \in H
  OBVIOUS
<1>2. PICK p : StableOrder(p, key, N) /\ sorted = [n \in 1..N |-> hits[p[n]]]
  BY StableSorts
<1> HIDE DEF sorted, N
<1>3. p \in [1..N -> 1..N] /\ \A i \in 1..N : \E n \in 1..N : p[n] = i
  BY <1>2 DEF StableOrder
<1>4. \A m, n \in 1..N : p[m] = p[n] => m = n
  <2>1. \A i \in 1..N : key[i] \in Int /\ i \in Int
    BY <1>1
  <2>2. ASSUME NEW m \in 1..N, NEW n \in 1..N, p[m] = p[n]
        PROVE  ~(m < n)
    <3> DEFINE i == p[m]
    <3>1. i \in 1..N /\ i = p[n]
      BY <1>3, <2>2
    <3>2. \/ key[p[m]] > key[p[n]]
          \/ key[p[m]] = key[p[n]] /\ p[m] < p[n]
          <=> m < n
      BY <1>2 DEF StableOrder
    <3> HIDE DEF i
    <3>3. key[i] \in Int /\ i \in Int /\ p[m] = i /\ p[n] = i
      BY <2>1, <2>2, <3>1 DEF i
    <3> QED
      BY <3>2, <3>3
  <2>3. \A m, n \in 1..N : m < n \/ n < m \/ m = n
    BY <1>1
  <2> QED
    BY <2>2, <2>3
<1>5. sorted \in [1..N -> H]
  BY <1>1, <1>2, <1>3
<1>6. sorted \in Seq(H) /\ Len(sorted) = N
  BY <1>1, <1>5, SeqDef
<1>7. ToSet(sorted) = ToSet(hits)
  <2>1. ToSet(sorted) = {hits[p[n]] : n \in 1..N}
    BY <1>2 DEF ToSet
  <2>2. ToSet(hits) = {hits[i] : i \in 1..N}
    BY <1>1 DEF ToSet
  <2>3. \A n \in 1..N : p[n] \in 1..N
    BY <1>3
  <2>4. \A i \in 1..N : \E n \in 1..N : p[n] = i
    BY <1>3
  <2>5. {hits[p[n]] : n \in 1..N} = {hits[i] : i \in 1..N}
    BY <2>3, <2>4
  <2> QED
    BY <2>1, <2>2, <2>5
<1>8. Distinct(hits) => Distinct(sorted)
  <2> SUFFICES ASSUME Distinct(hits), NEW m \in DOMAIN sorted, NEW n \in DOMAIN sorted,
                      sorted[m].row = sorted[n].row
               PROVE  m = n
    BY DEF Distinct
  <2>1. m \in 1..N /\ n \in 1..N
    BY <1>2
  <2>2. p[m] \in 1..N /\ p[n] \in 1..N /\ hits[p[m]].row = hits[p[n]].row
    BY <1>2, <1>3, <2>1
  <2>3. p[m] = p[n]
    BY <1>1, <2>2 DEF Distinct
  <2> QED
    BY <1>4, <2>1, <2>3
<1> QED
  BY <1>6, <1>7, <1>8 DEF sorted, N

\* The rows of the same hits are the same.
LEMMA SameRows ==
  ASSUME NEW a, NEW b, ToSet(a) \subseteq ToSet(b)
  PROVE  RowsOf(a) \subseteq RowsOf(b)
<1>1. \A c : RowsOf(c) = {hit.row : hit \in ToSet(c)}
  BY DEF RowsOf, ToSet
<1> QED
  BY <1>1

(***************************************************************************)
(* Fusion.                                                                 *)
(***************************************************************************)
\* The first and the last place of a row.
LEMMA FirstAndLast ==
  ASSUME NEW H, NEW hits \in Seq(H), NEW i \in DOMAIN hits
  PROVE  /\ Min(Places(hits, hits[i].row)) \in Places(hits, hits[i].row)
         /\ Max(Places(hits, hits[i].row)) \in Places(hits, hits[i].row)
         /\ \A j \in Places(hits, hits[i].row) :
              /\ Min(Places(hits, hits[i].row)) <= j
              /\ j <= Max(Places(hits, hits[i].row))
<1> DEFINE P == Places(hits, hits[i].row)
<1>1. Len(hits) \in Nat /\ P \in SUBSET Nat /\ P \in SUBSET (0..Len(hits)) /\ P # {}
  BY DEF Places
<1> HIDE DEF P
<1>2. /\ Min(P) \in P /\ \A j \in P : Min(P) <= j
      /\ Max(P) \in P /\ \A j \in P : j <= Max(P)
  BY <1>1, Smallest, Largest
<1> QED
  BY <1>2 DEF P

\* The places where a row occurs first.
Firsts(hits) == {i \in DOMAIN hits : i = Min(Places(hits, hits[i].row))}

\* Each row once, at its first place, with the values of its last.
Merged(hits) ==
  [n \in DOMAIN Sorted(Firsts(hits), <) |->
     hits[Max(Places(hits, hits[Sorted(Firsts(hits), <)[n]].row))]]

\* How the rows are merged.
LEMMA Merges ==
  ASSUME NEW H, NEW hits \in Seq(H)
  PROVE  /\ Cardinality(Firsts(hits)) \in Nat
         /\ \E p : /\ Taken(p, Firsts(hits))
                   /\ Merged(hits) = [n \in 1..Cardinality(Firsts(hits)) |->
                                        hits[Max(Places(hits, hits[p[n]].row))]]
<1> DEFINE S == Firsts(hits)
           p == Sorted(S, <)
<1>1. S \in SUBSET Int /\ IsFiniteSet(S)
  <2>1. Len(hits) \in Nat /\ S \in SUBSET (1..Len(hits))
    BY DEF Firsts
  <2>2. IsFiniteSet(1..Len(hits))
    BY <2>1, FS_Interval
  <2> HIDE DEF S
  <2>3. IsFiniteSet(S)
    BY <2>1, <2>2, FS_Subset
  <2> QED
    BY <2>1, <2>3
<1> HIDE DEF S
<1>2. Cardinality(S) \in Nat /\ Taken(p, S)
  BY <1>1, SortedAscending DEF Taken
<1>3. DOMAIN p = 1..Cardinality(S)
  BY <1>2 DEF Taken
<1>4. Merged(hits) = [n \in DOMAIN p |-> hits[Max(Places(hits, hits[p[n]].row))]]
  BY DEF Merged, S
<1> HIDE DEF p
<1>5. Merged(hits) = [n \in 1..Cardinality(S) |-> hits[Max(Places(hits, hits[p[n]].row))]]
  BY <1>3, <1>4
<1> QED
  BY <1>2, <1>5 DEF S

\* What merging keeps.
LEMMA MergingKeeps ==
  ASSUME NEW H, NEW hits \in Seq(H)
  PROVE  /\ Merged(hits) \in Seq(H) /\ Distinct(Merged(hits))
         /\ ToSet(Merged(hits)) \subseteq ToSet(hits)
         /\ RowsOf(Merged(hits)) = RowsOf(hits)
<1> DEFINE N == Cardinality(Firsts(hits))
           m == Merged(hits)
           LastOf(i) == Max(Places(hits, hits[i].row))
<1>1. \A i \in DOMAIN hits : hits[i] \in H
  OBVIOUS
<1>2. PICK p : Taken(p, Firsts(hits)) /\ m = [n \in 1..N |-> hits[LastOf(p[n])]]
  BY Merges
<1>3. N \in Nat
  BY Merges
<1>4. /\ \A n \in 1..N : p[n] \in Firsts(hits)
      /\ \A i \in Firsts(hits) : \E n \in 1..N : p[n] = i
      /\ \A k, n \in 1..N : p[k] < p[n] <=> k < n
  BY <1>2 DEF Taken
<1>5. ASSUME NEW i \in DOMAIN hits
      PROVE  LastOf(i) \in DOMAIN hits /\ hits[LastOf(i)].row = hits[i].row
  BY FirstAndLast DEF Places
<1>6. \A i \in Firsts(hits) : i \in DOMAIN hits /\ i = Min(Places(hits, hits[i].row))
  BY DEF Firsts
<1> HIDE DEF N, m, LastOf
<1>7. \A n \in 1..N : /\ p[n] \in DOMAIN hits /\ LastOf(p[n]) \in DOMAIN hits
                      /\ m[n] = hits[LastOf(p[n])] /\ m[n].row = hits[p[n]].row
  BY <1>2, <1>4, <1>5, <1>6
<1>8. m \in Seq(H) /\ DOMAIN m = 1..N
  <2>1. m \in [1..N -> H]
    BY <1>1, <1>2, <1>7
  <2> QED
    BY <1>3, <2>1, SeqDef
<1>9. Distinct(m)
  <2> SUFFICES ASSUME NEW k \in 1..N, NEW n \in 1..N, m[k].row = m[n].row
               PROVE  k = n
    BY <1>8 DEF Distinct
  <2>1. hits[p[k]].row = hits[p[n]].row
    BY <1>7
  <2>2. p[k] \in Firsts(hits) /\ p[n] \in Firsts(hits)
    BY <1>4
  <2>3. p[k] = p[n] /\ p[k] \in Int /\ k \in Int /\ n \in Int
    BY <1>3, <1>6, <2>1, <2>2
  <2>4. ~(p[k] < p[n]) /\ ~(p[n] < p[k])
    BY <2>3
  <2>5. ~(k < n) /\ ~(n < k)
    BY <1>4, <2>4
  <2> QED
    BY <2>3, <2>5
<1>10. ToSet(m) \subseteq ToSet(hits)
  BY <1>7, <1>8 DEF ToSet
<1>11. RowsOf(m) \subseteq RowsOf(hits)
  BY <1>10, SameRows
<1>12. ASSUME NEW i \in DOMAIN hits
       PROVE  hits[i].row \in RowsOf(m)
  <2> DEFINE j == Min(Places(hits, hits[i].row))
  <2>1. j \in Places(hits, hits[i].row)
    BY FirstAndLast
  <2>2. j \in DOMAIN hits /\ hits[j].row = hits[i].row
    BY <2>1 DEF Places
  <2>3. j \in Firsts(hits)
    BY <2>2 DEF Firsts
  <2> HIDE DEF j
  <2>4. PICK n \in 1..N : p[n] = j
    BY <1>4, <2>3
  <2>5. m[n].row = hits[i].row
    BY <1>7, <2>2, <2>4
  <2> QED
    BY <1>8, <2>5 DEF RowsOf
<1>13. RowsOf(hits) \subseteq RowsOf(m)
  BY <1>12 DEF RowsOf
<1> QED
  BY <1>8, <1>9, <1>10, <1>11, <1>13 DEF m

\* The score of a merged hit.
Score(hits, boosted, hit) ==
  OccurrenceScore(Cardinality(Places(hits, hit.row)))
    * hit.importance * (IF hit.row \in boosted THEN 3 ELSE 2)

\* It is a number.
LEMMA ScoresAreNumbers ==
  ASSUME NEW hits, NEW boosted, NEW hit, hit.importance \in Int
  PROVE  Score(hits, boosted, hit) \in Int
<1> DEFINE a == OccurrenceScore(Cardinality(Places(hits, hit.row)))
           b == hit.importance
           c == IF hit.row \in boosted THEN 3 ELSE 2
<1>1. a \in Int
  BY RankingAssumption DEF RankingAssumption, OccurrenceScore
<1>2. b \in Int /\ c \in Int
  OBVIOUS
<1>3. Score(hits, boosted, hit) = a * b * c
  BY DEF Score
<1> HIDE DEF a, b, c
<1>4. a * b \in Int
  BY <1>1, <1>2
<1>5. a * b * c \in Int
  BY <1>2, <1>4
<1> QED
  BY <1>3, <1>5

\* Fusion sorts the merged hits by their scores.
LEMMA FuseSorts ==
  ASSUME NEW hits, NEW boosted
  PROVE  Fuse(hits, boosted) =
           StableSort(Merged(hits), [i \in DOMAIN Merged(hits) |->
                                       Score(hits, boosted, Merged(hits)[i])])
BY DEF Fuse, Merged, Score, Firsts

\* What fusion keeps: every row, each once.
LEMMA FuseKeeps ==
  ASSUME NEW H, \A hit \in H : hit.importance \in Int, NEW hits \in Seq(H), NEW boosted
  PROVE  /\ Fuse(hits, boosted) \in Seq(H) /\ Distinct(Fuse(hits, boosted))
         /\ ToSet(Fuse(hits, boosted)) \subseteq ToSet(hits)
         /\ RowsOf(Fuse(hits, boosted)) = RowsOf(hits)
<1> DEFINE m == Merged(hits)
           key == [i \in DOMAIN m |-> Score(hits, boosted, m[i])]
<1>1. /\ m \in Seq(H) /\ Distinct(m) /\ ToSet(m) \subseteq ToSet(hits)
      /\ RowsOf(m) = RowsOf(hits)
  BY MergingKeeps
<1>2. Fuse(hits, boosted) = StableSort(m, key)
  BY FuseSorts
<1> HIDE DEF m
<1>3. key \in [DOMAIN m -> Int]
  <2>1. \A i \in DOMAIN m : m[i].importance \in Int
    BY <1>1
  <2> QED
    BY <2>1, ScoresAreNumbers
<1> HIDE DEF key
<1>4. /\ StableSort(m, key) \in Seq(H) /\ ToSet(StableSort(m, key)) = ToSet(m)
      /\ Distinct(StableSort(m, key))
  BY <1>1, <1>3, StableSortKeeps
<1>5. RowsOf(StableSort(m, key)) = RowsOf(m)
  <2> DEFINE s == StableSort(m, key)
  <2>1. ToSet(s) \subseteq ToSet(m) /\ ToSet(m) \subseteq ToSet(s)
    BY <1>4
  <2> HIDE DEF s
  <2>2. RowsOf(s) \subseteq RowsOf(m) /\ RowsOf(m) \subseteq RowsOf(s)
    BY <2>1, SameRows
  <2> QED
    BY <2>2 DEF s
<1> QED
  BY <1>1, <1>2, <1>4, <1>5

\* The routed types are sorted by importance.
LEMMA ImportanceKeeps ==
  ASSUME NEW H, \A hit \in H : hit.importance \in Int, NEW hits \in Seq(H)
  PROVE  /\ SortByImportance(hits) \in Seq(H)
         /\ ToSet(SortByImportance(hits)) = ToSet(hits)
         /\ Distinct(hits) => Distinct(SortByImportance(hits))
<1> DEFINE key == [i \in DOMAIN hits |-> hits[i].importance]
<1>1. key \in [DOMAIN hits -> Int]
  OBVIOUS
<1>2. SortByImportance(hits) = StableSort(hits, key)
  BY DEF SortByImportance
<1> HIDE DEF key
<1> QED
  BY <1>1, <1>2, StableSortKeeps

(***************************************************************************)
(* Diversification.                                                        *)
(***************************************************************************)
\* A candidate is taken or not.
LEMMA DiversifyKeeps ==
  ASSUME NEW H, NEW hits \in Seq(H)
  PROVE  Diversify(hits) \in Seq(H) /\ ToSet(Diversify(hits)) \subseteq ToSet(hits)
<1> DEFINE n == Len(hits)
           D == 1..n
           A == Seq(ToSet(hits))
           Redundant(hit, selected) ==
             hit.embedded /\ \E i \in DOMAIN selected : selected[i].embedded
           Take(selected, hit) ==
             IF selected = <<>> THEN <<hit>>
             ELSE IF /\ hit.embedded /\ ~Redundant(hit, selected)
                     /\ Len(selected) < MaxDiverse
                  THEN Append(selected, hit)
             ELSE selected
           G == [p \in A \X D |-> Take(p[1], hits[p[2]])]
           c == [s \in SUBSET D |-> Max(s)]
           Eq(g) == g = [s \in SUBSET D |->
                           IF s = {} THEN <<>>
                           ELSE LET i == Max(s) IN Take(g[s \ {i}], hits[i])]
           it == CHOOSE g : Eq(g)
<1>1. n \in Nat /\ DOMAIN hits = D /\ \A i \in D : hits[i] \in ToSet(hits)
  BY DEF ToSet
<1>2. Diversify(hits) = it[D]
  BY <1>1 DEF Diversify, FoldLeft, MapThenFoldSet
<1>3. \A selected \in A, hit \in ToSet(hits) : Take(selected, hit) \in A
  <2>1. \A hit \in ToSet(hits) : <<hit>> \in A
    OBVIOUS
  <2>2. \A selected \in A, hit \in ToSet(hits) : Append(selected, hit) \in A
    OBVIOUS
  <2> QED
    BY <2>1, <2>2
<1>4. IsFiniteSet(D) /\ <<>> \in A
  BY <1>1, FS_Interval
<1> HIDE DEF Take, A, n
<1>5. G \in StepsOf(A, D)
  BY <1>1, <1>3 DEF StepsOf
<1>6. \A selected \in A, i \in D : G[<<selected, i>>] = Take(selected, hits[i])
  OBVIOUS
<1>7. Picks(c, D)
  BY <1>1, LargestPicks
<1> HIDE DEF D, G, c
<1>8. PICK h \in [SUBSET D -> A] : Recursive(h, <<>>, G, D, c)
  <2>1. Recursions(A, <<>>, G, D, c) # {}
    BY <1>4, <1>5, <1>7, SetRecursion
  <2> QED
    BY <2>1 DEF Recursions
<1>9. Eq(h)
  <2>1. ASSUME NEW s \in SUBSET D
        PROVE  h[s] = IF s = {} THEN <<>>
                      ELSE LET i == Max(s) IN Take(h[s \ {i}], hits[i])
    <3>1. CASE s = {}
      BY <1>8, <3>1 DEF Recursive
    <3>2. CASE s # {}
      <4>1. c[s] = Max(s) /\ c[s] \in D
        BY <1>7, <3>2 DEF Picks, c
      <4>2. h[s] = G[<<h[s \ {c[s]}], c[s]>>] /\ h[s \ {c[s]}] \in A
        BY <1>8, <3>2 DEF Recursive
      <4> QED
        BY <1>6, <3>2, <4>1, <4>2
    <3> QED
      BY <3>1, <3>2
  <2> QED
    BY <2>1
<1>10. Eq(it)
  <2> HIDE DEF Eq
  <2> QED
    BY <1>9
<1> HIDE DEF it
<1> DEFINE T == {s \in SUBSET D : it[s] \in A}
<1>11. ASSUME NEW s \in SUBSET D, \A x \in s : s \ {x} \in T
       PROVE  s \in T
  <2>1. CASE s = {}
    BY <1>4, <1>10, <2>1
  <2>2. CASE s # {}
    <3> DEFINE i == Max(s)
    <3>1. i \in s
      BY <1>7, <2>2 DEF Picks, c
    <3>2. it[s] = Take(it[s \ {i}], hits[i])
      BY <1>10, <2>2
    <3> HIDE DEF i
    <3> QED
      BY <1>1, <1>3, <1>11, <3>1, <3>2
  <2> QED
    BY <2>1, <2>2
<1>12. \A s \in SUBSET D : s \in T
  <2> HIDE DEF T, Eq
  <2> QED
    BY <1>4, <1>11, PartByPart
<1>13. Diversify(hits) \in Seq(ToSet(hits))
  BY <1>2, <1>12 DEF A
<1>14. ToSet(hits) \subseteq H
  BY DEF ToSet
<1> QED
  BY <1>13, <1>14 DEF ToSet

(***************************************************************************)
(* Rerank.                                                                 *)
(***************************************************************************)
\* Whatever places it names, a rerank loses no row.
LEMMA RerankKeeps ==
  ASSUME NEW H, NEW hits \in Seq(H), NEW order \in Seq(Int)
  PROVE  /\ Rerank(hits, order) \in Seq(H)
         /\ ToSet(Rerank(hits, order)) \subseteq ToSet(hits)
         /\ RowsOf(Rerank(hits, order)) = RowsOf(hits)
<1> DEFINE S == {i \in DOMAIN order : order[i] \in DOMAIN hits}
           named == At(order, S)
           reranked == [i \in DOMAIN named |-> hits[named[i]]]
           rest == At(hits, {i \in DOMAIN hits : hits[i].row \notin RowsOf(reranked)})
<1>1. Rerank(hits, order) = reranked \o rest
  BY DEF Rerank
<1>2. S \in SUBSET (1..Len(order)) /\ \A i \in S : order[i] \in DOMAIN hits
  OBVIOUS
<1>3. named \in Seq(Int) /\ ToSet(named) = {order[i] : i \in S}
  <2> HIDE DEF S
  <2> QED
    BY <1>2, AtSelects
<1>4. \A i \in DOMAIN named : named[i] \in DOMAIN hits
  BY <1>3 DEF ToSet
<1> HIDE DEF named
<1>5. reranked \in Seq(H) /\ ToSet(reranked) \subseteq ToSet(hits)
  <2>1. \A i \in DOMAIN named : hits[named[i]] \in H /\ hits[named[i]] \in ToSet(hits)
    BY <1>4 DEF ToSet
  <2>2. DOMAIN named = 1..Len(named) /\ Len(named) \in Nat
    BY <1>3
  <2>3. reranked \in [1..Len(named) -> H]
    BY <2>1, <2>2
  <2>4. reranked \in Seq(H)
    BY <2>2, <2>3, SeqDef
  <2>5. ToSet(reranked) \subseteq ToSet(hits)
    BY <2>1 DEF ToSet
  <2> QED
    BY <2>4, <2>5
<1> HIDE DEF reranked
<1>6. /\ rest \in Seq(H)
      /\ ToSet(rest) = {hits[i] : i \in {j \in DOMAIN hits : hits[j].row \notin RowsOf(reranked)}}
  <2> DEFINE R == {j \in DOMAIN hits : hits[j].row \notin RowsOf(reranked)}
  <2>1. R \in SUBSET (1..Len(hits))
    OBVIOUS
  <2> HIDE DEF R
  <2>2. At(hits, R) \in Seq(H) /\ ToSet(At(hits, R)) = {hits[i] : i \in R}
    BY <2>1, AtSelects
  <2> QED
    BY <2>2 DEF R
<1> HIDE DEF rest
<1>7. reranked \o rest \in Seq(H) /\ ToSet(reranked \o rest) = ToSet(reranked) \cup ToSet(rest)
  BY <1>5, <1>6, Concatenated
<1>8. ToSet(rest) \subseteq ToSet(hits)
  BY <1>6 DEF ToSet
<1>9. \A c : RowsOf(c) = {hit.row : hit \in ToSet(c)}
  BY DEF RowsOf, ToSet
<1>10. ASSUME NEW i \in DOMAIN hits
       PROVE  hits[i].row \in RowsOf(reranked \o rest)
  <2>1. CASE hits[i].row \in RowsOf(reranked)
    BY <1>7, <1>9, <2>1
  <2>2. CASE hits[i].row \notin RowsOf(reranked)
    BY <1>6, <1>7, <1>9, <2>2
  <2> QED
    BY <2>1, <2>2
<1>11. RowsOf(hits) \subseteq RowsOf(reranked \o rest)
  BY <1>10 DEF RowsOf
<1>12. RowsOf(reranked \o rest) \subseteq RowsOf(hits)
  BY <1>5, <1>7, <1>8, <1>9
<1> QED
  BY <1>1, <1>5, <1>7, <1>8, <1>11, <1>12

(***************************************************************************)
(* Budgets.                                                                *)
(***************************************************************************)
\* The characters of some rows are a sum over their places.
LEMMA TotalIsSum ==
  ASSUME NEW rows \in Seq(DOMAIN Length), NEW g,
         Sums(g, [i \in 1..Len(rows) |-> Length[rows[i]]], 1..Len(rows))
  PROVE  Total(rows) = g[1..Len(rows)]
<1> DEFINE n == Len(rows)
           D == 1..n
           L == [i \in D |-> Length[rows[i]]]
           Eq(f) == f = [s \in SUBSET D |->
                           IF s = {} THEN 0
                           ELSE LET i == Max(s) IN f[s \ {i}] + Length[rows[i]]]
           it == CHOOSE f : Eq(f)
           c == [s \in SUBSET D |-> Max(s)]
<1>1. n \in Nat /\ DOMAIN rows = D /\ \A i \in D : rows[i] \in DOMAIN Length
  OBVIOUS
<1>2. Total(rows) = it[D]
  BY <1>1 DEF Total, FoldLeft, MapThenFoldSet
<1>3. \A i \in D : Length[rows[i]] \in Nat /\ L[i] = Length[rows[i]]
  BY <1>1, RankingAssumption DEF RankingAssumption
<1>4. IsFiniteSet(D)
  BY <1>1, FS_Interval
<1>5. Sums(g, L, D)
  OBVIOUS
<1>6. Picks(c, D)
  BY <1>1, LargestPicks
<1> HIDE DEF n, L, D
<1>7. ASSUME NEW s \in SUBSET D
      PROVE  g[s] = IF s = {} THEN 0
                    ELSE LET i == Max(s) IN g[s \ {i}] + Length[rows[i]]
  <2>1. CASE s = {}
    BY <1>5, <2>1 DEF Sums
  <2>2. CASE s # {}
    <3> DEFINE i == Max(s)
    <3>1. i \in s
      BY <1>6, <2>2 DEF Picks
    <3> HIDE DEF i
    <3>2. s \ {i} \in SUBSET D
      OBVIOUS
    <3>3. g[s] = L[i] + g[s \ {i}] /\ g[s \ {i}] \in Nat
      BY <1>5, <3>1, <3>2 DEF Sums
    <3>4. g[s] = g[s \ {i}] + Length[rows[i]]
      BY <1>3, <3>1, <3>3
    <3> QED
      BY <2>2, <3>4 DEF i
  <2> QED
    BY <2>1, <2>2
<1> DEFINE g0 == [s \in SUBSET D |-> g[s]]
<1>8. Eq(g0)
  BY <1>7
<1>9. Eq(it)
  <2> HIDE DEF Eq, g0
  <2> QED
    BY <1>8
<1> HIDE DEF it, g0
<1> DEFINE T == {s \in SUBSET D : it[s] = g[s]}
<1>10. ASSUME NEW s \in SUBSET D, \A x \in s : s \ {x} \in T
       PROVE  s \in T
  <2>1. CASE s = {}
    BY <1>7, <1>9, <2>1
  <2>2. CASE s # {}
    <3> DEFINE i == Max(s)
    <3>1. i \in s
      BY <1>6, <2>2 DEF Picks
    <3>2. it[s] = it[s \ {i}] + Length[rows[i]]
      BY <1>9, <2>2
    <3>3. g[s] = g[s \ {i}] + Length[rows[i]]
      BY <1>7, <2>2
    <3> HIDE DEF i
    <3> QED
      BY <1>10, <3>1, <3>2, <3>3
  <2> QED
    BY <2>1, <2>2
<1>11. \A s \in SUBSET D : s \in T
  <2> HIDE DEF T, Eq
  <2> QED
    BY <1>4, <1>10, PartByPart
<1> QED
  BY <1>2, <1>11 DEF D, n

\* p names different places of a finite set, of the lengths w, for some rows.
Sited(rows, p, w, D) ==
  /\ \A n \in 1..Len(rows) : p[n] \in D /\ Length[rows[n]] = w[p[n]]
  /\ \A m, n \in 1..Len(rows) : p[m] = p[n] => m = n

\* The places of some rows.
Sites(rows, p) == {p[n] : n \in 1..Len(rows)}

\* Rows taken from different places of a finite set total what the places do,
\* in whatever order.
LEMMA TotalOfPlaces ==
  ASSUME NEW rows \in Seq(DOMAIN Length), NEW D, IsFiniteSet(D), NEW w,
         NEW h, Sums(h, w, D), NEW p, Sited(rows, p, w, D)
  PROVE  Total(rows) = h[Sites(rows, p)]
<1> DEFINE N == Len(rows)
           L == [i \in 1..N |-> Length[rows[i]]]
           Image(s) == {p[n] : n \in s}
           g == [s \in SUBSET (1..N) |-> h[Image(s)]]
<1>0. /\ \A n \in 1..N : p[n] \in D /\ Length[rows[n]] = w[p[n]]
      /\ \A m, n \in 1..N : p[m] = p[n] => m = n
  BY DEF Sited
<1>1. \A s \in SUBSET (1..N) : Image(s) \in SUBSET D /\ g[s] = h[Image(s)]
  BY <1>0
<1>2. h \in [SUBSET D -> Nat] /\ h[{}] = 0
  BY DEF Sums
<1>3. g \in [SUBSET (1..N) -> Nat]
  BY <1>1, <1>2
<1>4. g[{}] = 0
  <2>1. {} \in SUBSET (1..N) /\ Image({}) = {}
    OBVIOUS
  <2> QED
    BY <1>1, <1>2, <2>1
<1>5. ASSUME NEW s \in SUBSET (1..N), NEW x \in s
      PROVE  g[s] = L[x] + g[s \ {x}]
  <2>1. s \ {x} \in SUBSET (1..N) /\ x \in 1..N
    OBVIOUS
  <2>2. Image(s \ {x}) = Image(s) \ {p[x]}
    BY <1>0
  <2>3. p[x] \in Image(s) /\ Image(s) \in SUBSET D
    BY <1>1
  <2>4. h[Image(s)] = w[p[x]] + h[Image(s) \ {p[x]}]
    BY <2>3 DEF Sums
  <2>5. L[x] = w[p[x]]
    BY <1>0, <2>1
  <2> QED
    BY <1>1, <2>1, <2>2, <2>4, <2>5
<1> HIDE DEF g
<1>6. Sums(g, L, 1..N)
  BY <1>3, <1>4, <1>5 DEF Sums
<1>7. Total(rows) = g[1..N]
  BY <1>6, TotalIsSum
<1>8. g[1..N] = h[Image(1..N)]
  BY <1>1
<1> QED
  BY <1>7, <1>8 DEF Sites

\* What the character budget keeps is a first part of the hits.
LEMMA BudgetKeepsFirst ==
  ASSUME NEW H, NEW hits \in Seq(H), NEW max
  PROVE  \E m \in 0..Len(hits) : ApplyCharBudget(hits, max) = SubSeq(hits, 1, m)
<1> DEFINE K == {n \in 0..Len(hits) :
                   \A i \in 1..n : /\ Used(hits, i - 1) < max
                                   /\ i = 1 \/ Used(hits, i) <= max}
<1>1. ApplyCharBudget(hits, max) = SubSeq(hits, 1, Max(K))
  BY DEF ApplyCharBudget, Prefix
<1>2. Len(hits) \in Nat /\ K \in SUBSET (0..Len(hits)) /\ 0 \in K
  OBVIOUS
<1> HIDE DEF K
<1>3. Max(K) \in 0..Len(hits)
  BY <1>2, Largest
<1> QED
  BY <1>1, <1>3

\* A first part of a sequence.
LEMMA FirstParts ==
  ASSUME NEW H, NEW hits \in Seq(H), NEW m \in 0..Len(hits)
  PROVE  /\ SubSeq(hits, 1, m) \in Seq(H) /\ Len(SubSeq(hits, 1, m)) = m
         /\ \A i \in 1..m : SubSeq(hits, 1, m)[i] = hits[i]
         /\ ToSet(SubSeq(hits, 1, m)) \subseteq ToSet(hits)
<1>1. Len(hits) \in Nat /\ m \in Nat /\ m <= Len(hits)
  OBVIOUS
<1> DEFINE s == SubSeq(hits, 1, m)
<1>2. s = [i \in 1..m |-> hits[i]]
  BY <1>1
<1>3. s \in Seq(H) /\ Len(s) = m /\ \A i \in 1..m : s[i] = hits[i]
  BY <1>1, <1>2
<1>4. ToSet(s) \subseteq ToSet(hits)
  BY <1>1, <1>3 DEF ToSet
<1> QED
  BY <1>3, <1>4

\* What the budget of a context keeps are hits of its lists.
LEMMA MemoriesKept ==
  ASSUME NEW H, NEW entries \in Seq(H), NEW budget
  PROVE  /\ BudgetMemories(entries, budget) \in Seq(H)
         /\ ToSet(BudgetMemories(entries, budget)) \subseteq ToSet(entries)
<1>1. PICK rows : BudgetMemories(entries, budget)
                    = At(entries, {i \in DOMAIN entries : entries[i].row \in rows})
  BY DEF BudgetMemories
<1> DEFINE S == {i \in DOMAIN entries : entries[i].row \in rows}
<1>2. S \in SUBSET (1..Len(entries))
  OBVIOUS
<1> HIDE DEF S
<1>3. At(entries, S) \in Seq(H) /\ ToSet(At(entries, S)) = {entries[i] : i \in S}
  BY <1>2, AtSelects
<1>4. {entries[i] : i \in S} \subseteq ToSet(entries)
  BY DEF S, ToSet
<1> QED
  BY <1>1, <1>3, <1>4 DEF S

\* The first part of a list without repeated rows, with what it uses.
LEMMA UsedSteps ==
  ASSUME NEW H, \A hit \in H : hit.row \in DOMAIN Length, NEW hits \in Seq(H),
         NEW m \in 0..Len(hits)
  PROVE  /\ Used(hits, m) \in Nat
         /\ m = 0 => Used(hits, m) = 0
         /\ m # 0 => Used(hits, m) > 0
         /\ m < Len(hits) =>
              /\ Used(hits, m + 1) = Used(hits, m) + Length[hits[m + 1].row]
              /\ Length[hits[m + 1].row] \in Nat
<1> DEFINE D == 1..Len(hits)
           w == [i \in D |-> Length[hits[i].row]]
<1>1. /\ Len(hits) \in Nat /\ m \in Nat /\ m <= Len(hits) /\ IsFiniteSet(D)
      /\ \A i \in D : hits[i] \in H
  <2>1. Len(hits) \in Nat /\ \A i \in D : hits[i] \in H
    OBVIOUS
  <2> QED
    BY <2>1, FS_Interval
<1>2. \A i \in D : hits[i].row \in DOMAIN Length /\ w[i] \in Nat \ {0} /\ w[i] = Length[hits[i].row]
  BY <1>1, RankingAssumption DEF RankingAssumption
<1> HIDE DEF w
<1>3. PICK h : Sums(h, w, D)
  BY <1>1, <1>2, SumsExist
<1>4. ASSUME NEW k \in 0..Len(hits)
      PROVE  Used(hits, k) = h[1..k]
  <2> DEFINE part == SubSeq(hits, 1, k)
             rows == AsRows(part)
             p == [n \in 1..k |-> n]
  <2>1. k \in Nat /\ k <= Len(hits)
    BY <1>1
  <2>2. part \in Seq(H) /\ Len(part) = k /\ \A i \in 1..k : part[i] = hits[i]
    BY FirstParts
  <2> HIDE DEF part
  <2>3. DOMAIN part = 1..k
    BY <2>2
  <2>4. rows \in [1..k -> DOMAIN Length] /\ \A i \in 1..k : rows[i] = hits[i].row
    BY <1>1, <1>2, <2>1, <2>2, <2>3 DEF AsRows
  <2>5. rows \in Seq(DOMAIN Length) /\ Len(rows) = k
    BY <2>1, <2>4, SeqDef
  <2> HIDE DEF rows
  <2>6. /\ \A n \in 1..Len(rows) : p[n] \in D /\ Length[rows[n]] = w[p[n]]
        /\ \A i, j \in 1..Len(rows) : p[i] = p[j] => i = j
    BY <1>1, <1>2, <2>1, <2>4, <2>5
  <2>7. Sites(rows, p) = 1..k
    BY <2>5 DEF Sites
  <2> HIDE DEF p, D
  <2>8. Total(rows) = h[Sites(rows, p)]
    <3>1. IsFiniteSet(D) /\ rows \in Seq(DOMAIN Length)
      BY <1>1, <2>5
    <3>2. Sited(rows, p, w, D)
      BY <2>6 DEF Sited
    <3> HIDE DEF rows
    <3> QED
      BY <1>3, <3>1, <3>2, TotalOfPlaces
  <2> QED
    BY <2>7, <2>8 DEF Used, rows, part
<1>5. /\ h[{}] = 0
      /\ \A s \in SUBSET D : h[s] \in Nat /\ \A x \in s : h[s] = w[x] + h[s \ {x}]
  BY <1>3 DEF Sums
<1>6. \A k \in 0..Len(hits) : 1..k \in SUBSET D
  BY <1>1
<1>7. Used(hits, m) \in Nat
  BY <1>4, <1>5, <1>6
<1>8. ASSUME m = 0
      PROVE  Used(hits, m) = 0
  <2>1. 1..m = {}
    BY <1>8
  <2> QED
    BY <1>4, <1>5, <2>1
<1>9. ASSUME m # 0
      PROVE  Used(hits, m) > 0
  <2>1. m \in 1..m /\ m \in D
    BY <1>1, <1>9
  <2>2. h[1..m] = w[m] + h[(1..m) \ {m}] /\ (1..m) \ {m} \in SUBSET D
    BY <1>5, <1>6, <2>1
  <2>3. w[m] \in Nat \ {0} /\ h[(1..m) \ {m}] \in Nat
    BY <1>2, <1>5, <2>1, <2>2
  <2> QED
    BY <1>4, <2>2, <2>3
<1>10. ASSUME m < Len(hits)
       PROVE  /\ Used(hits, m + 1) = Used(hits, m) + Length[hits[m + 1].row]
              /\ Length[hits[m + 1].row] \in Nat
  <2>1. m + 1 \in 0..Len(hits) /\ m + 1 \in D /\ m + 1 \in 1..m + 1
    BY <1>1, <1>10
  <2>2. (1..m + 1) \ {m + 1} = 1..m
    BY <1>1
  <2>3. h[1..m + 1] = w[m + 1] + h[1..m]
    <3> DEFINE s == 1..m + 1
    <3>1. s \in SUBSET D /\ m + 1 \in s /\ s \ {m + 1} = 1..m
      BY <1>6, <2>1, <2>2
    <3> HIDE DEF s
    <3>2. h[s] = w[m + 1] + h[s \ {m + 1}]
      BY <1>5, <3>1
    <3> QED
      BY <3>1, <3>2 DEF s
  <2>4. Used(hits, m + 1) = h[1..m + 1] /\ Used(hits, m) = h[1..m]
    BY <1>4, <2>1
  <2>5. w[m + 1] \in Nat /\ w[m + 1] = Length[hits[m + 1].row] /\ h[1..m] \in Nat
    BY <1>2, <1>5, <1>6, <2>1
  <2> QED
    BY <2>3, <2>4, <2>5
<1> QED
  BY <1>7, <1>8, <1>9, <1>10

\* A first part is within a budget: it is not empty, it does not exceed the
\* budget unless it is one hit, and the next hit would.
Within(hits, m, max) ==
  /\ m \in 0..Len(hits)
  /\ hits # <<>> => m # 0
  /\ m <= 1 \/ Used(hits, m) <= max
  /\ m < Len(hits) => Used(hits, m) + Length[hits[m + 1].row] > max

\* What the two budgets keep of the hits in their order.
LEMMA BudgetFits ==
  ASSUME NEW H, \A hit \in H : hit.row \in DOMAIN Length, NEW hits \in Seq(H),
         NEW max \in Nat \ {0}
  PROVE  \E m : Within(hits, m, max) /\ ApplyCharBudget(hits, max) = SubSeq(hits, 1, m)
<1> DEFINE U(i) == Used(hits, i)
           Good(i) == U(i - 1) < max /\ (i = 1 \/ U(i) <= max)
           K == {n \in 0..Len(hits) : \A i \in 1..n : Good(i)}
           m == Max(K)
<1>1. ApplyCharBudget(hits, max) = SubSeq(hits, 1, m)
  BY DEF ApplyCharBudget, Prefix
<1>2. Len(hits) \in Nat /\ K \in SUBSET (0..Len(hits)) /\ 0 \in K
  OBVIOUS
<1>3. m \in K /\ \A n \in K : n <= m
  <2> HIDE DEF K
  <2> QED
    BY <1>2, Largest
<1> HIDE DEF m
<1>4. m \in 0..Len(hits) /\ m \in Nat /\ \A i \in 1..m : Good(i)
  BY <1>2, <1>3
<1>5. /\ \A i \in 0..Len(hits) : U(i) \in Nat
      /\ U(0) = 0
      /\ \A i \in 0..Len(hits) : i < Len(hits) =>
           U(i + 1) = U(i) + Length[hits[i + 1].row] /\ Length[hits[i + 1].row] \in Nat
  BY <1>2, UsedSteps
<1> HIDE DEF U
<1>6. hits # <<>> => m # 0
  <2>1. SUFFICES ASSUME hits # <<>>
                 PROVE  m # 0
    OBVIOUS
  <2>2. 1 \in 0..Len(hits)
    BY <1>2, <2>1
  <2>3. 1 - 1 = 0 /\ Good(1)
    BY <1>5
  <2>4. 1 \in K
    BY <2>2, <2>3
  <2> HIDE DEF K
  <2> QED
    BY <1>3, <1>4, <2>4
<1>7. m <= 1 \/ U(m) <= max
  <2>1. m \in 1..m \/ m = 0
    BY <1>4
  <2> QED
    BY <1>4, <2>1
<1>8. ASSUME m < Len(hits)
      PROVE  U(m) + Length[hits[m + 1].row] > max
  <2>1. m + 1 \in 0..Len(hits) /\ m + 1 \notin K
    <3> HIDE DEF K
    <3> QED
      BY <1>2, <1>3, <1>4, <1>8
  <2>2. PICK i \in 1..m + 1 : ~Good(i)
    BY <2>1
  <2>3. i = m + 1
    <3> HIDE DEF Good
    <3> QED
      BY <1>4, <2>2
  <2>4. i - 1 = m
    BY <1>4, <2>3
  <2>5. U(m) >= max \/ U(m + 1) > max
    BY <1>4, <1>5, <2>1, <2>2, <2>3, <2>4
  <2>6. U(m + 1) = U(m) + Length[hits[m + 1].row] /\ U(m) \in Nat /\ U(m + 1) \in Nat
    BY <1>4, <1>5, <1>8, <2>1
  <2>7. U(m + 1) > U(m)
    <3>1. U(m + 1) \in Nat /\ Length[hits[m + 1].row] \in Nat \ {0}
      <4>1. hits[m + 1] \in H
        BY <1>2, <1>4, <1>8
      <4> QED
        BY <2>6, <4>1, RankingAssumption DEF RankingAssumption
    <3> QED
      BY <2>6, <3>1
  <2> QED
    BY <2>5, <2>6, <2>7
<1>9. Within(hits, m, max)
  BY <1>4, <1>6, <1>7, <1>8 DEF Within, U
<1> QED
  BY <1>1, <1>9

\* Hits of certain rows.
HitsOf(H, R) == \A hit \in H : hit.row \in R

\* The rows of some hits, listed.
LEMMA RowsListed ==
  ASSUME NEW R, NEW H, HitsOf(H, R), NEW hits \in Seq(H)
  PROVE  /\ AsRows(hits) \in Seq(R) /\ Len(AsRows(hits)) = Len(hits)
         /\ \A i \in 1..Len(hits) : AsRows(hits)[i] = hits[i].row
         /\ ToSet(AsRows(hits)) = RowsOf(hits)
<1>1. Len(hits) \in Nat /\ DOMAIN hits = 1..Len(hits) /\ \A i \in 1..Len(hits) : hits[i] \in H
  OBVIOUS
<1>2. AsRows(hits) = [i \in 1..Len(hits) |-> hits[i].row]
  BY <1>1 DEF AsRows
<1>3. AsRows(hits) \in [1..Len(hits) -> R]
  BY <1>1, <1>2 DEF HitsOf
<1>4. AsRows(hits) \in Seq(R) /\ Len(AsRows(hits)) = Len(hits)
  BY <1>1, <1>2, <1>3, SeqDef
<1>5. ToSet(AsRows(hits)) = RowsOf(hits)
  BY <1>1, <1>2 DEF ToSet, RowsOf
<1> QED
  BY <1>2, <1>4, <1>5

\* The best of a pool within a budget: p names the places of the entries, the
\* heaviest first, and m of them are kept.
Best(entries, p, m, max) ==
  /\ StableOrder(p, [i \in DOMAIN entries |-> Weight[entries[i].row]], Len(entries))
  /\ Within([n \in 1..Len(entries) |-> entries[p[n]]], m, max)

\* What the budget of a context keeps.
LEMMA MemoriesAreBest ==
  ASSUME NEW H, \A hit \in H : hit.row \in DOMAIN Length /\ Weight[hit.row] \in Int,
         NEW entries \in Seq(H), Distinct(entries), NEW max \in Nat \ {0}
  PROVE  \E p, m : /\ Best(entries, p, m, max)
                   /\ BudgetMemories(entries, max) = At(entries, {p[n] : n \in 1..m})
<1> DEFINE N == Len(entries)
           key == [i \in DOMAIN entries |-> Weight[entries[i].row]]
           pool == StableSort(entries, key)
           U(i) == Used(pool, i)
           Good(i) == U(i) <= max \/ U(i - 1) = 0
           K == {n \in 0..Len(pool) : \A i \in 1..n : Good(i)}
           m == Max(K)
<1>1. N \in Nat /\ DOMAIN entries = 1..N /\ \A i \in 1..N : entries[i] \in H
  OBVIOUS
<1>2. key \in [DOMAIN entries -> Int]
  BY <1>1
<1>3. BudgetMemories(entries, max)
        = At(entries, {i \in DOMAIN entries : entries[i].row \in RowsOf(SubSeq(pool, 1, m))})
  BY DEF BudgetMemories, Prefix
<1> HIDE DEF key
<1>4. PICK p : StableOrder(p, key, N) /\ pool = [n \in 1..N |-> entries[p[n]]]
  BY <1>2, StableSorts
<1>5. /\ p \in [1..N -> 1..N] /\ \A i \in 1..N : \E n \in 1..N : p[n] = i
  BY <1>4 DEF StableOrder
<1> HIDE DEF pool, N
<1>6. pool \in Seq(H) /\ Len(pool) = N
  <2>1. pool \in [1..N -> H]
    BY <1>1, <1>4, <1>5
  <2> QED
    BY <1>1, <2>1, SeqDef
<1>7. K \in SUBSET (0..N) /\ 0 \in K
  BY <1>1, <1>6
<1>8. m \in K /\ \A n \in K : n <= m
  <2> HIDE DEF K
  <2> QED
    BY <1>1, <1>7, Largest
<1> HIDE DEF m
<1>9. m \in 0..N /\ m \in Nat /\ \A i \in 1..m : Good(i)
  BY <1>1, <1>7, <1>8
<1>10. \A i \in 0..N : /\ U(i) \in Nat /\ (i = 0 => U(i) = 0) /\ (i # 0 => U(i) > 0)
                       /\ i < N => /\ U(i + 1) = U(i) + Length[pool[i + 1].row]
                                   /\ Length[pool[i + 1].row] \in Nat
  BY <1>6, UsedSteps
<1> HIDE DEF U
<1>11. pool # <<>> => m # 0
  <2>1. SUFFICES ASSUME pool # <<>>
                 PROVE  m # 0
    OBVIOUS
  <2>2. 1 \in 0..N /\ 1 \in 0..Len(pool)
    BY <1>1, <1>6, <2>1
  <2>3. 1 - 1 = 0 /\ U(0) = 0
    BY <1>1, <1>10
  <2>4. Good(1)
    BY <2>3
  <2>5. 1 \in K
    <3>1. \A i \in 1..1 : i = 1
      OBVIOUS
    <3> HIDE DEF Good
    <3> QED
      BY <2>2, <2>4, <3>1
  <2> HIDE DEF K
  <2> QED
    BY <1>8, <1>9, <2>5
<1>12. m <= 1 \/ U(m) <= max
  <2>1. m <= 1 \/ (m \in 1..m /\ m - 1 \in 0..N /\ m - 1 # 0)
    BY <1>1, <1>9
  <2>2. m <= 1 \/ (Good(m) /\ U(m - 1) > 0 /\ U(m - 1) \in Nat)
    <3> HIDE DEF Good
    <3> QED
      BY <1>9, <1>10, <2>1
  <2> QED
    BY <2>2
<1>13. ASSUME m < N
       PROVE  U(m) + Length[pool[m + 1].row] > max
  <2>1. m + 1 \in 0..N /\ m + 1 \notin K
    <3> HIDE DEF K
    <3> QED
      BY <1>1, <1>8, <1>9, <1>13
  <2>2. PICK i \in 1..m + 1 : ~Good(i)
    BY <1>6, <2>1
  <2>3. i = m + 1
    <3> HIDE DEF Good
    <3> QED
      BY <1>9, <2>2
  <2>4. U(m + 1) > max /\ U(m + 1) = U(m) + Length[pool[m + 1].row]
    <3>1. U(m + 1) \in Nat /\ ~(U(m + 1) <= max)
      BY <1>10, <2>1, <2>2, <2>3
    <3>2. U(m + 1) = U(m) + Length[pool[m + 1].row]
      BY <1>9, <1>10, <1>13
    <3> QED
      BY <3>1, <3>2
  <2> QED
    BY <2>4
<1>14. Within(pool, m, max)
  BY <1>6, <1>9, <1>11, <1>12, <1>13 DEF Within, U
<1>15. Best(entries, p, m, max)
  BY <1>1, <1>4, <1>14 DEF Best, N, key
<1>16. {i \in DOMAIN entries : entries[i].row \in RowsOf(SubSeq(pool, 1, m))}
         = {p[n] : n \in 1..m}
  <2> DEFINE part == SubSeq(pool, 1, m)
  <2>1. Len(part) = m /\ part \in Seq(H) /\ \A n \in 1..m : part[n] = pool[n]
    BY <1>6, <1>9, FirstParts
  <2> HIDE DEF part
  <2>2. \A n \in 1..m : n \in 1..N /\ part[n] = entries[p[n]] /\ p[n] \in 1..N
    <3>1. TAKE n \in 1..m
    <3>2. n \in 1..N
      BY <1>1, <1>9
    <3>3. p[n] \in 1..N
      BY <1>5, <3>2
    <3>4. pool[n] = entries[p[n]]
      BY <1>4, <3>2
    <3> QED
      BY <2>1, <3>2, <3>3, <3>4
  <2>3. RowsOf(part) = {entries[p[n]].row : n \in 1..m}
    <3>1. DOMAIN part = 1..m
      BY <2>1
    <3> QED
      BY <2>2, <3>1 DEF RowsOf
  <2>4. \A i, j \in 1..N : entries[i].row = entries[j].row => i = j
    BY <1>1 DEF Distinct
  <2>5. ASSUME NEW i \in 1..N
        PROVE  entries[i].row \in RowsOf(part) <=> i \in {p[n] : n \in 1..m}
    <3>1. ASSUME entries[i].row \in RowsOf(part)
          PROVE  i \in {p[n] : n \in 1..m}
      <4>1. PICK n \in 1..m : entries[i].row = entries[p[n]].row
        BY <2>3, <3>1
      <4>2. i = p[n]
        BY <2>2, <2>4, <4>1
      <4> QED
        BY <4>2
    <3>2. ASSUME i \in {p[n] : n \in 1..m}
          PROVE  entries[i].row \in RowsOf(part)
      BY <2>3, <3>2
    <3> QED
      BY <3>1, <3>2
  <2>6. {p[n] : n \in 1..m} \subseteq 1..N
    BY <2>2
  <2> QED
    BY <1>1, <2>5, <2>6 DEF part
<1> QED
  BY <1>3, <1>15, <1>16

\* A list in the order of the keys has each place once, and the keys fall.
LEMMA OrderedOnce ==
  ASSUME NEW p, NEW N \in Nat, NEW key, \A i \in 1..N : key[i] \in Int,
         StableOrder(p, key, N)
  PROVE  /\ \A n \in 1..N : p[n] \in 1..N
         /\ \A m, n \in 1..N : p[m] = p[n] => m = n
         /\ \A m, n \in 1..N : m < n => key[p[m]] >= key[p[n]]
<1>1. \A n \in 1..N : p[n] \in 1..N /\ key[p[n]] \in Int
  BY DEF StableOrder
<1>2. \A m, n \in 1..N :
        \/ key[p[m]] > key[p[n]]
        \/ key[p[m]] = key[p[n]] /\ p[m] < p[n]
        <=> m < n
  BY DEF StableOrder
<1>3. ASSUME NEW m \in 1..N, NEW n \in 1..N, p[m] = p[n]
      PROVE  m = n
  <2>1. ~(m < n) /\ ~(n < m)
    BY <1>1, <1>2, <1>3
  <2> QED
    BY <2>1
<1>4. ASSUME NEW m \in 1..N, NEW n \in 1..N, m < n
      PROVE  key[p[m]] >= key[p[n]]
  BY <1>1, <1>2, <1>4
<1> QED
  BY <1>1, <1>3, <1>4

\* The heaviest rows that fit are kept: some, within the budget unless it is
\* one row, nowhere lighter than what is dropped, and of what is dropped a row
\* would not fit.
HeaviestKept(entries, kept, max) ==
  LET dropped == RowsOf(entries) \ RowsOf(kept)
  IN /\ entries # <<>> => kept # <<>>
     /\ Len(kept) <= 1 \/ Total(AsRows(kept)) <= max
     /\ \A r \in dropped, q \in RowsOf(kept) : Weight[r] <= Weight[q]
     /\ dropped # {} => \E r \in dropped : Total(AsRows(kept)) + Length[r] > max

\* What the budget of a context keeps, of lists without repeated rows.
LEMMA MemoriesFit ==
  ASSUME NEW H, \A hit \in H : hit.row \in DOMAIN Length /\ Weight[hit.row] \in Int,
         NEW entries \in Seq(H), Distinct(entries), NEW max \in Nat \ {0}
  PROVE  HeaviestKept(entries, BudgetMemories(entries, max), max)
<1> DEFINE kept == BudgetMemories(entries, max)
           dropped == RowsOf(entries) \ RowsOf(kept)
           N == Len(entries)
           key == [i \in DOMAIN entries |-> Weight[entries[i].row]]
           w == [i \in 1..N |-> Length[entries[i].row]]
<1>0. \A hit \in H : hit.row \in DOMAIN Length
  OBVIOUS
<1>25. \E p, m : /\ Best(entries, p, m, max)
                 /\ BudgetMemories(entries, max) = At(entries, {p[n] : n \in 1..m})
  BY MemoriesAreBest
<1>1. PICK p, m : /\ Best(entries, p, m, max)
                  /\ kept = At(entries, {p[n] : n \in 1..m})
  BY <1>25
<1> HIDE DEF kept
<1> DEFINE S == {p[n] : n \in 1..m}
           pool == [n \in 1..N |-> entries[p[n]]]
<1>2. N \in Nat /\ DOMAIN entries = 1..N /\ \A i \in 1..N : entries[i] \in H
  OBVIOUS
<1>3. \A i \in 1..N : /\ key[i] = Weight[entries[i].row] /\ key[i] \in Int
                      /\ w[i] = Length[entries[i].row] /\ w[i] \in Nat
                      /\ entries[i].row \in DOMAIN Length
  BY <1>2, RankingAssumption DEF RankingAssumption
<1>4. StableOrder(p, key, N) /\ Within(pool, m, max)
  BY <1>1, <1>2 DEF Best
<1> HIDE DEF key, w, N
<1>5. /\ \A n \in 1..N : p[n] \in 1..N
      /\ \A k, n \in 1..N : p[k] = p[n] => k = n
      /\ \A k, n \in 1..N : k < n => key[p[k]] >= key[p[n]]
  BY <1>2, <1>3, <1>4, OrderedOnce
<1>6. \A i \in 1..N : \E n \in 1..N : p[n] = i
  BY <1>4 DEF StableOrder
<1>7. pool \in Seq(H) /\ Len(pool) = N /\ \A n \in 1..N : pool[n] = entries[p[n]]
  <2>1. pool \in [1..N -> H]
    BY <1>2, <1>5
  <2> QED
    BY <1>2, <2>1, SeqDef
<1> HIDE DEF pool
<1>8. /\ m \in 0..N /\ m \in Nat /\ m <= N
      /\ pool # <<>> => m # 0
      /\ m <= 1 \/ Used(pool, m) <= max
      /\ m < N => Used(pool, m) + Length[pool[m + 1].row] > max
  BY <1>2, <1>4, <1>7 DEF Within
<1>9. \A n \in 1..m : n \in 1..N
  BY <1>2, <1>8
<1>10. S \in SUBSET (1..N)
  BY <1>5, <1>9
<1>11. /\ Cardinality(S) \in Nat
       /\ kept \in Seq(H) /\ DOMAIN kept = 1..Cardinality(S)
       /\ ToSet(kept) = {entries[i] : i \in S}
       /\ \E t : Taken(t, S) /\ \A n \in 1..Cardinality(S) : kept[n] = entries[t[n]]
  <2> HIDE DEF S
  <2>1. S \in SUBSET (1..Len(entries)) /\ kept = At(entries, S)
    BY <1>1, <1>10 DEF S, N
  <2> QED
    BY <2>1, AtSelects
<1>12. PICK t : Taken(t, S) /\ \A n \in 1..Cardinality(S) : kept[n] = entries[t[n]]
  BY <1>11
<1> DEFINE C == Cardinality(S)
           rows == AsRows(kept)
<1>13. Len(kept) = C /\ C \in Nat
  BY <1>11
<1>14. PICK h : Sums(h, w, 1..N)
  <2>1. IsFiniteSet(1..N)
    BY <1>2, FS_Interval
  <2> QED
    BY <1>3, <2>1, SumsExist
<1>15. IsFiniteSet(1..N)
  BY <1>2, FS_Interval
<1>16. /\ rows \in Seq(DOMAIN Length) /\ Len(rows) = C
       /\ \A n \in 1..C : rows[n] = entries[t[n]].row
       /\ ToSet(rows) = RowsOf(kept)
  <2> HIDE DEF C
  <2>1. /\ AsRows(kept) \in Seq(DOMAIN Length) /\ Len(AsRows(kept)) = Len(kept)
        /\ \A i \in 1..Len(kept) : AsRows(kept)[i] = kept[i].row
        /\ ToSet(AsRows(kept)) = RowsOf(kept)
    <3> DEFINE R == DOMAIN Length
    <3>1. HitsOf(H, R)
      BY <1>0 DEF HitsOf
    <3> HIDE DEF R
    <3>2. /\ AsRows(kept) \in Seq(R) /\ Len(AsRows(kept)) = Len(kept)
          /\ \A i \in 1..Len(kept) : AsRows(kept)[i] = kept[i].row
          /\ ToSet(AsRows(kept)) = RowsOf(kept)
      <4>1. kept \in Seq(H)
        BY <1>11
      <4> QED
        BY <3>1, <4>1, RowsListed
    <3> QED
      BY <3>2 DEF R
  <2> QED
    BY <1>12, <1>13, <2>1 DEF C
<1>17. Total(rows) = h[S]
  <2>1. /\ \A n \in 1..C : t[n] \in S
        /\ \A k, n \in 1..C : t[k] = t[n] => k = n
        /\ \A i \in S : \E n \in 1..C : t[n] = i
    <3>1. /\ \A n \in 1..C : t[n] \in S
          /\ \A k, n \in 1..C : t[k] < t[n] <=> k < n
          /\ \A i \in S : \E n \in 1..C : t[n] = i
      BY <1>12 DEF Taken
    <3>2. ASSUME NEW k \in 1..C, NEW n \in 1..C, t[k] = t[n]
          PROVE  k = n
      <4>1. t[n] \in Int
        BY <1>10, <3>1
      <4>2. ~(k < n) /\ ~(n < k)
        BY <3>1, <3>2, <4>1
      <4> QED
        BY <4>2
    <3> QED
      BY <3>1, <3>2
  <2> HIDE DEF rows, C, S
  <2>2. Sited(rows, t, w, 1..N)
    <3>1. \A n \in 1..C : t[n] \in 1..N /\ Length[rows[n]] = w[t[n]]
      <4>1. TAKE n \in 1..C
      <4>2. t[n] \in 1..N
        BY <1>10, <2>1
      <4>3. rows[n] = entries[t[n]].row
        BY <1>16
      <4> QED
        BY <1>3, <4>2, <4>3
    <3>2. Len(rows) = C
      BY <1>16
    <3> QED
      BY <2>1, <3>1, <3>2 DEF Sited
  <2>3. Total(rows) = h[Sites(rows, t)]
    BY <1>14, <1>15, <1>16, <2>2, TotalOfPlaces
  <2>4. Sites(rows, t) = S
    BY <1>16, <2>1 DEF Sites
  <2> QED
    BY <2>3, <2>4
<1>18. Used(pool, m) = h[S]
  <2> DEFINE part == SubSeq(pool, 1, m)
             listed == AsRows(part)
  <2>1. part \in Seq(H) /\ Len(part) = m /\ \A n \in 1..m : part[n] = pool[n]
    BY <1>7, <1>8, FirstParts
  <2>2. Used(pool, m) = Total(listed)
    BY DEF Used
  <2> HIDE DEF part, S
  <2>3. /\ listed \in Seq(DOMAIN Length) /\ Len(listed) = m
        /\ \A n \in 1..m : listed[n] = part[n].row
    <3>1. /\ AsRows(part) \in Seq(DOMAIN Length) /\ Len(AsRows(part)) = Len(part)
          /\ \A i \in 1..Len(part) : AsRows(part)[i] = part[i].row
      <4> DEFINE R == DOMAIN Length
      <4>1. HitsOf(H, R)
        BY <1>0 DEF HitsOf
      <4> HIDE DEF R
      <4>2. /\ AsRows(part) \in Seq(R) /\ Len(AsRows(part)) = Len(part)
            /\ \A i \in 1..Len(part) : AsRows(part)[i] = part[i].row
        BY <2>1, <4>1, RowsListed
      <4> QED
        BY <4>2 DEF R
    <3> QED
      BY <2>1, <3>1
  <2> HIDE DEF listed
  <2>4. \A n \in 1..m : listed[n] = entries[p[n]].row
    BY <1>7, <1>9, <2>1, <2>3
  <2>5. Sited(listed, p, w, 1..N)
    BY <1>3, <1>5, <1>9, <2>3, <2>4 DEF Sited
  <2>6. Total(listed) = h[Sites(listed, p)]
    BY <1>14, <1>15, <2>3, <2>5, TotalOfPlaces
  <2>7. Sites(listed, p) = S
    BY <2>3 DEF Sites, S
  <2> QED
    BY <2>2, <2>6, <2>7
<1> HIDE DEF rows
<1>19. entries # <<>> => kept # <<>>
  <2>1. SUFFICES ASSUME entries # <<>>
                 PROVE  kept # <<>>
    OBVIOUS
  <2>2. N # 0
    BY <2>1 DEF N
  <2>3. m # 0
    BY <1>7, <1>8, <2>2
  <2>4. p[1] \in S
    BY <1>8, <2>3
  <2>5. entries[p[1]] \in ToSet(kept)
    <3> HIDE DEF S
    <3> QED
      BY <1>11, <2>4
  <2> QED
    BY <2>5 DEF ToSet
<1>20. C <= 1 \/ Total(rows) <= max
  <2>1. CASE Used(pool, m) <= max
    BY <1>17, <1>18, <2>1
  <2>2. CASE m = 0
    <3>1. S = {}
      BY <2>2
    <3>2. Cardinality(S) = 0
      <4> HIDE DEF S
      <4> QED
        BY <3>1, FS_EmptySet
    <3> QED
      BY <3>2
  <2>3. CASE m = 1
    <3>1. S = {p[1]}
      BY <2>3
    <3>2. Cardinality(S) = 1
      <4> HIDE DEF S
      <4> QED
        BY <3>1, FS_Singleton
    <3> QED
      BY <3>2
  <2>4. m = 0 \/ m = 1 \/ Used(pool, m) <= max
    BY <1>8
  <2> QED
    BY <2>1, <2>2, <2>3, <2>4
<1>21. RowsOf(kept) = {entries[p[n]].row : n \in 1..m}
  <2>1. RowsOf(kept) = {hit.row : hit \in ToSet(kept)}
    BY DEF RowsOf, ToSet
  <2> QED
    BY <1>11, <2>1
<1> HIDE DEF S
<1>22. \A r \in dropped : \E n \in 1..N : r = entries[p[n]].row /\ m < n
  <2> TAKE r \in dropped
  <2>1. r \in RowsOf(entries) /\ r \notin RowsOf(kept)
    OBVIOUS
  <2>2. PICK i \in 1..N : r = entries[i].row
    BY <1>2, <2>1 DEF RowsOf
  <2>3. PICK n \in 1..N : p[n] = i
    BY <1>6
  <2>4. n \notin 1..m
    BY <1>21, <2>1, <2>2, <2>3
  <2>5. m < n
    BY <1>8, <2>4
  <2> QED
    BY <2>2, <2>3, <2>5
<1>23. \A r \in dropped, q \in RowsOf(kept) : Weight[r] <= Weight[q]
  <2> TAKE r \in dropped, q \in RowsOf(kept)
  <2>1. PICK n \in 1..N : r = entries[p[n]].row /\ m < n
    BY <1>22
  <2>2. PICK k \in 1..m : q = entries[p[k]].row
    BY <1>21
  <2>3. k \in 1..N /\ k < n
    BY <1>8, <1>9, <2>1
  <2>4. key[p[k]] >= key[p[n]]
    BY <1>5, <2>3
  <2>5. p[k] \in 1..N /\ p[n] \in 1..N
    BY <1>5, <2>3
  <2> QED
    BY <1>3, <2>1, <2>2, <2>4, <2>5
<1>24. ASSUME dropped # {}
       PROVE  \E r \in dropped : Total(rows) + Length[r] > max
  <2>1. m < N
    <3>1. PICK r \in dropped : TRUE
      BY <1>24
    <3>2. PICK n \in 1..N : m < n
      BY <1>22, <3>1
    <3> QED
      BY <1>2, <1>8, <3>2
  <2> DEFINE r == entries[p[m + 1]].row
  <2>2. m + 1 \in 1..N
    BY <1>2, <1>8, <2>1
  <2>3. p[m + 1] \in 1..N
    BY <1>5, <2>2
  <2>4. r \in RowsOf(entries)
    BY <1>2, <2>3 DEF RowsOf
  <2>5. ASSUME r \in RowsOf(kept)
        PROVE  FALSE
    <3>1. PICK n \in 1..m : entries[p[n]].row = r
      BY <1>21, <2>5
    <3>2. n \in 1..N /\ p[n] \in 1..N /\ n # m + 1
      BY <1>5, <1>8, <1>9
    <3>3. p[n] = p[m + 1]
      BY <1>2, <2>3, <3>1, <3>2 DEF Distinct
    <3> QED
      BY <1>5, <2>2, <3>2, <3>3
  <2>6. Used(pool, m) + Length[pool[m + 1].row] > max /\ pool[m + 1] = entries[p[m + 1]]
    BY <1>7, <1>8, <2>1, <2>2
  <2> HIDE DEF pool
  <2>7. Total(rows) + Length[r] > max
    BY <1>17, <1>18, <2>6
  <2> QED
    BY <2>4, <2>5, <2>7
<1> QED
  BY <1>13, <1>19, <1>20, <1>23, <1>24 DEF rows, HeaviestKept, kept

\* The budget of a recall: what it keeps is not empty, is within the budget
\* unless it is one hit, and where something is dropped a hit would not fit.
LEMMA HitsFit ==
  ASSUME NEW H, \A hit \in H : hit.row \in DOMAIN Length,
         NEW hits \in Seq(H), NEW max \in Nat \ {0},
         NEW kept, kept = ApplyCharBudget(hits, max)
  PROVE  /\ hits # <<>> => kept # <<>>
         /\ Len(kept) <= 1 \/ Total(AsRows(kept)) <= max
         /\ ~(RowsOf(hits) \subseteq RowsOf(kept))
              => \E r \in RowsOf(hits) : Total(AsRows(kept)) + Length[r] > max
<1>1. \E m : Within(hits, m, max) /\ ApplyCharBudget(hits, max) = SubSeq(hits, 1, m)
  BY BudgetFits
<1>2. PICK m : Within(hits, m, max) /\ kept = SubSeq(hits, 1, m)
  BY <1>1
<1>3. /\ m \in 0..Len(hits)
      /\ hits # <<>> => m # 0
      /\ m <= 1 \/ Used(hits, m) <= max
      /\ m < Len(hits) => Used(hits, m) + Length[hits[m + 1].row] > max
  BY <1>2 DEF Within
<1>4. Used(hits, m) = Total(AsRows(kept))
  BY <1>2 DEF Used
<1>5. /\ kept \in Seq(H) /\ Len(kept) = m /\ \A i \in 1..m : kept[i] = hits[i]
  BY <1>2, <1>3, FirstParts
<1>6. Len(hits) \in Nat /\ DOMAIN hits = 1..Len(hits) /\ m \in Nat /\ m <= Len(hits)
  BY <1>3
<1>7. DOMAIN kept = 1..m
  BY <1>5
<1>8. ASSUME ~(RowsOf(hits) \subseteq RowsOf(kept))
      PROVE  \E r \in RowsOf(hits) : Total(AsRows(kept)) + Length[r] > max
  <2>1. m # Len(hits)
    <3>1. ASSUME m = Len(hits)
          PROVE  RowsOf(hits) \subseteq RowsOf(kept)
      BY <1>5, <1>6, <1>7, <3>1 DEF RowsOf
    <3> QED
      BY <1>8, <3>1
  <2>2. m < Len(hits) /\ m + 1 \in DOMAIN hits
    <3> DEFINE N == Len(hits)
    <3>1. N \in Nat /\ m \in Nat /\ m <= N /\ m # N
      BY <1>6, <2>1
    <3> HIDE DEF N
    <3>2. m < N /\ m + 1 \in 1..N
      BY <3>1
    <3> QED
      BY <1>6, <3>2 DEF N
  <2>3. hits[m + 1].row \in RowsOf(hits)
    BY <2>2 DEF RowsOf
  <2> QED
    BY <1>3, <1>4, <2>2, <2>3
<1>9. hits # <<>> => kept # <<>>
  BY <1>3, <1>5
<1> QED
  BY <1>3, <1>4, <1>5, <1>8, <1>9

(***************************************************************************)
(* The order of what is fused.                                             *)
(***************************************************************************)
\* A row comes before another, with the same importance.
Precedes(r, q, hits) ==
  \E i \in Places(hits, r), j \in Places(hits, q) :
    i < j /\ hits[i].importance = hits[j].importance

\* A list that has both rows or none has one before the other.
SideBySide(r, q, list) ==
  /\ r \in RowsOf(list) <=> q \in RowsOf(list)
  /\ r \in RowsOf(list) => Precedes(r, q, list)

\* g pairs the places of two rows: each place of the one with a later place of
\* the other, in their order.
Paired(hits, r, q, g) ==
  /\ g \in [Places(hits, r) -> Places(hits, q)]
  /\ \A j \in Places(hits, q) : \E i \in Places(hits, r) : g[i] = j
  /\ \A i \in Places(hits, r) : i < g[i] /\ hits[i].importance = hits[g[i]].importance
  /\ \A i, k \in Places(hits, r) : i < k => g[i] < g[k]

\* Rows that are side by side in every list are paired in the lists one after
\* the other.
LEMMA PairedInLists ==
  ASSUME NEW H, NEW lists \in Seq(Seq(H)), \A i \in 1..Len(lists) : Distinct(lists[i]),
         NEW hits, DOMAIN hits \subseteq Nat, NEW off, Laid(hits, lists, off),
         NEW r, NEW q, \A i \in 1..Len(lists) : SideBySide(r, q, lists[i])
  PROVE  \E g : Paired(hits, r, q, g)
<1> DEFINE N == Len(lists)
           At2(i, j) == off[i - 1] + j
           R(x, y) == \E i \in 1..N : \E j, l \in 1..Len(lists[i]) :
                        /\ x = At2(i, j) /\ y = At2(i, l)
                        /\ lists[i][j].row = r /\ lists[i][l].row = q
           g == [x \in Places(hits, r) |-> CHOOSE y \in Places(hits, q) : R(x, y)]
<1>1. /\ N \in Nat
      /\ \A i \in 1..N : lists[i] \in Seq(H) /\ Len(lists[i]) \in Nat
                         /\ DOMAIN lists[i] = 1..Len(lists[i])
  <2>1. N \in Nat /\ \A i \in 1..N : lists[i] \in Seq(H)
    OBVIOUS
  <2> QED
    BY <2>1
<1>2. /\ \A i \in 1..N : \A j \in 1..Len(lists[i]) :
           /\ At2(i, j) \in DOMAIN hits
           /\ hits[At2(i, j)] = lists[i][j]
      /\ \A x \in DOMAIN hits : \E i \in 1..N : \E j \in 1..Len(lists[i]) : x = At2(i, j)
  BY DEF Laid
<1>3. \A i, k \in 1..N : \A j \in 1..Len(lists[i]), l \in 1..Len(lists[k]) :
        /\ i < k => At2(i, j) < At2(k, l)
        /\ At2(i, j) = At2(k, l) => i = k /\ j = l
  <2>1. \A i, k \in 1..Len(lists) :
          \A j \in 1..Len(lists[i]), l \in 1..Len(lists[k]) :
            /\ i < k => off[i - 1] + j < off[k - 1] + l
            /\ off[i - 1] + j = off[k - 1] + l => i = k /\ j = l
    BY <1>1, PlacesApart
  <2> QED
    BY <2>1
<1>4. \A i \in 1..N : \A j, l \in 1..Len(lists[i]) : j < l => At2(i, j) < At2(i, l)
  <2>1. TAKE i \in 1..N
  <2>2. i - 1 \in 0..N
    BY <1>1
  <2>3. off[i - 1] \in Nat
    BY <2>2 DEF Laid
  <2> QED
    BY <1>1, <2>3
<1>5. \A i \in 1..N : Distinct(lists[i]) /\ SideBySide(r, q, lists[i])
  OBVIOUS
<1> HIDE DEF N, At2
<1>6. ASSUME NEW i \in 1..N, NEW j \in 1..Len(lists[i]), lists[i][j].row = r
      PROVE  \E l \in 1..Len(lists[i]) :
               /\ lists[i][l].row = q /\ j < l
               /\ lists[i][j].importance = lists[i][l].importance
  <2>1. r \in RowsOf(lists[i])
    BY <1>1, <1>6 DEF RowsOf
  <2>2. Precedes(r, q, lists[i])
    BY <1>5, <2>1 DEF SideBySide
  <2>3. PICK k \in 1..Len(lists[i]), l \in 1..Len(lists[i]) :
          /\ lists[i][k].row = r /\ lists[i][l].row = q /\ k < l
          /\ lists[i][k].importance = lists[i][l].importance
    BY <1>1, <2>2 DEF Precedes, Places
  <2>4. k = j
    BY <1>1, <1>5, <1>6, <2>3 DEF Distinct
  <2> QED
    BY <2>3, <2>4
<1>7. ASSUME NEW i \in 1..N, NEW l \in 1..Len(lists[i]), lists[i][l].row = q
      PROVE  \E j \in 1..Len(lists[i]) : lists[i][j].row = r
  <2>1. q \in RowsOf(lists[i])
    BY <1>1, <1>7 DEF RowsOf
  <2>2. r \in RowsOf(lists[i])
    BY <1>5, <2>1 DEF SideBySide
  <2> QED
    BY <1>1, <2>2 DEF RowsOf
<1>8. \A x \in Places(hits, r) : \E y \in Places(hits, q) : R(x, y)
  <2>1. TAKE x \in Places(hits, r)
  <2>2. x \in DOMAIN hits /\ hits[x].row = r
    BY DEF Places
  <2>3. PICK i \in 1..N : \E j \in 1..Len(lists[i]) : x = At2(i, j)
    BY <1>2, <2>2
  <2>4. PICK j \in 1..Len(lists[i]) : x = At2(i, j)
    BY <2>3
  <2>5. lists[i][j].row = r
    BY <1>2, <2>2, <2>4
  <2>6. PICK l \in 1..Len(lists[i]) : lists[i][l].row = q
    BY <1>6, <2>5
  <2>7. At2(i, l) \in Places(hits, q)
    BY <1>2, <2>6 DEF Places
  <2> QED
    BY <2>4, <2>5, <2>6, <2>7
<1>9. \A y \in Places(hits, q) : \E x \in Places(hits, r) : R(x, y)
  <2>1. TAKE y \in Places(hits, q)
  <2>2. y \in DOMAIN hits /\ hits[y].row = q
    BY DEF Places
  <2>3. PICK i \in 1..N : \E l \in 1..Len(lists[i]) : y = At2(i, l)
    BY <1>2, <2>2
  <2>4. PICK l \in 1..Len(lists[i]) : y = At2(i, l)
    BY <2>3
  <2>5. lists[i][l].row = q
    BY <1>2, <2>2, <2>4
  <2>6. PICK j \in 1..Len(lists[i]) : lists[i][j].row = r
    BY <1>7, <2>5
  <2>7. At2(i, j) \in Places(hits, r)
    BY <1>2, <2>6 DEF Places
  <2> QED
    BY <2>4, <2>5, <2>6, <2>7
<1>10. ASSUME NEW x, NEW y, R(x, y)
       PROVE  x < y /\ hits[x].importance = hits[y].importance
  <2>1. PICK i \in 1..N : \E j, l \in 1..Len(lists[i]) :
          /\ x = At2(i, j) /\ y = At2(i, l)
          /\ lists[i][j].row = r /\ lists[i][l].row = q
    BY <1>10
  <2>2. PICK j \in 1..Len(lists[i]), l \in 1..Len(lists[i]) :
          /\ x = At2(i, j) /\ y = At2(i, l)
          /\ lists[i][j].row = r /\ lists[i][l].row = q
    BY <2>1
  <2>3. PICK k \in 1..Len(lists[i]) :
          /\ lists[i][k].row = q /\ j < k
          /\ lists[i][j].importance = lists[i][k].importance
    BY <1>6, <2>2
  <2>4. k = l
    BY <1>1, <1>5, <2>2, <2>3 DEF Distinct
  <2> QED
    BY <1>2, <1>4, <2>2, <2>3, <2>4
<1>11. ASSUME NEW x, NEW y, R(x, y), NEW u, NEW v, R(u, v), DOMAIN hits \subseteq Nat
       PROVE  /\ x = u => y = v
              /\ x < u => y < v
  <2>1. PICK i \in 1..N : \E j, l \in 1..Len(lists[i]) :
          /\ x = At2(i, j) /\ y = At2(i, l)
          /\ lists[i][j].row = r /\ lists[i][l].row = q
    BY <1>11
  <2>2. PICK j \in 1..Len(lists[i]), l \in 1..Len(lists[i]) :
          /\ x = At2(i, j) /\ y = At2(i, l)
          /\ lists[i][j].row = r /\ lists[i][l].row = q
    BY <2>1
  <2>3. PICK k \in 1..N : \E j1, l1 \in 1..Len(lists[k]) :
          /\ u = At2(k, j1) /\ v = At2(k, l1)
          /\ lists[k][j1].row = r /\ lists[k][l1].row = q
    BY <1>11
  <2>4. PICK j1 \in 1..Len(lists[k]), l1 \in 1..Len(lists[k]) :
          /\ u = At2(k, j1) /\ v = At2(k, l1)
          /\ lists[k][j1].row = r /\ lists[k][l1].row = q
    BY <2>3
  <2>5. ASSUME i = k
        PROVE  j = j1 /\ l = l1
    <3>1. /\ j \in DOMAIN lists[i] /\ l \in DOMAIN lists[i]
          /\ j1 \in DOMAIN lists[i] /\ l1 \in DOMAIN lists[i]
      BY <1>1, <2>5
    <3>2. lists[i][j].row = lists[i][j1].row /\ lists[i][l].row = lists[i][l1].row
      BY <2>2, <2>4, <2>5
    <3> QED
      BY <1>5, <3>1, <3>2 DEF Distinct
  <2>6. x = u => y = v
    BY <1>3, <2>2, <2>4, <2>5
  <2>7. x \in Nat /\ u \in Nat
    BY <1>2, <1>11, <2>2, <2>4
  <2>8. k < i => u < x
    BY <1>3, <2>2, <2>4
  <2>9. i = k => x = u
    BY <2>2, <2>4, <2>5
  <2>10. i < k => y < v
    BY <1>3, <2>2, <2>4
  <2>11. i < k \/ k < i \/ i = k
    BY <1>1
  <2> QED
    BY <2>6, <2>7, <2>8, <2>9, <2>10, <2>11
<1> HIDE DEF R
<1>12. \A x \in Places(hits, r) : g[x] \in Places(hits, q) /\ R(x, g[x])
  BY <1>8
<1>13. g \in [Places(hits, r) -> Places(hits, q)]
  BY <1>12
<1> HIDE DEF g
<1>14. \A y \in Places(hits, q) : \E x \in Places(hits, r) : g[x] = y
  <2>1. TAKE y \in Places(hits, q)
  <2>2. PICK x \in Places(hits, r) : R(x, y)
    BY <1>9
  <2>3. R(x, g[x])
    BY <1>12
  <2>4. g[x] = y
    BY <1>11, <2>2, <2>3
  <2> QED
    BY <2>4
<1>15. \A x \in Places(hits, r) : x < g[x] /\ hits[x].importance = hits[g[x]].importance
  BY <1>10, <1>12
<1>16. \A x, u \in Places(hits, r) : x < u => g[x] < g[u]
  BY <1>11, <1>12
<1> QED
  BY <1>13, <1>14, <1>15, <1>16 DEF Paired

\* The places of a row, the first and the last of them.
LEMMA RowPlaces ==
  ASSUME NEW H, NEW hits \in Seq(H), NEW r \in RowsOf(hits)
  PROVE  /\ Places(hits, r) \subseteq Nat /\ IsFiniteSet(Places(hits, r))
         /\ Min(Places(hits, r)) \in Places(hits, r)
         /\ Max(Places(hits, r)) \in Places(hits, r)
         /\ \A j \in Places(hits, r) :
              Min(Places(hits, r)) <= j /\ j <= Max(Places(hits, r))
<1>1. PICK i \in DOMAIN hits : hits[i].row = r
  BY DEF RowsOf
<1>2. /\ Min(Places(hits, r)) \in Places(hits, r)
      /\ Max(Places(hits, r)) \in Places(hits, r)
      /\ \A j \in Places(hits, r) :
           Min(Places(hits, r)) <= j /\ j <= Max(Places(hits, r))
  BY <1>1, FirstAndLast
<1>3. Len(hits) \in Nat /\ Places(hits, r) \subseteq 1..Len(hits)
  BY DEF Places
<1>4. IsFiniteSet(1..Len(hits))
  BY <1>3, FS_Interval
<1>5. IsFiniteSet(Places(hits, r))
  BY <1>3, <1>4, FS_Subset
<1>6. Places(hits, r) \subseteq Nat
  BY <1>3
<1> QED
  BY <1>2, <1>5, <1>6

\* Of two paired rows the one is found first, and both as often and, last, with
\* the same importance.
LEMMA PairedEnds ==
  ASSUME NEW H, NEW hits \in Seq(H), NEW r \in RowsOf(hits), NEW q \in RowsOf(hits),
         NEW g, Paired(hits, r, q, g)
  PROVE  /\ Min(Places(hits, r)) < Min(Places(hits, q))
         /\ hits[Max(Places(hits, r))].importance = hits[Max(Places(hits, q))].importance
         /\ Cardinality(Places(hits, r)) = Cardinality(Places(hits, q))
<1> DEFINE P == Places(hits, r)
           Q == Places(hits, q)
<1>1. /\ P \subseteq Nat /\ IsFiniteSet(P) /\ Min(P) \in P /\ Max(P) \in P
      /\ \A j \in P : Min(P) <= j /\ j <= Max(P)
  BY RowPlaces
<1>2. /\ Q \subseteq Nat /\ IsFiniteSet(Q) /\ Min(Q) \in Q /\ Max(Q) \in Q
      /\ \A j \in Q : Min(Q) <= j /\ j <= Max(Q)
  BY RowPlaces
<1>3. /\ g \in [P -> Q] /\ \A j \in Q : \E i \in P : g[i] = j
      /\ \A i \in P : i < g[i] /\ hits[i].importance = hits[g[i]].importance
      /\ \A i, k \in P : i < k => g[i] < g[k]
  BY DEF Paired
<1> HIDE DEF P, Q
<1>4. Min(P) < Min(Q)
  <2>1. PICK i \in P : g[i] = Min(Q)
    BY <1>2, <1>3
  <2>2. Min(P) <= i /\ i < Min(Q)
    BY <1>1, <1>3, <2>1
  <2>3. Min(P) \in Nat /\ i \in Nat /\ Min(Q) \in Nat
    BY <1>1, <1>2
  <2> QED
    BY <2>2, <2>3
<1>5. g[Max(P)] = Max(Q)
  <2>1. PICK i \in P : g[i] = Max(Q)
    BY <1>2, <1>3
  <2>2. i \in Nat /\ Max(P) \in Nat /\ g[Max(P)] \in Q /\ g[Max(P)] \in Nat /\ Max(Q) \in Nat
    BY <1>1, <1>2, <1>3
  <2>3. i <= Max(P) /\ g[Max(P)] <= Max(Q)
    BY <1>1, <1>2, <2>2
  <2>4. i < Max(P) => Max(Q) < g[Max(P)]
    BY <1>1, <1>3, <2>1
  <2>5. ~(i < Max(P))
    BY <2>2, <2>3, <2>4
  <2>6. i = Max(P)
    BY <2>2, <2>3, <2>5
  <2> QED
    BY <2>1, <2>6
<1>6. hits[Max(P)].importance = hits[Max(Q)].importance
  BY <1>1, <1>3, <1>5
<1>7. Cardinality(P) = Cardinality(Q)
  <2>1. \A i, k \in P : g[i] = g[k] => i = k
    <3>1. \A i, k \in P : i \in Nat /\ k \in Nat /\ g[i] \in Nat /\ g[k] \in Nat
      BY <1>1, <1>2, <1>3
    <3>2. \A i, k \in P : i < k => g[i] < g[k]
      BY <1>3
    <3> QED
      BY <3>1, <3>2
  <2>2. g \in Bijection(P, Q)
    BY <1>3, <2>1 DEF Bijection, Injection, Surjection, IsInjective
  <2>3. ExistsBijection(P, Q)
    BY <2>2 DEF ExistsBijection
  <2> QED
    BY <1>1, <2>3, FS_Bijection
<1> QED
  BY <1>4, <1>6, <1>7 DEF P, Q

\* Of two rows the one found first is merged first, each with the values of its
\* last place.
LEMMA MergesInOrder ==
  ASSUME NEW H, NEW hits \in Seq(H), NEW r \in RowsOf(hits), NEW q \in RowsOf(hits),
         Min(Places(hits, r)) < Min(Places(hits, q))
  PROVE  \E i, j \in DOMAIN Merged(hits) :
           /\ i < j
           /\ Merged(hits)[i] = hits[Max(Places(hits, r))]
           /\ Merged(hits)[j] = hits[Max(Places(hits, q))]
<1> DEFINE N == Cardinality(Firsts(hits))
           m == Merged(hits)
           LastOf(row) == Max(Places(hits, row))
           First(row) == Min(Places(hits, row))
<1>1. PICK p : Taken(p, Firsts(hits)) /\ m = [n \in 1..N |-> hits[LastOf(hits[p[n]].row)]]
  BY Merges
<1>2. ASSUME NEW row \in RowsOf(hits)
      PROVE  First(row) \in Firsts(hits) /\ hits[First(row)].row = row
  <2>1. First(row) \in Places(hits, row)
    BY RowPlaces
  <2>2. First(row) \in DOMAIN hits /\ hits[First(row)].row = row
    BY <2>1 DEF Places
  <2> QED
    BY <2>2 DEF Firsts
<1>3. /\ \A i \in Firsts(hits) : \E n \in 1..N : p[n] = i
      /\ \A k, n \in 1..N : p[k] < p[n] <=> k < n
  BY <1>1 DEF Taken
<1>4. First(r) < First(q)
  OBVIOUS
<1> HIDE DEF N, m, LastOf, First
<1>5. PICK i \in 1..N, j \in 1..N : p[i] = First(r) /\ p[j] = First(q)
  BY <1>2, <1>3
<1>6. i < j
  BY <1>3, <1>4, <1>5
<1>7. m[i] = hits[LastOf(r)] /\ m[j] = hits[LastOf(q)]
  BY <1>1, <1>2, <1>5
<1>8. i \in DOMAIN m /\ j \in DOMAIN m
  BY <1>1
<1> QED
  BY <1>6, <1>7, <1>8 DEF m, LastOf

\* Of two rows found as often with the same importance the one scores as much
\* as the other, if it is lifted with it.
LEMMA ScoresKeepUp ==
  ASSUME NEW hits, NEW boosted, NEW x, NEW y,
         x.importance \in Nat, x.importance = y.importance,
         Cardinality(Places(hits, x.row)) = Cardinality(Places(hits, y.row)),
         y.row \in boosted => x.row \in boosted
  PROVE  Score(hits, boosted, x) >= Score(hits, boosted, y)
<1> DEFINE a == OccurrenceScore(Cardinality(Places(hits, x.row)))
           b == x.importance
           c == IF x.row \in boosted THEN 3 ELSE 2
           d == IF y.row \in boosted THEN 3 ELSE 2
<1>1. a \in Nat
  BY RankingAssumption DEF RankingAssumption, OccurrenceScore
<1>2. b \in Nat
  OBVIOUS
<1>3. c = d \/ (c = 3 /\ d = 2)
  OBVIOUS
<1>4. Score(hits, boosted, x) = a * b * c /\ Score(hits, boosted, y) = a * b * d
  BY DEF Score
<1>5. c \in Nat /\ d \in Nat
  OBVIOUS
<1> HIDE DEF a, b, c, d
<1>6. PICK e : e = a * b
  OBVIOUS
<1>7. e \in Nat
  BY <1>1, <1>2, <1>6
<1>8. e * c >= e * d
  <2>1. CASE c = d
    <3>1. e * c = e * d /\ e * d \in Nat
      BY <1>5, <1>7, <2>1
    <3> QED
      BY <3>1
  <2>2. CASE c = 3 /\ d = 2
    <3>1. e * 3 >= e * 2
      BY <1>7
    <3> QED
      BY <2>2, <3>1
  <2> QED
    BY <1>3, <2>1, <2>2
<1> QED
  BY <1>4, <1>6, <1>8

\* Of paired rows fusion puts the one before the other, unless it lifts only
\* the other.
LEMMA FusionRespects ==
  ASSUME NEW H, \A hit \in H : hit.importance \in Nat, NEW hits \in Seq(H), NEW boosted,
         NEW r \in RowsOf(hits), NEW q \in RowsOf(hits), NEW g, Paired(hits, r, q, g),
         q \in boosted => r \in boosted
  PROVE  Precedes(r, q, Fuse(hits, boosted))
<1> DEFINE m == Merged(hits)
           N == Len(m)
           key == [i \in DOMAIN m |-> Score(hits, boosted, m[i])]
           fused == Fuse(hits, boosted)
           x == hits[Max(Places(hits, r))]
           y == hits[Max(Places(hits, q))]
<1>1. /\ Min(Places(hits, r)) < Min(Places(hits, q))
      /\ x.importance = y.importance
      /\ Cardinality(Places(hits, r)) = Cardinality(Places(hits, q))
  BY PairedEnds
<1>2. m \in Seq(H) /\ N \in Nat /\ DOMAIN m = 1..N
  <2>1. m \in Seq(H)
    BY MergingKeeps
  <2> QED
    BY <2>1
<1>3. x \in H /\ x.row = r /\ y.row = q
  <2>1. Max(Places(hits, r)) \in Places(hits, r) /\ Max(Places(hits, q)) \in Places(hits, q)
    BY RowPlaces
  <2> QED
    BY <2>1 DEF Places
<1>4. PICK i \in DOMAIN m, j \in DOMAIN m : i < j /\ m[i] = x /\ m[j] = y
  BY <1>1, MergesInOrder
<1>5. fused = StableSort(m, key)
  BY FuseSorts
<1>6. q \in boosted => r \in boosted
  OBVIOUS
<1>7. x.importance \in Nat
  BY <1>3
<1> HIDE DEF m, N, fused, x, y
<1>8. key \in [DOMAIN m -> Int]
  <2>1. \A k \in DOMAIN m : m[k].importance \in Int
    BY <1>2
  <2> QED
    BY <2>1, ScoresAreNumbers
<1>9. Score(hits, boosted, x) >= Score(hits, boosted, y)
  <2>1. /\ Cardinality(Places(hits, x.row)) = Cardinality(Places(hits, y.row))
        /\ y.row \in boosted => x.row \in boosted
    BY <1>1, <1>3, <1>6
  <2> QED
    BY <1>1, <1>7, <2>1, ScoresKeepUp
<1>10. key[i] >= key[j]
  BY <1>4, <1>9
<1> HIDE DEF key
<1>11. PICK p : StableOrder(p, key, N) /\ fused = [n \in 1..N |-> m[p[n]]]
  <2>1. m \in Seq(H)
    BY <1>2
  <2>2. \E p : /\ StableOrder(p, key, Len(m))
               /\ StableSort(m, key) = [n \in 1..Len(m) |-> m[p[n]]]
    BY <1>8, <2>1, StableSorts
  <2> QED
    BY <1>5, <2>2 DEF N
<1>12. i \in 1..N /\ j \in 1..N /\ key[i] \in Int /\ key[j] \in Int
  BY <1>2, <1>4, <1>8
<1>13. PICK k \in 1..N, l \in 1..N : p[k] = i /\ p[l] = j
  BY <1>11, <1>12 DEF StableOrder
<1>14. \/ key[p[k]] > key[p[l]]
       \/ key[p[k]] = key[p[l]] /\ p[k] < p[l]
  BY <1>4, <1>10, <1>12, <1>13
<1>15. k < l
  BY <1>11, <1>14 DEF StableOrder
<1>16. fused[k] = x /\ fused[l] = y /\ k \in DOMAIN fused /\ l \in DOMAIN fused
  BY <1>4, <1>11, <1>13
<1>17. k \in Places(fused, r) /\ l \in Places(fused, q)
  BY <1>3, <1>16 DEF Places
<1> QED
  BY <1>1, <1>15, <1>16, <1>17 DEF Precedes, fused
=============================================================================
