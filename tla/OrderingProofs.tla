--------------------------- MODULE OrderingProofs ---------------------------
(***************************************************************************)
(* Lemmas about orders, selections, sums and folds.                        *)
(***************************************************************************)
EXTENDS Ordering, FiniteSetTheorems, SequenceTheorems, WellFoundedInduction, TLAPS

(***************************************************************************)
(* Induction.                                                              *)
(***************************************************************************)
\* A set that holds 0 and, with each number below n, the next one holds all
\* up to n.
LEMMA CountUp ==
  ASSUME NEW n \in Nat, NEW T, 0 \in T, \A i \in 1..n : i - 1 \in T => i \in T
  PROVE  \A i \in 0..n : i \in T
<1> DEFINE Wrong == {i \in 0..n : i \notin T}
<1> SUFFICES ASSUME Wrong # {} PROVE FALSE
  OBVIOUS
<1>1. PICK i \in Wrong : \A j \in Wrong : ~ <<j, i>> \in OpToRel(<, Nat)
  <2>1. Wrong \subseteq Nat
    OBVIOUS
  <2>2. IsWellFoundedOn(OpToRel(<, Nat), Nat)
    BY NatLessThanWellFounded
  <2> HIDE DEF Wrong
  <2> QED
    BY <2>1, <2>2, WFMin
<1>2. i \in 1..n /\ i - 1 \in 0..n
  OBVIOUS
<1>3. i - 1 \notin Wrong
  <2>1. i - 1 \in Nat /\ i \in Nat /\ i - 1 < i
    BY <1>2
  <2>2. <<i - 1, i>> \in OpToRel(<, Nat)
    BY <2>1 DEF OpToRel
  <2> HIDE DEF Wrong
  <2> QED
    BY <1>1, <2>2
<1> QED
  BY <1>2, <1>3

(***************************************************************************)
(* Orders.                                                                 *)
(***************************************************************************)
StrictOrder(R, S) ==
  /\ \A x \in S : <<x, x>> \notin R
  /\ \A x, y, z \in S : <<x, y>> \in R /\ <<y, z>> \in R => <<x, z>> \in R
  /\ \A x, y \in S : x = y \/ <<x, y>> \in R \/ <<y, x>> \in R

\* How many elements come before x.
Rank(R, S, x) == Cardinality({y \in S : <<y, x>> \in R})

\* In a finite total order the ranks are natural numbers, and grow with the
\* order.
LEMMA RanksGrow ==
  ASSUME NEW S, IsFiniteSet(S), NEW R, StrictOrder(R, S)
  PROVE  /\ \A x \in S : Rank(R, S, x) \in 0..Cardinality(S) - 1
         /\ \A x, y \in S : <<x, y>> \in R <=> Rank(R, S, x) < Rank(R, S, y)
<1> DEFINE B(x) == {y \in S : <<y, x>> \in R}
<1>0. Cardinality(S) \in Nat
  BY FS_CardinalityType
<1>1. ASSUME NEW x \in S
      PROVE  IsFiniteSet(B(x)) /\ Cardinality(B(x)) \in Nat
  <2>1. B(x) \in SUBSET S
    OBVIOUS
  <2>2. IsFiniteSet(B(x))
    BY <2>1, FS_Subset
  <2> QED
    BY <2>2, FS_CardinalityType
<1>2. ASSUME NEW x \in S
      PROVE  Cardinality(B(x)) < Cardinality(S)
  <2>1. B(x) \in SUBSET S /\ B(x) # S
    BY DEF StrictOrder
  <2>2. Cardinality(B(x)) <= Cardinality(S) /\ Cardinality(B(x)) # Cardinality(S)
    BY <2>1, FS_Subset
  <2> QED
    BY <1>0, <1>1, <2>2
<1>3. ASSUME NEW x \in S, NEW y \in S, <<x, y>> \in R
      PROVE  Cardinality(B(x)) < Cardinality(B(y))
  <2>1. B(x) \in SUBSET B(y) /\ B(x) # B(y)
    BY <1>3 DEF StrictOrder
  <2>2. Cardinality(B(x)) <= Cardinality(B(y)) /\ Cardinality(B(x)) # Cardinality(B(y))
    BY <1>1, <2>1, FS_Subset
  <2> QED
    BY <1>1, <2>2
<1>4. \A x \in S : Rank(R, S, x) = Cardinality(B(x))
  BY DEF Rank
<1> HIDE DEF B
<1>5. \A x \in S : Rank(R, S, x) \in 0..Cardinality(S) - 1
  BY <1>0, <1>1, <1>2, <1>4
<1>6. ASSUME NEW x \in S, NEW y \in S, Rank(R, S, x) < Rank(R, S, y)
      PROVE  <<x, y>> \in R
  <2>1. CASE <<y, x>> \in R
    BY <1>1, <1>3, <1>4, <1>6, <2>1
  <2>2. CASE x = y
    BY <1>1, <1>4, <1>6, <2>2
  <2> QED
    BY <2>1, <2>2 DEF StrictOrder
<1> QED
  BY <1>3, <1>4, <1>5, <1>6

\* Every rank is somebody's, and of nobody else.
LEMMA RanksAreTaken ==
  ASSUME NEW S, IsFiniteSet(S), NEW R, StrictOrder(R, S)
  PROVE  /\ Cardinality(S) \in Nat
         /\ \A n \in 1..Cardinality(S) : \E x \in S : Rank(R, S, x) = n - 1
         /\ \A x, y \in S : Rank(R, S, x) = Rank(R, S, y) => x = y
<1> DEFINE N == Cardinality(S)
           rank == [x \in S |-> Rank(R, S, x) + 1]
<1>0. N \in Nat
  BY FS_CardinalityType
<1>1. rank \in [S -> 1..N]
  BY <1>0, RanksGrow
<1>2. \A x, y \in S : Rank(R, S, x) = Rank(R, S, y) => x = y
  <2> SUFFICES ASSUME NEW x \in S, NEW y \in S, Rank(R, S, x) = Rank(R, S, y), x # y
               PROVE  FALSE
    OBVIOUS
  <2>1. Rank(R, S, x) < Rank(R, S, y) \/ Rank(R, S, y) < Rank(R, S, x)
    BY RanksGrow DEF StrictOrder
  <2>2. Rank(R, S, x) \in Int /\ Rank(R, S, y) \in Int
    BY <1>0, RanksGrow
  <2> QED
    BY <2>1, <2>2
<1>3. \A x \in S : Rank(R, S, x) \in Int
  BY <1>0, RanksGrow
<1>4. rank \in Injection(S, 1..N)
  BY <1>1, <1>2, <1>3 DEF Injection, IsInjective
<1>5. IsFiniteSet(1..N) /\ Cardinality(1..N) = N
  BY <1>0, FS_Interval
<1>6. rank \in Surjection(S, 1..N)
  <2> HIDE DEF rank
  <2> QED
    BY <1>4, <1>5, FS_Injection
<1>7. ASSUME NEW n \in 1..N
      PROVE  \E x \in S : Rank(R, S, x) = n - 1
  <2>1. PICK x \in S : rank[x] = n
    BY <1>6 DEF Surjection
  <2> QED
    BY <1>3, <2>1
<1> QED
  BY <1>0, <1>2, <1>7

\* A list of the elements by their ranks is in the order, and holds them all.
LEMMA ListedByRank ==
  ASSUME NEW S, IsFiniteSet(S), NEW R, StrictOrder(R, S), NEW p,
         \A n \in 1..Cardinality(S) : p[n] \in S /\ Rank(R, S, p[n]) = n - 1
  PROVE  /\ \A m, n \in 1..Cardinality(S) : <<p[m], p[n]>> \in R <=> m < n
         /\ \A m, n \in 1..Cardinality(S) : p[m] = p[n] => m = n
         /\ \A x \in S : \E n \in 1..Cardinality(S) : p[n] = x
<1> DEFINE N == Cardinality(S)
<1>1. N \in Nat
  BY FS_CardinalityType
<1>2. ASSUME NEW m \in 1..N, NEW n \in 1..N
      PROVE  <<p[m], p[n]>> \in R <=> m < n
  <2>1. p[m] \in S /\ p[n] \in S
    OBVIOUS
  <2>2. <<p[m], p[n]>> \in R <=> Rank(R, S, p[m]) < Rank(R, S, p[n])
    BY <2>1, RanksGrow
  <2>3. Rank(R, S, p[m]) = m - 1 /\ Rank(R, S, p[n]) = n - 1 /\ m \in Int /\ n \in Int
    BY <1>1
  <2> QED
    BY <2>2, <2>3
<1>3. ASSUME NEW m \in 1..N, NEW n \in 1..N, p[m] = p[n]
      PROVE  m = n
  <2>1. Rank(R, S, p[m]) = m - 1 /\ Rank(R, S, p[n]) = n - 1 /\ m \in Int /\ n \in Int
    BY <1>1
  <2> QED
    BY <1>3, <2>1
<1>4. ASSUME NEW x \in S
      PROVE  \E n \in 1..N : p[n] = x
  <2>1. Rank(R, S, x) \in 0..N - 1
    BY RanksGrow
  <2> DEFINE n == Rank(R, S, x) + 1
  <2>2. n \in 1..N /\ n - 1 = Rank(R, S, x)
    BY <1>1, <2>1
  <2>3. p[n] \in S /\ Rank(R, S, p[n]) = Rank(R, S, x)
    BY <2>2
  <2>4. p[n] = x
    BY <2>3, RanksAreTaken
  <2> QED
    BY <2>2, <2>4
<1> QED
  BY <1>2, <1>3, <1>4

\* What an ascending sort of numbers returns: each once, the smallest first.
LEMMA SortedAscending ==
  ASSUME NEW S \in SUBSET Int, IsFiniteSet(S)
  PROVE  /\ Cardinality(S) \in Nat
         /\ Sorted(S, <) \in [1..Cardinality(S) -> S]
         /\ \A m, n \in 1..Cardinality(S) : Sorted(S, <)[m] < Sorted(S, <)[n] <=> m < n
         /\ \A x \in S : \E n \in 1..Cardinality(S) : Sorted(S, <)[n] = x
<1> DEFINE R == {p \in Int \X Int : p[1] < p[2]}
           N == Cardinality(S)
           p == Sorted(S, <)
<1>1. StrictOrder(R, S)
  BY DEF StrictOrder
<1>2. \A x \in S : {y \in S : <<y, x>> \in R} = {y \in S : y < x}
  OBVIOUS
<1>3. \A x \in S : Rank(R, S, x) = Cardinality({y \in S : y < x})
  BY <1>2 DEF Rank
<1>4. p = [n \in 1..N |-> CHOOSE x \in S : Cardinality({y \in S : y < x}) = n - 1]
  BY DEF Sorted
<1>5. \A x, y \in S : <<x, y>> \in R <=> x < y
  OBVIOUS
<1> HIDE DEF R, N, p
<1>6. N \in Nat /\ \A n \in 1..N : \E x \in S : Rank(R, S, x) = n - 1
  <2>1. /\ Cardinality(S) \in Nat
        /\ \A n \in 1..Cardinality(S) : \E x \in S : Rank(R, S, x) = n - 1
    BY <1>1, RanksAreTaken
  <2> QED
    BY <2>1 DEF N
<1>7. ASSUME NEW n \in 1..N
      PROVE  p[n] \in S /\ Rank(R, S, p[n]) = n - 1
  <2>1. \E x \in S : Cardinality({y \in S : y < x}) = n - 1
    BY <1>3, <1>6
  <2>2. p[n] = CHOOSE x \in S : Cardinality({y \in S : y < x}) = n - 1
    BY <1>4
  <2>3. p[n] \in S /\ Cardinality({y \in S : y < p[n]}) = n - 1
    BY <2>1, <2>2
  <2> QED
    BY <1>3, <2>3
<1>8. p \in [1..N -> S]
  BY <1>4, <1>7
<1>9. /\ \A m, n \in 1..N : <<p[m], p[n]>> \in R <=> m < n
      /\ \A x \in S : \E n \in 1..N : p[n] = x
  BY <1>1, <1>7, ListedByRank DEF N
<1>10. \A m, n \in 1..N : p[m] < p[n] <=> m < n
  BY <1>5, <1>7, <1>9
<1> QED
  BY <1>6, <1>8, <1>9, <1>10 DEF N, p

(***************************************************************************)
(* Recursion.                                                              *)
(***************************************************************************)
\* What a step may be that leads from one member of A to another at each
\* element of D.
StepsOf(A, D) == [A \X D -> A]

\* What is reached after 0, 1, ... n steps.
Iterations(A, base, G, n) ==
  {f \in [0..n -> A] : f[0] = base /\ \A i \in 1..n : f[i] = G[<<f[i - 1], i>>]}

\* A step can be iterated.
LEMMA Iteration ==
  ASSUME NEW n \in Nat, NEW A, NEW base \in A, NEW G \in StepsOf(A, 1..n)
  PROVE  Iterations(A, base, G, n) # {}
<1> DEFINE Runs(f, m) == f[0] = base /\ \A i \in 1..m : f[i] = G[<<f[i - 1], i>>]
           T == {m \in 0..n : \E f \in [0..m -> A] : Runs(f, m)}
<1>1. 0 \in T
  <2> DEFINE f == [i \in 0..0 |-> base]
  <2>1. f \in [0..0 -> A] /\ Runs(f, 0)
    OBVIOUS
  <2> HIDE DEF f, Runs
  <2> QED
    BY <2>1
<1>2. ASSUME NEW m \in 1..n, m - 1 \in T
      PROVE  m \in T
  <2>1. PICK f \in [0..m - 1 -> A] : Runs(f, m - 1)
    BY <1>2
  <2> DEFINE last == G[<<f[m - 1], m>>]
             g == [i \in 0..m |-> IF i = m THEN last ELSE f[i]]
  <2>2. last \in A
    BY DEF StepsOf
  <2> HIDE DEF last
  <2>3. g \in [0..m -> A]
    BY <2>2
  <2>4. g[0] = base
    BY <2>1
  <2>5. ASSUME NEW i \in 1..m
        PROVE  g[i] = G[<<g[i - 1], i>>]
    <3>1. i - 1 \in 0..m /\ i - 1 # m /\ g[i - 1] = f[i - 1]
      OBVIOUS
    <3>2. CASE i = m
      <4>1. g[i] = last
        BY <3>2
      <4> HIDE DEF g
      <4> QED
        BY <3>1, <3>2, <4>1 DEF last
    <3>3. CASE i # m
      <4>1. i \in 1..m - 1
        BY <3>3
      <4>2. g[i] = f[i] /\ f[i] = G[<<f[i - 1], i>>]
        BY <2>1, <3>3, <4>1
      <4> HIDE DEF g
      <4> QED
        BY <3>1, <4>2
    <3> QED
      BY <3>2, <3>3
  <2> HIDE DEF g
  <2>6. Runs(g, m)
    BY <2>4, <2>5
  <2> QED
    BY <2>3, <2>6
<1> HIDE DEF T
<1>3. n \in T
  BY <1>1, <1>2, CountUp
<1> QED
  BY <1>3 DEF T, Iterations

\* c picks an element of each part of D.
Picks(c, D) == \A s \in SUBSET D : s # {} => c[s] \in s

\* A recursion over the parts of D, which are left by the element c picks.
Recursive(h, base, G, D, c) ==
  \A s \in SUBSET D :
    h[s] = IF s = {} THEN base ELSE G[<<h[s \ {c[s]}], c[s]>>]

Recursions(A, base, G, D, c) ==
  {h \in [SUBSET D -> A] : Recursive(h, base, G, D, c)}

\* Steps 1, 2, ... n of a recursion over the parts of D.
Unrolled(h, base, G, D, c, n) ==
  /\ \A s \in SUBSET D : h[0][s] = base
  /\ \A i \in 1..n : \A s \in SUBSET D :
       h[i][s] = IF s = {} THEN base ELSE G[<<h[i - 1][s \ {c[s]}], c[s]>>]

\* A recursion over the parts of a finite set, iterated once more than the
\* set has elements, has reached its values.
LEMMA IterationSettles ==
  ASSUME NEW D, IsFiniteSet(D), NEW M, M = Cardinality(D) + 1, NEW base, NEW G,
         NEW c, Picks(c, D),
         NEW h, Unrolled(h, base, G, D, c, M)
  PROVE  Recursive(h[M], base, G, D, c)
<1>0. /\ \A s \in SUBSET D : h[0][s] = base
      /\ \A i \in 1..M : \A s \in SUBSET D :
           h[i][s] = IF s = {} THEN base ELSE G[<<h[i - 1][s \ {c[s]}], c[s]>>]
  BY DEF Unrolled
<1> DEFINE N == Cardinality(D)
<1>1. N \in Nat /\ M = N + 1
  BY FS_CardinalityType
<1>2. ASSUME NEW s \in SUBSET D
      PROVE  /\ Cardinality(s) \in 0..N
             /\ s # {} => /\ s \ {c[s]} \in SUBSET D
                          /\ Cardinality(s \ {c[s]}) < Cardinality(s)
  <2>1. IsFiniteSet(s) /\ Cardinality(s) <= N
    BY FS_Subset
  <2>2. Cardinality(s) \in Nat
    BY <2>1, FS_CardinalityType
  <2>3. s # {} => Cardinality(s \ {c[s]}) = Cardinality(s) - 1
    BY <2>1, FS_RemoveElement DEF Picks
  <2> QED
    BY <1>1, <2>1, <2>2, <2>3
<1> HIDE DEF N
<1> DEFINE Same(i) == \A s \in SUBSET D : Cardinality(s) < i => h[i][s] = h[i - 1][s]
           T == {i \in 0..M : i = 0 \/ Same(i)}
<1>3. ASSUME NEW i \in 1..M, i - 1 \in T
      PROVE  i \in T
  <2>1. ASSUME NEW s \in SUBSET D, Cardinality(s) < i, s # {}
        PROVE  h[i][s] = h[i - 1][s]
    <3> DEFINE t == s \ {c[s]}
    <3>0. t \in SUBSET D /\ Cardinality(t) < Cardinality(s)
      BY <1>2, <2>1
    <3> HIDE DEF t
    <3>5. Cardinality(t) \in 0..N /\ Cardinality(s) \in 0..N
      BY <1>2, <3>0
    <3>1. t \in SUBSET D /\ Cardinality(t) < i - 1 /\ i - 1 \in 1..M
      BY <1>1, <2>1, <3>0, <3>5
    <3>2. h[i - 1][t] = h[(i - 1) - 1][t]
      BY <1>3, <3>1
    <3>3. h[i][s] = G[<<h[i - 1][t], c[s]>>]
      BY <1>0, <2>1 DEF t
    <3>4. h[i - 1][s] = G[<<h[(i - 1) - 1][t], c[s]>>]
      BY <1>0, <2>1, <3>1 DEF t
    <3> QED
      BY <3>2, <3>3, <3>4
  <2>2. h[i][{}] = base
    BY <1>0
  <2>3. h[i - 1][{}] = base
    <3>1. CASE i = 1
      BY <1>0, <3>1
    <3>2. CASE i # 1
      <4>1. i - 1 \in 1..M
        BY <1>1, <3>2
      <4> QED
        BY <1>0, <4>1
    <3> QED
      BY <3>1, <3>2
  <2>4. Same(i)
    BY <2>1, <2>2, <2>3
  <2> HIDE DEF Same
  <2> QED
    BY <2>4
<1>4. 0 \in T
  BY <1>1
<1>5. Same(M)
  <2>1. M \in Nat /\ M \in 0..M /\ M # 0
    BY <1>1
  <2>2. \A i \in 0..M : i \in T
    <3> HIDE DEF T
    <3> QED
      BY <1>3, <1>4, <2>1, CountUp
  <2> QED
    BY <2>1, <2>2
<1> SUFFICES ASSUME NEW s \in SUBSET D
             PROVE  h[M][s] = IF s = {} THEN base ELSE G[<<h[M][s \ {c[s]}], c[s]>>]
  BY DEF Recursive
<1>6. M \in 1..M /\ M - 1 = N
  BY <1>1
<1>7. h[M][s] = IF s = {} THEN base ELSE G[<<h[N][s \ {c[s]}], c[s]>>]
  BY <1>0, <1>6
<1>8. s # {} => h[M][s \ {c[s]}] = h[N][s \ {c[s]}]
  <2> SUFFICES ASSUME s # {}
               PROVE  h[M][s \ {c[s]}] = h[N][s \ {c[s]}]
    OBVIOUS
  <2> DEFINE t == s \ {c[s]}
  <2>1. t \in SUBSET D
    OBVIOUS
  <2> HIDE DEF t
  <2>2. Cardinality(t) \in 0..N
    BY <1>2, <2>1
  <2>3. Cardinality(t) < N + 1
    BY <1>1, <2>2
  <2> QED
    BY <1>5, <1>6, <2>1, <2>3 DEF t
<1> QED
  BY <1>7, <1>8

\* A step iterated over the elements of a finite set, which c picks one by one:
\* there is a function that holds what is reached for each part of the set.
LEMMA SetRecursion ==
  ASSUME NEW D, IsFiniteSet(D), NEW A, NEW base \in A, NEW G \in StepsOf(A, D),
         NEW c, Picks(c, D)
  PROVE  Recursions(A, base, G, D, c) # {}
<1> DEFINE N == Cardinality(D)
           M == N + 1
           F == [SUBSET D -> A]
           Then(f) == [s \in SUBSET D |->
                         IF s = {} THEN base ELSE G[<<f[s \ {c[s]}], c[s]>>]]
           H == [p \in F \X (1..M) |-> Then(p[1])]
           start == [s \in SUBSET D |-> base]
<1>1. N \in Nat /\ M \in Nat /\ M = N + 1
  BY FS_CardinalityType
<1>2. ASSUME NEW f \in F
      PROVE  Then(f) \in F
  <2>1. ASSUME NEW s \in SUBSET D, s # {}
        PROVE  G[<<f[s \ {c[s]}], c[s]>>] \in A
    <3>1. c[s] \in D /\ s \ {c[s]} \in SUBSET D
      BY <2>1 DEF Picks
    <3> QED
      BY <3>1 DEF StepsOf
  <2> QED
    BY <2>1
<1>3. start \in F
  OBVIOUS
<1>4. H \in StepsOf(F, 1..M)
  <2> HIDE DEF Then, F
  <2>1. \A p \in F \X (1..M) : Then(p[1]) \in F
    BY <1>2
  <2> QED
    BY <2>1 DEF StepsOf
<1>5. \A f \in F, i \in 1..M : H[<<f, i>>] = Then(f)
  <2> HIDE DEF Then, F
  <2> QED
    OBVIOUS
<1>6. PICK h \in [0..M -> F] :
        h[0] = start /\ \A i \in 1..M : h[i] = H[<<h[i - 1], i>>]
  <2> HIDE DEF F, Then, H, start, M
  <2>1. Iterations(F, start, H, M) # {}
    BY <1>1, <1>3, <1>4, Iteration
  <2> QED
    BY <2>1 DEF Iterations
<1>7. h[0] = start /\ \A i \in 1..M : h[i] = Then(h[i - 1])
  <2> HIDE DEF F, Then, H, start, M
  <2>1. \A i \in 1..M : i - 1 \in 0..M
    BY <1>1
  <2> QED
    BY <1>5, <1>6, <2>1
<1>8. \A s \in SUBSET D : h[0][s] = base
  BY <1>7
<1>9. \A i \in 1..M : \A s \in SUBSET D :
        h[i][s] = IF s = {} THEN base ELSE G[<<h[i - 1][s \ {c[s]}], c[s]>>]
  <2> TAKE i \in 1..M
  <2>1. h[i] = Then(h[i - 1])
    BY <1>7
  <2> TAKE s \in SUBSET D
  <2>2. Then(h[i - 1])[s] = IF s = {} THEN base ELSE G[<<h[i - 1][s \ {c[s]}], c[s]>>]
    OBVIOUS
  <2> QED
    BY <2>1, <2>2
<1>10. Recursive(h[M], base, G, D, c)
  <2>1. M = Cardinality(D) + 1
    OBVIOUS
  <2> HIDE DEF F, Then, H, start, M, N
  <2>2. Unrolled(h, base, G, D, c, M)
    BY <1>8, <1>9 DEF Unrolled
  <2> QED
    BY <2>1, <2>2, IterationSettles
<1>11. h[M] \in F
  <2> HIDE DEF F, M
  <2>1. M \in 0..M
    BY <1>1
  <2> QED
    BY <1>7, <2>1
<1> QED
  BY <1>10, <1>11 DEF Recursions

\* A set that holds each part of D all of whose parts, one element smaller, it
\* holds, holds all parts of D.
LEMMA PartByPart ==
  ASSUME NEW D, IsFiniteSet(D), NEW T,
         \A s \in SUBSET D : (\A x \in s : s \ {x} \in T) => s \in T
  PROVE  \A s \in SUBSET D : s \in T
<1> DEFINE N == Cardinality(D)
           U == {n \in 0..N : \A s \in SUBSET D : Cardinality(s) = n => s \in T}
<1>1. N \in Nat
  BY FS_CardinalityType
<1>2. ASSUME NEW s \in SUBSET D
      PROVE  /\ Cardinality(s) \in 0..N
             /\ Cardinality(s) = 0 => s = {}
             /\ \A x \in s : Cardinality(s \ {x}) = Cardinality(s) - 1
  <2>1. IsFiniteSet(s) /\ Cardinality(s) <= N
    BY FS_Subset
  <2>2. Cardinality(s) \in Nat
    BY <2>1, FS_CardinalityType
  <2>3. \A x \in s : Cardinality(s \ {x}) = Cardinality(s) - 1
    BY <2>1, FS_RemoveElement
  <2>4. Cardinality(s) = 0 => s = {}
    BY <2>1, FS_EmptySet
  <2> QED
    BY <1>1, <2>1, <2>2, <2>3, <2>4
<1> HIDE DEF N
<1>3. 0 \in U
  BY <1>1, <1>2
<1>4. ASSUME NEW n \in 1..N, n - 1 \in U
      PROVE  n \in U
  <2>1. ASSUME NEW s \in SUBSET D, Cardinality(s) = n
        PROVE  s \in T
    <3>1. \A x \in s : s \ {x} \in SUBSET D /\ Cardinality(s \ {x}) = n - 1
      BY <1>2, <2>1
    <3>2. \A x \in s : s \ {x} \in T
      BY <1>4, <3>1
    <3> QED
      BY <3>2
  <2> QED
    BY <1>1, <2>1
<1>5. \A n \in 0..N : n \in U
  <2> HIDE DEF U
  <2> QED
    BY <1>1, <1>3, <1>4, CountUp
<1> QED
  BY <1>2, <1>5

\* A sum over a set may be taken in any order.
Sum(f, S) == FoldFunctionOnSet(+, 0, f, S)

Sums(h, f, D) ==
  /\ h \in [SUBSET D -> Nat]
  /\ h[{}] = 0
  /\ \A s \in SUBSET D : \A x \in s : h[s] = f[x] + h[s \ {x}]

\* The sums can be added up in any order.
LEMMA SumsExist ==
  ASSUME NEW D, IsFiniteSet(D), NEW f, \A x \in D : f[x] \in Nat
  PROVE  \E h : Sums(h, f, D)
<1> DEFINE c == [s \in SUBSET D |-> CHOOSE x \in s : TRUE]
           G == [p \in Nat \X D |-> f[p[2]] + p[1]]
<1>1. Picks(c, D)
  BY DEF Picks
<1>2. G \in StepsOf(Nat, D)
  BY DEF StepsOf
<1>3. \A n \in Nat, x \in D : G[<<n, x>>] = f[x] + n
  OBVIOUS
<1> HIDE DEF c, G
<1>4. PICK h \in [SUBSET D -> Nat] : Recursive(h, 0, G, D, c)
  <2>1. Recursions(Nat, 0, G, D, c) # {}
    BY <1>1, <1>2, SetRecursion
  <2> QED
    BY <2>1 DEF Recursions
<1>5. h[{}] = 0
  BY <1>4 DEF Recursive
<1>6. ASSUME NEW s \in SUBSET D, s # {}
      PROVE  c[s] \in s /\ h[s] = f[c[s]] + h[s \ {c[s]}]
  <2>1. c[s] \in s
    BY <1>1, <1>6 DEF Picks
  <2>2. h[s] = G[<<h[s \ {c[s]}], c[s]>>]
    BY <1>4, <1>6 DEF Recursive
  <2>3. h[s \ {c[s]}] \in Nat /\ c[s] \in D
    BY <2>1
  <2> QED
    BY <1>3, <2>1, <2>2, <2>3
<1> DEFINE T == {s \in SUBSET D : \A x \in s : h[s] = f[x] + h[s \ {x}]}
<1>7. ASSUME NEW s \in SUBSET D, \A x \in s : s \ {x} \in T
      PROVE  s \in T
  <2> SUFFICES ASSUME NEW x \in s, x # c[s]
               PROVE  h[s] = f[x] + h[s \ {x}]
    BY <1>6
  <2> DEFINE y == c[s]
             r == (s \ {y}) \ {x}
  <2>1. y \in s /\ h[s] = f[y] + h[s \ {y}]
    BY <1>6
  <2> HIDE DEF y
  <2>2. x \in s \ {y} /\ y \in s \ {x} /\ (s \ {x}) \ {y} = r
    BY <2>1 DEF y
  <2>3. h[s \ {y}] = f[x] + h[r]
    BY <1>7, <2>1, <2>2
  <2>4. h[s \ {x}] = f[y] + h[r]
    BY <1>7, <2>2
  <2>5. h[r] \in Nat /\ f[x] \in Nat /\ f[y] \in Nat
    BY <2>1
  <2> QED
    BY <2>1, <2>3, <2>4, <2>5
<1>8. \A s \in SUBSET D : s \in T
  <2> HIDE DEF T
  <2> QED
    BY <1>7, PartByPart
<1> QED
  BY <1>5, <1>8 DEF Sums

\* The fold over a part of D is the sum over it.
LEMMA SumIsFold ==
  ASSUME NEW D, IsFiniteSet(D), NEW f, NEW h, Sums(h, f, D), NEW S \in SUBSET D
  PROVE  Sum(f, S) = h[S]
<1> DEFINE Eq(g) == g = [s \in SUBSET S |-> IF s = {} THEN 0
                            ELSE LET x == CHOOSE x \in s : TRUE IN f[x] + g[s \ {x}]]
           it == CHOOSE g : Eq(g)
           g0 == [s \in SUBSET S |-> h[s]]
<1>1. Sum(f, S) = it[S]
  BY DEF Sum, FoldFunctionOnSet, MapThenFoldSet
<1>2. ASSUME NEW s \in SUBSET S, s # {}, NEW x, x = CHOOSE y \in s : TRUE
      PROVE  x \in s /\ s \ {x} \in SUBSET S /\ s \in SUBSET D /\ h[s] = f[x] + h[s \ {x}]
  <2>1. x \in s
    BY <1>2
  <2> QED
    BY <2>1 DEF Sums
<1>3. ASSUME NEW s \in SUBSET S
      PROVE  g0[s] = IF s = {} THEN 0
                     ELSE LET x == CHOOSE x \in s : TRUE IN f[x] + g0[s \ {x}]
  <2>1. CASE s = {}
    BY <2>1 DEF Sums
  <2>2. CASE s # {}
    BY <1>2, <2>2
  <2> QED
    BY <2>1, <2>2
<1>4. Eq(g0)
  BY <1>3
<1>5. Eq(it)
  <2> HIDE DEF Eq, g0
  <2> QED
    BY <1>4
<1> DEFINE T == {s \in SUBSET S : it[s] = h[s]}
<1> HIDE DEF it, g0
<1>6. ASSUME NEW s \in SUBSET S, \A x \in s : s \ {x} \in T
      PROVE  s \in T
  <2>1. CASE s = {}
    BY <1>5, <2>1 DEF Sums
  <2>2. CASE s # {}
    <3> DEFINE x == CHOOSE x \in s : TRUE
    <3>1. it[s] = f[x] + it[s \ {x}]
      BY <1>5, <2>2
    <3>2. x \in s /\ h[s] = f[x] + h[s \ {x}]
      BY <1>2, <2>2
    <3> QED
      BY <1>6, <3>1, <3>2
  <2> QED
    BY <2>1, <2>2
<1>7. \A s \in SUBSET S : s \in T
  <2>1. IsFiniteSet(S)
    BY FS_Subset
  <2> HIDE DEF T
  <2> QED
    BY <1>6, <2>1, PartByPart
<1> QED
  BY <1>1, <1>7

\* A sum grows with its set and with each of its terms.
LEMMA SumsGrow ==
  ASSUME NEW D, IsFiniteSet(D), NEW f, NEW g,
         \A x \in D : f[x] \in Nat /\ g[x] \in Nat /\ f[x] <= g[x]
  PROVE  /\ \A S \in SUBSET D : Sum(f, S) \in Nat /\ Sum(f, S) <= Sum(g, S)
         /\ \A T \in SUBSET D : \A S \in SUBSET T : Sum(f, S) <= Sum(f, T)
         /\ \A S \in SUBSET D : \A x \in S : f[x] < g[x] => Sum(f, S) < Sum(g, S)
<1>1. PICK h : Sums(h, f, D)
  BY SumsExist
<1>2. PICK k : Sums(k, g, D)
  BY SumsExist
<1>3. /\ h[{}] = 0 /\ k[{}] = 0
      /\ \A s \in SUBSET D : h[s] \in Nat /\ k[s] \in Nat
      /\ \A s \in SUBSET D : \A x \in s :
           h[s] = f[x] + h[s \ {x}] /\ k[s] = g[x] + k[s \ {x}]
  BY <1>1, <1>2 DEF Sums
<1>4. \A S \in SUBSET D : Sum(f, S) = h[S] /\ Sum(g, S) = k[S]
  BY <1>1, <1>2, SumIsFold
<1> DEFINE T1 == {s \in SUBSET D : h[s] <= k[s]}
           T2 == {t \in SUBSET D : \A s \in SUBSET t : h[s] <= h[t]}
<1>5. ASSUME NEW s \in SUBSET D, \A x \in s : s \ {x} \in T1
      PROVE  s \in T1
  <2>1. CASE s = {}
    BY <1>3, <2>1
  <2>2. ASSUME NEW x \in s
        PROVE  s \in T1
    <3>1. h[s] = f[x] + h[s \ {x}] /\ k[s] = g[x] + k[s \ {x}]
      BY <1>3
    <3>2. h[s \ {x}] <= k[s \ {x}] /\ h[s \ {x}] \in Nat /\ k[s \ {x}] \in Nat
      BY <1>3, <1>5
    <3> QED
      BY <3>1, <3>2
  <2> QED
    BY <2>1, <2>2
<1>6. \A s \in SUBSET D : s \in T1
  <2> HIDE DEF T1
  <2> QED
    BY <1>5, PartByPart
<1>7. ASSUME NEW t \in SUBSET D, \A x \in t : t \ {x} \in T2
      PROVE  t \in T2
  <2> SUFFICES ASSUME NEW s \in SUBSET t, s # t
               PROVE  h[s] <= h[t]
    BY <1>3
  <2>1. PICK x \in t : x \notin s
    OBVIOUS
  <2>2. h[s] <= h[t \ {x}]
    BY <1>7, <2>1
  <2>3. h[t] = f[x] + h[t \ {x}] /\ h[s] \in Nat /\ h[t \ {x}] \in Nat
    BY <1>3
  <2> QED
    BY <2>2, <2>3
<1>8. \A t \in SUBSET D : t \in T2
  <2> HIDE DEF T2
  <2> QED
    BY <1>7, PartByPart
<1>9. ASSUME NEW s \in SUBSET D, NEW x \in s, f[x] < g[x]
      PROVE  h[s] < k[s]
  <2>1. h[s] = f[x] + h[s \ {x}] /\ k[s] = g[x] + k[s \ {x}]
    BY <1>3
  <2>2. h[s \ {x}] <= k[s \ {x}] /\ h[s \ {x}] \in Nat /\ k[s \ {x}] \in Nat
    BY <1>3, <1>6
  <2> QED
    BY <1>9, <2>1, <2>2
<1>10. \A S \in SUBSET D : Sum(f, S) \in Nat /\ Sum(f, S) <= Sum(g, S)
  BY <1>3, <1>4, <1>6
<1>11. \A T \in SUBSET D : \A S \in SUBSET T : Sum(f, S) <= Sum(f, T)
  <2> SUFFICES ASSUME NEW T \in SUBSET D, NEW S \in SUBSET T
               PROVE  Sum(f, S) <= Sum(f, T)
    OBVIOUS
  <2>1. S \in SUBSET D /\ T \in T2
    BY <1>8
  <2> QED
    BY <1>4, <2>1
<1>12. \A S \in SUBSET D : \A x \in S : f[x] < g[x] => Sum(f, S) < Sum(g, S)
  BY <1>4, <1>9
<1> QED
  BY <1>10, <1>11, <1>12

(***************************************************************************)
(* Sequences.                                                              *)
(***************************************************************************)
\* The places a selection takes, in their order.
Taken(p, S) ==
  /\ p \in [1..Cardinality(S) -> S]
  /\ \A m, n \in 1..Cardinality(S) : p[m] < p[n] <=> m < n
  /\ \A i \in S : \E n \in 1..Cardinality(S) : p[n] = i

\* What a selection returns: the elements at some places, in their order.
LEMMA AtSelects ==
  ASSUME NEW A, NEW s \in Seq(A), NEW S \in SUBSET (1..Len(s))
  PROVE  /\ Cardinality(S) \in Nat
         /\ At(s, S) \in Seq(A) /\ DOMAIN At(s, S) = 1..Cardinality(S)
         /\ ToSet(At(s, S)) = {s[i] : i \in S}
         /\ \E p : Taken(p, S) /\ \A n \in 1..Cardinality(S) : At(s, S)[n] = s[p[n]]
<1> DEFINE p == Sorted(S, <)
           N == Cardinality(S)
<1>1. IsFiniteSet(S) /\ S \in SUBSET Int
  <2>1. Len(s) \in Nat
    OBVIOUS
  <2>2. IsFiniteSet(1..Len(s))
    BY <2>1, FS_Interval
  <2>3. IsFiniteSet(S)
    BY <2>2, FS_Subset
  <2> QED
    BY <2>1, <2>3
<1>2. N \in Nat /\ Taken(p, S)
  BY <1>1, SortedAscending DEF Taken
<1>3. At(s, S) = [n \in DOMAIN p |-> s[p[n]]]
  BY DEF At
<1> HIDE DEF p, N
<1>4. DOMAIN p = 1..N /\ \A n \in 1..N : p[n] \in S
  BY <1>2 DEF Taken, N
<1>5. \A i \in S : s[i] \in A
  OBVIOUS
<1>6. At(s, S) = [n \in 1..N |-> s[p[n]]] /\ \A n \in 1..N : s[p[n]] \in A
  BY <1>3, <1>4, <1>5
<1>7. At(s, S) \in Seq(A)
  <2>1. At(s, S) \in [1..N -> A]
    BY <1>6
  <2> QED
    BY <1>2, <2>1, SeqDef
<1>8. ToSet(At(s, S)) = {s[i] : i \in S}
  <2>1. ToSet(At(s, S)) = {s[p[n]] : n \in 1..N}
    BY <1>6 DEF ToSet
  <2>2. \A i \in S : \E n \in 1..N : p[n] = i
    BY <1>2 DEF Taken, N
  <2> QED
    BY <1>4, <2>1, <2>2
<1> QED
  BY <1>2, <1>6, <1>7, <1>8 DEF N

\* The elements of a concatenation.
LEMMA Concatenated ==
  ASSUME NEW A, NEW a \in Seq(A), NEW b \in Seq(A)
  PROVE  a \o b \in Seq(A) /\ ToSet(a \o b) = ToSet(a) \cup ToSet(b)
<1>1. Range(a \o b) = Range(a) \cup Range(b)
  BY RangeConcatenation
<1>2. \A s : Range(s) = ToSet(s)
  BY DEF Range, ToSet
<1>3. a \o b \in Seq(A)
  OBVIOUS
<1> QED
  BY <1>1, <1>2, <1>3

\* f holds the concatenations of 0, 1, ... sequences of ss.
Concatenations(f, A, ss) ==
  /\ f \in [0..Len(ss) -> Seq(A)] /\ f[0] = <<>>
  /\ \A i \in 1..Len(ss) : f[i] = f[i - 1] \o ss[i]

\* What flattening returns.
LEMMA FlattenConcatenates ==
  ASSUME NEW A, NEW ss \in Seq(Seq(A))
  PROVE  \E f : Concatenations(f, A, ss) /\ FlattenSeq(ss) = f[Len(ss)]
<1> DEFINE N == Len(ss)
           G == [p \in Seq(A) \X (1..N) |-> p[1] \o ss[p[2]]]
<1>1. N \in Nat /\ \A i \in 1..N : ss[i] \in Seq(A)
  OBVIOUS
<1> HIDE DEF N
<1>2. G \in StepsOf(Seq(A), 1..N)
  <2>1. \A p \in Seq(A) \X (1..N) : p[1] \o ss[p[2]] \in Seq(A)
    BY <1>1
  <2> QED
    BY <2>1 DEF StepsOf
<1>3. \A q \in Seq(A), i \in 1..N : G[<<q, i>>] = q \o ss[i]
  OBVIOUS
<1>4. <<>> \in Seq(A)
  OBVIOUS
<1> HIDE DEF G
<1>5. PICK f \in Iterations(Seq(A), <<>>, G, N) : TRUE
  BY <1>1, <1>2, <1>4, Iteration
<1>6. f \in [0..N -> Seq(A)] /\ f[0] = <<>>
  BY <1>5 DEF Iterations
<1>7. ASSUME NEW i \in 1..N
      PROVE  f[i] = f[i - 1] \o ss[i]
  <2>1. i - 1 \in 0..N
    BY <1>1
  <2> QED
    BY <1>3, <1>5, <1>6, <2>1 DEF Iterations
<1>10. 1 \in 1..N => f[1] = <<>> \o ss[1] /\ ss[1] \in Seq(A)
  <2>1. 1 - 1 = 0
    OBVIOUS
  <2> QED
    BY <1>1, <1>6, <1>7, <2>1
<1>8. Concatenations(f, A, ss)
  BY <1>6, <1>7 DEF Concatenations, N
<1>9. FlattenSeq(ss) = f[N]
  <2>1. CASE N = 0
    <3>1. ss = <<>>
      BY <2>1 DEF N
    <3> QED
      BY <1>6, <2>1, <3>1 DEF FlattenSeq, N
  <2>2. CASE N # 0
    <3> DEFINE Eq(g) == g = [i \in 1..N |-> IF i = 1 THEN ss[i] ELSE g[i - 1] \o ss[i]]
               it == CHOOSE g : Eq(g)
               f0 == [i \in 1..N |-> f[i]]
    <3>1. FlattenSeq(ss) = it[N]
      BY <2>2 DEF FlattenSeq, N
    <3>2. ASSUME NEW i \in 1..N
          PROVE  f0[i] = IF i = 1 THEN ss[i] ELSE f0[i - 1] \o ss[i]
      <4>1. CASE i = 1
        <5>1. f[1] = <<>> \o ss[1] /\ ss[1] \in Seq(A)
          BY <1>10, <4>1
        <5> QED
          BY <4>1, <5>1
      <4>2. CASE i # 1
        <5>1. i - 1 \in 1..N
          BY <1>1, <4>2
        <5> QED
          BY <1>7, <4>2, <5>1
      <4> QED
        BY <4>1, <4>2
    <3>3. Eq(f0)
      BY <3>2
    <3>4. Eq(it)
      <4> HIDE DEF Eq, f0
      <4> QED
        BY <3>3
    <3> DEFINE T == {i \in 0..N : i = 0 \/ it[i] = f[i]}
    <3> HIDE DEF it, f0
    <3>5. ASSUME NEW i \in 1..N, i - 1 \in T
          PROVE  i \in T
      <4>1. CASE i = 1
        <5>1. it[1] = ss[1] /\ f[1] = <<>> \o ss[1] /\ ss[1] \in Seq(A)
          BY <1>10, <3>4, <4>1
        <5> QED
          BY <4>1, <5>1
      <4>2. CASE i # 1
        <5>1. i - 1 # 0
          BY <1>1, <4>2
        <5>2. it[i] = it[i - 1] \o ss[i]
          BY <3>4, <4>2
        <5>3. it[i - 1] = f[i - 1]
          BY <3>5, <5>1
        <5>4. f[i] = f[i - 1] \o ss[i]
          BY <1>7
        <5>5. i \in 0..N
          BY <1>1
        <5> QED
          BY <5>2, <5>3, <5>4, <5>5
      <4> QED
        BY <4>1, <4>2
    <3>6. 0 \in T
      BY <1>1
    <3>7. \A i \in 0..N : i \in T
      <4> HIDE DEF T
      <4> QED
        BY <1>1, <3>5, <3>6, CountUp
    <3> QED
      BY <1>1, <2>2, <3>1, <3>7
  <2> QED
    BY <2>1, <2>2
<1> QED
  BY <1>8, <1>9 DEF N

\* Its elements are those of the sequences, and one more sequence goes to its
\* end.
LEMMA Flattened ==
  ASSUME NEW A, NEW ss \in Seq(Seq(A))
  PROVE  /\ FlattenSeq(ss) \in Seq(A)
         /\ ToSet(FlattenSeq(ss)) = UNION {ToSet(ss[i]) : i \in DOMAIN ss}
         /\ ss = <<>> => FlattenSeq(ss) = <<>>
         /\ \A s \in Seq(A) : FlattenSeq(Append(ss, s)) = FlattenSeq(ss) \o s
<1> DEFINE N == Len(ss)
<1>1. N \in Nat /\ DOMAIN ss = 1..N /\ \A i \in 1..N : ss[i] \in Seq(A)
  OBVIOUS
<1>2. PICK f : Concatenations(f, A, ss) /\ FlattenSeq(ss) = f[N]
  BY FlattenConcatenates
<1>3. f \in [0..N -> Seq(A)] /\ f[0] = <<>> /\ \A i \in 1..N : f[i] = f[i - 1] \o ss[i]
  BY <1>2 DEF Concatenations
<1>8. ss = <<>> => N = 0
  OBVIOUS
<1> HIDE DEF N
<1>4. N \in 0..N
  BY <1>1
<1>5. FlattenSeq(ss) \in Seq(A)
  BY <1>2, <1>3, <1>4
<1>6. ToSet(FlattenSeq(ss)) = UNION {ToSet(ss[i]) : i \in 1..N}
  <2> DEFINE T == {n \in 0..N : ToSet(f[n]) = UNION {ToSet(ss[i]) : i \in 1..n}}
  <2>1. 0 \in T
    BY <1>1, <1>3 DEF ToSet
  <2>2. ASSUME NEW n \in 1..N, n - 1 \in T
        PROVE  n \in T
    <3>1. f[n] = f[n - 1] \o ss[n] /\ f[n - 1] \in Seq(A) /\ ss[n] \in Seq(A)
      <4>1. n - 1 \in 0..N
        BY <1>1
      <4> QED
        BY <1>1, <1>3, <4>1
    <3>2. ToSet(f[n]) = ToSet(f[n - 1]) \cup ToSet(ss[n])
      BY <3>1, Concatenated
    <3>3. 1..n = (1..n - 1) \cup {n}
      BY <1>1
    <3> QED
      BY <2>2, <3>2, <3>3
  <2>3. \A n \in 0..N : n \in T
    <3> HIDE DEF T
    <3> QED
      BY <1>1, <2>1, <2>2, CountUp
  <2> QED
    BY <1>2, <1>4, <2>3
<1>7. ASSUME NEW s \in Seq(A)
      PROVE  FlattenSeq(Append(ss, s)) = FlattenSeq(ss) \o s
  <2> DEFINE tt == Append(ss, s)
  <2>1. /\ tt \in Seq(Seq(A)) /\ Len(tt) = N + 1
        /\ tt[N + 1] = s /\ \A i \in 1..N : tt[i] = ss[i]
    BY DEF N
  <2> HIDE DEF tt
  <2>2. PICK g : Concatenations(g, A, tt) /\ FlattenSeq(tt) = g[Len(tt)]
    BY <2>1, FlattenConcatenates
  <2>3. g[0] = <<>> /\ \A i \in 1..N + 1 : g[i] = g[i - 1] \o tt[i]
    BY <2>1, <2>2 DEF Concatenations
  <2> DEFINE T == {n \in 0..N : g[n] = f[n]}
  <2>4. 0 \in T
    BY <1>1, <1>3, <2>3
  <2>5. ASSUME NEW n \in 1..N, n - 1 \in T
        PROVE  n \in T
    <3>1. n \in 0..N /\ n \in 1..N + 1
      BY <1>1
    <3>2. g[n] = g[n - 1] \o ss[n] /\ f[n] = f[n - 1] \o ss[n]
      BY <1>3, <2>1, <2>3, <3>1
    <3> QED
      BY <2>5, <3>1, <3>2
  <2>6. \A n \in 0..N : n \in T
    <3> HIDE DEF T
    <3> QED
      BY <1>1, <2>4, <2>5, CountUp
  <2>7. g[N + 1] = g[N] \o s
    <3>1. N + 1 \in 1..N + 1 /\ (N + 1) - 1 = N
      BY <1>1
    <3> QED
      BY <2>1, <2>3, <3>1
  <2> QED
    BY <1>2, <1>4, <2>1, <2>2, <2>6, <2>7 DEF tt
<1>9. ss = <<>> => FlattenSeq(ss) = <<>>
  BY <1>2, <1>3, <1>8
<1> QED
  BY <1>1, <1>5, <1>6, <1>7, <1>9

(***************************************************************************)
(* The smallest and the largest number.                                    *)
(***************************************************************************)
\* What Min returns.
LEMMA Smallest ==
  ASSUME NEW S \in SUBSET Nat, S # {}
  PROVE  Min(S) \in S /\ \A x \in S : Min(S) <= x
<1>1. PICK x \in S : \A y \in S : ~ <<y, x>> \in OpToRel(<, Nat)
  BY NatLessThanWellFounded, WFMin
<1>2. ASSUME NEW y \in S
      PROVE  x <= y
  <2>1. x \in Nat /\ y \in Nat
    OBVIOUS
  <2>2. ~(y < x)
    BY <1>1, <2>1 DEF OpToRel
  <2> QED
    BY <2>1, <2>2
<1> QED
  BY <1>2 DEF Min

\* What Max returns, of numbers up to n.
LEMMA Largest ==
  ASSUME NEW n \in Nat, NEW S \in SUBSET (0..n), S # {}
  PROVE  Max(S) \in S /\ \A x \in S : x <= Max(S)
<1> DEFINE T == {n - x : x \in S}
<1>1. T \in SUBSET Nat /\ T # {}
  <2>1. \A x \in S : x \in 0..n
    OBVIOUS
  <2>2. \A x \in S : n - x \in Nat
    BY <2>1
  <2> QED
    BY <2>2
<1> HIDE DEF T
<1>2. Min(T) \in T /\ \A y \in T : Min(T) <= y
  BY <1>1, Smallest
<1>3. PICK x \in S : Min(T) = n - x
  BY <1>2 DEF T
<1>4. \A y \in S : n - x <= n - y
  BY <1>2, <1>3 DEF T
<1>5. \A y \in S : x >= y
  BY <1>4
<1> QED
  BY <1>5 DEF Max

\* h goes through 1, 2, ... n in this order.
InTurn(h, base, G, n) ==
  /\ h[1..0] = base
  /\ \A i \in 1..n : h[1..i] = G[<<h[1..i - 1], i>>]

\* A recursion over the parts of 1..n that is left by the largest element does.
LEMMA LargestLast ==
  ASSUME NEW n \in Nat, NEW h, NEW base, NEW G,
         NEW c, c = [s \in SUBSET (1..n) |-> Max(s)], Recursive(h, base, G, 1..n, c)
  PROVE  InTurn(h, base, G, n)
<1> DEFINE D == 1..n
<1>1. 1..0 = {}
  OBVIOUS
<1>2. h[1..0] = base
  BY <1>1 DEF Recursive
<1>3. ASSUME NEW i \in 1..n
      PROVE  h[1..i] = G[<<h[1..i - 1], i>>]
  <2>1. i \in Nat /\ 1..i \in SUBSET (0..i) /\ 1..i # {} /\ i \in 1..i /\ \A x \in 1..i : x <= i
    OBVIOUS
  <2> DEFINE s == 1..i
             m == Max(s)
  <2>2. m \in s /\ \A x \in s : x <= m
    BY <2>1, Largest
  <2>3. m = i
    BY <2>1, <2>2
  <2>4. s \in SUBSET D /\ s # {} /\ s \ {i} = 1..i - 1
    BY <2>1
  <2> HIDE DEF s, D
  <2>5. h[s] = G[<<h[s \ {m}], m>>]
    BY <2>4 DEF Recursive, D
  <2> HIDE DEF m
  <2> QED
    BY <2>3, <2>4, <2>5 DEF s
<1> QED
  BY <1>2, <1>3 DEF InTurn

\* Of each part of 1..n the largest element can be picked.
LEMMA LargestPicks ==
  ASSUME NEW n \in Nat
  PROVE  Picks([s \in SUBSET (1..n) |-> Max(s)], 1..n)
<1>1. ASSUME NEW s \in SUBSET (1..n), s # {}
      PROVE  Max(s) \in s
  <2>1. s \in SUBSET (0..n)
    OBVIOUS
  <2> QED
    BY <1>1, <2>1, Largest
<1> QED
  BY <1>1 DEF Picks

\* A flattened sequence of at most one sequence.
LEMMA FlattenOne ==
  ASSUME NEW A, NEW ss \in Seq(Seq(A)), Len(ss) <= 1
  PROVE  FlattenSeq(ss) = IF Len(ss) = 0 THEN <<>> ELSE ss[1]
<1> DEFINE N == Len(ss)
<1>1. PICK f : Concatenations(f, A, ss) /\ FlattenSeq(ss) = f[N]
  BY FlattenConcatenates
<1>2. f[0] = <<>> /\ \A i \in 1..N : f[i] = f[i - 1] \o ss[i]
  BY <1>1 DEF Concatenations
<1>3. N \in Nat /\ N <= 1 /\ \A i \in 1..N : ss[i] \in Seq(A)
  OBVIOUS
<1> HIDE DEF N
<1>4. CASE N = 0
  BY <1>1, <1>2, <1>4 DEF N
<1>5. CASE N = 1
  <2>1. 1 \in 1..N /\ 1 - 1 = 0
    BY <1>5
  <2>2. f[1] = <<>> \o ss[1] /\ ss[1] \in Seq(A)
    BY <1>2, <1>3, <2>1
  <2>3. f[1] = ss[1]
    BY <2>2
  <2> QED
    BY <1>1, <1>5, <2>3 DEF N
<1>6. N = 0 \/ N = 1
  BY <1>3
<1> QED
  BY <1>4, <1>5, <1>6

\* A sum of which one term is counted up, a term of a sum, and a sum of
\* nothing.
LEMMA SumCountsUp ==
  ASSUME NEW D, IsFiniteSet(D), NEW f, \A y \in D : f[y] \in Nat,
         NEW x \in D, NEW g, g[x] = f[x] + 1, \A y \in D \ {x} : g[y] = f[y]
  PROVE  Sum(f, D) \in Nat /\ f[x] <= Sum(f, D) /\ Sum(g, D) = Sum(f, D) + 1
<1> DEFINE E == D \ {x}
<1>1. \A y \in D : g[y] \in Nat
  BY DEF E
<1>2. PICK h : Sums(h, f, D)
  BY SumsExist
<1>3. PICK k : Sums(k, g, D)
  BY <1>1, SumsExist
<1>4. E \in SUBSET D /\ D \in SUBSET D /\ IsFiniteSet(E)
  BY FS_Subset
<1>5. /\ Sum(f, D) = h[D] /\ Sum(g, D) = k[D]
      /\ Sum(f, E) = h[E] /\ Sum(g, E) = k[E]
  BY <1>1, <1>2, <1>3, <1>4, SumIsFold
<1>6. h[D] = f[x] + h[E] /\ k[D] = g[x] + k[E]
  BY <1>2, <1>3, <1>4 DEF Sums
<1>7. h[E] \in Nat /\ k[E] \in Nat /\ f[x] \in Nat
  BY <1>2, <1>3, <1>4 DEF Sums
<1>8. \A y \in E : f[y] \in Nat /\ g[y] \in Nat /\ f[y] <= g[y] /\ g[y] <= f[y]
  BY <1>1
<1> HIDE DEF E
<1>9. E \in SUBSET E
  OBVIOUS
<1>10. Sum(f, E) <= Sum(g, E)
  BY <1>4, <1>8, <1>9, SumsGrow
<1>11. Sum(g, E) <= Sum(f, E)
  BY <1>4, <1>8, <1>9, SumsGrow
<1>12. h[E] = k[E]
  BY <1>5, <1>7, <1>10, <1>11
<1> QED
  BY <1>5, <1>6, <1>7, <1>12

\* A sum of zeros.
LEMMA SumOfNothing ==
  ASSUME NEW D, IsFiniteSet(D), NEW f, \A y \in D : f[y] = 0
  PROVE  Sum(f, D) = 0
<1> DEFINE h == [s \in SUBSET D |-> 0]
<1>1. h \in [SUBSET D -> Nat] /\ h[{}] = 0
  OBVIOUS
<1>2. \A s \in SUBSET D : \A x \in s : h[s] = f[x] + h[s \ {x}]
  <2> TAKE s \in SUBSET D
  <2> TAKE x \in s
  <2>1. s \ {x} \in SUBSET D /\ f[x] = 0
    OBVIOUS
  <2>2. h[s] = 0 /\ h[s \ {x}] = 0
    BY <2>1
  <2> QED
    BY <2>1, <2>2
<1>3. h[D] = 0
  OBVIOUS
<1> HIDE DEF h
<1>4. Sums(h, f, D)
  BY <1>1, <1>2 DEF Sums
<1>5. D \in SUBSET D
  OBVIOUS
<1> QED
  BY <1>3, <1>4, <1>5, SumIsFold

\* hits are lists one after the other: off[i] is where list i ends, and the next
\* one starts.
Laid(hits, lists, off) ==
  /\ off \in [0..Len(lists) -> Nat]
  /\ \A i, k \in 0..Len(lists) : i <= k => off[i] <= off[k]
  /\ \A i \in 1..Len(lists) :
       /\ off[i] = off[i - 1] + Len(lists[i])
       /\ \A j \in 1..Len(lists[i]) : /\ off[i - 1] + j \in DOMAIN hits
                                      /\ hits[off[i - 1] + j] = lists[i][j]
  /\ \A place \in DOMAIN hits :
       \E i \in 1..Len(lists) : \E j \in 1..Len(lists[i]) : place = off[i - 1] + j

\* What flattening returns, place by place.
LEMMA FlattenLays ==
  ASSUME NEW A, NEW ss \in Seq(Seq(A))
  PROVE  \E off : Laid(FlattenSeq(ss), ss, off)
<1> DEFINE N == Len(ss)
<1>1. PICK f : Concatenations(f, A, ss) /\ FlattenSeq(ss) = f[Len(ss)]
  BY FlattenConcatenates
<1>2. N \in Nat /\ \A i \in 1..N : ss[i] \in Seq(A) /\ Len(ss[i]) \in Nat
  <2>1. N \in Nat /\ \A i \in 1..N : ss[i] \in Seq(A)
    OBVIOUS
  <2> QED
    BY <2>1
<1>3. /\ f \in [0..N -> Seq(A)] /\ f[0] = <<>>
      /\ \A i \in 1..N : f[i] = f[i - 1] \o ss[i]
  BY <1>1 DEF Concatenations
<1> DEFINE off == [i \in 0..N |-> Len(f[i])]
           In(k) == \A i \in 1..k : \A j \in 1..Len(ss[i]) :
                      off[i - 1] + j \in 1..off[k] /\ f[k][off[i - 1] + j] = ss[i][j]
           All(k) == \A place \in 1..off[k] :
                       \E i \in 1..k : \E j \in 1..Len(ss[i]) : place = off[i - 1] + j
           Up(k) == \A i \in 0..k : off[i] <= off[k]
           T == {k \in 0..N : In(k) /\ All(k) /\ Up(k)}
<1>4. off \in [0..N -> Nat] /\ \A i \in 0..N : off[i] = Len(f[i]) /\ f[i] \in Seq(A)
  BY <1>3
<1> HIDE DEF N
<1>5. ASSUME NEW k \in 1..N
      PROVE  /\ k - 1 \in 0..N /\ k \in 0..N /\ k \in Nat
             /\ off[k] = off[k - 1] + Len(ss[k])
             /\ \A j \in 1..off[k - 1] : f[k][j] = f[k - 1][j]
             /\ \A j \in 1..Len(ss[k]) : f[k][off[k - 1] + j] = ss[k][j]
  <2>1. k - 1 \in 0..N /\ k \in 0..N /\ k \in Nat
    BY <1>2
  <2> DEFINE a == f[k - 1]
             b == ss[k]
  <2>2. a \in Seq(A) /\ b \in Seq(A) /\ f[k] = a \o b /\ off[k - 1] = Len(a) /\ off[k] = Len(a \o b)
    BY <1>2, <1>3, <1>4, <2>1
  <2> HIDE DEF a, b, off
  <2>3. Len(a) \in Nat /\ Len(b) \in Nat /\ Len(a \o b) = Len(a) + Len(b)
    BY <2>2
  <2>4. \A j \in 1..Len(a) : (a \o b)[j] = a[j]
    BY <2>2
  <2>5. \A j \in 1..Len(b) : (a \o b)[Len(a) + j] = b[j]
    BY <2>2
  <2> QED
    BY <2>1, <2>2, <2>3, <2>4, <2>5 DEF a, b
<1> HIDE DEF off
<1>6. 0 \in T
  <2>1. 0 \in 0..N /\ off[0] = 0
    BY <1>2, <1>3, <1>4
  <2>2. 1..0 = {} /\ 0..0 = {0} /\ 1..off[0] = {}
    BY <2>1
  <2> QED
    BY <2>1, <2>2
<1>7. ASSUME NEW k \in 1..N, k - 1 \in T
      PROVE  k \in T
  <2>1. In(k - 1) /\ All(k - 1) /\ Up(k - 1)
    BY <1>7
  <2>2. /\ k - 1 \in 0..N /\ k \in 0..N /\ k \in Nat /\ off[k] = off[k - 1] + Len(ss[k])
        /\ off[k] \in Nat /\ off[k - 1] \in Nat /\ Len(ss[k]) \in Nat
        /\ off[k - 1] <= off[k]
    BY <1>2, <1>4, <1>5
  <2>3. \A i \in 1..k : i = k \/ i \in 1..k - 1
    BY <2>2
  <2>4. In(k)
    <3>1. TAKE i \in 1..k
    <3>2. TAKE j \in 1..Len(ss[i])
    <3>3. CASE i = k
      <4>1. off[k - 1] + j \in 1..off[k]
        BY <2>2, <3>2, <3>3
      <4> QED
        BY <1>5, <3>2, <3>3, <4>1
    <3>4. CASE i \in 1..k - 1
      <4>1. off[i - 1] + j \in 1..off[k - 1] /\ f[k - 1][off[i - 1] + j] = ss[i][j]
        BY <2>1, <3>2, <3>4
      <4>2. off[i - 1] + j \in 1..off[k]
        BY <2>2, <4>1
      <4>3. f[k][off[i - 1] + j] = f[k - 1][off[i - 1] + j]
        BY <1>5, <4>1
      <4> QED
        BY <4>1, <4>2, <4>3
    <3> QED
      BY <2>3, <3>1, <3>3, <3>4
  <2>5. All(k)
    <3>1. TAKE place \in 1..off[k]
    <3>2. CASE place \in 1..off[k - 1]
      <4>1. PICK i \in 1..k - 1 : \E j \in 1..Len(ss[i]) : place = off[i - 1] + j
        BY <2>1, <3>2
      <4>2. i \in 1..k
        BY <2>2
      <4> QED
        BY <4>1, <4>2
    <3>3. CASE place \notin 1..off[k - 1]
      <4> DEFINE j == place - off[k - 1]
      <4>1. j \in 1..Len(ss[k]) /\ place = off[k - 1] + j
        BY <2>2, <3>3
      <4>2. k \in 1..k
        BY <2>2
      <4> QED
        BY <4>1, <4>2
    <3> QED
      BY <3>2, <3>3
  <2>6. Up(k)
    <3>1. TAKE i \in 0..k
    <3>2. CASE i = k
      BY <2>2, <3>2
    <3>3. CASE i \in 0..k - 1
      <4>1. off[i] <= off[k - 1]
        BY <2>1, <3>3
      <4>2. i \in 0..N
        BY <1>2, <2>2
      <4>3. off[i] \in Nat
        BY <1>4, <4>2
      <4> QED
        BY <2>2, <4>1, <4>3
    <3>4. i = k \/ i \in 0..k - 1
      BY <2>2
    <3> QED
      BY <3>2, <3>3, <3>4
  <2> QED
    BY <2>2, <2>4, <2>5, <2>6
<1>8. \A k \in 0..N : k \in T
  <2> HIDE DEF T
  <2> QED
    BY <1>2, <1>6, <1>7, CountUp
<1>9. N \in 0..N
  BY <1>2
<1>10. In(N) /\ All(N) /\ \A k \in 0..N : Up(k)
  BY <1>8, <1>9
<1>11. \A i, k \in 0..N : i <= k => off[i] <= off[k]
  <2>1. TAKE i \in 0..N, k \in 0..N
  <2>2. i <= k => i \in 0..k
    BY <1>2
  <2> QED
    BY <1>10, <2>2
<1>12. DOMAIN FlattenSeq(ss) = 1..off[N] /\ FlattenSeq(ss) = f[N]
  BY <1>1, <1>4, <1>9 DEF N
<1> HIDE DEF Up
<1>13. Laid(FlattenSeq(ss), ss, off)
  BY <1>4, <1>5, <1>10, <1>11, <1>12 DEF Laid, N
<1> QED
  BY <1>13

\* The places of one list come before those of a later one, and are its own.
LEMMA PlacesApart ==
  ASSUME NEW hits, NEW lists, Len(lists) \in Nat, NEW off, Laid(hits, lists, off),
         \A i \in 1..Len(lists) : Len(lists[i]) \in Nat
  PROVE  \A i, k \in 1..Len(lists) :
           \A j \in 1..Len(lists[i]), l \in 1..Len(lists[k]) :
             /\ i < k => off[i - 1] + j < off[k - 1] + l
             /\ off[i - 1] + j = off[k - 1] + l => i = k /\ j = l
<1>0. \A m \in 1..Len(lists) : off[m] = off[m - 1] + Len(lists[m])
  BY DEF Laid
<1>1. ASSUME NEW a \in 1..Len(lists), NEW b \in 1..Len(lists[a]),
             NEW c \in 1..Len(lists), NEW d \in 1..Len(lists[c]), a < c
      PROVE  off[a - 1] + b < off[c - 1] + d
  <2>1. /\ a - 1 \in 0..Len(lists) /\ a \in 0..Len(lists) /\ c - 1 \in 0..Len(lists)
        /\ a <= c - 1
    BY <1>1
  <2>2. /\ off[a - 1] \in Nat /\ off[a] \in Nat /\ off[c - 1] \in Nat
        /\ off[a] <= off[c - 1]
    BY <2>1 DEF Laid
  <2>3. off[a] = off[a - 1] + Len(lists[a])
    BY <1>0
  <2>4. b \in Nat /\ b <= Len(lists[a]) /\ d \in Nat /\ d >= 1
    <3>1. Len(lists[a]) \in Nat /\ Len(lists[c]) \in Nat
      OBVIOUS
    <3> QED
      BY <3>1
  <2>5. Len(lists[a]) \in Nat
    OBVIOUS
  <2> QED
    BY <2>2, <2>3, <2>4, <2>5
<1>6. SUFFICES ASSUME NEW i \in 1..Len(lists), NEW k \in 1..Len(lists),
                      NEW j \in 1..Len(lists[i]), NEW l \in 1..Len(lists[k])
               PROVE  /\ i < k => off[i - 1] + j < off[k - 1] + l
                      /\ off[i - 1] + j = off[k - 1] + l => i = k /\ j = l
  OBVIOUS
<1>2. i < k => off[i - 1] + j < off[k - 1] + l
  BY <1>1
<1>3. k < i => off[k - 1] + l < off[i - 1] + j
  BY <1>1
<1>4. off[i - 1] + j \in Nat /\ off[k - 1] + l \in Nat
  <2>1. i - 1 \in 0..Len(lists) /\ k - 1 \in 0..Len(lists)
    OBVIOUS
  <2>2. off[i - 1] \in Nat /\ off[k - 1] \in Nat
    BY <2>1 DEF Laid
  <2>3. Len(lists[i]) \in Nat /\ Len(lists[k]) \in Nat
    OBVIOUS
  <2>4. j \in Nat /\ l \in Nat
    BY <2>3
  <2> QED
    BY <2>2, <2>4
<1>5. ASSUME off[i - 1] + j = off[k - 1] + l
      PROVE  i = k /\ j = l
  <2>1. ~(i < k) /\ ~(k < i)
    BY <1>2, <1>3, <1>4, <1>5
  <2>2. i = k
    BY <2>1
  <2>3. off[i - 1] \in Nat
    <3>1. i - 1 \in 0..Len(lists)
      OBVIOUS
    <3> QED
      BY <3>1 DEF Laid
  <2> QED
    BY <1>5, <2>2, <2>3
<1> QED
  BY <1>2, <1>5

(***************************************************************************)
(* Folds, element by element.                                              *)
(***************************************************************************)
\* A recursion over the parts of 1..n that is left by the largest element, and
\* that follows G as long as it stays in A.
Follows(it, base, G, A, n) ==
  /\ it[{}] = base
  /\ \A s \in SUBSET (1..n) :
       s # {} /\ it[s \ {Max(s)}] \in A => it[s] = G[<<it[s \ {Max(s)}], Max(s)>>]

\* x is reached by n steps.
Reached(x, base, G, A, n) == \E f \in Iterations(A, base, G, n) : f[n] = x

\* It stays in A, and follows G all the way.
LEMMA FoldFollows ==
  ASSUME NEW n \in Nat, NEW A, NEW base \in A, NEW G \in StepsOf(A, 1..n), NEW it,
         Follows(it, base, G, A, n)
  PROVE  Reached(it[1..n], base, G, A, n)
<1> DEFINE D == 1..n
           c == [s \in SUBSET D |-> Max(s)]
           T == {s \in SUBSET D : it[s] \in A}
<1>1. Picks(c, D) /\ IsFiniteSet(D)
  <2>1. 1 \in Int /\ n \in Int
    OBVIOUS
  <2>2. IsFiniteSet(1..n)
    BY <2>1, FS_Interval
  <2>3. Picks([s \in SUBSET (1..n) |-> Max(s)], 1..n)
    BY LargestPicks
  <2> QED
    BY <2>2, <2>3
<1>2. \A s \in SUBSET D : s # {} => Max(s) \in s
  <2>1. \A s \in SUBSET D : s # {} => c[s] \in s
    BY <1>1 DEF Picks
  <2> QED
    BY <2>1
<1>3. \A s \in SUBSET D :
        s # {} /\ it[s \ {Max(s)}] \in A => it[s] = G[<<it[s \ {Max(s)}], Max(s)>>]
  BY DEF Follows
<1>4. \A a \in A, i \in D : G[<<a, i>>] \in A
  BY DEF StepsOf
<1> HIDE DEF D, c
<1>5. ASSUME NEW s \in SUBSET D, \A x \in s : s \ {x} \in T
      PROVE  s \in T
  <2>1. CASE s = {}
    BY <2>1 DEF Follows
  <2>2. CASE s # {}
    <3> DEFINE i == Max(s)
    <3>1. i \in s /\ i \in D
      BY <1>2, <2>2
    <3>2. it[s \ {i}] \in A
      BY <1>5, <3>1
    <3>3. it[s] = G[<<it[s \ {i}], i>>]
      BY <1>3, <2>2, <3>2
    <3> HIDE DEF i
    <3> QED
      BY <1>4, <3>1, <3>2, <3>3
  <2> QED
    BY <2>1, <2>2
<1>6. \A s \in SUBSET D : s \in T
  <2> HIDE DEF T
  <2> QED
    BY <1>1, <1>5, PartByPart
<1>7. \A s \in SUBSET D : it[s] \in A
  BY <1>6
<1>8. Recursive(it, base, G, D, c)
  <2> SUFFICES ASSUME NEW s \in SUBSET D
               PROVE  it[s] = IF s = {} THEN base ELSE G[<<it[s \ {c[s]}], c[s]>>]
    BY DEF Recursive
  <2>1. CASE s = {}
    BY <2>1 DEF Follows
  <2>2. CASE s # {}
    <3>1. c[s] = Max(s)
      BY DEF c
    <3>2. s \ {Max(s)} \in SUBSET D
      OBVIOUS
    <3> QED
      BY <1>3, <1>7, <2>2, <3>1, <3>2
  <2> QED
    BY <2>1, <2>2
<1>9. /\ it[1..0] = base
      /\ \A i \in 1..n : it[1..i] = G[<<it[1..i - 1], i>>]
  <2>1. Recursive(it, base, G, 1..n, c) /\ c = [s \in SUBSET (1..n) |-> Max(s)]
    BY <1>8 DEF D, c
  <2>2. InTurn(it, base, G, n)
    BY <2>1, LargestLast
  <2> QED
    BY <2>2 DEF InTurn
<1> DEFINE f == [i \in 0..n |-> it[1..i]]
<1>10. \A i \in 0..n : it[1..i] \in A
  <2>1. \A i \in 0..n : 1..i \in SUBSET D
    BY DEF D
  <2> QED
    BY <1>7, <2>1
<1>11. f \in [0..n -> A] /\ f[0] = base
  BY <1>9, <1>10
<1>12. \A i \in 1..n : f[i] = G[<<f[i - 1], i>>]
  <2>1. \A i \in 1..n : i \in 0..n /\ i - 1 \in 0..n
    OBVIOUS
  <2> QED
    BY <1>9, <2>1
<1>13. f[n] = it[1..n]
  OBVIOUS
<1> HIDE DEF f
<1> QED
  BY <1>11, <1>12, <1>13 DEF Iterations, Reached

(***************************************************************************)
(* Flattening.                                                             *)
(***************************************************************************)
\* Two sequences of sequences, one after the other.
LEMMA FlattenJoins ==
  ASSUME NEW A, NEW ss \in Seq(Seq(A)), NEW tt \in Seq(Seq(A))
  PROVE  FlattenSeq(ss \o tt) = FlattenSeq(ss) \o FlattenSeq(tt)
<1> DEFINE M == Len(ss)
           N == Len(tt)
           uu == ss \o tt
<1>1. /\ uu \in Seq(Seq(A)) /\ Len(uu) = M + N /\ M \in Nat /\ N \in Nat
      /\ \A i \in 1..M : uu[i] = ss[i] /\ ss[i] \in Seq(A)
      /\ \A i \in 1..N : uu[M + i] = tt[i] /\ tt[i] \in Seq(A)
  OBVIOUS
<1> HIDE DEF uu
<1>2. PICK f : Concatenations(f, A, ss) /\ FlattenSeq(ss) = f[M]
  BY FlattenConcatenates
<1>3. PICK g : Concatenations(g, A, tt) /\ FlattenSeq(tt) = g[N]
  BY FlattenConcatenates
<1>4. PICK h : Concatenations(h, A, uu) /\ FlattenSeq(uu) = h[Len(uu)]
  BY <1>1, FlattenConcatenates
<1>5. /\ f \in [0..M -> Seq(A)] /\ f[0] = <<>> /\ \A i \in 1..M : f[i] = f[i - 1] \o ss[i]
      /\ g \in [0..N -> Seq(A)] /\ g[0] = <<>> /\ \A i \in 1..N : g[i] = g[i - 1] \o tt[i]
      /\ h[0] = <<>> /\ \A i \in 1..M + N : h[i] = h[i - 1] \o uu[i]
  BY <1>1, <1>2, <1>3, <1>4 DEF Concatenations
<1> HIDE DEF M, N
<1> DEFINE T == {i \in 0..M : h[i] = f[i]}
           U == {i \in 0..N : h[M + i] = f[M] \o g[i]}
<1>6. 0 \in T
  BY <1>1, <1>5
<1>7. ASSUME NEW i \in 1..M, i - 1 \in T
      PROVE  i \in T
  <2>1. i \in 0..M /\ i \in 1..M + N
    BY <1>1
  <2> QED
    BY <1>1, <1>5, <1>7, <2>1
<1>8. \A i \in 0..M : i \in T
  <2> HIDE DEF T
  <2> QED
    BY <1>1, <1>6, <1>7, CountUp
<1>9. M \in 0..M /\ M + 0 = M /\ f[M] \in Seq(A)
  BY <1>1, <1>5
<1>10. 0 \in U
  <2>1. f[M] \o <<>> = f[M]
    BY <1>9
  <2>2. h[M] = f[M]
    BY <1>8, <1>9
  <2>3. 0 \in 0..N
    BY <1>1
  <2> QED
    BY <1>5, <1>9, <2>1, <2>2, <2>3
<1>11. ASSUME NEW i \in 1..N, i - 1 \in U
       PROVE  i \in U
  <2>1. i \in 0..N /\ i - 1 \in 0..N /\ M + i \in 1..M + N /\ (M + i) - 1 = M + (i - 1)
    BY <1>1
  <2>2. h[M + i] = h[M + (i - 1)] \o tt[i]
    BY <1>1, <1>5, <2>1
  <2>3. h[M + (i - 1)] = f[M] \o g[i - 1]
    BY <1>11
  <2>4. g[i - 1] \in Seq(A) /\ tt[i] \in Seq(A)
    BY <1>1, <1>5, <2>1
  <2>5. (f[M] \o g[i - 1]) \o tt[i] = f[M] \o (g[i - 1] \o tt[i])
    <3>1. \A a, b, d \in Seq(A) : (a \o b) \o d = a \o (b \o d)
      BY ConcatAssociative
    <3> QED
      BY <1>9, <2>4, <3>1
  <2>6. g[i] = g[i - 1] \o tt[i]
    BY <1>5
  <2> QED
    BY <2>1, <2>2, <2>3, <2>5, <2>6
<1>12. \A i \in 0..N : i \in U
  <2> HIDE DEF U
  <2> QED
    BY <1>1, <1>10, <1>11, CountUp
<1>13. N \in 0..N
  BY <1>1
<1> QED
  BY <1>1, <1>2, <1>3, <1>4, <1>12, <1>13 DEF uu

\* Concatenation is associative.
LEMMA Associative ==
  \A A : \A a, b, c \in Seq(A) : (a \o b) \o c = a \o (b \o c)
BY ConcatAssociative

\* A sequence of sequences whose last one gets longer.
Extended(ss, t) == [ss EXCEPT ![Len(ss)] = @ \o t]

\* The flattened sequence gets longer by as much.
LEMMA FlattenExtends ==
  ASSUME NEW A, NEW ss \in Seq(Seq(A)), ss # <<>>, NEW t \in Seq(A)
  PROVE  /\ Extended(ss, t) \in Seq(Seq(A)) /\ Len(Extended(ss, t)) = Len(ss)
         /\ Extended(ss, t)[Len(ss)] = ss[Len(ss)] \o t
         /\ \A i \in 1..Len(ss) - 1 : Extended(ss, t)[i] = ss[i]
         /\ FlattenSeq(Extended(ss, t)) = FlattenSeq(ss) \o t
<1> DEFINE uu == Extended(ss, t)
<1> DEFINE N == Len(ss)
<1>1. N \in Nat /\ N # 0 /\ \A i \in 1..N : ss[i] \in Seq(A)
  OBVIOUS
<1>2. /\ uu \in Seq(Seq(A)) /\ Len(uu) = N /\ uu[N] = ss[N] \o t
      /\ \A i \in 1..N - 1 : uu[i] = ss[i]
  <2>1. ss = [i \in 1..N |-> ss[i]]
    OBVIOUS
  <2>2. N \in 1..N /\ ss[N] \o t \in Seq(A)
    BY <1>1
  <2> HIDE DEF N
  <2>3. uu = [i \in 1..N |-> IF i = N THEN ss[N] \o t ELSE ss[i]]
    BY <2>1 DEF N, Extended
  <2>4. uu \in [1..N -> Seq(A)]
    BY <1>1, <2>2, <2>3
  <2>5. uu \in Seq(Seq(A)) /\ Len(uu) = N
    BY <1>1, <2>4, SeqDef
  <2>6. \A i \in 1..N - 1 : i \in 1..N /\ i # N
    BY <1>1
  <2> QED
    BY <2>2, <2>3, <2>5, <2>6
<1> HIDE DEF uu
<1>3. PICK f : Concatenations(f, A, ss) /\ FlattenSeq(ss) = f[N]
  BY FlattenConcatenates
<1>4. PICK g : Concatenations(g, A, uu) /\ FlattenSeq(uu) = g[N]
  <2>1. uu \in Seq(Seq(A))
    BY <1>2
  <2>2. \E g : Concatenations(g, A, uu) /\ FlattenSeq(uu) = g[Len(uu)]
    BY <2>1, FlattenConcatenates
  <2> QED
    BY <1>2, <2>2
<1>5. /\ f \in [0..N -> Seq(A)] /\ f[0] = <<>> /\ \A i \in 1..N : f[i] = f[i - 1] \o ss[i]
      /\ g[0] = <<>> /\ \A i \in 1..N : g[i] = g[i - 1] \o uu[i]
  BY <1>2, <1>3, <1>4 DEF Concatenations
<1> HIDE DEF N
<1> DEFINE T == {i \in 0..N - 1 : g[i] = f[i]}
<1>6. 0 \in T
  <2>1. 0 \in 0..N - 1
    BY <1>1
  <2> QED
    BY <1>5, <2>1
<1>7. N - 1 \in Nat
  BY <1>1
<1>8. ASSUME NEW i \in 1..N - 1, i - 1 \in T
      PROVE  i \in T
  <2>1. i \in 0..N - 1 /\ i \in 1..N
    BY <1>1
  <2>2. uu[i] = ss[i] /\ g[i - 1] = f[i - 1]
    BY <1>2, <1>8
  <2>3. g[i] = g[i - 1] \o uu[i] /\ f[i] = f[i - 1] \o ss[i]
    BY <1>5, <2>1
  <2> QED
    BY <2>1, <2>2, <2>3
<1>9. \A i \in 0..N - 1 : i \in T
  <2> HIDE DEF T
  <2> QED
    BY <1>6, <1>7, <1>8, CountUp
<1>10. N - 1 \in 0..N - 1 /\ N - 1 \in 0..N /\ N \in 1..N
  BY <1>1
<1>11. g[N] = f[N - 1] \o (ss[N] \o t) /\ f[N] = f[N - 1] \o ss[N]
  BY <1>2, <1>5, <1>9, <1>10
<1>12. f[N - 1] \in Seq(A) /\ ss[N] \in Seq(A)
  BY <1>1, <1>5, <1>10
<1>13. (f[N - 1] \o ss[N]) \o t = f[N - 1] \o (ss[N] \o t)
  <2> DEFINE a == f[N - 1]
             b == ss[N]
  <2>1. a \in Seq(A) /\ b \in Seq(A) /\ t \in Seq(A)
    BY <1>12
  <2> HIDE DEF a, b
  <2>2. (a \o b) \o t = a \o (b \o t)
    BY <2>1, Associative
  <2> QED
    BY <2>2 DEF a, b
<1>14. FlattenSeq(uu) = FlattenSeq(ss) \o t
  BY <1>3, <1>4, <1>11, <1>13
<1> QED
  BY <1>2, <1>14 DEF N, uu

\* The members of a set of numbers are listed in ascending order in one way.
LEMMA AscendingOnce ==
  ASSUME NEW S \in SUBSET Int, NEW M \in Nat, NEW N \in Nat,
         NEW p \in [1..M -> S], NEW q \in [1..N -> S],
         \A i, j \in 1..M : i < j => p[i] < p[j], \A x \in S : \E i \in 1..M : p[i] = x,
         \A i, j \in 1..N : i < j => q[i] < q[j], \A x \in S : \E i \in 1..N : q[i] = x
  PROVE  M = N /\ p = q
<1> DEFINE T == {n \in 0..M : n = 0 \/ (n <= N /\ p[n] = q[n])}
<1>1. /\ \A i \in 1..M : p[i] \in S /\ p[i] \in Int
      /\ \A i \in 1..N : q[i] \in S /\ q[i] \in Int
  OBVIOUS
<1>2. ASSUME NEW n \in 1..M, n - 1 \in T
      PROVE  n \in T
  <2>1. n - 1 = 0 \/ (n - 1 <= N /\ n - 1 \in 1..M /\ n - 1 \in 1..N /\ p[n - 1] = q[n - 1])
    BY <1>2
  <2>2. PICK k \in 1..N : q[k] = p[n]
    BY <1>1
  <2>3. k > n - 1
    <3>1. CASE n - 1 = 0
      BY <3>1
    <3>2. CASE n - 1 # 0
      <4>1. q[n - 1] < q[k]
        BY <1>1, <2>1, <2>2, <3>2
      <4>2. k < n - 1 => q[k] < q[n - 1]
        BY <2>1, <3>2
      <4>3. q[n - 1] \in Int /\ q[k] \in Int
        BY <1>1, <2>1, <3>2
      <4>4. k # n - 1 /\ ~(k < n - 1)
        BY <4>1, <4>2, <4>3
      <4> QED
        BY <4>4
    <3> QED
      BY <3>1, <3>2
  <2>4. n \in 1..N
    BY <2>3
  <2>5. PICK l \in 1..M : p[l] = q[n]
    BY <1>1, <2>4
  <2>6. l > n - 1
    <3>1. CASE n - 1 = 0
      BY <3>1
    <3>2. CASE n - 1 # 0
      <4>1. q[n - 1] < q[n]
        BY <2>1, <2>4, <3>2
      <4>2. p[n - 1] < p[l]
        BY <2>1, <2>5, <3>2, <4>1
      <4>3. l < n - 1 => p[l] < p[n - 1]
        BY <2>1, <3>2
      <4>4. p[n - 1] \in Int /\ p[l] \in Int
        BY <1>1, <2>1, <3>2
      <4>5. l # n - 1 /\ ~(l < n - 1)
        BY <4>2, <4>3, <4>4
      <4> QED
        BY <4>5
    <3> QED
      BY <3>1, <3>2
  <2>7. n < l => p[n] < q[n]
    BY <2>5
  <2>8. n < k => q[n] < p[n]
    BY <2>2, <2>4
  <2>9. p[n] \in Int /\ q[n] \in Int
    BY <1>1, <2>4
  <2>10. p[n] = q[n]
    <3>1. CASE n = l
      BY <2>5, <3>1
    <3>2. CASE n = k
      BY <2>2, <3>2
    <3>3. CASE n < l /\ n < k
      BY <2>7, <2>8, <2>9, <3>3
    <3> QED
      BY <2>3, <2>6, <3>1, <3>2, <3>3
  <2> QED
    BY <2>4, <2>10
<1>3. 0 \in T
  OBVIOUS
<1>4. \A n \in 0..M : n \in T
  <2> HIDE DEF T
  <2> QED
    BY <1>2, <1>3, CountUp
<1>5. M <= N /\ \A n \in 1..M : p[n] = q[n]
  <2>1. M \in 0..M /\ \A n \in 1..M : n \in 0..M /\ n # 0
    OBVIOUS
  <2>2. M = 0 \/ M <= N
    BY <1>4, <2>1
  <2> QED
    BY <1>4, <2>1, <2>2
<1>6. ~(M < N)
  <2> SUFFICES ASSUME M < N PROVE FALSE
    OBVIOUS
  <2>1. N \in 1..N
    OBVIOUS
  <2>2. PICK k \in 1..M : p[k] = q[N]
    BY <1>1, <2>1
  <2>3. k \in 1..N /\ k < N /\ q[k] = q[N]
    BY <1>5, <2>2
  <2>4. q[k] < q[N] /\ q[N] \in Int
    BY <1>1, <2>1, <2>3
  <2> QED
    BY <2>3, <2>4
<1>7. M = N
  BY <1>5, <1>6
<1> QED
  BY <1>5, <1>7

\* h is what a fold of 1..n by G reaches for each part, the largest element last.
Reaches(h, base, G, n) ==
  \A s \in SUBSET (1..n) :
    h[s] = IF s = {} THEN base ELSE G[<<h[s \ {Max(s)}], Max(s)>>]

\* There is such a function.
LEMMA FoldReaches ==
  ASSUME NEW n \in Nat, NEW A, NEW base \in A, NEW G \in StepsOf(A, 1..n)
  PROVE  /\ \E h \in [SUBSET (1..n) -> A] : Reaches(h, base, G, n)
         /\ \A s \in SUBSET (1..n) : s # {} => Max(s) \in s
<1> DEFINE D == 1..n
           c == [s \in SUBSET D |-> Max(s)]
<1>1. Picks(c, D) /\ IsFiniteSet(D)
  <2>1. 1 \in Int /\ n \in Int
    OBVIOUS
  <2>2. IsFiniteSet(1..n)
    BY <2>1, FS_Interval
  <2>3. Picks([s \in SUBSET (1..n) |-> Max(s)], 1..n)
    BY LargestPicks
  <2> QED
    BY <2>2, <2>3
<1>2. \A s \in SUBSET D : c[s] = Max(s)
  OBVIOUS
<1> HIDE DEF D, c
<1>3. G \in StepsOf(A, D)
  BY DEF D
<1>4. Recursions(A, base, G, D, c) # {}
  BY <1>1, <1>3, SetRecursion
<1>5. PICK h \in [SUBSET D -> A] : Recursive(h, base, G, D, c)
  BY <1>4 DEF Recursions
<1>6. \A s \in SUBSET D : h[s] = IF s = {} THEN base ELSE G[<<h[s \ {Max(s)}], Max(s)>>]
  BY <1>2, <1>5 DEF Recursive
<1>7. \A s \in SUBSET D : s # {} => Max(s) \in s
  BY <1>1, <1>2 DEF Picks
<1> QED
  BY <1>5, <1>6, <1>7 DEF D, Reaches
====
