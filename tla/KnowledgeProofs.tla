-------------------------- MODULE KnowledgeProofs --------------------------
(***************************************************************************)
(* Theorems about Knowledge, for any number of overlapping requests, any   *)
(* sources and any documents.                                              *)
(***************************************************************************)
EXTENDS Knowledge, OrderingProofs

(***************************************************************************)
(* Lemmas about the splitting.                                             *)
(***************************************************************************)
\* Parts of documents.
Paragraphs == Seq(DOMAIN Size)

\* The words of some paragraphs, counted one by one.
LEMMA WordsAddUp ==
  ASSUME NEW ps \in Paragraphs
  PROVE  \E f \in [0..Len(ps) -> Nat] :
           /\ f[0] = 0 /\ \A i \in 1..Len(ps) : f[i] = f[i - 1] + Size[ps[i]]
           /\ Words(ps) = f[Len(ps)]
<1> DEFINE n == Len(ps)
           D == 1..n
           G == [x \in Nat \X D |-> x[1] + Size[ps[x[2]]]]
           Eq(g) == g = [s \in SUBSET D |->
                           IF s = {} THEN 0
                           ELSE LET i == Max(s) IN g[s \ {i}] + Size[ps[i]]]
           it == CHOOSE g : Eq(g)
<1>1. n \in Nat /\ DOMAIN ps = D /\ \A i \in D : ps[i] \in DOMAIN Size
  BY DEF Paragraphs
<1>2. Words(ps) = it[D]
  BY <1>1 DEF Words, FoldLeft, MapThenFoldSet
<1>3. \A i \in D : Size[ps[i]] \in Nat
  BY <1>1, KnowledgeAssumption DEF KnowledgeAssumption
<1> HIDE DEF n, it
<1>4. G \in StepsOf(Nat, D)
  BY <1>3 DEF StepsOf
<1>5. \A x \in Nat, i \in D : G[<<x, i>>] = x + Size[ps[i]]
  OBVIOUS
<1> HIDE DEF G
<1>6. PICK h \in [SUBSET D -> Nat] : Reaches(h, 0, G, n)
  BY <1>1, <1>4, FoldReaches
<1>7. \A s \in SUBSET D : s # {} => Max(s) \in s
  BY <1>1, <1>4, FoldReaches
<1>8. Eq(h)
  <2>1. ASSUME NEW s \in SUBSET D
        PROVE  h[s] = IF s = {} THEN 0 ELSE LET i == Max(s) IN h[s \ {i}] + Size[ps[i]]
    <3>1. h[s] = IF s = {} THEN 0 ELSE G[<<h[s \ {Max(s)}], Max(s)>>]
      BY <1>6 DEF Reaches
    <3>2. s # {} => Max(s) \in D /\ h[s \ {Max(s)}] \in Nat
      BY <1>7
    <3> QED
      BY <1>5, <3>1, <3>2
  <2> QED
    BY <2>1
<1>9. Eq(it)
  <2> HIDE DEF Eq
  <2> QED
    BY <1>8 DEF it
<1>10. Follows(it, 0, G, Nat, n)
  <2>1. it[{}] = 0
    BY <1>9
  <2>2. ASSUME NEW s \in SUBSET D, s # {}, it[s \ {Max(s)}] \in Nat
        PROVE  it[s] = G[<<it[s \ {Max(s)}], Max(s)>>]
    <3>1. it[s] = it[s \ {Max(s)}] + Size[ps[Max(s)]]
      BY <1>9, <2>2
    <3>2. Max(s) \in D
      BY <1>7, <2>2
    <3> QED
      BY <1>5, <2>2, <3>1, <3>2
  <2> QED
    BY <2>1, <2>2 DEF Follows
<1>11. PICK f \in Iterations(Nat, 0, G, n) : f[n] = it[D]
  <2>1. 0 \in Nat /\ G \in StepsOf(Nat, 1..n)
    BY <1>4
  <2>2. Reached(it[1..n], 0, G, Nat, n)
    BY <1>1, <1>10, <2>1, FoldFollows
  <2> QED
    BY <2>2 DEF Reached
<1>12. f \in [0..n -> Nat] /\ f[0] = 0
  BY <1>11 DEF Iterations
<1>13. \A i \in 1..n : f[i] = f[i - 1] + Size[ps[i]]
  <2>1. \A i \in 1..n : i - 1 \in 0..n
    BY <1>1
  <2> QED
    BY <1>5, <1>11, <1>12, <2>1 DEF Iterations
<1> QED
  BY <1>2, <1>11, <1>12, <1>13 DEF n

\* The words of some paragraphs are at least those of each of them.
LEMMA WordsGrow ==
  ASSUME NEW ps \in Paragraphs
  PROVE  /\ Words(ps) \in Nat
         /\ ps = <<>> => Words(ps) = 0
         /\ \A i \in 1..Len(ps) : Size[ps[i]] \in Nat /\ Size[ps[i]] <= Words(ps)
<1> DEFINE n == Len(ps)
           T(f) == {m \in 0..n : \A i \in 1..m : Size[ps[i]] <= f[m]}
<1>1. n \in Nat /\ \A i \in 1..n : ps[i] \in DOMAIN Size
  BY DEF Paragraphs
<1>2. \A i \in 1..n : Size[ps[i]] \in Nat
  BY <1>1, KnowledgeAssumption DEF KnowledgeAssumption
<1>3. PICK f \in [0..n -> Nat] :
        /\ f[0] = 0 /\ \A i \in 1..n : f[i] = f[i - 1] + Size[ps[i]]
        /\ Words(ps) = f[n]
  BY WordsAddUp
<1>4. ps = <<>> => n = 0
  OBVIOUS
<1> HIDE DEF n
<1>5. 0 \in T(f)
  BY <1>1
<1>6. ASSUME NEW m \in 1..n, m - 1 \in T(f)
      PROVE  m \in T(f)
  <2>1. m \in 0..n /\ m - 1 \in 0..n /\ f[m] = f[m - 1] + Size[ps[m]]
    BY <1>1, <1>3
  <2>2. f[m - 1] \in Nat /\ Size[ps[m]] \in Nat
    BY <1>2, <1>3, <2>1
  <2>3. ASSUME NEW i \in 1..m
        PROVE  Size[ps[i]] <= f[m]
    <3>1. i \in 1..n
      BY <1>1
    <3>2. Size[ps[i]] \in Nat
      BY <1>2, <3>1
    <3>3. CASE i = m
      BY <2>1, <2>2, <3>3
    <3>4. CASE i # m
      <4>1. i \in 1..m - 1
        BY <3>4
      <4>2. Size[ps[i]] <= f[m - 1]
        BY <1>6, <4>1
      <4> QED
        BY <2>1, <2>2, <3>2, <4>2
    <3> QED
      BY <3>3, <3>4
  <2> QED
    BY <2>1, <2>3
<1>7. \A m \in 0..n : m \in T(f)
  <2> DEFINE U == T(f)
  <2>1. 0 \in U /\ \A m \in 1..n : m - 1 \in U => m \in U
    BY <1>5, <1>6
  <2> HIDE DEF U
  <2>2. \A m \in 0..n : m \in U
    BY <1>1, <2>1, CountUp
  <2> QED
    BY <2>2 DEF U
<1>8. n \in 0..n
  BY <1>1
<1>9. Words(ps) \in Nat
  BY <1>3, <1>8
<1>10. \A i \in 1..n : Size[ps[i]] <= Words(ps)
  BY <1>3, <1>7, <1>8
<1> QED
  BY <1>2, <1>3, <1>4, <1>9, <1>10 DEF n

\* Sequences of chunks: texts that are not empty.
ChunkLists == {ss \in Seq(Paragraphs) : \A i \in 1..Len(ss) : ss[i] # <<>>}

\* A chunk more.
LEMMA AppendChunk ==
  ASSUME NEW ss \in ChunkLists, NEW ps \in Paragraphs, ps # <<>>
  PROVE  /\ Append(ss, ps) \in ChunkLists /\ Append(ss, ps) # <<>>
         /\ FlattenSeq(Append(ss, ps)) = FlattenSeq(ss) \o ps
<1>1. ss \in Seq(Paragraphs) /\ \A i \in 1..Len(ss) : ss[i] # <<>>
  BY DEF ChunkLists
<1>2. Append(ss, ps) \in Seq(Paragraphs) /\ Append(ss, ps) # <<>>
      /\ Len(Append(ss, ps)) = Len(ss) + 1
      /\ \A i \in 1..Len(ss) : Append(ss, ps)[i] = ss[i]
      /\ Append(ss, ps)[Len(ss) + 1] = ps
  BY <1>1, AppendProperties
<1>3. Len(ss) \in Nat
  BY <1>1
<1>4. \A i \in 1..Len(ss) + 1 : Append(ss, ps)[i] # <<>>
  BY <1>1, <1>2, <1>3
<1>5. FlattenSeq(Append(ss, ps)) = FlattenSeq(ss) \o ps
  <2>1. ss \in Seq(Seq(DOMAIN Size)) /\ ps \in Seq(DOMAIN Size)
    BY <1>1 DEF Paragraphs
  <2>2. \A s \in Seq(DOMAIN Size) : FlattenSeq(Append(ss, s)) = FlattenSeq(ss) \o s
    BY <2>1, Flattened
  <2> QED
    BY <2>1, <2>2
<1> QED
  BY <1>2, <1>4, <1>5 DEF ChunkLists

\* A last chunk that gets longer.
LEMMA ExtendChunk ==
  ASSUME NEW ss \in ChunkLists, ss # <<>>, NEW ps \in Paragraphs
  PROVE  /\ Extended(ss, ps) \in ChunkLists /\ Extended(ss, ps) # <<>>
         /\ FlattenSeq(Extended(ss, ps)) = FlattenSeq(ss) \o ps
<1>1. ss \in Seq(Paragraphs) /\ \A i \in 1..Len(ss) : ss[i] # <<>>
  BY DEF ChunkLists
<1>2. Len(ss) \in Nat \ {0}
  BY <1>1
<1>3. /\ Extended(ss, ps) \in Seq(Paragraphs) /\ Len(Extended(ss, ps)) = Len(ss)
      /\ Extended(ss, ps)[Len(ss)] = ss[Len(ss)] \o ps
      /\ \A i \in 1..Len(ss) - 1 : Extended(ss, ps)[i] = ss[i]
      /\ FlattenSeq(Extended(ss, ps)) = FlattenSeq(ss) \o ps
  <2>1. ss \in Seq(Seq(DOMAIN Size)) /\ ps \in Seq(DOMAIN Size)
    BY <1>1 DEF Paragraphs
  <2>2. QED
    BY <2>1, FlattenExtends DEF Paragraphs
<1>4. ss[Len(ss)] \o ps # <<>>
  <2>1. ss[Len(ss)] \in Seq(DOMAIN Size) /\ ss[Len(ss)] # <<>> /\ ps \in Seq(DOMAIN Size)
    BY <1>1, <1>2 DEF Paragraphs
  <2> QED
    BY <2>1
<1>5. \A i \in 1..Len(ss) : Extended(ss, ps)[i] # <<>>
  BY <1>1, <1>2, <1>3, <1>4
<1>6. Extended(ss, ps) # <<>>
  BY <1>2, <1>3
<1> QED
  BY <1>3, <1>5, <1>6 DEF ChunkLists

\* What _paragraph_split does with a paragraph.
Added(split, p) ==
  IF split # <<>> /\ Words(Last(split)) + Size[p] <= MaxSize
  THEN [split EXCEPT ![Len(split)] = Append(@, p)]
  ELSE Append(split, <<p>>)

\* It keeps all and makes no empty chunk.
LEMMA AddsParagraph ==
  ASSUME NEW ss \in ChunkLists, NEW p \in DOMAIN Size
  PROVE  /\ Added(ss, p) \in ChunkLists
         /\ FlattenSeq(Added(ss, p)) = FlattenSeq(ss) \o <<p>>
<1>1. <<p>> \in Paragraphs /\ <<p>> # <<>>
  BY DEF Paragraphs
<1>2. ASSUME ss # <<>>
      PROVE  [ss EXCEPT ![Len(ss)] = Append(@, p)] = Extended(ss, <<p>>)
  <2>1. ss \in Seq(Paragraphs) /\ Len(ss) \in 1..Len(ss)
    BY <1>2 DEF ChunkLists
  <2>2. ss[Len(ss)] \in Seq(DOMAIN Size)
    BY <2>1 DEF Paragraphs
  <2>3. Append(ss[Len(ss)], p) = ss[Len(ss)] \o <<p>>
    BY <2>2, AppendIsConcat
  <2> QED
    BY <2>3 DEF Extended
<1>3. CASE ss # <<>> /\ Words(Last(ss)) + Size[p] <= MaxSize
  <2>1. Added(ss, p) = Extended(ss, <<p>>)
    BY <1>2, <1>3 DEF Added
  <2> QED
    BY <1>1, <1>3, <2>1, ExtendChunk
<1>4. CASE ~(ss # <<>> /\ Words(Last(ss)) + Size[p] <= MaxSize)
  <2>1. Added(ss, p) = Append(ss, <<p>>)
    BY <1>4 DEF Added
  <2> QED
    BY <1>1, <2>1, AppendChunk
<1> QED
  BY <1>3, <1>4

\* Splitting loses nothing and makes no empty chunk.
LEMMA SplitKeepsAll ==
  ASSUME NEW ps \in Paragraphs
  PROVE  SplitParagraphs(ps) \in ChunkLists /\ FlattenSeq(SplitParagraphs(ps)) = ps
<1> DEFINE n == Len(ps)
           D == 1..n
           G == [x \in ChunkLists \X D |-> Added(x[1], ps[x[2]])]
           Eq(g) == g = [s \in SUBSET D |->
                           IF s = {} THEN <<>>
                           ELSE LET i == Max(s) IN Added(g[s \ {i}], ps[i])]
           it == CHOOSE g : Eq(g)
<1>1. n \in Nat /\ DOMAIN ps = D /\ \A i \in D : ps[i] \in DOMAIN Size
  BY DEF Paragraphs
<1>2. SplitParagraphs(ps) = it[D]
  BY <1>1 DEF SplitParagraphs, FoldLeft, MapThenFoldSet, Added
<1>3. <<>> \in ChunkLists
  BY DEF ChunkLists
<1> HIDE DEF n, it
<1>4. G \in StepsOf(ChunkLists, D)
  BY <1>1, AddsParagraph DEF StepsOf
<1>5. \A x \in ChunkLists, i \in D : G[<<x, i>>] = Added(x, ps[i])
  OBVIOUS
<1> HIDE DEF G
<1>6. PICK h \in [SUBSET D -> ChunkLists] : Reaches(h, <<>>, G, n)
  BY <1>1, <1>3, <1>4, FoldReaches
<1>7. \A s \in SUBSET D : s # {} => Max(s) \in s
  BY <1>1, <1>3, <1>4, FoldReaches
<1>8. Eq(h)
  <2>1. ASSUME NEW s \in SUBSET D
        PROVE  h[s] = IF s = {} THEN <<>> ELSE LET i == Max(s) IN Added(h[s \ {i}], ps[i])
    <3>1. h[s] = IF s = {} THEN <<>> ELSE G[<<h[s \ {Max(s)}], Max(s)>>]
      BY <1>6 DEF Reaches
    <3>2. s # {} => Max(s) \in D /\ h[s \ {Max(s)}] \in ChunkLists
      BY <1>7
    <3> QED
      BY <1>5, <3>1, <3>2
  <2> QED
    BY <2>1
<1>9. Eq(it)
  <2> HIDE DEF Eq
  <2> QED
    BY <1>8 DEF it
<1>10. Follows(it, <<>>, G, ChunkLists, n)
  <2>1. it[{}] = <<>>
    BY <1>9
  <2>2. ASSUME NEW s \in SUBSET D, s # {}, it[s \ {Max(s)}] \in ChunkLists
        PROVE  it[s] = G[<<it[s \ {Max(s)}], Max(s)>>]
    <3>1. it[s] = Added(it[s \ {Max(s)}], ps[Max(s)])
      BY <1>9, <2>2
    <3>2. Max(s) \in D
      BY <1>7, <2>2
    <3> QED
      BY <1>5, <2>2, <3>1, <3>2
  <2> QED
    BY <2>1, <2>2 DEF Follows
<1>11. PICK f \in Iterations(ChunkLists, <<>>, G, n) : f[n] = it[D]
  <2>1. G \in StepsOf(ChunkLists, 1..n)
    BY <1>4
  <2>2. Reached(it[1..n], <<>>, G, ChunkLists, n)
    BY <1>1, <1>3, <1>10, <2>1, FoldFollows
  <2> QED
    BY <2>2 DEF Reached
<1>12. /\ f \in [0..n -> ChunkLists] /\ f[0] = <<>>
       /\ \A i \in 1..n : f[i] = G[<<f[i - 1], i>>]
  BY <1>11 DEF Iterations
<1>13. \A i \in 1..n : f[i] = Added(f[i - 1], ps[i]) /\ f[i - 1] \in ChunkLists
  <2>1. \A i \in 1..n : i - 1 \in 0..n
    BY <1>1
  <2> QED
    BY <1>5, <1>12, <2>1
<1> DEFINE T == {m \in 0..n : FlattenSeq(f[m]) = SubSeq(ps, 1, m)}
<1>14. 0 \in T
  <2>1. FlattenSeq(f[0]) = <<>>
    BY <1>12 DEF FlattenSeq
  <2>2. SubSeq(ps, 1, 0) = <<>>
    <3>1. 1 \in Int /\ 0 \in Int /\ 0 < 1
      OBVIOUS
    <3> QED
      BY <3>1, SubSeqEmpty
  <2>3. 0 \in 0..n
    BY <1>1
  <2> QED
    BY <2>1, <2>2, <2>3
<1>15. ASSUME NEW m \in 1..n, m - 1 \in T
       PROVE  m \in T
  <2>1. FlattenSeq(f[m]) = FlattenSeq(f[m - 1]) \o <<ps[m]>>
    BY <1>1, <1>13, AddsParagraph
  <2>2. SubSeq(ps, 1, m) = SubSeq(ps, 1, m - 1) \o <<ps[m]>>
    <3>1. ps \in Seq(DOMAIN Size) /\ 1 \in 1..Len(ps) /\ m \in 1..Len(ps)
      BY <1>1 DEF Paragraphs, n
    <3> QED
      BY <3>1, SubSeqRecursiveSecond
  <2> QED
    BY <1>1, <1>15, <2>1, <2>2
<1>16. \A m \in 0..n : m \in T
  <2> HIDE DEF T
  <2> QED
    BY <1>1, <1>14, <1>15, CountUp
<1>17. FlattenSeq(f[n]) = SubSeq(ps, 1, n) /\ f[n] \in ChunkLists
  BY <1>1, <1>12, <1>16
<1>18. SubSeq(ps, 1, n) = ps
  BY SubSeqFull DEF Paragraphs, n
<1> QED
  BY <1>2, <1>11, <1>17, <1>18

\* What a headed section adds: all of it, unless nothing has been kept yet
\* and it is too short.
LEMMA AddsSection ==
  ASSUME NEW ss \in ChunkLists, NEW ps \in Paragraphs
  PROVE  /\ AddSection(ss, ps) \in ChunkLists
         /\ ss # <<>> \/ Words(ps) >= MinSize =>
              /\ AddSection(ss, ps) # <<>>
              /\ FlattenSeq(AddSection(ss, ps)) = FlattenSeq(ss) \o ps
         /\ ss = <<>> /\ Words(ps) < MinSize => AddSection(ss, ps) = <<>>
<1>1. MinSize \in Nat \ {0} /\ MaxSize \in Nat /\ MinSize < MaxSize
  BY KnowledgeAssumption DEF KnowledgeAssumption
<1>2. Words(ps) \in Nat /\ (Words(ps) >= MinSize => ps # <<>>)
  BY <1>1, WordsGrow
<1>3. CASE Words(ps) > MaxSize
  <2> DEFINE tt == SplitParagraphs(ps)
  <2>1. tt \in ChunkLists /\ FlattenSeq(tt) = ps
    BY SplitKeepsAll
  <2>2. AddSection(ss, ps) = ss \o tt
    BY <1>3 DEF AddSection
  <2>3. ps # <<>> /\ Words(ps) >= MinSize
    BY <1>1, <1>2, <1>3
  <2>4. tt # <<>>
    BY <2>1, <2>3 DEF FlattenSeq
  <2> HIDE DEF tt
  <2>5. FlattenSeq(ss \o tt) = FlattenSeq(ss) \o ps
    <3>1. ss \in Seq(Seq(DOMAIN Size)) /\ tt \in Seq(Seq(DOMAIN Size))
      BY <2>1 DEF ChunkLists, Paragraphs
    <3>2. FlattenSeq(ss \o tt) = FlattenSeq(ss) \o FlattenSeq(tt)
      BY <3>1, FlattenJoins
    <3> QED
      BY <2>1, <3>2
  <2>6. ss \o tt \in ChunkLists /\ ss \o tt # <<>>
    <3>1. ss \in Seq(Paragraphs) /\ tt \in Seq(Paragraphs)
      BY <2>1 DEF ChunkLists
    <3>2. /\ ss \o tt \in Seq(Paragraphs) /\ Len(ss \o tt) = Len(ss) + Len(tt)
          /\ \A i \in 1..Len(ss) + Len(tt) :
               (ss \o tt)[i] = IF i <= Len(ss) THEN ss[i] ELSE tt[i - Len(ss)]
      BY <3>1, ConcatProperties
    <3>3. Len(ss) \in Nat /\ Len(tt) \in Nat /\ Len(tt) # 0
      BY <2>4, <3>1
    <3>4. \A i \in 1..Len(ss) + Len(tt) : (ss \o tt)[i] # <<>>
      <4> SUFFICES ASSUME NEW i \in 1..Len(ss) + Len(tt)
                   PROVE  (ss \o tt)[i] # <<>>
        OBVIOUS
      <4>1. CASE i <= Len(ss)
        <5>1. i \in 1..Len(ss)
          BY <3>3, <4>1
        <5> QED
          BY <3>2, <4>1, <5>1 DEF ChunkLists
      <4>2. CASE ~(i <= Len(ss))
        <5>1. i - Len(ss) \in 1..Len(tt)
          BY <3>3, <4>2
        <5> QED
          BY <2>1, <3>2, <4>2, <5>1 DEF ChunkLists
      <4> QED
        BY <4>1, <4>2
    <3>5. Len(ss \o tt) # 0
      BY <3>2, <3>3
    <3>6. Len(<<>>) = 0
      OBVIOUS
    <3>7. ss \o tt # <<>>
      BY <3>5, <3>6
    <3> DEFINE uu == ss \o tt
    <3>8. uu \in Seq(Paragraphs) /\ \A i \in 1..Len(uu) : uu[i] # <<>>
      BY <3>2, <3>4
    <3> HIDE DEF uu
    <3>9. uu \in ChunkLists
      BY <3>8 DEF ChunkLists
    <3> QED
      BY <3>7, <3>9 DEF uu
  <2> QED
    BY <1>1, <1>2, <1>3, <2>2, <2>3, <2>5, <2>6
<1>4. CASE Words(ps) <= MaxSize /\ Words(ps) >= MinSize
  <2>1. AddSection(ss, ps) = Append(ss, ps)
    BY <1>1, <1>2, <1>4 DEF AddSection
  <2>2. ps # <<>>
    BY <1>2, <1>4
  <2>3. /\ Append(ss, ps) \in ChunkLists /\ Append(ss, ps) # <<>>
        /\ FlattenSeq(Append(ss, ps)) = FlattenSeq(ss) \o ps
    BY <2>2, AppendChunk
  <2> QED
    BY <1>1, <1>2, <1>4, <2>1, <2>3
<1>5. CASE Words(ps) < MinSize /\ ss # <<>>
  <2>1. AddSection(ss, ps) = Extended(ss, ps)
    BY <1>1, <1>2, <1>5 DEF AddSection, Extended
  <2> QED
    BY <1>5, <2>1, ExtendChunk
<1>6. CASE Words(ps) < MinSize /\ ss = <<>>
  <2>1. AddSection(ss, ps) = ss
    BY <1>1, <1>2, <1>6 DEF AddSection
  <2> QED
    BY <1>1, <1>2, <1>6, <2>1
<1> QED
  BY <1>1, <1>2, <1>3, <1>4, <1>5, <1>6

\* The parts of a document from k to m, one after the other.
From(parts, k, m) == FlattenSeq(SubSeq(parts, k, m))

\* They grow part by part.
LEMMA PartByOne ==
  ASSUME NEW parts \in Seq(Paragraphs), NEW k \in 1..Len(parts)
  PROVE  /\ From(parts, k, k - 1) = <<>>
         /\ \A m \in k..Len(parts) : /\ From(parts, k, m) = From(parts, k, m - 1) \o parts[m]
                                     /\ From(parts, k, m) \in Paragraphs
<1>1. Len(parts) \in Nat /\ k \in Nat /\ k - 1 \in Int /\ k - 1 < k
  OBVIOUS
<1>2. From(parts, k, k - 1) = <<>>
  <2>1. SubSeq(parts, k, k - 1) = <<>>
    BY <1>1, SubSeqEmpty
  <2> QED
    BY <2>1 DEF From, FlattenSeq
<1>3. ASSUME NEW m \in k..Len(parts)
      PROVE  /\ From(parts, k, m) = From(parts, k, m - 1) \o parts[m]
             /\ From(parts, k, m) \in Paragraphs
  <2> DEFINE tt == SubSeq(parts, k, m - 1)
  <2>1. m - 1 \in Int /\ m \in 1..Len(parts) /\ \A i \in k..m - 1 : i \in 1..Len(parts)
    BY <1>1
  <2>2. parts[m] \in Paragraphs /\ \A i \in k..m - 1 : parts[i] \in Paragraphs
    BY <2>1
  <2>3. tt \in Seq(Paragraphs)
    BY <1>1, <2>1, <2>2, SubSeqProperties
  <2>4. SubSeq(parts, k, m) = tt \o <<parts[m]>>
    BY <1>3, SubSeqRecursiveSecond
  <2> HIDE DEF tt
  <2>5. SubSeq(parts, k, m) = Append(tt, parts[m])
    BY <2>2, <2>3, <2>4, AppendIsConcat
  <2>6. FlattenSeq(Append(tt, parts[m])) = FlattenSeq(tt) \o parts[m] /\ FlattenSeq(tt) \in Paragraphs
    <3>1. tt \in Seq(Seq(DOMAIN Size)) /\ parts[m] \in Seq(DOMAIN Size)
      BY <2>2, <2>3 DEF Paragraphs
    <3>2. /\ \A s \in Seq(DOMAIN Size) : FlattenSeq(Append(tt, s)) = FlattenSeq(tt) \o s
          /\ FlattenSeq(tt) \in Seq(DOMAIN Size)
      BY <3>1, Flattened
    <3> QED
      BY <3>1, <3>2 DEF Paragraphs
  <2>7. From(parts, k, m) = FlattenSeq(tt) \o parts[m] /\ From(parts, k, m - 1) = FlattenSeq(tt)
    BY <2>5, <2>6 DEF From, tt
  <2>8. FlattenSeq(tt) \o parts[m] \in Paragraphs
    BY <2>2, <2>6 DEF Paragraphs
  <2> QED
    BY <2>7, <2>8
<1> QED
  BY <1>2, <1>3

\* The sections of a document with headings, one by one.
LEMMA SectionByOne ==
  ASSUME NEW base \in ChunkLists, NEW secs \in Seq(Paragraphs)
  PROVE  \E f \in [0..Len(secs) -> ChunkLists] :
           /\ f[0] = base /\ \A i \in 1..Len(secs) : f[i] = AddSection(f[i - 1], secs[i])
           /\ FoldLeft(AddSection, base, secs) = f[Len(secs)]
<1> DEFINE n == Len(secs)
           D == 1..n
           G == [x \in ChunkLists \X D |-> AddSection(x[1], secs[x[2]])]
           Eq(g) == g = [s \in SUBSET D |->
                           IF s = {} THEN base
                           ELSE LET i == Max(s) IN AddSection(g[s \ {i}], secs[i])]
           it == CHOOSE g : Eq(g)
<1>1. n \in Nat /\ DOMAIN secs = D /\ \A i \in D : secs[i] \in Paragraphs
  OBVIOUS
<1>2. FoldLeft(AddSection, base, secs) = it[D]
  BY <1>1 DEF FoldLeft, MapThenFoldSet
<1> HIDE DEF n, it
<1>4. G \in StepsOf(ChunkLists, D)
  BY <1>1, AddsSection DEF StepsOf
<1>5. \A x \in ChunkLists, i \in D : G[<<x, i>>] = AddSection(x, secs[i])
  OBVIOUS
<1> HIDE DEF G
<1>6. PICK h \in [SUBSET D -> ChunkLists] : Reaches(h, base, G, n)
  BY <1>1, <1>4, FoldReaches
<1>7. \A s \in SUBSET D : s # {} => Max(s) \in s
  BY <1>1, <1>4, FoldReaches
<1>8. Eq(h)
  <2>1. ASSUME NEW s \in SUBSET D
        PROVE  h[s] = IF s = {} THEN base ELSE LET i == Max(s) IN AddSection(h[s \ {i}], secs[i])
    <3>1. h[s] = IF s = {} THEN base ELSE G[<<h[s \ {Max(s)}], Max(s)>>]
      BY <1>6 DEF Reaches
    <3>2. s # {} => Max(s) \in D /\ h[s \ {Max(s)}] \in ChunkLists
      BY <1>7
    <3> QED
      BY <1>5, <3>1, <3>2
  <2> QED
    BY <2>1
<1>9. Eq(it)
  <2> HIDE DEF Eq
  <2> QED
    BY <1>8 DEF it
<1>10. Follows(it, base, G, ChunkLists, n)
  <2>1. it[{}] = base
    BY <1>9
  <2>2. ASSUME NEW s \in SUBSET D, s # {}, it[s \ {Max(s)}] \in ChunkLists
        PROVE  it[s] = G[<<it[s \ {Max(s)}], Max(s)>>]
    <3>1. it[s] = AddSection(it[s \ {Max(s)}], secs[Max(s)])
      BY <1>9, <2>2
    <3>2. Max(s) \in D
      BY <1>7, <2>2
    <3> QED
      BY <1>5, <2>2, <3>1, <3>2
  <2> QED
    BY <2>1, <2>2 DEF Follows
<1>11. PICK f \in Iterations(ChunkLists, base, G, n) : f[n] = it[D]
  <2>1. G \in StepsOf(ChunkLists, 1..n)
    BY <1>4
  <2>2. Reached(it[1..n], base, G, ChunkLists, n)
    BY <1>1, <1>10, <2>1, FoldFollows
  <2> QED
    BY <2>2 DEF Reached
<1>12. /\ f \in [0..n -> ChunkLists] /\ f[0] = base
       /\ \A i \in 1..n : f[i] = G[<<f[i - 1], i>>]
  BY <1>11 DEF Iterations
<1>13. \A i \in 1..n : f[i] = AddSection(f[i - 1], secs[i])
  <2>1. \A i \in 1..n : i - 1 \in 0..n
    BY <1>1
  <2> QED
    BY <1>5, <1>12, <2>1
<1> QED
  BY <1>2, <1>11, <1>12, <1>13 DEF n

\* The parts of a document with headings, and what the splitting starts with.
PartsOf(intro, secs) == <<intro>> \o secs
StartOf(intro) == IF Words(intro) >= MinSize THEN <<intro>> ELSE <<>>

\* The first part that is long enough is part k.
FirstLong(parts, k) ==
  /\ k \in 1..Len(parts) + 1
  /\ \A i \in 1..Len(parts) : i < k => Words(parts[i]) < MinSize
  /\ k <= Len(parts) => Words(parts[k]) >= MinSize

\* Of a document with headings the parts from the first long one on are kept.
LEMMA HeadedSections ==
  ASSUME NEW intro \in Paragraphs, NEW secs \in Seq(Paragraphs), NEW k,
         FirstLong(PartsOf(intro, secs), k)
  PROVE  /\ FoldLeft(AddSection, StartOf(intro), secs) \in ChunkLists
         /\ FlattenSeq(FoldLeft(AddSection, StartOf(intro), secs)) =
              IF k <= Len(PartsOf(intro, secs))
              THEN From(PartsOf(intro, secs), k, Len(PartsOf(intro, secs))) ELSE <<>>
<1> DEFINE n == Len(secs)
           parts == PartsOf(intro, secs)
           base == StartOf(intro)
<1>1. /\ n \in Nat /\ parts \in Seq(Paragraphs) /\ Len(parts) = n + 1
      /\ parts[1] = intro /\ \A i \in 1..n : parts[i + 1] = secs[i] /\ secs[i] \in Paragraphs
  BY DEF PartsOf
<1>2. MinSize \in Nat \ {0}
  BY KnowledgeAssumption DEF KnowledgeAssumption
<1>3. Words(intro) \in Nat /\ (Words(intro) >= MinSize => intro # <<>>)
  BY <1>2, WordsGrow
<1>4. /\ k \in 1..n + 2
      /\ \A i \in 1..n + 1 : i < k => Words(parts[i]) < MinSize
      /\ k <= n + 1 => Words(parts[k]) >= MinSize
  BY <1>1 DEF FirstLong
<1>5. base \in ChunkLists
  BY <1>3 DEF StartOf, ChunkLists
<1>6. PICK f \in [0..n -> ChunkLists] :
        /\ f[0] = base /\ \A i \in 1..n : f[i] = AddSection(f[i - 1], secs[i])
        /\ FoldLeft(AddSection, base, secs) = f[n]
  BY <1>5, SectionByOne
<1>7. Words(intro) >= MinSize => base = <<intro>> /\ base # <<>> /\ FlattenSeq(base) = intro
  <2>1. Words(intro) >= MinSize => base = <<intro>> /\ base # <<>>
    BY DEF StartOf
  <2>2. <<intro>> \in Seq(Seq(DOMAIN Size)) /\ Len(<<intro>>) = 1 /\ <<intro>>[1] = intro
    BY DEF Paragraphs
  <2>3. FlattenSeq(<<intro>>) = intro
    BY <2>2, FlattenOne
  <2> QED
    BY <2>1, <2>3
<1>8. Words(intro) < MinSize => base = <<>>
  BY <1>2, <1>3 DEF StartOf
<1> HIDE DEF n, parts, base
<1> DEFINE T == {m \in 0..n : /\ m + 1 < k => f[m] = <<>>
                              /\ m + 1 >= k => /\ f[m] # <<>>
                                               /\ FlattenSeq(f[m]) = From(parts, k, m + 1)}
<1>9. 0 \in T
  <2>1. 0 \in 0..n /\ 1 \in 1..n + 1
    BY <1>1
  <2>2. CASE k = 1
    <3>1. Words(intro) >= MinSize
      BY <1>1, <1>4, <2>2
    <3>2. From(parts, k, 1) = <<>> \o intro
      <4>1. 1 \in 1..Len(parts) /\ 1 \in 1..Len(parts)
        BY <1>1
      <4>2. 1 - 1 = 0
        OBVIOUS
      <4>3. From(parts, 1, 0) = <<>> /\ From(parts, 1, 1) = From(parts, 1, 0) \o parts[1]
        BY <1>1, <4>1, <4>2, PartByOne
      <4> QED
        BY <1>1, <2>2, <4>3
    <3>3. <<>> \o intro = intro
      BY DEF Paragraphs
    <3> QED
      BY <1>6, <1>7, <2>1, <2>2, <3>1, <3>2, <3>3
  <2>3. CASE k # 1
    <3>1. 1 < k /\ Words(intro) < MinSize
      BY <1>1, <1>4, <2>1, <2>3
    <3> QED
      BY <1>4, <1>6, <1>8, <2>1, <3>1
  <2> QED
    BY <2>2, <2>3
<1>10. ASSUME NEW m \in 1..n, m - 1 \in T
       PROVE  m \in T
  <2>1. /\ m \in 0..n /\ m - 1 \in 0..n /\ (m - 1) + 1 = m /\ (m + 1) - 1 = m /\ m + 1 \in 1..n + 1
        /\ m \in Nat /\ k \in Nat
    BY <1>1, <1>4
  <2>2. /\ f[m - 1] \in ChunkLists /\ secs[m] \in Paragraphs /\ f[m] = AddSection(f[m - 1], secs[m])
        /\ parts[m + 1] = secs[m]
    BY <1>1, <1>6, <2>1
  <2>3. /\ f[m - 1] # <<>> \/ Words(secs[m]) >= MinSize =>
             f[m] # <<>> /\ FlattenSeq(f[m]) = FlattenSeq(f[m - 1]) \o secs[m]
        /\ f[m - 1] = <<>> /\ Words(secs[m]) < MinSize => f[m] = <<>>
    BY <2>2, AddsSection
  <2>4. /\ m < k => f[m - 1] = <<>>
        /\ m >= k => f[m - 1] # <<>> /\ FlattenSeq(f[m - 1]) = From(parts, k, m)
    BY <1>10, <2>1
  <2>5. CASE m + 1 < k
    <3>1. Words(secs[m]) < MinSize
      BY <1>4, <2>1, <2>2, <2>5
    <3> QED
      BY <2>1, <2>3, <2>4, <2>5, <3>1
  <2>6. CASE m + 1 >= k
    <3>1. k \in 1..Len(parts) /\ m + 1 \in k..Len(parts)
      BY <1>1, <1>4, <2>1, <2>6
    <3>2. From(parts, k, m + 1) = From(parts, k, m) \o parts[m + 1] /\ From(parts, k, k - 1) = <<>>
      BY <1>1, <2>1, <3>1, PartByOne
    <3>3. f[m - 1] # <<>> \/ Words(secs[m]) >= MinSize
      BY <1>4, <2>1, <2>2, <2>4, <2>6, <3>1
    <3>4. FlattenSeq(f[m - 1]) = From(parts, k, m)
      <4>1. CASE m >= k
        BY <2>4, <4>1
      <4>2. CASE m < k
        <5>1. k - 1 = m
          BY <2>1, <2>6, <4>2
        <5>2. FlattenSeq(<<>>) = <<>>
          BY DEF FlattenSeq
        <5> QED
          BY <2>4, <3>2, <4>2, <5>1, <5>2
      <4> QED
        BY <2>1, <4>1, <4>2
    <3>5. f[m] # <<>> /\ FlattenSeq(f[m]) = From(parts, k, m + 1)
      BY <2>2, <2>3, <3>2, <3>3, <3>4
    <3>6. ~(m + 1 < k)
      BY <2>1, <2>6
    <3> QED
      BY <2>1, <3>5, <3>6
  <2> QED
    BY <2>1, <2>5, <2>6
<1>11. \A m \in 0..n : m \in T
  <2> HIDE DEF T
  <2> QED
    BY <1>1, <1>9, <1>10, CountUp
<1>12. n \in 0..n /\ f[n] \in ChunkLists
  BY <1>1, <1>6
<1>13. /\ n + 1 < k => f[n] = <<>>
       /\ n + 1 >= k => FlattenSeq(f[n]) = From(parts, k, n + 1)
  BY <1>11, <1>12
<1>14. FlattenSeq(<<>>) = <<>>
  BY DEF FlattenSeq
<1>15. FlattenSeq(f[n]) = IF k <= n + 1 THEN From(parts, k, n + 1) ELSE <<>>
  BY <1>1, <1>4, <1>13, <1>14
<1> QED
  BY <1>1, <1>6, <1>12, <1>15 DEF base, parts

\* The places of the lists I in what they are flattened to, when list i ends
\* at off[i].
PlacesIn(ss, off, I) == UNION {{off[i - 1] + j : j \in 1..Len(ss[i])} : i \in I}

\* Flattening some of the lists is selecting their places.
LEMMA SelectedLists ==
  ASSUME NEW A, NEW ss \in Seq(Seq(A)), NEW I \in SUBSET (1..Len(ss)),
         NEW off, Laid(FlattenSeq(ss), ss, off)
  PROVE  FlattenSeq(At(ss, I)) = At(FlattenSeq(ss), PlacesIn(ss, off, I))
<1> DEFINE F == FlattenSeq(ss)
           tt == At(ss, I)
           E == FlattenSeq(tt)
           S == PlacesIn(ss, off, I)
           C == Cardinality(I)
<1>1. /\ C \in Nat /\ tt \in Seq(Seq(A)) /\ DOMAIN tt = 1..C
      /\ \E p : Taken(p, I) /\ \A n \in 1..C : tt[n] = ss[p[n]]
  BY AtSelects
<1>2. F \in Seq(A) /\ E \in Seq(A)
  BY <1>1, Flattened
<1>3. PICK toff : Laid(E, tt, toff)
  BY <1>1, FlattenLays
<1>4. PICK p : Taken(p, I) /\ \A n \in 1..C : tt[n] = ss[p[n]]
  BY <1>1
<1>5. Len(tt) = C /\ Len(ss) \in Nat /\ \A i \in 1..Len(ss) : Len(ss[i]) \in Nat
  BY <1>1
<1>6. Laid(F, ss, off)
  OBVIOUS
<1> HIDE DEF F, tt, E, C
<1>7. /\ \A n \in 1..C : p[n] \in I /\ p[n] \in 1..Len(ss)
      /\ \A m, n \in 1..C : p[m] < p[n] <=> m < n
      /\ \A i \in I : \E n \in 1..C : p[n] = i
  BY <1>4 DEF Taken, C
<1>8. \A n \in 1..C : Len(tt[n]) = Len(ss[p[n]]) /\ Len(tt[n]) \in Nat
  BY <1>4, <1>5, <1>7
<1>9. \A i, k \in 1..C : \A j \in 1..Len(tt[i]), l \in 1..Len(tt[k]) :
        /\ i < k => toff[i - 1] + j < toff[k - 1] + l
        /\ toff[i - 1] + j = toff[k - 1] + l => i = k /\ j = l
  <2>1. Len(tt) \in Nat /\ \A i \in 1..Len(tt) : Len(tt[i]) \in Nat
    BY <1>1, <1>5, <1>8
  <2>2. \A i, k \in 1..Len(tt) : \A j \in 1..Len(tt[i]), l \in 1..Len(tt[k]) :
          /\ i < k => toff[i - 1] + j < toff[k - 1] + l
          /\ toff[i - 1] + j = toff[k - 1] + l => i = k /\ j = l
    BY <1>3, <2>1, PlacesApart
  <2> QED
    BY <1>5, <2>2
<1>10. \A i, k \in 1..Len(ss) : \A j \in 1..Len(ss[i]), l \in 1..Len(ss[k]) :
        /\ i < k => off[i - 1] + j < off[k - 1] + l
        /\ off[i - 1] + j = off[k - 1] + l => i = k /\ j = l
  BY <1>5, <1>6, PlacesApart
<1>11. /\ \A i \in 1..C : toff[i - 1] \in Nat
       /\ \A i \in 1..Len(ss) : off[i - 1] \in Nat
  <2>1. (\A i \in 1..C : i - 1 \in 0..C) /\ (\A i \in 1..Len(ss) : i - 1 \in 0..Len(ss))
    BY <1>1, <1>5
  <2> QED
    BY <1>3, <1>5, <1>6, <2>1 DEF Laid
<1>12. /\ \A i \in 1..C : \A j \in 1..Len(tt[i]) :
            toff[i - 1] + j \in DOMAIN E /\ E[toff[i - 1] + j] = tt[i][j]
       /\ \A e \in DOMAIN E : \E i \in 1..C : \E j \in 1..Len(tt[i]) : e = toff[i - 1] + j
  BY <1>3, <1>5 DEF Laid
<1>13. \A i \in 1..Len(ss) : \A j \in 1..Len(ss[i]) :
         off[i - 1] + j \in DOMAIN F /\ F[off[i - 1] + j] = ss[i][j]
  BY <1>6 DEF Laid
<1>14. \A place : place \in S <=> \E i \in I : \E j \in 1..Len(ss[i]) : place = off[i - 1] + j
  BY DEF PlacesIn
<1> HIDE DEF S
<1>15. S \in SUBSET (1..Len(F))
  <2>1. DOMAIN F = 1..Len(F)
    BY <1>2
  <2> QED
    BY <1>13, <1>14, <2>1
<1> DEFINE K == Len(E)
           N == Cardinality(S)
<1>16. K \in Nat /\ DOMAIN E = 1..K /\ Len(F) \in Nat
  BY <1>2
<1>17. /\ N \in Nat /\ At(F, S) \in Seq(A) /\ DOMAIN At(F, S) = 1..N
       /\ \E r : Taken(r, S) /\ \A n \in 1..N : At(F, S)[n] = F[r[n]]
  BY <1>2, <1>15, AtSelects
<1>18. PICK r : Taken(r, S) /\ \A n \in 1..N : At(F, S)[n] = F[r[n]]
  BY <1>17
<1> HIDE DEF K
\* Where each element comes from.
<1> DEFINE Src(e, i, j) == i \in 1..C /\ j \in 1..Len(tt[i]) /\ e = toff[i - 1] + j
<1>19. \A e \in 1..K : \E i, j : Src(e, i, j)
  <2> SUFFICES ASSUME NEW e \in 1..K PROVE \E i, j : Src(e, i, j)
    OBVIOUS
  <2>1. PICK i \in 1..C : \E j \in 1..Len(tt[i]) : e = toff[i - 1] + j
    BY <1>12, <1>16
  <2>2. PICK j \in 1..Len(tt[i]) : e = toff[i - 1] + j
    BY <2>1
  <2>3. Src(e, i, j)
    BY <2>1, <2>2
  <2> QED
    BY <2>3
<1> DEFINE li == [e \in 1..K |-> CHOOSE i : \E j : Src(e, i, j)]
           lj == [e \in 1..K |-> CHOOSE j : Src(e, li[e], j)]
           q == [e \in 1..K |-> off[p[li[e]] - 1] + lj[e]]
<1>20. \A e \in 1..K : Src(e, li[e], lj[e])
  <2> SUFFICES ASSUME NEW e \in 1..K PROVE Src(e, li[e], lj[e])
    OBVIOUS
  <2> HIDE DEF Src
  <2>1. \E j : Src(e, li[e], j)
    BY <1>19
  <2> HIDE DEF li
  <2> QED
    BY <2>1
<1> HIDE DEF li, lj
<1>21. \A e \in 1..K : li[e] \in 1..C /\ lj[e] \in 1..Len(tt[li[e]]) /\ e = toff[li[e] - 1] + lj[e]
  BY <1>20
<1> HIDE DEF Src
<1>22. \A e \in 1..K : /\ p[li[e]] \in I /\ p[li[e]] \in 1..Len(ss) /\ lj[e] \in 1..Len(ss[p[li[e]]])
                       /\ q[e] = off[p[li[e]] - 1] + lj[e]
  BY <1>7, <1>8, <1>21
<1> HIDE DEF q
<1>23. \A e \in 1..K : q[e] \in S /\ F[q[e]] = E[e]
  <2> SUFFICES ASSUME NEW e \in 1..K PROVE q[e] \in S /\ F[q[e]] = E[e]
    OBVIOUS
  <2>1. q[e] \in S
    BY <1>14, <1>22
  <2>2. F[q[e]] = ss[p[li[e]]][lj[e]]
    BY <1>13, <1>22
  <2>3. E[e] = tt[li[e]][lj[e]]
    BY <1>12, <1>21
  <2>4. tt[li[e]] = ss[p[li[e]]]
    BY <1>4, <1>21
  <2> QED
    BY <2>1, <2>2, <2>3, <2>4
<1>24. ASSUME NEW a \in 1..K, NEW b \in 1..K, a < b
       PROVE  q[a] < q[b]
  <2> DEFINE i == li[a]
             k == li[b]
             j == lj[a]
             l == lj[b]
  <2>1. /\ i \in 1..C /\ j \in 1..Len(tt[i]) /\ a = toff[i - 1] + j /\ q[a] = off[p[i] - 1] + j
        /\ k \in 1..C /\ l \in 1..Len(tt[k]) /\ b = toff[k - 1] + l /\ q[b] = off[p[k] - 1] + l
        /\ p[i] \in 1..Len(ss) /\ j \in 1..Len(ss[p[i]])
        /\ p[k] \in 1..Len(ss) /\ l \in 1..Len(ss[p[k]])
    BY <1>21, <1>22
  <2> HIDE DEF i, j, k, l
  <2>2. i \in Nat /\ k \in Nat /\ j \in Nat /\ l \in Nat
    <3>1. Len(tt[i]) \in Nat /\ Len(tt[k]) \in Nat
      BY <1>8, <2>1
    <3>2. i \in Nat /\ k \in Nat
      BY <1>1, <2>1
    <3>3. j \in 1..Len(tt[i]) /\ l \in 1..Len(tt[k])
      BY <2>1
    <3> QED
      BY <3>1, <3>2, <3>3
  <2>3. CASE i < k
    <3>1. p[i] < p[k]
      BY <1>7, <2>1, <2>3
    <3>2. off[p[i] - 1] + j < off[p[k] - 1] + l
      BY <1>10, <2>1, <3>1
    <3>3. q[a] = off[p[i] - 1] + j /\ q[b] = off[p[k] - 1] + l
      BY <2>1
    <3> QED
      BY <3>2, <3>3
  <2>4. CASE i = k
    <3>1. toff[i - 1] \in Nat /\ off[p[i] - 1] \in Nat
      BY <1>11, <2>1
    <3>2. a = toff[i - 1] + j /\ b = toff[i - 1] + l
      BY <2>1, <2>4
    <3>3. j < l
      BY <1>24, <2>2, <3>1, <3>2
    <3>4. q[a] = off[p[i] - 1] + j /\ q[b] = off[p[i] - 1] + l
      BY <2>1, <2>4
    <3> QED
      BY <2>2, <3>1, <3>3, <3>4
  <2>5. CASE k < i
    <3>1. b < a
      BY <1>9, <2>1, <2>5
    <3> QED
      BY <1>16, <1>24, <3>1
  <2> QED
    BY <2>2, <2>3, <2>4, <2>5
<1>25. ASSUME NEW x \in S
       PROVE  \E e \in 1..K : q[e] = x
  <2>1. PICK i \in I : \E j \in 1..Len(ss[i]) : x = off[i - 1] + j
    BY <1>14
  <2>2. PICK j \in 1..Len(ss[i]) : x = off[i - 1] + j
    BY <2>1
  <2>3. PICK n \in 1..C : p[n] = i
    BY <1>7
  <2>4. j \in 1..Len(tt[n])
    BY <1>8, <2>3
  <2> DEFINE e == toff[n - 1] + j
  <2>5. e \in 1..K
    BY <1>12, <1>16, <2>4
  <2>6. li[e] = n /\ lj[e] = j
    <3>1. li[e] \in 1..C /\ lj[e] \in 1..Len(tt[li[e]]) /\ e = toff[li[e] - 1] + lj[e]
      BY <1>21, <2>5
    <3> DEFINE n2 == li[e]
               j2 == lj[e]
    <3>2. n2 \in 1..C /\ j2 \in 1..Len(tt[n2]) /\ toff[n - 1] + j = toff[n2 - 1] + j2
      BY <3>1
    <3> HIDE DEF n2, j2
    <3>3. n = n2 /\ j = j2
      BY <1>9, <2>4, <3>2
    <3> QED
      BY <3>3 DEF n2, j2
  <2>7. q[e] = off[p[n] - 1] + j
    BY <1>22, <2>5, <2>6
  <2> QED
    BY <2>2, <2>3, <2>5, <2>7
<1>26. K = N /\ q = r
  <2>1. S \in SUBSET Int
    BY <1>15, <1>16
  <2>2. q \in [1..K -> S]
    <3>1. \A e \in 1..K : q[e] \in S
      BY <1>23
    <3> QED
      BY <3>1 DEF q
  <2>3. /\ r \in [1..N -> S] /\ \A i, j \in 1..N : i < j => r[i] < r[j]
        /\ \A x \in S : \E i \in 1..N : r[i] = x
    BY <1>18 DEF Taken
  <2>4. K \in Nat /\ N \in Nat
    BY <1>16, <1>17
  <2>5. (\A i, j \in 1..K : i < j => q[i] < q[j]) /\ \A x \in S : \E i \in 1..K : q[i] = x
    BY <1>24, <1>25
  <2> HIDE DEF N
  <2> QED
    BY <2>1, <2>2, <2>3, <2>4, <2>5, AscendingOnce
<1>27. E = At(F, S)
  <2>1. \A e \in 1..K : E[e] = At(F, S)[e]
    BY <1>18, <1>23, <1>26
  <2>2. DOMAIN E = DOMAIN At(F, S)
    BY <1>16, <1>17, <1>26
  <2>3. E = [e \in DOMAIN E |-> E[e]] /\ At(F, S) = [e \in DOMAIN At(F, S) |-> At(F, S)[e]]
    BY <1>2, <1>17
  <2> QED
    BY <1>16, <2>1, <2>2, <2>3
<1> QED
  BY <1>27 DEF E, F, S, tt

\* The register counts, selects and flattens alike.
LEMMA RegisterAlike ==
  /\ \A ps : Register!Words(ps) = Words(ps)
  /\ \A seq, S : Register!At(seq, S) = At(seq, S)
  /\ \A ss : Register!FlattenSeq(ss) = FlattenSeq(ss)
  /\ \A S : Register!Min(S) = Min(S)
<1>1. ASSUME NEW ps PROVE Register!Words(ps) = Words(ps)
  BY DEF Register!Words, Words, Register!FoldLeft, FoldLeft, Register!MapThenFoldSet, MapThenFoldSet,
         Register!Max, Max
<1>2. ASSUME NEW seq, NEW S PROVE Register!At(seq, S) = At(seq, S)
  BY DEF Register!At, At, Register!Sorted, Sorted, Register!Cardinality, Cardinality
<1>3. ASSUME NEW ss PROVE Register!FlattenSeq(ss) = FlattenSeq(ss)
  BY DEF Register!FlattenSeq, FlattenSeq
<1>4. ASSUME NEW S PROVE Register!Min(S) = Min(S)
  BY DEF Register!Min, Min
<1> QED
  BY <1>1, <1>2, <1>3, <1>4

\* Of a document without headings all but some short paragraphs are kept.
LEMMA FlatIsKept ==
  ASSUME NEW doc, doc.intro \in Paragraphs, doc.sections = <<>>
  PROVE  Sections(doc) \in ChunkLists /\ FlattenSeq(Sections(doc)) \in Register!Kept(doc)
<1> DEFINE intro == doc.intro
           ss == SplitParagraphs(intro)
           I == {i \in DOMAIN ss : Words(ss[i]) >= MinSize}
           C == Cardinality(I)
<1>1. ss \in ChunkLists /\ FlattenSeq(ss) = intro
  BY SplitKeepsAll
<1>2. Sections(doc) = At(ss, I)
  BY DEF Sections
<1> HIDE DEF ss
<1>3. /\ ss \in Seq(Paragraphs) /\ ss \in Seq(Seq(DOMAIN Size)) /\ I \in SUBSET (1..Len(ss))
      /\ \A i \in 1..Len(ss) : ss[i] # <<>> /\ ss[i] \in Paragraphs
  BY <1>1 DEF ChunkLists, Paragraphs
<1>4. PICK off : Laid(intro, ss, off)
  BY <1>1, <1>3, FlattenLays
<1> HIDE DEF I
<1> DEFINE S == PlacesIn(ss, off, I)
<1>5. FlattenSeq(At(ss, I)) = At(intro, S)
  BY <1>1, <1>3, <1>4, SelectedLists
<1>6. At(ss, I) \in ChunkLists
  <2>1. /\ C \in Nat /\ At(ss, I) \in Seq(Paragraphs) /\ DOMAIN At(ss, I) = 1..C
        /\ \E p : Taken(p, I) /\ \A n \in 1..C : At(ss, I)[n] = ss[p[n]]
    BY <1>3, AtSelects
  <2>2. PICK p : Taken(p, I) /\ \A n \in 1..C : At(ss, I)[n] = ss[p[n]]
    BY <2>1
  <2>3. \A n \in 1..C : p[n] \in 1..Len(ss)
    BY <1>3, <2>2 DEF Taken
  <2>4. \A n \in 1..C : At(ss, I)[n] # <<>>
    BY <1>3, <2>2, <2>3
  <2>5. Len(At(ss, I)) = C
    BY <2>1
  <2> QED
    BY <2>1, <2>4, <2>5 DEF ChunkLists
<1>7. S \in SUBSET DOMAIN intro
  <2>1. ASSUME NEW i \in I, NEW j \in 1..Len(ss[i])
        PROVE  off[i - 1] + j \in DOMAIN intro
    BY <1>3, <1>4 DEF Laid
  <2> QED
    BY <2>1 DEF PlacesIn
<1>8. ASSUME NEW place \in DOMAIN intro \ S
      PROVE  Size[intro[place]] < MinSize
  <2>1. PICK i \in 1..Len(ss) : \E j \in 1..Len(ss[i]) : place = off[i - 1] + j
    BY <1>4 DEF Laid
  <2>2. PICK j \in 1..Len(ss[i]) : place = off[i - 1] + j
    BY <2>1
  <2>3. i \notin I
    BY <1>8, <2>2 DEF PlacesIn
  <2>4. intro[place] = ss[i][j]
    BY <1>4, <2>2 DEF Laid
  <2>5. Words(ss[i]) \in Nat /\ Size[ss[i][j]] \in Nat /\ Size[ss[i][j]] <= Words(ss[i])
    BY <1>3, WordsGrow
  <2>6. DOMAIN ss = 1..Len(ss)
    BY <1>3
  <2>7. Words(ss[i]) < MinSize
    <3>1. MinSize \in Nat
      BY KnowledgeAssumption DEF KnowledgeAssumption
    <3>2. ~(Words(ss[i]) >= MinSize)
      BY <2>3, <2>6 DEF I
    <3> QED
      BY <2>5, <3>1, <3>2
  <2>8. MinSize \in Nat
    BY KnowledgeAssumption DEF KnowledgeAssumption
  <2> QED
    BY <2>4, <2>5, <2>7, <2>8
<1> HIDE DEF S
<1>9. At(intro, S) \in Register!Kept(doc)
  <2>1. Register!Kept(doc) =
          {At(intro, T) : T \in {U \in SUBSET DOMAIN intro :
                                  \A i \in DOMAIN intro \ U : Size[intro[i]] < MinSize}}
    BY RegisterAlike DEF Register!Kept
  <2>2. S \in {U \in SUBSET DOMAIN intro :
                 \A i \in DOMAIN intro \ U : Size[intro[i]] < MinSize}
    BY <1>7, <1>8
  <2> QED
    BY <2>1, <2>2
<1> QED
  BY <1>2, <1>5, <1>6, <1>9

\* Of a document with headings all is kept from its first part that is long
\* enough.
LEMMA HeadedIsKept ==
  ASSUME NEW doc, doc.intro \in Paragraphs, doc.sections \in Seq(Paragraphs), doc.sections # <<>>
  PROVE  Sections(doc) \in ChunkLists /\ FlattenSeq(Sections(doc)) \in Register!Kept(doc)
<1> DEFINE parts == PartsOf(doc.intro, doc.sections)
           long == {i \in DOMAIN parts : Words(parts[i]) >= MinSize}
           n == Len(parts)
<1>1. Sections(doc) = FoldLeft(AddSection, StartOf(doc.intro), doc.sections)
  BY DEF Sections, StartOf
<1>2. n \in Nat /\ DOMAIN parts = 1..n /\ \A i \in 1..n : parts[i] \in Paragraphs
  BY DEF PartsOf
<1>3. Register!Kept(doc) =
        IF long = {} THEN {<<>>} ELSE {From(parts, Min(long), n)}
  BY RegisterAlike DEF Register!Kept, PartsOf, From
<1>4. MinSize \in Nat /\ \A i \in 1..n : Words(parts[i]) \in Nat
  BY <1>2, KnowledgeAssumption, WordsGrow DEF KnowledgeAssumption
<1> DEFINE fold == FoldLeft(AddSection, StartOf(doc.intro), doc.sections)
<1> HIDE DEF parts, fold, n
<1>5. \A k : FirstLong(parts, k) =>
        /\ fold \in ChunkLists
        /\ FlattenSeq(fold) = IF k <= n THEN From(parts, k, n) ELSE <<>>
  BY HeadedSections DEF parts, fold, n
<1>6. CASE long = {}
  <2>1. FirstLong(parts, n + 1)
    <3>1. \A i \in 1..n : Words(parts[i]) < MinSize
      BY <1>2, <1>4, <1>6
    <3>2. n + 1 \in 1..n + 1 /\ ~(n + 1 <= n)
      BY <1>2
    <3> QED
      BY <3>1, <3>2 DEF FirstLong, n
  <2>2. ~(n + 1 <= n)
    BY <1>2
  <2>3. fold \in ChunkLists /\ FlattenSeq(fold) = <<>>
    BY <1>5, <2>1, <2>2
  <2> QED
    BY <1>1, <1>3, <1>6, <2>3 DEF fold
<1>7. CASE long # {}
  <2> DEFINE k == Min(long)
  <2>1. long \in SUBSET Nat
    BY <1>2
  <2> HIDE DEF long
  <2>2. k \in long /\ \A x \in long : k <= x
    BY <1>7, <2>1, Smallest
  <2> HIDE DEF k
  <2>3. k \in 1..n /\ Words(parts[k]) >= MinSize
    BY <1>2, <2>2 DEF long
  <2>4. \A i \in 1..n : i < k => Words(parts[i]) < MinSize
    <3> SUFFICES ASSUME NEW i \in 1..n, i < k PROVE Words(parts[i]) < MinSize
      OBVIOUS
    <3>1. i \notin long
      BY <1>2, <2>2, <2>3
    <3> QED
      BY <1>2, <1>4, <3>1 DEF long
  <2>5. FirstLong(parts, k)
    <3>1. k \in 1..n + 1
      BY <1>2, <2>3
    <3> QED
      BY <2>3, <2>4, <3>1 DEF FirstLong, n
  <2>6. k <= n
    BY <1>2, <2>3
  <2>7. fold \in ChunkLists /\ FlattenSeq(fold) = From(parts, k, n)
    BY <1>5, <2>5, <2>6
  <2> QED
    BY <1>1, <1>3, <1>7, <2>7 DEF fold, k
<1> QED
  BY <1>6, <1>7

\* A document is split into chunks that are what is kept of it.
LEMMA DocumentIsKept ==
  ASSUME NEW s \in Sources, NEW doc \in Documents[s]
  PROVE  Sections(doc) \in ChunkLists /\ FlattenSeq(Sections(doc)) \in Register!Kept(doc)
<1>1. doc.intro \in Paragraphs /\ doc.sections \in Seq(Paragraphs)
  BY KnowledgeAssumption DEF KnowledgeAssumption, Paragraphs
<1> QED
  BY <1>1, FlatIsKept, HeadedIsKept

(***************************************************************************)
(* The inductive invariant.                                                *)
(***************************************************************************)
SectionTexts ==
  UNION {{Sections(doc)[i] : i \in 1..Len(Sections(doc))} : doc \in UNION {Documents[s] : s \in Sources}}
MaybeText == SectionTexts \cup {NoEmbedding}

AllPlaces == Sources \X Nat
RowState == [source : Sources, index : Nat, text : SectionTexts, embedding : MaybeText]

RequestState ==
  [pc : {"none", "delete", "deleting", "clear", "select", "insert"},
   source : Sources \cup {NoRequest.source},
   sections : {Sections(doc) : doc \in UNION {Documents[s] : s \in Sources}} \cup {<<>>},
   snapshot : SUBSET AllPlaces, deleted : SUBSET AllPlaces,
   added : SUBSET RowState, embedding : MaybeText]

Types ==
  /\ chunks \subseteq RowState
  /\ request \in [Requests -> RequestState]
  /\ held \in [place : AllPlaces \cup {<<>>}, text : MaybeText, there : BOOLEAN]

\* The committed rows of the source of a transaction.
Committed(x) == Places(Of(chunks, x.source))

\* Rows numbered 0, 1, ..., n - 1 with the texts of some sections.
Numbered(rows, n, sections) ==
  /\ {c.index : c \in rows} = 0..n - 1
  /\ \A c \in rows : c.text = sections[c.index + 1]
  /\ \A c, d \in rows : c.index = d.index => c = d

\* The transaction x of a request: it deletes all rows of its source or none,
\* and when it has inserted rows it has deleted what there was.
InProgress(x) ==
  /\ x.pc \in {"none", "delete", "deleting", "clear"} => x.added = {} /\ x.deleted = {}
  /\ x.pc \notin {"deleting", "clear"} => x.snapshot = {}
  /\ x.pc # "none" => x.source \in Sources
  /\ x.pc \notin {"none", "clear"} =>
       /\ \E doc \in Documents[x.source] : x.sections = Sections(doc)
       /\ Cardinality(x.added) <= Len(x.sections)
  /\ IsFiniteSet(x.added)
  /\ \A c \in x.added : c.source = x.source
  /\ Numbered(x.added, Cardinality(x.added), x.sections)
  /\ x.snapshot \in {{}, Committed(x)}
  /\ x.deleted \in {{}, Committed(x)}
  /\ x.added # {} => x.deleted = Committed(x)
  /\ x.pc = "insert" =>
       /\ Cardinality(x.added) < Len(x.sections)
       /\ x.embedding \in {NoEmbedding, x.sections[Cardinality(x.added) + 1]}

\* A transaction holds its source when it has deleted or inserted rows; two
\* never hold the same.
Holds(x) == x.added # {} \/ x.deleted # {}
Apart(x, y) == x.source = y.source => ~(Holds(x) /\ Holds(y))

RequestsInProgress == \A q \in Requests : InProgress(request[q])
RequestsApart == \A p, q \in Requests : p # q => Apart(request[p], request[q])

\* Every embedding is of the text beside it, committed or not.
EmbeddingsMatch ==
  \A c \in chunks \cup UNION {request[q].added : q \in Requests} : c.embedding \in {NoEmbedding, c.text}

\* The row the worker holds is there, with the text that was read, unless it
\* is known to be gone.
HeldIsThere ==
  held.there =>
    /\ held.place \in Places(chunks)
    /\ \A c \in chunks : Place(c) = held.place => c.text = held.text

IInv ==
  /\ Types
  /\ SourcesAreWhole
  /\ RequestsInProgress
  /\ RequestsApart
  /\ EmbeddingsMatch
  /\ HeldIsThere

(***************************************************************************)
(* Lemmas about the operators.                                             *)
(***************************************************************************)
\* A row is found by its place.
LEMMA PlaceShape ==
  /\ \A c, d : Place(c) = Place(d) <=> c.source = d.source /\ c.index = d.index
  /\ \A rows, p : p \in Places(rows) <=> \E c \in rows : p = Place(c)
  /\ \A rows, s, c : c \in Of(rows, s) <=> c \in rows /\ c.source = s
  BY DEF Place, Places, Of

\* The places of the rows of a source.
LEMMA RowPlaces ==
  ASSUME NEW rows \in SUBSET RowState, NEW s
  PROVE  Places(Of(rows, s)) \in SUBSET AllPlaces
  BY DEF RowState, AllPlaces, Places, Of, Place

\* A document is split into numbered texts.
LEMMA SectionShape ==
  ASSUME NEW s \in Sources, NEW doc \in Documents[s]
  PROVE  /\ Len(Sections(doc)) \in Nat
         /\ Sections(doc) \in {Sections(d) : d \in UNION {Documents[t] : t \in Sources}}
         /\ \A i \in 1..Len(Sections(doc)) : Sections(doc)[i] \in SectionTexts
<1>1. Sections(doc) \in ChunkLists
  BY DocumentIsKept
<1>2. Len(Sections(doc)) \in Nat
  BY <1>1 DEF ChunkLists
<1> QED
  BY <1>2 DEF SectionTexts

\* A source that has rows has a first one, and so has a transaction.
LEMMA FirstRow ==
  ASSUME SourcesAreWhole, NEW s \in Sources, Of(chunks, s) # {}
  PROVE  \E c \in chunks : c.source = s /\ c.index = 0
<1>1. PICK doc \in Documents[s] : {c.index : c \in Of(chunks, s)} = 0..Len(Sections(doc)) - 1
  BY DEF SourcesAreWhole
<1>2. Len(Sections(doc)) \in Nat
  BY SectionShape
<1>3. 0 \in {c.index : c \in Of(chunks, s)}
  <2>1. PICK c \in Of(chunks, s) : TRUE
    OBVIOUS
  <2>2. c.index \in 0..Len(Sections(doc)) - 1
    BY <1>1
  <2>3. 0 \in 0..Len(Sections(doc)) - 1
    <3> DEFINE n == Len(Sections(doc))
               i == c.index
    <3>1. n \in Nat /\ i \in 0..n - 1
      BY <1>2, <2>2
    <3> HIDE DEF n, i
    <3>2. 0 \in 0..n - 1
      BY <3>1
    <3>3. QED
      BY <3>2 DEF n
  <2>4. QED
    BY <1>1, <2>3
<1>4. QED
  BY <1>3 DEF Of

\* So has a transaction that has inserted rows.
LEMMA FirstAdded ==
  ASSUME NEW x, InProgress(x), x.added # {}
  PROVE  \E c \in x.added : c.source = x.source /\ c.index = 0
<1> DEFINE n == Cardinality(x.added)
<1>1. n \in Nat /\ {c.index : c \in x.added} = 0..n - 1
  BY FS_CardinalityType DEF InProgress, Numbered
<1>2. PICK c \in x.added : TRUE
  OBVIOUS
<1>3. c.index \in 0..n - 1
  BY <1>1
<1>4. 0 \in {d.index : d \in x.added}
  BY <1>1, <1>3
<1>5. QED
  BY <1>4 DEF InProgress

\* A transaction that holds its source has deleted all that is committed of it.
LEMMA HoldersDelete ==
  ASSUME NEW x, InProgress(x), Holds(x)
  PROVE  x.deleted = Committed(x)
  BY DEF InProgress, Holds

\* A request that is not under way holds nothing.
LEMMA NoRequestShape == NoRequest \in RequestState /\ InProgress(NoRequest) /\ ~Holds(NoRequest)
<1>1. /\ NoRequest.pc = "none" /\ NoRequest.sections = <<>> /\ NoRequest.snapshot = {}
      /\ NoRequest.deleted = {} /\ NoRequest.added = {} /\ NoRequest.embedding = NoEmbedding
  BY DEF NoRequest
<1>2. NoRequest \in RequestState
  BY DEF NoRequest, RequestState, MaybeText
<1>3. Numbered({}, 0, <<>>)
  BY DEF Numbered
<1>4. QED
  BY <1>1, <1>2, <1>3, FS_EmptySet DEF InProgress, Holds

(***************************************************************************)
(* Every step preserves the invariant.                                     *)
(***************************************************************************)
\* A step of one request that commits nothing.
LEMMA RequestStep ==
  ASSUME IInv, NEW q \in Requests, NEW x \in RequestState,
         request' = [request EXCEPT ![q] = x], UNCHANGED <<chunks, held>>,
         InProgress(x),
         Holds(x) /\ ~Holds(request[q]) =>
           \A o \in Requests \ {q} : request[o].source = x.source => ~Holds(request[o]),
         Holds(x) => x.source = request[q].source,
         \A c \in x.added : c.embedding \in {NoEmbedding, c.text}
  PROVE  IInv'
<1>1. \A o \in Requests : request'[o] = IF o = q THEN x ELSE request[o]
  BY DEF IInv, Types
<1>2. Types' /\ SourcesAreWhole' /\ HeldIsThere'
  BY DEF IInv, Types, SourcesAreWhole, HeldIsThere
<1>3. RequestsInProgress'
  BY <1>1 DEF IInv, RequestsInProgress, InProgress, Committed
<1>4. RequestsApart'
  BY <1>1 DEF IInv, RequestsApart, Apart, Holds
<1>5. EmbeddingsMatch'
  BY <1>1 DEF IInv, EmbeddingsMatch
<1>6. QED
  BY <1>2, <1>3, <1>4, <1>5 DEF IInv

LEMMA DropIInv ==
  ASSUME IInv, NEW q \in Requests, Drop(q)
  PROVE  IInv'
<1>1. NoRequest.added = {}
  BY DEF NoRequest
<1>2. QED
  BY <1>1, NoRequestShape, RequestStep DEF Drop

LEMMA IngestIInv ==
  ASSUME IInv, NEW q \in Requests, NEW s \in Sources, NEW doc \in Documents[s], Ingest(q, s, doc)
  PROVE  IInv'
<1> DEFINE x == request'[q]
<1>1. /\ x.pc \in {"delete", "select"} /\ x.source = s /\ x.sections = Sections(doc)
      /\ x.snapshot = {} /\ x.deleted = {} /\ x.added = {} /\ x.embedding = NoEmbedding
      /\ request' = [request EXCEPT ![q] = x]
      /\ x \in RequestState
      /\ UNCHANGED <<chunks, held>>
  BY NoRequestShape, SectionShape DEF Ingest, IInv, Types, NoRequest, RequestState, MaybeText
<1> HIDE DEF x
<1>2. InProgress(x) /\ ~Holds(x)
  <2>1. Numbered({}, 0, Sections(doc)) /\ IsFiniteSet({}) /\ Cardinality({}) = 0
    BY FS_EmptySet DEF Numbered
  <2>2. Len(Sections(doc)) \in Nat
    BY SectionShape
  <2>3. QED
    BY <1>1, <2>1, <2>2 DEF InProgress, Holds
<1>3. QED
  BY <1>1, <1>2, RequestStep

LEMMA DeleteIInv ==
  ASSUME IInv, NEW q \in Requests, NEW s \in Sources, Delete(q, s)
  PROVE  IInv'
<1> DEFINE x == request'[q]
<1>1. Places(Of(chunks, s)) \in SUBSET AllPlaces
  BY RowPlaces DEF IInv, Types
<1>2. /\ x.pc = "clear" /\ x.source = s /\ x.sections = <<>>
      /\ x.snapshot = Places(Of(chunks, s)) /\ x.deleted = {} /\ x.added = {}
      /\ request' = [request EXCEPT ![q] = x]
      /\ x \in RequestState
      /\ UNCHANGED <<chunks, held>>
  BY <1>1, NoRequestShape DEF Delete, IInv, Types, NoRequest, RequestState, MaybeText
<1> HIDE DEF x
<1>3. InProgress(x) /\ ~Holds(x)
  <2>1. Numbered({}, 0, <<>>) /\ IsFiniteSet({}) /\ Cardinality({}) = 0
    BY FS_EmptySet DEF Numbered
  <2>2. QED
    BY <1>2, <2>1 DEF InProgress, Holds, Committed
<1>4. QED
  BY <1>2, <1>3, RequestStep

\* The snapshot of the DELETE of an ingest holds all rows of the source.
LEMMA BeginDeleteIInv ==
  ASSUME IInv, NEW q \in Requests, BeginDelete(q)
  PROVE  IInv'
<1> DEFINE r == request[q]
           x == request'[q]
<1>1. r \in RequestState /\ InProgress(r) /\ r.pc = "delete"
  BY DEF BeginDelete, IInv, Types, RequestsInProgress
<1>2. Places(Of(chunks, r.source)) \in SUBSET AllPlaces
  BY RowPlaces DEF IInv, Types
<1>3. /\ x.pc = "deleting" /\ x.source = r.source /\ x.sections = r.sections
      /\ x.snapshot = Places(Of(chunks, r.source)) /\ x.deleted = r.deleted /\ x.added = r.added
      /\ request' = [request EXCEPT ![q] = x]
      /\ x \in RequestState
      /\ UNCHANGED <<chunks, held>>
  BY <1>1, <1>2 DEF BeginDelete, IInv, Types, RequestState
<1> HIDE DEF r, x
<1>4. InProgress(x) /\ ~Holds(x) /\ x.added = {}
  BY <1>1, <1>3 DEF InProgress, Holds, Committed
<1>5. QED
  BY <1>3, <1>4, RequestStep

\* The rows a request may delete are held by nobody else.
LEMMA ObtainableIsFree ==
  ASSUME IInv, NEW q \in Requests, Obtainable(q), request[q].snapshot # {},
         NEW o \in Requests \ {q}, request[o].source = request[q].source
  PROVE  ~Holds(request[o])
<1>1. InProgress(request[q]) /\ InProgress(request[o])
  BY DEF IInv, RequestsInProgress
<1>2. request[q].snapshot = Committed(request[o])
  BY <1>1 DEF InProgress, Committed
<1>3. Holds(request[o]) => request[o].deleted = request[q].snapshot
  BY <1>1, <1>2, HoldersDelete
<1>4. request[o].deleted # request[q].snapshot
  BY DEF Obtainable, LockedByOthers, Others
<1>5. QED
  BY <1>3, <1>4

LEMMA EndDeleteIInv ==
  ASSUME IInv, NEW q \in Requests, EndDelete(q)
  PROVE  IInv'
<1> DEFINE r == request[q]
           x == request'[q]
<1>1. r \in RequestState /\ InProgress(r) /\ r.pc = "deleting" /\ Obtainable(q)
  BY DEF EndDelete, IInv, Types, RequestsInProgress
<1>2. /\ x.pc = "select" /\ x.source = r.source /\ x.sections = r.sections
      /\ x.snapshot = {} /\ x.deleted = r.snapshot /\ x.added = r.added
      /\ request' = [request EXCEPT ![q] = x]
      /\ x \in RequestState
      /\ UNCHANGED <<chunks, held>>
  BY <1>1 DEF EndDelete, IInv, Types, RequestState
<1>3. r.snapshot # {} => \A o \in Requests \ {q} : request[o].source = r.source => ~Holds(request[o])
  BY <1>1, ObtainableIsFree
<1> HIDE DEF r, x
<1>4. InProgress(x) /\ x.added = {} /\ (Holds(x) => r.snapshot # {})
  BY <1>1, <1>2 DEF InProgress, Holds, Committed
<1>5. x.source = request[q].source
  BY <1>2 DEF r
<1>6. QED
  BY <1>2, <1>3, <1>4, <1>5, RequestStep

\* The embedding that is copied is of the section it is copied for.
LEMMA SelectEmbeddingIInv ==
  ASSUME IInv, NEW q \in Requests, SelectEmbedding(q)
  PROVE  IInv'
<1> DEFINE r == request[q]
           x == request'[q]
           same == {c \in Visible(q) : c.text = Section(q)}
<1>1. /\ r \in RequestState /\ InProgress(r) /\ r.pc = "select"
      /\ Cardinality(r.added) < Len(r.sections)
      /\ UNCHANGED <<chunks, held>>
  BY DEF SelectEmbedding, IInv, Types, RequestsInProgress, Index
<1>2. PICK e \in IF same = {} THEN {NoEmbedding} ELSE {c.embedding : c \in same} :
        request' = [request EXCEPT ![q].pc = "insert", ![q].embedding = e]
  BY DEF SelectEmbedding
<1>3. \A c \in same : c \in chunks \cup r.added /\ c.text = r.sections[Cardinality(r.added) + 1]
  BY DEF Visible, Section, Index
<1>4. e \in {NoEmbedding, r.sections[Cardinality(r.added) + 1]} /\ e \in MaybeText
  <2>1. CASE same = {}
    BY <1>2, <2>1 DEF MaybeText
  <2>2. CASE same # {}
    <3>1. PICK c \in same : e = c.embedding
      BY <1>2, <2>2
    <3>2. c.embedding \in {NoEmbedding, c.text}
      BY <1>3 DEF IInv, EmbeddingsMatch
    <3>3. c \in RowState
      BY <1>1, <1>3 DEF IInv, Types, RequestState
    <3>4. QED
      BY <1>3, <3>1, <3>2, <3>3 DEF RowState
  <2>3. QED
    BY <2>1, <2>2
<1> HIDE DEF same
<1>5. /\ x.pc = "insert" /\ x.source = r.source /\ x.sections = r.sections
      /\ x.snapshot = r.snapshot /\ x.deleted = r.deleted /\ x.added = r.added
      /\ x.embedding = e
      /\ request' = [request EXCEPT ![q] = x]
      /\ x \in RequestState
  BY <1>1, <1>2, <1>4 DEF IInv, Types, RequestState
<1>6. \A c \in r.added : c.embedding \in {NoEmbedding, c.text}
  BY DEF IInv, EmbeddingsMatch
<1>7. Holds(x) => Holds(request[q])
  BY <1>5 DEF Holds
<1>8. x.source = request[q].source
  BY <1>5
<1> HIDE DEF r, x
<1>9. InProgress(x)
  BY <1>1, <1>4, <1>5 DEF InProgress, Committed
<1>10. QED
  BY <1>1, <1>5, <1>6, <1>7, <1>8, <1>9, RequestStep

\* A row is inserted only when nobody else has begun with the source: the
\* unique index has no other row in its place, committed or not.
LEMMA InsertChunkIInv ==
  ASSUME IInv, NEW q \in Requests, InsertChunk(q)
  PROVE  IInv'
<1> DEFINE r == request[q]
           x == request'[q]
           n == Cardinality(r.added)
           row == [source |-> r.source, index |-> n, text |-> r.sections[n + 1],
                   embedding |-> r.embedding]
<1>1. /\ r \in RequestState /\ InProgress(r) /\ r.pc = "insert"
      /\ ~KeyPending(q) /\ ~KeyTaken(q)
      /\ request' = [request EXCEPT ![q].pc = "select", ![q].embedding = NoEmbedding,
                                    ![q].added = @ \cup {row}]
      /\ UNCHANGED <<chunks, held>>
  BY DEF InsertChunk, IInv, Types, RequestsInProgress, Index, Section
<1>2. /\ r.source \in Sources /\ n \in Nat /\ n < Len(r.sections)
      /\ Len(r.sections) \in Nat /\ r.sections[n + 1] \in SectionTexts
  <2>1. /\ r.source \in Sources /\ n \in Nat /\ n < Len(r.sections)
        /\ \E doc \in Documents[r.source] : r.sections = Sections(doc)
    BY <1>1, FS_CardinalityType DEF InProgress
  <2>2. PICK doc \in Documents[r.source] : r.sections = Sections(doc)
    BY <2>1
  <2>3. Len(r.sections) \in Nat /\ \A i \in 1..Len(r.sections) : r.sections[i] \in SectionTexts
    BY <2>1, <2>2, SectionShape
  <2>4. n + 1 \in 1..Len(r.sections)
    BY <2>1, <2>3
  <2>5. QED
    BY <2>1, <2>3, <2>4
<1>3. /\ row \in RowState /\ row.source = r.source /\ row.index = n
      /\ row.text = r.sections[n + 1] /\ row.embedding \in {NoEmbedding, row.text}
  BY <1>1, <1>2 DEF RowState, RequestState, InProgress
<1> HIDE DEF row
<1>4. /\ x.pc = "select" /\ x.source = r.source /\ x.sections = r.sections
      /\ x.snapshot = r.snapshot /\ x.deleted = r.deleted /\ x.added = r.added \cup {row}
      /\ request' = [request EXCEPT ![q] = x]
      /\ x \in RequestState
  BY <1>1, <1>3 DEF IInv, Types, RequestState, MaybeText
<1>5. \A c \in r.added : c.embedding \in {NoEmbedding, c.text}
  BY DEF IInv, EmbeddingsMatch
<1>6. \A c \in r.added : c.index \in 0..n - 1
  BY <1>1 DEF InProgress, Numbered
<1>7. ASSUME ~Holds(r)
      PROVE  /\ Committed(r) = {}
             /\ \A o \in Requests \ {q} : request[o].source = r.source => ~Holds(request[o])
  <2>1. r.added = {} /\ r.deleted = {} /\ n = 0
    BY <1>7, FS_EmptySet DEF Holds
  <2>2. \A c \in chunks : ~(c.source = r.source /\ c.index = 0)
    BY <1>1, <2>1 DEF KeyTaken, HasKey, Visible, Index
  <2>3. Of(chunks, r.source) = {}
    BY <1>2, <2>2, FirstRow DEF IInv
  <2>4. Committed(r) = {}
    BY <2>3 DEF Committed, Places
  <2>5. ASSUME NEW o \in Requests \ {q}, request[o].source = r.source, Holds(request[o])
        PROVE  FALSE
    <3>1. InProgress(request[o])
      BY DEF IInv, RequestsInProgress
    <3>2. request[o].deleted = {}
      BY <2>4, <2>5, <3>1, HoldersDelete DEF Committed
    <3>3. PICK c \in request[o].added : c.source = r.source /\ c.index = 0
      BY <2>5, <3>1, <3>2, FirstAdded DEF Holds
    <3>4. c \in AddedByOthers(q) /\ HasKey(c, q)
      BY <2>1, <3>3 DEF AddedByOthers, Others, HasKey, Index
    <3>5. QED
      BY <1>1, <3>4 DEF KeyPending
  <2>6. QED
    BY <2>4, <2>5
<1>8. x.source = request[q].source
  BY <1>4
<1>9. x.deleted = Committed(x)
  <2>1. Holds(r) => r.deleted = Committed(r)
    BY <1>1, HoldersDelete
  <2>2. ~Holds(r) => r.deleted = Committed(r)
    BY <1>7 DEF Holds
  <2>3. QED
    BY <1>4, <2>1, <2>2 DEF Committed
<1>10. /\ IsFiniteSet(x.added) /\ Cardinality(x.added) = n + 1
       /\ Numbered(x.added, n + 1, x.sections)
  <2>1. row \notin r.added
    BY <1>2, <1>3, <1>6
  <2>2. IsFiniteSet(x.added) /\ Cardinality(x.added) = n + 1
    <3>1. IsFiniteSet(r.added)
      BY <1>1 DEF InProgress
    <3>2. QED
      BY <1>4, <2>1, <3>1, FS_AddElement
  <2> HIDE DEF n
  <2>3. {c.index : c \in x.added} = 0..(n + 1) - 1
    <3>1. {c.index : c \in r.added} = 0..n - 1
      BY <1>1 DEF InProgress, Numbered, n
    <3>2. {c.index : c \in x.added} = {c.index : c \in r.added} \cup {n}
      BY <1>3, <1>4
    <3>3. 0..(n + 1) - 1 = (0..n - 1) \cup {n}
      BY <1>2
    <3>4. QED
      BY <3>1, <3>2, <3>3
  <2>4. \A c \in x.added : c.text = x.sections[c.index + 1]
    BY <1>1, <1>3, <1>4 DEF InProgress, Numbered
  <2>5. \A c, d \in x.added : c.index = d.index => c = d
    <3>1. \A c \in r.added : c.index # row.index
      BY <1>2, <1>3, <1>6
    <3>2. \A c, d \in r.added : c.index = d.index => c = d
      BY <1>1 DEF InProgress, Numbered
    <3>3. QED
      BY <1>4, <3>1, <3>2
  <2>6. QED
    BY <2>2, <2>3, <2>4, <2>5 DEF Numbered
<1>11. \A o \in Requests \ {q} : ~Holds(r) /\ request[o].source = x.source => ~Holds(request[o])
  BY <1>4, <1>7
<1> HIDE DEF x, n
<1>12. InProgress(x)
  BY <1>1, <1>2, <1>3, <1>4, <1>9, <1>10 DEF InProgress, Committed
<1>13. \A c \in x.added : c.embedding \in {NoEmbedding, c.text}
  BY <1>3, <1>4, <1>5
<1>14. QED
  BY <1>1, <1>4, <1>8, <1>11, <1>12, <1>13, RequestStep

\* A commit replaces all rows of a source by those of the transaction, or
\* leaves everything as it is.
LEMMA CommitStep ==
  ASSUME IInv, NEW q \in Requests, NEW places,
         Commit(q, places),
         request[q].pc # "none",
         places \in {{}, Committed(request[q])},
         request[q].added # {} =>
           /\ places = Committed(request[q])
           /\ \E doc \in Documents[request[q].source] :
                Numbered(request[q].added, Len(Sections(doc)), Sections(doc)),
         places # {} \/ request[q].added # {} =>
           \A o \in Requests \ {q} : request[o].source = request[q].source => ~Holds(request[o])
  PROVE  IInv'
<1> DEFINE x == request[q]
           s == x.source
           idle == places = {} /\ x.added = {}
<1>1. /\ x \in RequestState /\ InProgress(x) /\ s \in Sources
      /\ chunks \subseteq RowState /\ x.added \subseteq RowState
      /\ \A c \in x.added : c.source = s
  BY DEF IInv, Types, RequestsInProgress, InProgress, RequestState
<1>2. /\ chunks' = {c \in chunks : Place(c) \notin places} \cup x.added
      /\ held' = [held EXCEPT !.there = @ /\ held.place \notin places]
      /\ \A o \in Requests :
           request'[o] = IF o = q THEN NoRequest ELSE [request[o] EXCEPT !.snapshot = @ \ places]
      /\ DOMAIN request' = Requests /\ request' = [o \in Requests |-> request'[o]]
  BY DEF Commit
<1>3. \A p \in places : \E c \in chunks : c.source = s /\ p = Place(c)
  BY PlaceShape DEF Committed
<1>4. ASSUME NEW t, t # s
      PROVE  Of(chunks', t) = Of(chunks, t)
  BY <1>1, <1>2, <1>3, <1>4, PlaceShape DEF Of
<1>5. ~idle => places = Places(Of(chunks, s)) /\ Of(chunks', s) = x.added
  <2>1. SUFFICES ASSUME ~idle
                 PROVE  places = Places(Of(chunks, s)) /\ Of(chunks', s) = x.added
    OBVIOUS
  <2>2. places = Places(Of(chunks, s))
    BY <2>1 DEF Committed
  <2>3. \A c \in chunks : c.source = s => Place(c) \in places
    BY <2>2, PlaceShape
  <2>4. QED
    BY <1>1, <1>2, <2>2, <2>3, PlaceShape DEF Of
<1>6. idle => chunks' = chunks
  BY <1>2
<1>7. \A o \in Requests \ {q} : ~idle /\ request[o].source = s => ~Holds(request[o])
  OBVIOUS
<1>8. \A o \in Requests \ {q} :
        LET y == request[o]
            z == request'[o]
        IN /\ y \in RequestState /\ InProgress(y) /\ z \in RequestState
           /\ z.pc = y.pc /\ z.source = y.source /\ z.sections = y.sections
           /\ z.deleted = y.deleted /\ z.added = y.added /\ z.embedding = y.embedding
           /\ z.snapshot = y.snapshot \ places
  BY <1>2 DEF IInv, Types, RequestsInProgress, RequestState
<1>9. request'[q] = NoRequest
  BY <1>2
<1> HIDE DEF x, s, idle
<1>10. Types'
  <2>1. chunks' \subseteq RowState
    BY <1>1, <1>2
  <2>2. request' \in [Requests -> RequestState]
    BY <1>2, <1>8, <1>9, NoRequestShape
  <2>3. held' \in [place : AllPlaces \cup {<<>>}, text : MaybeText, there : BOOLEAN]
    <3>1. (held.there /\ held.place \notin places) \in BOOLEAN
      OBVIOUS
    <3>2. held \in [place : AllPlaces \cup {<<>>}, text : MaybeText, there : BOOLEAN]
      BY DEF IInv, Types
    <3>3. QED
      BY <1>2, <3>1, <3>2, Zenon
  <2>4. QED
    BY <2>1, <2>2, <2>3 DEF Types
<1>11. SourcesAreWhole'
  <2>1. SUFFICES ASSUME NEW t \in Sources, Of(chunks', t) # {}
                 PROVE  \E doc \in Documents[t] :
                          Numbered(Of(chunks', t), Len(Sections(doc)), Sections(doc))
    BY DEF SourcesAreWhole, Of, Numbered
  <2>2. CASE t # s \/ idle
    <3>1. Of(chunks', t) = Of(chunks, t)
      BY <1>4, <1>6, <2>2
    <3>2. QED
      BY <2>1, <3>1 DEF IInv, SourcesAreWhole, Numbered
  <2>3. CASE t = s /\ ~idle
    BY <1>5, <2>1, <2>3 DEF x, s
  <2>4. QED
    BY <2>2, <2>3
<1>12. RequestsInProgress'
  <2>1. SUFFICES ASSUME NEW o \in Requests PROVE InProgress(request[o])'
    BY DEF RequestsInProgress
  <2>2. CASE o = q
    <3>1. /\ NoRequest.pc = "none" /\ NoRequest.snapshot = {} /\ NoRequest.deleted = {}
          /\ NoRequest.added = {} /\ InProgress(NoRequest)
      BY NoRequestShape DEF NoRequest
    <3>2. QED
      BY <1>9, <2>2, <3>1 DEF InProgress
  <2>3. ASSUME o # q PROVE InProgress(request[o])'
    <3> DEFINE y == request[o]
               z == request'[o]
    <3>1. /\ InProgress(y)
          /\ z.pc = y.pc /\ z.source = y.source /\ z.sections = y.sections
          /\ z.deleted = y.deleted /\ z.added = y.added /\ z.embedding = y.embedding
          /\ z.snapshot = y.snapshot \ places
      BY <1>8, <2>3
    <3>2. ~idle /\ y.source = s => ~Holds(y)
      BY <1>7, <2>3
    <3> HIDE DEF y, z
    <3>3. z.snapshot \in {{}, Places(Of(chunks', z.source))}
      <4>1. CASE y.source = s /\ ~idle
        <5>1. y.snapshot \subseteq places
          BY <1>5, <3>1, <4>1 DEF InProgress, Committed
        <5>2. QED
          BY <3>1, <5>1
      <4>2. CASE y.source # s \/ idle
        <5>1. Of(chunks', z.source) = Of(chunks, y.source)
          BY <1>4, <1>6, <3>1, <4>2
        <5>2. y.snapshot \cap places = {}
          <6>1. CASE idle
            BY <6>1 DEF idle
          <6>2. CASE y.source # s
            <7>1. \A p \in y.snapshot : \E c \in chunks : c.source = y.source /\ p = Place(c)
              BY <3>1, PlaceShape DEF InProgress, Committed
            <7>2. QED
              BY <1>3, <6>2, <7>1, PlaceShape
          <6>3. QED
            BY <4>2, <6>1, <6>2
        <5>3. z.snapshot = y.snapshot
          BY <3>1, <5>2
        <5>4. QED
          BY <3>1, <5>1, <5>3 DEF InProgress, Committed
      <4>3. QED
        BY <4>1, <4>2
    <3>4. /\ z.deleted \in {{}, Places(Of(chunks', z.source))}
          /\ z.added # {} => z.deleted = Places(Of(chunks', z.source))
      <4>1. CASE y.source = s /\ ~idle
        BY <3>1, <3>2, <4>1 DEF Holds
      <4>2. CASE y.source # s \/ idle
        <5>1. Of(chunks', z.source) = Of(chunks, y.source)
          BY <1>4, <1>6, <3>1, <4>2
        <5>2. QED
          BY <3>1, <5>1 DEF InProgress, Committed
      <4>3. QED
        BY <4>1, <4>2
    <3>5. InProgress(request[o])' <=>
            /\ z.pc \in {"none", "delete", "deleting", "clear"} => z.added = {} /\ z.deleted = {}
            /\ z.pc \notin {"deleting", "clear"} => z.snapshot = {}
            /\ z.pc # "none" => z.source \in Sources
            /\ z.pc \notin {"none", "clear"} =>
                 /\ \E doc \in Documents[z.source] : z.sections = Sections(doc)
                 /\ Cardinality(z.added) <= Len(z.sections)
            /\ IsFiniteSet(z.added)
            /\ \A c \in z.added : c.source = z.source
            /\ Numbered(z.added, Cardinality(z.added), z.sections)
            /\ z.snapshot \in {{}, Places(Of(chunks', z.source))}
            /\ z.deleted \in {{}, Places(Of(chunks', z.source))}
            /\ z.added # {} => z.deleted = Places(Of(chunks', z.source))
            /\ z.pc = "insert" =>
                 /\ Cardinality(z.added) < Len(z.sections)
                 /\ z.embedding \in {NoEmbedding, z.sections[Cardinality(z.added) + 1]}
      BY DEF InProgress, Committed, Places, Of, Place, Numbered, z
    <3>6. QED
      BY <3>1, <3>3, <3>4, <3>5 DEF InProgress
  <2>4. QED
    BY <2>2, <2>3
<1>13. RequestsApart'
  BY <1>8, <1>9, NoRequestShape DEF IInv, RequestsApart, Apart, Holds
<1>14. EmbeddingsMatch'
  BY <1>2, <1>8, <1>9 DEF IInv, EmbeddingsMatch, NoRequest, x
<1>15. HeldIsThere'
  <2>1. held \in [place : AllPlaces \cup {<<>>}, text : MaybeText, there : BOOLEAN]
    BY DEF IInv, Types
  <2>2. /\ held'.place = held.place /\ held'.text = held.text
        /\ held'.there <=> held.there /\ held.place \notin places
    BY <1>2, <2>1
  <2>3. SUFFICES ASSUME held.there, held.place \notin places
                 PROVE  /\ held.place \in Places(chunks')
                        /\ \A c \in chunks' : Place(c) = held.place => c.text = held.text
    BY <2>2 DEF HeldIsThere, Places, Place
  <2>4. PICK d \in chunks : Place(d) = held.place
    BY <2>3, PlaceShape DEF IInv, HeldIsThere
  <2>5. \A c \in x.added : Place(c) # held.place
    <3>1. SUFFICES ASSUME NEW c \in x.added, Place(c) = held.place PROVE FALSE
      OBVIOUS
    <3>2. d.source = s
      BY <1>1, <2>4, <3>1, PlaceShape
    <3>3. ~idle
      BY <3>1 DEF idle
    <3>4. held.place \in places
      BY <1>5, <2>4, <3>2, <3>3, PlaceShape
    <3>5. QED
      BY <2>3, <3>4
  <2>6. QED
    BY <1>2, <2>3, <2>4, <2>5, PlaceShape DEF IInv, HeldIsThere
<1>16. QED
  BY <1>10, <1>11, <1>12, <1>13, <1>14, <1>15 DEF IInv

\* An ingest commits when all sections of its document are inserted.
LEMMA CommitIngestIInv ==
  ASSUME IInv, NEW q \in Requests, CommitIngest(q)
  PROVE  IInv'
<1> DEFINE x == request[q]
<1>1. /\ InProgress(x) /\ x.pc = "select" /\ Cardinality(x.added) = Len(x.sections)
      /\ Commit(q, x.deleted)
  BY DEF CommitIngest, Index, IInv, RequestsInProgress
<1>2. \E doc \in Documents[x.source] : Numbered(x.added, Len(Sections(doc)), Sections(doc))
  BY <1>1 DEF InProgress
<1>3. x.deleted \in {{}, Committed(x)} /\ (x.added # {} => x.deleted = Committed(x))
  BY <1>1 DEF InProgress
<1>4. x.deleted # {} \/ x.added # {} =>
        \A o \in Requests \ {q} : request[o].source = x.source => ~Holds(request[o])
  BY DEF IInv, RequestsApart, Apart, Holds
<1>5. QED
  BY <1>1, <1>2, <1>3, <1>4, CommitStep

LEMMA CommitDeleteIInv ==
  ASSUME IInv, NEW q \in Requests, CommitDelete(q)
  PROVE  IInv'
<1> DEFINE x == request[q]
<1>1. /\ InProgress(x) /\ x.pc = "clear" /\ Obtainable(q) /\ Commit(q, x.snapshot)
  BY DEF CommitDelete, IInv, RequestsInProgress
<1>2. x.added = {} /\ x.snapshot \in {{}, Committed(x)}
  BY <1>1 DEF InProgress
<1>3. x.snapshot # {} =>
        \A o \in Requests \ {q} : request[o].source = x.source => ~Holds(request[o])
  BY <1>1, ObtainableIsFree
<1>4. QED
  BY <1>1, <1>2, <1>3, CommitStep

\* A step of the embedding worker that leaves the rows alone.
LEMMA HeldStep ==
  ASSUME IInv, UNCHANGED <<chunks, request>>,
         held' \in [place : AllPlaces \cup {<<>>}, text : MaybeText, there : BOOLEAN],
         HeldIsThere'
  PROVE  IInv'
<1>1. Types' /\ SourcesAreWhole' /\ EmbeddingsMatch'
  BY DEF IInv, Types, SourcesAreWhole, EmbeddingsMatch
<1>2. RequestsInProgress' /\ RequestsApart'
  BY DEF IInv, RequestsInProgress, InProgress, Committed, RequestsApart, Apart, Holds
<1>3. QED
  BY <1>1, <1>2 DEF IInv

\* No claim is a claim of nothing.
LEMMA NoClaimShape ==
  NoClaim \in [place : AllPlaces \cup {<<>>}, text : MaybeText, there : BOOLEAN] /\ ~NoClaim.there
  BY DEF NoClaim, MaybeText, NoEmbedding

LEMMA ClaimChunkIInv == IInv /\ ClaimChunk => IInv'
<1> SUFFICES ASSUME IInv, ClaimChunk PROVE IInv'
  OBVIOUS
<1>1. PICK c \in chunks : held' = [place |-> Place(c), text |-> c.text, there |-> TRUE]
  BY DEF ClaimChunk
<1>2. UNCHANGED <<chunks, request>> /\ c \in RowState
  BY DEF ClaimChunk, IInv, Types
<1>3. Place(c) \in AllPlaces /\ c.text \in MaybeText
  BY <1>2 DEF RowState, Place, AllPlaces, MaybeText
<1>4. /\ held' \in [place : AllPlaces \cup {<<>>}, text : MaybeText, there : BOOLEAN]
      /\ held'.place = Place(c) /\ held'.text = c.text
  BY <1>1, <1>3
<1>5. \A d \in chunks : Place(d) = Place(c) => d = c
  <2>1. SUFFICES ASSUME NEW d \in chunks, Place(d) = Place(c) PROVE d = c
    OBVIOUS
  <2>2. /\ c \in Of(chunks, c.source) /\ d \in Of(chunks, c.source) /\ c.index = d.index
        /\ c.source \in Sources
    BY <1>2, <2>1, PlaceShape DEF RowState
  <2>3. QED
    BY <2>2 DEF IInv, SourcesAreWhole
<1>6. HeldIsThere'
  BY <1>2, <1>4, <1>5, PlaceShape DEF HeldIsThere, Places, Place
<1>7. QED
  BY <1>2, <1>4, <1>6, HeldStep

LEMMA DropClaimIInv == IInv /\ DropClaim => IInv'
  BY NoClaimShape, HeldStep DEF DropClaim, HeldIsThere

\* The embedding is stored beside the text it was made of.
LEMMA StoreEmbeddingIInv == IInv /\ StoreEmbedding => IInv'
<1> SUFFICES ASSUME IInv, StoreEmbedding PROVE IInv'
  OBVIOUS
<1> DEFINE Stored(c) == IF Claimed(c) THEN [c EXCEPT !.embedding = held.text] ELSE c
<1>1. /\ chunks' = {Stored(c) : c \in chunks} /\ held' = NoClaim /\ request' = request
      /\ chunks \subseteq RowState /\ held.text \in MaybeText
  BY DEF StoreEmbedding, IInv, Types
<1>2. \A c \in chunks :
        /\ Stored(c) \in RowState /\ Stored(c).source = c.source
        /\ Stored(c).index = c.index /\ Stored(c).text = c.text
        /\ Stored(c).embedding \in {NoEmbedding, c.text}
  <2>1. SUFFICES ASSUME NEW c \in chunks
                 PROVE  /\ Stored(c) \in RowState /\ Stored(c).source = c.source
                        /\ Stored(c).index = c.index /\ Stored(c).text = c.text
                        /\ Stored(c).embedding \in {NoEmbedding, c.text}
    OBVIOUS
  <2>2. c \in RowState
    BY <1>1
  <2>3. CASE Claimed(c)
    <3>1. held.text = c.text
      BY <2>3 DEF Claimed, IInv, HeldIsThere
    <3>2. QED
      BY <1>1, <2>2, <2>3, <3>1 DEF RowState
  <2>4. CASE ~Claimed(c)
    BY <2>2, <2>4 DEF IInv, EmbeddingsMatch
  <2>5. QED
    BY <2>3, <2>4
<1> HIDE DEF Stored
<1>3. \A s : Of(chunks', s) = {Stored(c) : c \in Of(chunks, s)}
  BY <1>1, <1>2 DEF Of
<1>4. \A s : Places(Of(chunks', s)) = Places(Of(chunks, s))
  <2>1. SUFFICES ASSUME NEW s, NEW p
                 PROVE  p \in Places(Of(chunks', s)) <=> p \in Places(Of(chunks, s))
    OBVIOUS
  <2>2. \A c \in Of(chunks, s) : Place(Stored(c)) = Place(c)
    BY <1>2 DEF Place, Of
  <2>3. QED
    BY <1>3, <2>2, PlaceShape
<1>5. Types' /\ HeldIsThere'
  BY <1>1, <1>2, NoClaimShape DEF IInv, Types, HeldIsThere
<1>6. SourcesAreWhole'
  <2>1. SUFFICES ASSUME NEW s \in Sources, Of(chunks', s) # {}
                 PROVE  \E doc \in Documents[s] :
                          Numbered(Of(chunks', s), Len(Sections(doc)), Sections(doc))
    BY DEF SourcesAreWhole, Of, Numbered
  <2>2. Of(chunks, s) # {}
    BY <1>3, <2>1
  <2>3. PICK doc \in Documents[s] :
          Numbered(Of(chunks, s), Len(Sections(doc)), Sections(doc))
    BY <2>2 DEF IInv, SourcesAreWhole, Numbered
  <2>4. \A c \in Of(chunks, s) : Stored(c).index = c.index /\ Stored(c).text = c.text
    BY <1>2 DEF Of
  <2>5. {d.index : d \in Of(chunks', s)} = {c.index : c \in Of(chunks, s)}
    BY <1>3, <2>4
  <2>6. /\ \A d \in Of(chunks', s) : d.text = Sections(doc)[d.index + 1]
        /\ \A c, d \in Of(chunks', s) : c.index = d.index => c = d
    BY <1>3, <2>3, <2>4 DEF Numbered
  <2>7. QED
    BY <2>3, <2>5, <2>6 DEF Numbered
<1>7. RequestsInProgress' /\ RequestsApart'
  BY <1>1, <1>4 DEF IInv, RequestsInProgress, InProgress, Committed, RequestsApart, Apart, Holds
<1>8. EmbeddingsMatch'
  BY <1>1, <1>2 DEF IInv, EmbeddingsMatch
<1>9. QED
  BY <1>5, <1>6, <1>7, <1>8 DEF IInv

LEMMA InitIInv == Init => IInv
<1> SUFFICES ASSUME Init PROVE IInv
  OBVIOUS
<1>1. Types
  BY NoRequestShape, NoClaimShape DEF Init, Types
<1>2. SourcesAreWhole
  BY DEF Init, SourcesAreWhole, Of
<1>3. RequestsInProgress /\ RequestsApart
  BY NoRequestShape DEF Init, RequestsInProgress, RequestsApart, Apart
<1>4. EmbeddingsMatch
  BY DEF Init, EmbeddingsMatch, NoRequest
<1>5. HeldIsThere
  BY NoClaimShape DEF Init, HeldIsThere
<1>6. QED
  BY <1>1, <1>2, <1>3, <1>4, <1>5 DEF IInv

LEMMA NextIInv == IInv /\ [Next]_vars => IInv'
<1> SUFFICES ASSUME IInv, [Next]_vars PROVE IInv'
  OBVIOUS
<1>1. ASSUME NEW q \in Requests, NEW s \in Sources, Delete(q, s) PROVE IInv'
  BY <1>1, DeleteIInv
<1>2. ASSUME NEW q \in Requests, NEW s \in Sources, NEW doc \in Documents[s], Ingest(q, s, doc)
      PROVE  IInv'
  BY <1>2, IngestIInv
<1>3. ASSUME NEW q \in Requests, BeginDelete(q) PROVE IInv'
  BY <1>3, BeginDeleteIInv
<1>4. ASSUME NEW q \in Requests, EndDelete(q) PROVE IInv'
  BY <1>4, EndDeleteIInv
<1>5. ASSUME NEW q \in Requests, SelectEmbedding(q) PROVE IInv'
  BY <1>5, SelectEmbeddingIInv
<1>6. ASSUME NEW q \in Requests, InsertChunk(q) PROVE IInv'
  BY <1>6, InsertChunkIInv
<1>7. ASSUME NEW q \in Requests, Collide(q) \/ Abort(q) PROVE IInv'
  BY <1>7, DropIInv DEF Collide, Abort
<1>8. ASSUME NEW q \in Requests, CommitIngest(q) PROVE IInv'
  BY <1>8, CommitIngestIInv
<1>9. ASSUME NEW q \in Requests, CommitDelete(q) PROVE IInv'
  BY <1>9, CommitDeleteIInv
<1>10. CASE ClaimChunk
  BY <1>10, ClaimChunkIInv
<1>11. CASE StoreEmbedding
  BY <1>11, StoreEmbeddingIInv
<1>12. CASE DropClaim
  BY <1>12, DropClaimIInv
<1>13. CASE UNCHANGED vars
  BY <1>13, HeldStep DEF vars, IInv, Types, HeldIsThere
<1>14. QED
  BY <1>1, <1>2, <1>3, <1>4, <1>5, <1>6, <1>7, <1>8, <1>9, <1>10, <1>11, <1>12, <1>13 DEF Next

LEMMA Invariance == Spec => []IInv
  BY InitIInv, NextIInv, PTL DEF Spec

(***************************************************************************)
(* The theorems.                                                           *)
(***************************************************************************)
LEMMA TypesOK == IInv => TypeOK
<1> SUFFICES ASSUME IInv PROVE TypeOK
  OBVIOUS
<1>1. \A text \in SectionTexts : text # <<>>
  <2>1. \A s \in Sources : \A doc \in Documents[s] : Sections(doc) \in ChunkLists
    BY DocumentIsKept
  <2>2. QED
    BY <2>1 DEF SectionTexts, ChunkLists
<1>2. \A c \in chunks \cup UNION {request[q].added : q \in Requests} : c \in RowState
  BY DEF IInv, Types, RequestState
<1>3. ASSUME NEW q \in Requests
      PROVE  /\ request[q].pc \in {"none", "delete", "deleting", "clear", "select", "insert"}
             /\ request[q].snapshot \cup request[q].deleted \subseteq Places(chunks)
  <2>1. request[q] \in RequestState /\ InProgress(request[q])
    BY DEF IInv, Types, RequestsInProgress
  <2>2. Committed(request[q]) \subseteq Places(chunks)
    BY DEF Committed, Places, Of
  <2>3. QED
    BY <2>1, <2>2 DEF RequestState, InProgress
<1>4. held.there => held.place \in Places(chunks)
  BY DEF IInv, HeldIsThere
<1>5. QED
  BY <1>1, <1>2, <1>3, <1>4 DEF TypeOK, RowState

\* Rows, transactions and the worker's claim stay well formed.
THEOREM TypeCorrect == Spec => []TypeOK
  BY Invariance, TypesOK, PTL

\* The rows of a source are the sections of one document: however the
\* statements of ingest_knowledge and delete_knowledge interleave, and whoever
\* waits for, collides with or aborts, no version is mixed with another.
THEOREM VersionsAreNotMixed == Spec => []SourcesAreWhole
<1>1. IInv => SourcesAreWhole
  BY DEF IInv
<1>2. QED
  BY <1>1, Invariance, PTL

\* A chunk has the embedding of its own text or none: the copy by content hash
\* takes no other, and the UPDATE of the embedding worker reaches no row that
\* has replaced the one it claimed.
THEOREM EmbeddingsAreOfTheirText == Spec => []EmbeddingIsOfText
<1>1. IInv => EmbeddingIsOfText
  BY DEF IInv, EmbeddingsMatch, EmbeddingIsOfText
<1>2. QED
  BY <1>1, Invariance, PTL

(***************************************************************************)
(* Knowledge implements KnowledgeRegister.                                 *)
(***************************************************************************)
\* Rows numbered 0, 1, ..., n - 1, one of each number: below k there are k.
LEMMA NumberedCount ==
  ASSUME NEW rows, NEW n \in Nat, NEW sections, Numbered(rows, n, sections)
  PROVE  /\ Cardinality(rows) = n
         /\ \A c \in rows : Cardinality({d \in rows : d.index < c.index}) = c.index
<1> DEFINE row == [k \in 1..n |-> CHOOSE c \in rows : c.index = k - 1]
<1>1. /\ {c.index : c \in rows} = 0..n - 1
      /\ \A c, d \in rows : c.index = d.index => c = d
  BY DEF Numbered
<1>2. \A c \in rows : c.index \in 0..n - 1
  BY <1>1
<1>3. \A k \in 1..n : row[k] \in rows /\ row[k].index = k - 1
  <2> SUFFICES ASSUME NEW k \in 1..n PROVE row[k] \in rows /\ row[k].index = k - 1
    OBVIOUS
  <2>1. k - 1 \in 0..n - 1
    OBVIOUS
  <2>2. \E c \in rows : c.index = k - 1
    BY <1>1, <2>1
  <2> QED
    BY <2>2
<1> HIDE DEF row
<1> DEFINE B(k) == {d \in rows : d.index < k}
<1>4. ASSUME NEW k \in 0..n
      PROVE  Cardinality(B(k)) = k
  <2> DEFINE g == [i \in 1..k |-> row[i]]
  <2>1. k \in Nat /\ \A i \in 1..k : i \in 1..n /\ i - 1 < k
    OBVIOUS
  <2>2. \A i \in 1..k : g[i] \in B(k)
    BY <1>3, <2>1
  <2>3. \A i, j \in 1..k : g[i] = g[j] => i = j
    <3> SUFFICES ASSUME NEW i \in 1..k, NEW j \in 1..k, g[i] = g[j] PROVE i = j
      OBVIOUS
    <3>1. row[i].index = i - 1 /\ row[j].index = j - 1 /\ row[i] = row[j]
      BY <1>3, <2>1
    <3>2. i - 1 = j - 1 /\ i \in Nat /\ j \in Nat
      BY <3>1
    <3> QED
      BY <3>2
  <2>4. \A d \in B(k) : \E i \in 1..k : g[i] = d
    <3> SUFFICES ASSUME NEW d \in B(k) PROVE \E i \in 1..k : g[i] = d
      OBVIOUS
    <3>1. d \in rows /\ d.index \in 0..n - 1 /\ d.index < k
      BY <1>2
    <3> DEFINE i == d.index + 1
    <3>2. i \in 1..k /\ i \in 1..n /\ i - 1 = d.index
      <4> DEFINE x == d.index
      <4>1. x \in 0..n - 1 /\ x < k
        BY <3>1
      <4> HIDE DEF x
      <4>2. x + 1 \in 1..k /\ x + 1 \in 1..n /\ (x + 1) - 1 = x
        BY <4>1
      <4> QED
        BY <4>2 DEF x
    <3>3. row[i] = d
      BY <1>1, <1>3, <3>1, <3>2
    <3> QED
      BY <3>2, <3>3
  <2>5. g \in Bijection(1..k, B(k))
    BY <2>2, <2>3, <2>4 DEF Bijection, Injection, Surjection, IsInjective
  <2>6. ExistsBijection(1..k, B(k))
    BY <2>5 DEF ExistsBijection
  <2> HIDE DEF B
  <2> QED
    BY <2>1, <2>6, FS_CountingElements
<1>5. n \in 0..n /\ B(n) = rows
  <2>1. \A c \in rows : c.index < n
    <3> SUFFICES ASSUME NEW c \in rows PROVE c.index < n
      OBVIOUS
    <3>1. c.index \in 0..n - 1
      BY <1>2
    <3> QED
      BY <3>1
  <2> QED
    BY <2>1
<1>6. ASSUME NEW c \in rows
      PROVE  c.index \in 0..n
  <2>1. c.index \in 0..n - 1
    BY <1>2
  <2> QED
    BY <2>1
<1> QED
  BY <1>4, <1>5, <1>6

\* In order they have the texts of the sections.
LEMMA NumberedTexts ==
  ASSUME NEW A, NEW sections \in Seq(A), NEW rows, Numbered(rows, Len(sections), sections)
  PROVE  Texts(rows) = sections
<1> DEFINE n == Len(sections)
           row == InOrder(rows)
<1>1. n \in Nat /\ sections = [k \in 1..n |-> sections[k]]
  OBVIOUS
<1>2. /\ {c.index : c \in rows} = 0..n - 1
      /\ \A c \in rows : c.text = sections[c.index + 1]
      /\ \A c, d \in rows : c.index = d.index => c = d
  BY DEF Numbered
<1>3. /\ Cardinality(rows) = n
      /\ \A c \in rows : Cardinality({d \in rows : d.index < c.index}) = c.index
  BY <1>1, NumberedCount
<1>4. row = [k \in 1..n |-> CHOOSE c \in rows : Cardinality({d \in rows : d.index < c.index}) = k - 1]
  BY <1>3 DEF InOrder, Sorted
<1>5. Texts(rows) = [k \in DOMAIN row |-> row[k].text]
  BY DEF Texts
<1> HIDE DEF row, n
<1>6. ASSUME NEW k \in 1..n
      PROVE  row[k] \in rows /\ row[k].index = k - 1
  <2>1. k - 1 \in 0..n - 1
    BY <1>1
  <2>2. PICK c \in rows : c.index = k - 1
    BY <1>2, <2>1
  <2>3. Cardinality({d \in rows : d.index < c.index}) = k - 1
    BY <1>3, <2>2
  <2>4. row[k] \in rows /\ Cardinality({d \in rows : d.index < row[k].index}) = k - 1
    BY <1>4, <2>3
  <2> QED
    BY <1>3, <2>4
<1>7. ASSUME NEW k \in 1..n
      PROVE  row[k].text = sections[k]
  <2>1. (k - 1) + 1 = k
    BY <1>1
  <2> QED
    BY <1>2, <1>6, <2>1
<1> QED
  BY <1>1, <1>4, <1>5, <1>7

\* What is held of a source is nothing, or what is kept of a document.
Held(rows) == FlattenSeq(Texts(rows))

\* It is what the register may hold.
LEMMA WholeIsKept ==
  ASSUME NEW s \in Sources, NEW rows,
         rows # {} =>
           \E doc \in Documents[s] : Numbered(rows, Len(Sections(doc)), Sections(doc))
  PROVE  Held(rows) = <<>> \/ \E doc \in Documents[s] : Held(rows) \in Register!Kept(doc)
<1>1. CASE rows = {}
  <2>1. Numbered({}, Len(<<>>), <<>>) /\ <<>> \in Seq({})
    BY DEF Numbered
  <2>2. Texts({}) = <<>>
    BY <2>1, NumberedTexts
  <2> QED
    BY <1>1, <2>2 DEF Held, FlattenSeq
<1>2. CASE rows # {}
  <2>1. PICK doc \in Documents[s] : Numbered(rows, Len(Sections(doc)), Sections(doc))
    BY <1>2
  <2>2. Sections(doc) \in ChunkLists /\ FlattenSeq(Sections(doc)) \in Register!Kept(doc)
    BY DocumentIsKept
  <2>3. Sections(doc) \in Seq(Paragraphs)
    BY <2>2 DEF ChunkLists
  <2>4. Texts(rows) = Sections(doc)
    BY <2>1, <2>3, NumberedTexts
  <2> QED
    BY <2>2, <2>4 DEF Held
<1> QED
  BY <1>1, <1>2

\* A step that changes the rows of one source writes or clears it.
LEMMA OneSourceChanges ==
  ASSUME IInv', NEW s \in Sources, \A t \in Sources \ {s} : Of(chunks', t) = Of(chunks, t)
  PROVE  Register!Write(s) \/ Register!Clear(s)
<1> DEFINE old == [t \in Sources |-> Held(Of(chunks, t))]
           new == [t \in Sources |-> Held(Of(chunks', t))]
<1>1. Of(chunks', s) # {} =>
        \E doc \in Documents[s] : Numbered(Of(chunks', s), Len(Sections(doc)), Sections(doc))
  BY DEF IInv, SourcesAreWhole, Numbered, Of
<1>2. \/ Held(Of(chunks', s)) = <<>>
      \/ \E doc \in Documents[s] : Held(Of(chunks', s)) \in Register!Kept(doc)
  BY <1>1, WholeIsKept
<1>3. new = [old EXCEPT ![s] = Held(Of(chunks', s))]
  OBVIOUS
<1>4. Register!Clear(s) <=> new = [old EXCEPT ![s] = <<>>]
  BY DEF Register!Clear, Held
<1>5. Register!Write(s) <=>
        \E doc \in Documents[s] : \E kept \in Register!Kept(doc) : new = [old EXCEPT ![s] = kept]
  BY DEF Register!Write, Held
<1> HIDE DEF old, new
<1> QED
  BY <1>2, <1>3, <1>4, <1>5

\* A commit changes the rows of one source.
LEMMA CommitWrites ==
  ASSUME IInv, IInv', NEW q \in Requests, NEW places, Commit(q, places), request[q].pc # "none",
         places \in {{}, Committed(request[q])}
  PROVE  \E s \in Sources : Register!Write(s) \/ Register!Clear(s)
<1> DEFINE x == request[q]
           s == x.source
<1>1. s \in Sources /\ \A c \in x.added : c.source = s
  BY DEF IInv, RequestsInProgress, InProgress
<1>2. chunks' = {c \in chunks : Place(c) \notin places} \cup x.added
  BY DEF Commit
<1>3. \A c \in chunks : Place(c) \in places => c.source = s
  BY PlaceShape DEF Committed
<1> HIDE DEF s
<1>4. \A t \in Sources \ {s} : Of(chunks', t) = Of(chunks, t)
  BY <1>1, <1>2, <1>3 DEF Of
<1> QED
  BY <1>1, <1>4, OneSourceChanges

\* So does the embedding worker, and it changes no text.
LEMMA StoreWrites ==
  ASSUME IInv, IInv', StoreEmbedding
  PROVE  \/ UNCHANGED chunks
         \/ \E s \in Sources : Register!Write(s) \/ Register!Clear(s)
<1> DEFINE Stored(c) == IF Claimed(c) THEN [c EXCEPT !.embedding = held.text] ELSE c
<1>1. chunks' = {Stored(c) : c \in chunks}
  BY DEF StoreEmbedding
<1>2. CASE ~held.there
  <2>1. \A c \in chunks : Stored(c) = c
    BY <1>2 DEF Claimed
  <2> QED
    BY <1>1, <2>1
<1>3. CASE held.there
  <2>1. PICK r \in chunks : Place(r) = held.place
    BY <1>3, PlaceShape DEF IInv, HeldIsThere
  <2>2. r.source \in Sources
    BY DEF IInv, Types, RowState
  <2>3. \A c \in chunks : Stored(c).source = c.source
    BY DEF IInv, Types, RowState
  <2>4. \A c \in chunks : c.source # r.source => Stored(c) = c
    BY <2>1, PlaceShape DEF Claimed
  <2> DEFINE s == r.source
  <2> HIDE DEF Stored, s
  <2>5. ASSUME NEW t \in Sources \ {s}
        PROVE  Of(chunks', t) = Of(chunks, t)
    BY <1>1, <2>3, <2>4 DEF Of, s
  <2> QED
    BY <2>2, <2>5, OneSourceChanges DEF s
<1> QED
  BY <1>2, <1>3

\* Overlapping ingests and deletes act on the chunks of a source as on a
\* register: read in order they are one document as it is kept, written as a
\* whole, or nothing.  Splitting and merging, for any documents, lose only
\* what KnowledgeRegister allows to be lost.
THEOREM SourcesAreRegisters == Spec => ImplementsRegister
<1>1. Init => Register!RegisterInit
  <2> SUFFICES ASSUME Init PROVE Register!RegisterInit
    OBVIOUS
  <2>1. Numbered({}, Len(<<>>), <<>>) /\ <<>> \in Seq({})
    BY DEF Numbered
  <2>2. Texts({}) = <<>>
    BY <2>1, NumberedTexts
  <2>3. \A s \in Sources : Of(chunks, s) = {}
    BY DEF Init, Of
  <2>4. FlattenSeq(<<>>) = <<>>
    BY DEF FlattenSeq
  <2> QED
    BY <2>2, <2>3, <2>4 DEF Register!RegisterInit
<1>2. IInv /\ IInv' /\ [Next]_vars =>
        [\E s \in Sources : Register!Write(s) \/ Register!Clear(s)]_(
          [s \in Sources |-> FlattenSeq(Texts(Of(chunks, s)))])
  <2> DEFINE text == [s \in Sources |-> FlattenSeq(Texts(Of(chunks, s)))]
             Change == \E s \in Sources : Register!Write(s) \/ Register!Clear(s)
  <2> SUFFICES ASSUME IInv, IInv', [Next]_vars PROVE Change \/ UNCHANGED text
    OBVIOUS
  <2>1. UNCHANGED chunks => UNCHANGED text
    BY DEF Of
  <2> HIDE DEF text, Change
  <2>2. ASSUME NEW q \in Requests, CommitIngest(q) PROVE Change
    <3>1. Commit(q, request[q].deleted) /\ request[q].pc # "none"
      BY <2>2 DEF CommitIngest
    <3>2. request[q].deleted \in {{}, Committed(request[q])}
      BY DEF IInv, RequestsInProgress, InProgress
    <3> QED
      BY <3>1, <3>2, CommitWrites DEF Change
  <2>3. ASSUME NEW q \in Requests, CommitDelete(q) PROVE Change
    <3>1. Commit(q, request[q].snapshot) /\ request[q].pc # "none"
      BY <2>3 DEF CommitDelete
    <3>2. request[q].snapshot \in {{}, Committed(request[q])}
      BY DEF IInv, RequestsInProgress, InProgress
    <3> QED
      BY <3>1, <3>2, CommitWrites DEF Change
  <2>4. CASE StoreEmbedding
    BY <2>1, <2>4, StoreWrites DEF Change
  <2>5. ASSUME NEW q \in Requests,
               \/ \E s \in Sources : Delete(q, s) \/ \E doc \in Documents[s] : Ingest(q, s, doc)
               \/ BeginDelete(q) \/ EndDelete(q)
               \/ SelectEmbedding(q) \/ InsertChunk(q) \/ Collide(q) \/ Abort(q)
        PROVE  UNCHANGED chunks
    BY <2>5 DEF Delete, Ingest, BeginDelete, EndDelete, SelectEmbedding, InsertChunk, Collide,
                Abort, Drop
  <2>6. CASE ClaimChunk \/ DropClaim \/ UNCHANGED vars
    <3>1. UNCHANGED chunks
      BY <2>6 DEF ClaimChunk, DropClaim, vars
    <3> QED
      BY <2>1, <3>1
  <2> QED
    BY <2>1, <2>2, <2>3, <2>4, <2>5, <2>6 DEF Next
<1>3. QED
  BY <1>1, <1>2, Invariance, PTL DEF Spec, ImplementsRegister, Register!RegisterSpec
=============================================================================
