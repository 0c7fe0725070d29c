------------------------- MODULE EntityGraphProofs -------------------------
(***************************************************************************)
(* Theorems about EntityGraph, for any number of worker processes, rows    *)
(* and nodes, and any entity lists.                                        *)
(***************************************************************************)
EXTENDS EntityGraph, FiniteSetTheorems, SequenceTheorems, TLAPS

(***************************************************************************)
(* The inductive invariant.                                                *)
(***************************************************************************)
BatchType == UNION {[S -> Seq(Nodes)] : S \in SUBSET Rows}
PendingType == UNION {[S -> Seq(Rows)] : S \in SUBSET Nodes}

WorkerState ==
  [pc : {"idle", "private", "between", "org"}, batch : BatchType,
   row : Rows \cup {NoRow}, todo : Seq(Nodes), pending : PendingType]

ForgetState ==
  [pc : {"none", "deleted", "cleaning"}, row : Rows \cup {NoRow},
   todo : Seq(Nodes), locks : SUBSET Nodes]

Types ==
  /\ inserted \in 0..MaxRows
  /\ stored \subseteq 1..inserted /\ graphed \subseteq stored
  /\ entities \in [Rows -> Seq(Nodes)]
  /\ links \in [Nodes -> SUBSET (1..inserted)]
  /\ summary \in [Nodes -> {NoSummary} \cup Seq(1..inserted)]
  /\ worker \in [Workers -> WorkerState]
  /\ \A w \in Workers : Batch(w) \subseteq 1..inserted
  /\ forget \in ForgetState
  /\ faults \in 0..MaxFaults

\* A node is locked by one transaction at most.
LocksExclude ==
  /\ \A v, w \in Workers : v # w => LockedBy(v) \cap LockedBy(w) = {}
  /\ \A w \in Workers : LockedBy(w) \cap forget.locks = {}

\* A change to the summary of a node that a transaction has locked for a row.
PendingOf(n, r, s) ==
  \/ s \in {<<r>>, Empty}
  \/ summary[n] # NoSummary /\ s \in {summary[n], Append(summary[n], r)}

\* The transaction a worker has open: the nodes of its row are behind it or
\* before it, and each change it has made is to the summary that is still
\* committed.
TransactionInOrder(x) ==
  /\ x.row \in DOMAIN x.batch \cup {NoRow}
  /\ x.row = NoRow => DOMAIN x.pending = {}
  /\ x.row # NoRow =>
       /\ x.pc \in {"private", "org"}
       /\ ToSet(x.batch[x.row]) \subseteq ToSet(x.todo) \cup DOMAIN x.pending
  /\ \A n \in DOMAIN x.pending : PendingOf(n, x.row, x.pending[n])

TransactionsInOrder == \A w \in Workers : TransactionInOrder(worker[w])

\* A batch holds the lists the rows have, unless remember_org wrote a row
\* again; its rows are stored, or known to be raced or purged; and rows two
\* workers hold are known to be shared.
BatchesKnown ==
  \A w \in Workers :
    /\ \A r \in Batch(w) \ rewritten : worker[w].batch[r] = entities[r]
    /\ Batch(w) \subseteq stored \cup raced \cup purged
    /\ \A v \in Workers \ {w} : Batch(v) \cap Batch(w) \subseteq shared

\* A row that is in a summary is graphed or gone, and in no batch unless it
\* was shared.
SummarisedIsDone ==
  \A n \in Nodes : \A r \in ToSet(summary[n]) :
    /\ r \in stored => r \in graphed
    /\ \A w \in Workers : r \in Batch(w) => r \in shared

\* A forget that has found the nodes of its row keeps knowing all of them.
ForgetKnowsNodes ==
  forget.pc = "cleaning" => Mentioning(forget.row) \subseteq forget.locks \cup ToSet(forget.todo)

IInv ==
  /\ Types
  /\ LocksExclude
  /\ TransactionsInOrder
  /\ BatchesKnown
  /\ SummarisedIsDone
  /\ ForgetKnowsNodes
  /\ GraphedIsLinked
  /\ LinkedHasSummary
  /\ ForgetCleansNodes
  /\ MergedOnce

(***************************************************************************)
(* Lemmas about the operators.                                             *)
(***************************************************************************)
\* The elements of sequences.
LEMMA SequenceElements ==
  ASSUME NEW S, NEW s \in Seq(S)
  PROVE  /\ ToSet(s) \subseteq S
         /\ s # <<>> => /\ Head(s) \in S /\ Tail(s) \in Seq(S)
                        /\ ToSet(s) = {Head(s)} \cup ToSet(Tail(s))
         /\ \A e \in S : /\ Append(s, e) \in Seq(S) /\ Append(s, e) # <<>>
                         /\ ToSet(Append(s, e)) = ToSet(s) \cup {e}
         /\ \A e \in S : <<e>> \in Seq(S) /\ <<e>> # <<>> /\ ToSet(<<e>>) = {e}
<1>1. ToSet(s) \subseteq S
  BY LenProperties, ElementOfSeq DEF ToSet
<1>2. ASSUME s # <<>>
      PROVE  /\ Head(s) \in S /\ Tail(s) \in Seq(S)
             /\ ToSet(s) = {Head(s)} \cup ToSet(Tail(s))
  <2>1. /\ Head(s) \in S /\ Tail(s) \in Seq(S) /\ Len(Tail(s)) = Len(s) - 1
        /\ \A i \in 1..Len(Tail(s)) : Tail(s)[i] = s[i + 1]
    BY <1>2, HeadTailProperties
  <2>2. /\ Len(s) \in Nat \ {0} /\ Head(s) = s[1]
        /\ DOMAIN s = 1..Len(s) /\ DOMAIN Tail(s) = 1..Len(Tail(s))
    BY <1>2, <2>1, EmptySeq, LenProperties
  <2>3. ToSet(s) \subseteq {Head(s)} \cup ToSet(Tail(s))
    <3>1. SUFFICES ASSUME NEW i \in 1..Len(s), i # 1
                   PROVE  s[i] \in ToSet(Tail(s))
      BY <2>2 DEF ToSet
    <3>2. i - 1 \in DOMAIN Tail(s) /\ Tail(s)[i - 1] = s[i]
      BY <2>1, <2>2, <3>1
    <3>3. QED
      BY <3>2 DEF ToSet
  <2>4. {Head(s)} \cup ToSet(Tail(s)) \subseteq ToSet(s)
    BY <2>1, <2>2 DEF ToSet
  <2>5. QED
    BY <2>1, <2>3, <2>4
<1>3. ASSUME NEW e \in S
      PROVE  /\ Append(s, e) \in Seq(S) /\ Append(s, e) # <<>>
             /\ ToSet(Append(s, e)) = ToSet(s) \cup {e}
  BY AppendProperties, LenProperties DEF ToSet
<1>4. ASSUME NEW e \in S
      PROVE  <<e>> \in Seq(S) /\ <<e>> # <<>> /\ ToSet(<<e>>) = {e}
  BY DEF ToSet
<1>5. QED
  BY <1>1, <1>2, <1>3, <1>4

\* The empty sequence and the empty function.
LEMMA NothingElements ==
  ASSUME NEW S
  PROVE  <<>> \in Seq(S) /\ ToSet(<<>>) = {} /\ DOMAIN Nothing = {}
  BY DEF ToSet, Nothing

\* An order of the nodes of a forget is a sequence of nodes.
LEMMA PermutationIsSeq ==
  ASSUME NEW S \in SUBSET Nodes, NEW order \in SetToAllKPermutations(S), ToSet(order) = S
  PROVE  order \in Seq(Nodes)
<1>1. PICK T \in SUBSET S : order \in SetToSeqs(T)
  BY DEF SetToAllKPermutations
<1>2. order \in [1..Cardinality(T) -> T]
  BY <1>1 DEF SetToSeqs
<1>3. Cardinality(T) \in Nat
  BY EntityGraphAssumption, FS_Subset, FS_CardinalityType DEF EntityGraphAssumption
<1>4. order \in [1..Cardinality(T) -> Nodes]
  BY <1>2
<1>5. QED
  BY <1>3, <1>4, SeqDef

\* The pending changes of a transaction with one more.
LEMMA WithType ==
  ASSUME NEW f \in PendingType, NEW n \in Nodes, NEW s \in Seq(Rows)
  PROVE  With(f, n, s) \in PendingType
<1>1. PICK S \in SUBSET Nodes : f \in [S -> Seq(Rows)]
  BY DEF PendingType
<1>2. With(f, n, s) \in [({n} \cup S) -> Seq(Rows)]
  BY <1>1 DEF With
<1>3. QED
  BY <1>2 DEF PendingType

\* The empty function is a batch and a set of pending changes.
LEMMA NothingType == Nothing \in BatchType /\ Nothing \in PendingType
<1>1. Nothing \in [{} -> Seq(Nodes)] /\ Nothing \in [{} -> Seq(Rows)]
  BY DEF Nothing
<1>2. QED
  BY <1>1 DEF BatchType, PendingType

\* An idle worker holds nothing.
LEMMA IdleShape ==
  /\ Idle \in WorkerState /\ DOMAIN Idle.batch = {}
  /\ TransactionInOrder(Idle) /\ DOMAIN Idle.pending = {}
  BY NothingType, NothingElements DEF Idle, WorkerState, TransactionInOrder

\* Where a worker goes on with a batch.
LEMMA AtShape ==
  ASSUME NEW pc \in {"private", "org"}, NEW batch \in BatchType, NEW x \in At(pc, batch)
  PROVE  /\ x \in WorkerState
         /\ DOMAIN x.batch = DOMAIN batch
         /\ \A r \in DOMAIN batch : x.batch[r] = batch[r]
         /\ TransactionInOrder(x) /\ DOMAIN x.pending = {}
<1>1. PICK S \in SUBSET Rows : batch \in [S -> Seq(Nodes)]
  BY DEF BatchType
<1>2. CASE DOMAIN batch = {}
  <2>1. x = [Idle EXCEPT !.pc = IF pc = "private" THEN "between" ELSE "idle"]
    BY <1>2 DEF At
  <2>2. x \in WorkerState
    BY <2>1, IdleShape DEF WorkerState
  <2>3. x.batch = Nothing /\ x.pending = Nothing /\ x.row = NoRow
    BY <2>1 DEF Idle
  <2>4. QED
    BY <1>2, <2>2, <2>3, NothingElements DEF TransactionInOrder
<1>3. CASE DOMAIN batch # {}
  <2>1. PICK r \in S :
          x = [pc |-> pc, batch |-> batch, row |-> r, todo |-> batch[r], pending |-> Nothing]
    BY <1>1, <1>3 DEF At
  <2>2. x \in WorkerState
    BY <1>1, <2>1, NothingType DEF WorkerState
  <2>3. TransactionInOrder(x) /\ DOMAIN x.pending = {}
    BY <1>1, <2>1, NothingElements DEF TransactionInOrder
  <2>4. QED
    BY <2>1, <2>2, <2>3
<1>4. QED
  BY <1>2, <1>3

\* The rows are numbers, and no row is NoRow.
LEMMA RowNumbers ==
  ASSUME Types
  PROVE  /\ NoRow \notin Rows /\ inserted \in Nat /\ 1..inserted \subseteq Rows
         /\ \A w \in Workers : worker[w] \in WorkerState
  BY EntityGraphAssumption DEF EntityGraphAssumption, Types, Rows, NoRow

\* The column that is NULL stands for no row.
LEMMA NoSummaryShape ==
  /\ ToSet(NoSummary) = {NoRow} /\ NoSummary # Empty
  /\ \A r : r # NoRow => <<r>> # NoSummary
  /\ DOMAIN NoSummary = {1}
  /\ \A k \in Nat : NoSummary \notin Seq(1..k)
<1>1. /\ ToSet(NoSummary) = {NoRow} /\ NoSummary # Empty
      /\ \A r : r # NoRow => <<r>> # NoSummary
      /\ DOMAIN NoSummary = {1}
  BY DEF NoSummary, Empty, ToSet
<1>2. ASSUME NEW k \in Nat, NoSummary \in Seq(1..k) PROVE FALSE
  <2>1. NoSummary[1] \in 1..k
    BY <1>2, ElementOfSeq DEF NoSummary
  <2>2. QED
    BY <2>1 DEF NoSummary, NoRow
<1>3. QED
  BY <1>1, <1>2

\* The entities of a row are nodes, and the rows in a summary are rows.
LEMMA ElementsAreNodes ==
  ASSUME IInv
  PROVE  /\ \A r \in graphed : ToSet(entities[r]) \subseteq Nodes
         /\ \A n \in Nodes : /\ ToSet(summary[n]) \subseteq {NoRow} \cup 1..inserted
                             /\ summary[n] # NoSummary => ToSet(summary[n]) \subseteq 1..inserted
<1>1. \A r \in graphed : entities[r] \in Seq(Nodes)
  BY RowNumbers DEF IInv, Types
<1>2. \A n \in Nodes : summary[n] = NoSummary \/ summary[n] \in Seq(1..inserted)
  BY DEF IInv, Types
<1>3. \A n \in Nodes : summary[n] # NoSummary => ToSet(summary[n]) \subseteq 1..inserted
  BY <1>2, SequenceElements
<1>4. QED
  BY <1>1, <1>2, <1>3, SequenceElements, NoSummaryShape

\* The type invariant of EntityGraph.
LEMMA TypesOK == IInv => TypeOK
<1> SUFFICES ASSUME IInv PROVE TypeOK
  OBVIOUS
<1>1. \A n \in Nodes :
        /\ links[n] \subseteq 1..inserted
        /\ summary[n] = NoSummary \/ ToSet(summary[n]) \subseteq 1..inserted
  BY ElementsAreNodes DEF IInv, Types
<1>2. ASSUME NEW w \in Workers
      PROVE  /\ worker[w].pc \in {"idle", "private", "between", "org"}
             /\ worker[w].row \in Batch(w) \cup {NoRow}
             /\ LockedBy(w) \cap (forget.locks \cup UNION {LockedBy(v) : v \in Workers \ {w}}) = {}
  BY RowNumbers DEF IInv, WorkerState, TransactionsInOrder, TransactionInOrder, LocksExclude,
     Batch
<1>3. QED
  BY <1>1, <1>2 DEF IInv, Types, TypeOK

(***************************************************************************)
(* Every step preserves the invariant.                                     *)
(***************************************************************************)
\* A row that may be claimed is stored and in no summary.
LEMMA ClaimableIsNew ==
  ASSUME IInv, NEW tbl, NEW r \in Claimable(tbl)
  PROVE  /\ r \in stored /\ r \in Rows /\ r \in 1..inserted
         /\ \A n \in Nodes : r \notin ToSet(summary[n])
  BY RowNumbers DEF Claimable, IInv, Types, SummarisedIsDone

\* A step of one worker that commits nothing: what it holds afterwards it held
\* before or has just claimed, and it locks only nodes that are free.
LEMMA WorkerStep ==
  ASSUME IInv, NEW w \in Workers, NEW x \in WorkerState,
         worker' = [worker EXCEPT ![w] = x],
         UNCHANGED <<table, graph, forget, raced, purged>>, faults' \in 0..MaxFaults,
         TransactionInOrder(x),
         \A n \in DOMAIN x.pending : n \in LockedBy(w) \/ Free(w, n),
         shared \subseteq shared',
         \A r \in DOMAIN x.batch :
           \/ r \in Batch(w) /\ x.batch[r] = worker[w].batch[r]
           \/ /\ \E tbl \in SUBSET Rows : r \in Claimable(tbl)
              /\ x.batch[r] = entities[r]
              /\ \A v \in Workers \ {w} : r \in Batch(v) => r \in shared'
  PROVE  IInv'
<1>1. \A v \in Workers : worker'[v] = IF v = w THEN x ELSE worker[v]
  BY DEF IInv, Types
<1>2. /\ UNCHANGED <<inserted, stored, entities, graphed, rewritten>>
      /\ UNCHANGED <<links, summary>>
  BY DEF table, graph
<1>3. \A r \in DOMAIN x.batch : r \in Batch(w) \/ r \in stored
  BY ClaimableIsNew
<1>4. \A v \in Workers : LockedBy(v)' = DOMAIN worker'[v].pending /\ Batch(v)' = DOMAIN worker'[v].batch
  BY DEF LockedBy, Batch
<1>5. Types'
  <2>1. worker' \in [Workers -> WorkerState]
    BY DEF IInv, Types
  <2>2. \A v \in Workers : Batch(v)' \subseteq 1..inserted
    BY <1>1, <1>3 DEF IInv, Types, Batch
  <2>3. QED
    BY <1>2, <2>1, <2>2 DEF IInv, Types
<1>6. LocksExclude'
  <2>1. \A n \in DOMAIN x.pending :
          n \notin forget.locks /\ \A v \in Workers \ {w} : n \notin LockedBy(v)
    BY DEF IInv, LocksExclude, Free
  <2>2. \A v \in Workers : LockedBy(v)' = IF v = w THEN DOMAIN x.pending ELSE LockedBy(v)
    BY <1>1 DEF LockedBy
  <2>3. QED
    BY <2>1, <2>2 DEF IInv, LocksExclude
<1>7. TransactionsInOrder'
  BY <1>1, <1>2 DEF IInv, TransactionsInOrder, TransactionInOrder, PendingOf
<1>8. BatchesKnown'
  <2>1. ASSUME NEW v \in Workers, NEW r \in Batch(v)'
        PROVE  /\ r \notin rewritten => worker'[v].batch[r] = entities[r]
               /\ r \in stored \cup raced \cup purged
    BY <1>1, <1>3, <2>1 DEF IInv, BatchesKnown, Batch
  <2>2. ASSUME NEW u \in Workers, NEW v \in Workers, u # v, NEW r \in Batch(u)' \cap Batch(v)'
        PROVE  r \in shared'
    BY <1>1, <2>2 DEF IInv, BatchesKnown, Batch
  <2>3. QED
    BY <1>2, <2>1, <2>2 DEF BatchesKnown
<1>9. SummarisedIsDone'
  <2>1. SUFFICES ASSUME NEW n \in Nodes, NEW r \in ToSet(summary[n]),
                        NEW v \in Workers, r \in Batch(v)'
                 PROVE  r \in shared'
    BY <1>2 DEF IInv, SummarisedIsDone
  <2>2. r \in Batch(v)
    BY <1>1, <2>1, ClaimableIsNew DEF Batch
  <2>3. QED
    BY <2>1, <2>2 DEF IInv, SummarisedIsDone
<1>10. ForgetKnowsNodes' /\ GraphedIsLinked' /\ LinkedHasSummary' /\ ForgetCleansNodes'
  BY <1>2 DEF IInv, ForgetKnowsNodes, Mentioning, GraphedIsLinked, LinkedHasSummary,
     ForgetCleansNodes
<1>11. MergedOnce'
  BY <1>2 DEF IInv, MergedOnce
<1>12. QED
  BY <1>5, <1>6, <1>7, <1>8, <1>9, <1>10, <1>11 DEF IInv

\* A worker that goes idle rolls its transaction back.
LEMMA RollbackIInv ==
  ASSUME IInv, NEW w \in Workers, worker' = [worker EXCEPT ![w] = Idle],
         UNCHANGED <<table, graph, forget, shared, raced, purged>>, faults' \in 0..MaxFaults
  PROVE  IInv'
  BY IdleShape, WorkerStep

LEMMA ClaimIInv ==
  ASSUME IInv, NEW w \in Workers, NEW tbl \in SUBSET Rows,
         NEW pc \in {"private", "org"}, Claim(w, tbl, pc)
  PROVE  IInv'
<1>1. PICK S \in SUBSET Claimable(tbl) :
        /\ \E me \in At(pc, [r \in S |-> entities[r]]) : worker' = [worker EXCEPT ![w] = me]
        /\ shared' = shared \cup (S \cap UNION {Batch(v) : v \in Workers \ {w}})
  BY DEF Claim
<1> DEFINE batch == [r \in S |-> entities[r]]
<1>2. PICK x \in At(pc, batch) : worker' = [worker EXCEPT ![w] = x]
  BY <1>1
<1>3. S \subseteq Rows
  BY ClaimableIsNew
<1>4. batch \in [S -> Seq(Nodes)]
  BY <1>3 DEF IInv, Types
<1>5. batch \in BatchType
  BY <1>3, <1>4 DEF BatchType
<1>6. /\ x \in WorkerState /\ DOMAIN x.batch = S /\ \A r \in S : x.batch[r] = entities[r]
      /\ TransactionInOrder(x) /\ DOMAIN x.pending = {}
  BY <1>5, AtShape
<1>7. \A r \in S : \A v \in Workers \ {w} : r \in Batch(v) => r \in shared'
  BY <1>1
<1>8. UNCHANGED <<table, graph, forget, raced, purged>> /\ faults' \in 0..MaxFaults
  BY DEF Claim, IInv, Types
<1>9. shared \subseteq shared'
  BY <1>1
<1>10. QED
  BY <1>2, <1>6, <1>7, <1>8, <1>9, WorkerStep

\* What a transaction makes of the summary of a node that it has locked.
LEMMA SummariesShape ==
  ASSUME IInv, NEW n \in Nodes, NEW r \in 1..inserted,
         NEW s \in Summaries(summary[n], r, Cardinality(links[n] \cup {r}))
  PROVE  PendingOf(n, r, s) /\ s \in Seq(1..inserted)
<1> DEFINE S == 1..inserted
<1>1. r \in S /\ <<r>> \in Seq(S) /\ Empty \in Seq(S)
  BY SequenceElements, NothingElements DEF Empty
<1>2. CASE links[n] = {}
  <2>1. Cardinality(links[n] \cup {r}) = 1
    BY <1>2, FS_Singleton
  <2>2. s = <<r>>
    BY <2>1 DEF Summaries
  <2>3. QED
    BY <1>1, <2>2 DEF PendingOf
<1>3. CASE links[n] # {}
  <2>1. summary[n] # NoSummary /\ summary[n] \in Seq(S)
    BY <1>3 DEF IInv, LinkedHasSummary, Types
  <2>2. s \in {<<r>>, Empty, summary[n], Append(summary[n], r)}
    BY DEF Summaries, Merged
  <2> HIDE DEF S
  <2>3. Append(summary[n], r) \in Seq(S)
    BY <1>1, <2>1, SequenceElements
  <2>4. PendingOf(n, r, s) /\ s \in Seq(S)
    BY <1>1, <2>1, <2>2, <2>3 DEF PendingOf
  <2>5. QED
    BY <2>4 DEF S
<1>4. QED
  BY <1>2, <1>3

LEMMA LinkNodeIInv ==
  ASSUME IInv, NEW w \in Workers, LinkNode(w)
  PROVE  IInv'
<1> DEFINE me == worker[w]
           r == me.row
           n == Head(me.todo)
<1>1. PICK s \in Summaries(summary[n], r, Cardinality(links[n] \cup {r})) :
        worker' = [worker EXCEPT ![w].todo = Tail(@), ![w].pending = With(@, n, s)]
  BY DEF LinkNode
<1> DEFINE x == [me EXCEPT !.todo = Tail(@), !.pending = With(@, n, s)]
<1>2. /\ worker' = [worker EXCEPT ![w] = x]
      /\ r # NoRow /\ me.todo # <<>> /\ Free(w, n)
      /\ UNCHANGED <<table, graph, forget, faults, shared, raced, purged>>
      /\ me \in WorkerState /\ TransactionInOrder(me)
      /\ Batch(w) \subseteq 1..inserted
  BY <1>1 DEF LinkNode, IInv, Types, TransactionsInOrder
<1>3. /\ me.todo \in Seq(Nodes) /\ me.pending \in PendingType
      /\ r \in DOMAIN me.batch /\ r \in 1..inserted
  BY <1>2 DEF WorkerState, TransactionInOrder, Batch
<1>4. /\ n \in Nodes /\ Tail(me.todo) \in Seq(Nodes)
      /\ ToSet(me.todo) = {n} \cup ToSet(Tail(me.todo))
  BY <1>2, <1>3, SequenceElements
<1>5. PendingOf(n, r, s) /\ s \in Seq(1..inserted)
  BY <1>3, <1>4, SummariesShape
<1>6. s \in Seq(Rows)
  BY <1>5, RowNumbers, SeqMonotonic DEF IInv
<1> HIDE DEF n
<1>7. With(me.pending, n, s) \in PendingType
  BY <1>3, <1>4, <1>6, WithType
<1>8. /\ DOMAIN With(me.pending, n, s) = {n} \cup LockedBy(w)
      /\ \A m \in {n} \cup LockedBy(w) :
           With(me.pending, n, s)[m] = IF m = n THEN s ELSE me.pending[m]
  <2>1. LockedBy(w) = DOMAIN me.pending
    BY DEF LockedBy
  <2> HIDE DEF me
  <2>2. QED
    BY <2>1 DEF With
<1>9. /\ x \in WorkerState
      /\ x.pc = me.pc /\ x.batch = me.batch /\ x.row = r /\ x.todo = Tail(me.todo)
      /\ x.pending = With(me.pending, n, s)
  BY <1>2, <1>4, <1>7 DEF WorkerState
<1> HIDE DEF x, r, me
<1>10. TransactionInOrder(x)
  <2>1. TransactionInOrder(me) /\ LockedBy(w) = DOMAIN me.pending
    BY <1>2 DEF LockedBy, me
  <2>2. /\ x.row \in DOMAIN x.batch /\ x.row # NoRow /\ x.pc \in {"private", "org"}
    BY <1>2, <1>3, <1>9, <2>1 DEF TransactionInOrder, r
  <2>3. ToSet(x.batch[x.row]) \subseteq ToSet(x.todo) \cup DOMAIN x.pending
    BY <1>2, <1>4, <1>8, <1>9, <2>1 DEF TransactionInOrder, r
  <2>4. ASSUME NEW m \in DOMAIN x.pending
        PROVE  PendingOf(m, x.row, x.pending[m])
    BY <1>5, <1>8, <1>9, <2>1, <2>4 DEF TransactionInOrder, r
  <2>5. QED
    BY <2>2, <2>3, <2>4 DEF TransactionInOrder
<1>11. \A m \in DOMAIN x.pending : m \in LockedBy(w) \/ Free(w, m)
  BY <1>2, <1>8, <1>9
<1>12. \A q \in DOMAIN x.batch : q \in Batch(w) /\ x.batch[q] = worker[w].batch[q]
  BY <1>9 DEF Batch, me
<1>13. faults' \in 0..MaxFaults /\ shared \subseteq shared'
  BY <1>2 DEF IInv, Types
<1>14. QED
  BY <1>2, <1>9, <1>10, <1>11, <1>12, <1>13, WorkerStep

\* A step of forget that commits nothing.
LEMMA ForgetStep ==
  ASSUME IInv, forget' \in ForgetState,
         UNCHANGED <<table, graph, worker, shared, raced, purged>>, faults' \in 0..MaxFaults,
         \A w \in Workers : LockedBy(w) \cap forget'.locks = {},
         ForgetKnowsNodes'
  PROVE  IInv'
<1>1. UNCHANGED <<inserted, stored, entities, graphed, rewritten, links, summary, worker>>
  BY DEF table, graph
<1>2. Types' /\ LocksExclude'
  BY <1>1 DEF IInv, Types, LocksExclude, LockedBy, Batch
<1>3. TransactionsInOrder' /\ BatchesKnown' /\ SummarisedIsDone'
  BY <1>1 DEF IInv, TransactionsInOrder, TransactionInOrder, PendingOf, BatchesKnown, SummarisedIsDone, Batch
<1>4. GraphedIsLinked' /\ LinkedHasSummary' /\ ForgetCleansNodes' /\ MergedOnce'
  BY <1>1 DEF IInv, GraphedIsLinked, LinkedHasSummary, ForgetCleansNodes, MergedOnce
<1>5. QED
  BY <1>2, <1>3, <1>4 DEF IInv

\* A forget that is not under way has a state.
LEMMA NoForgetShape == NoForget \in ForgetState
  BY NothingElements DEF NoForget, ForgetState

LEMMA DeleteRowIInv ==
  ASSUME IInv, NEW r \in Rows, DeleteRow(r)
  PROVE  IInv'
<1>1. forget' = [NoForget EXCEPT !.pc = "deleted", !.row = r]
  BY DEF DeleteRow
<1>2. forget' \in ForgetState /\ forget'.pc = "deleted" /\ forget'.locks = {}
  BY <1>1, NothingElements DEF NoForget, ForgetState
<1>3. QED
  BY <1>2, ForgetStep DEF DeleteRow, ForgetKnowsNodes, IInv, Types

LEMMA FindNodesIInv == IInv /\ FindNodes => IInv'
<1> SUFFICES ASSUME IInv, FindNodes PROVE IInv'
  OBVIOUS
<1>1. PICK order \in SetToAllKPermutations(Mentioning(forget.row)) :
        /\ ToSet(order) = Mentioning(forget.row)
        /\ forget' = [forget EXCEPT !.pc = "cleaning", !.todo = order]
  BY DEF FindNodes
<1>2. order \in Seq(Nodes)
  BY <1>1, PermutationIsSeq DEF Mentioning
<1>3. /\ forget' \in ForgetState /\ forget'.todo = order
      /\ forget'.locks = forget.locks /\ forget'.row = forget.row
  BY <1>1, <1>2 DEF IInv, Types, ForgetState
<1>4. UNCHANGED <<table, graph, worker, faults, shared, raced, purged>>
  BY DEF FindNodes
<1>5. ForgetKnowsNodes'
  BY <1>1, <1>3, <1>4 DEF ForgetKnowsNodes, Mentioning, graph
<1>6. QED
  BY <1>3, <1>4, <1>5, ForgetStep DEF IInv, Types, LocksExclude

LEMMA CleanNodeIInv == IInv /\ CleanNode => IInv'
<1> SUFFICES ASSUME IInv, CleanNode PROVE IInv'
  OBVIOUS
<1> DEFINE n == Head(forget.todo)
<1>1. /\ forget' = [forget EXCEPT !.todo = Tail(@), !.locks = @ \cup {n}]
      /\ forget.pc = "cleaning" /\ forget.todo # <<>>
      /\ \A w \in Workers : n \notin LockedBy(w)
      /\ UNCHANGED <<table, graph, worker, faults, shared, raced, purged>>
      /\ forget \in ForgetState
  BY DEF CleanNode, IInv, Types
<1>2. /\ n \in Nodes /\ Tail(forget.todo) \in Seq(Nodes)
      /\ ToSet(forget.todo) = {n} \cup ToSet(Tail(forget.todo))
  BY <1>1, SequenceElements DEF ForgetState
<1> HIDE DEF n
<1>3. /\ forget' \in ForgetState /\ forget'.todo = Tail(forget.todo) /\ forget'.row = forget.row
      /\ forget'.locks = forget.locks \cup {n}
  BY <1>1, <1>2 DEF ForgetState
<1>4. ForgetKnowsNodes'
  BY <1>1, <1>2, <1>3 DEF IInv, ForgetKnowsNodes, Mentioning, graph
<1>5. \A w \in Workers : LockedBy(w) \cap forget'.locks = {}
  BY <1>1, <1>3 DEF IInv, LocksExclude
<1>6. QED
  BY <1>1, <1>3, <1>4, <1>5, ForgetStep DEF IInv, Types

\* forget commits: its row is on none of the nodes any more.
LEMMA CommitForgetIInv == IInv /\ CommitForget => IInv'
<1> SUFFICES ASSUME IInv, CommitForget PROVE IInv'
  OBVIOUS
<1> DEFINE r == forget.row
<1>1. /\ forget.pc = "cleaning" /\ forget.todo = <<>>
      /\ stored' = stored \ {r} /\ graphed' = graphed \ {r}
      /\ \A n \in Nodes : links'[n] = IF n \in forget.locks THEN links[n] \ {r} ELSE links[n]
      /\ links' \in [Nodes -> SUBSET (1..inserted)]
      /\ raced' = raced \cup {q \in {r} : \E w \in Workers : q \in Batch(w)}
      /\ forget' = NoForget
      /\ UNCHANGED <<inserted, entities, rewritten, summary, worker, faults, shared, purged>>
  BY DEF CommitForget, IInv, Types
<1>2. \A n \in Nodes : r \notin links'[n]
  BY <1>1, NothingElements DEF IInv, ForgetKnowsNodes, Mentioning
<1> HIDE DEF r
<1>3. Types' /\ LocksExclude' /\ TransactionsInOrder' /\ ForgetKnowsNodes'
  <2>1. forget' \in ForgetState /\ forget'.locks = {} /\ forget'.pc = "none"
    BY <1>1, NoForgetShape DEF NoForget
  <2>2. Types'
    BY <1>1, <2>1 DEF IInv, Types, Batch
  <2>3. LocksExclude' /\ TransactionsInOrder'
    BY <1>1, <2>1 DEF IInv, LocksExclude, LockedBy, TransactionsInOrder, TransactionInOrder,
       PendingOf
  <2>4. QED
    BY <2>1, <2>2, <2>3 DEF ForgetKnowsNodes
<1>4. BatchesKnown' /\ SummarisedIsDone'
  BY <1>1 DEF IInv, BatchesKnown, SummarisedIsDone, Batch
<1>5. GraphedIsLinked' /\ LinkedHasSummary' /\ MergedOnce'
  <2>1. GraphedIsLinked'
    BY <1>1, ElementsAreNodes DEF IInv, GraphedIsLinked
  <2>2. QED
    BY <1>1, <2>1 DEF IInv, LinkedHasSummary, MergedOnce
<1>6. ForgetCleansNodes'
  BY <1>1, <1>2 DEF IInv, ForgetCleansNodes
<1>7. QED
  BY <1>3, <1>4, <1>5, <1>6 DEF IInv

\* The purge deletes a row and leaves the nodes as they are.
LEMMA PurgeIInv ==
  ASSUME IInv, NEW r \in Rows, Purge(r)
  PROVE  IInv'
<1>1. /\ stored' = stored \ {r} /\ graphed' = graphed \ {r} /\ purged' = purged \cup {r}
      /\ UNCHANGED <<inserted, entities, rewritten, links, summary, worker, forget, faults, shared, raced>>
  BY DEF Purge, graph
<1>2. Types' /\ LocksExclude' /\ TransactionsInOrder' /\ ForgetKnowsNodes'
  <2>1. Types'
    BY <1>1 DEF IInv, Types, Batch
  <2>2. LocksExclude' /\ TransactionsInOrder' /\ ForgetKnowsNodes'
    BY <1>1 DEF IInv, LocksExclude, LockedBy, TransactionsInOrder, TransactionInOrder,
       PendingOf, ForgetKnowsNodes, Mentioning
  <2>3. QED
    BY <2>1, <2>2
<1>3. BatchesKnown' /\ SummarisedIsDone'
  BY <1>1 DEF IInv, BatchesKnown, SummarisedIsDone, Batch
<1>4. GraphedIsLinked' /\ LinkedHasSummary' /\ ForgetCleansNodes' /\ MergedOnce'
  BY <1>1 DEF IInv, GraphedIsLinked, LinkedHasSummary, ForgetCleansNodes, MergedOnce
<1>5. QED
  BY <1>2, <1>3, <1>4 DEF IInv

LEMMA RememberIInv == IInv /\ Remember => IInv'
<1> SUFFICES ASSUME IInv, Remember PROVE IInv'
  OBVIOUS
<1> DEFINE new == inserted + 1
<1>1. PICK list \in Lists[new] : entities' = [entities EXCEPT ![new] = list]
  BY DEF Remember
<1>2. /\ inserted' = new /\ stored' = stored \cup {new}
      /\ inserted < MaxRows /\ inserted \in Nat /\ MaxRows \in Nat
      /\ UNCHANGED <<graphed, rewritten, links, summary, worker, forget, faults, shared, raced, purged>>
  BY EntityGraphAssumption DEF Remember, graph, IInv, Types, EntityGraphAssumption
<1>3. /\ new \in Rows /\ new \notin 1..inserted /\ 1..new = (1..inserted) \cup {new}
      /\ 1..inserted \subseteq 1..new
  BY <1>2 DEF Rows
<1>4. list \in Seq(Nodes)
  BY <1>1, <1>3, EntityGraphAssumption DEF EntityGraphAssumption, Rows
<1> HIDE DEF new
<1>5. entities' \in [Rows -> Seq(Nodes)] /\ \A r \in 1..inserted : entities'[r] = entities[r]
  BY <1>1, <1>3, <1>4 DEF IInv, Types
<1>6. \A n \in Nodes : new \notin ToSet(summary[n])
  BY <1>2, <1>3, ElementsAreNodes DEF NoRow, new
<1>7. Types'
  <2>1. summary' \in [Nodes -> {NoSummary} \cup Seq(1..inserted')]
    BY <1>2, <1>3, SeqMonotonic DEF IInv, Types
  <2>2. inserted' \in 0..MaxRows
    BY <1>2 DEF new
  <2>3. QED
    BY <1>2, <1>3, <1>5, <2>1, <2>2 DEF IInv, Types, Batch
<1>8. LocksExclude' /\ TransactionsInOrder' /\ ForgetKnowsNodes'
  BY <1>2 DEF IInv, LocksExclude, LockedBy, TransactionsInOrder, TransactionInOrder,
     PendingOf, ForgetKnowsNodes, Mentioning
<1>9. BatchesKnown'
  BY <1>2, <1>5 DEF IInv, Types, BatchesKnown, Batch
<1>10. SummarisedIsDone'
  BY <1>2, <1>3, <1>6 DEF IInv, SummarisedIsDone, Batch
<1>11. GraphedIsLinked'
  BY <1>2, <1>5 DEF IInv, Types, GraphedIsLinked
<1>12. LinkedHasSummary' /\ ForgetCleansNodes' /\ MergedOnce'
  BY <1>2 DEF IInv, LinkedHasSummary, ForgetCleansNodes, MergedOnce
<1>13. QED
  BY <1>7, <1>8, <1>9, <1>10, <1>11, <1>12 DEF IInv

LEMMA RememberAgainIInv ==
  ASSUME IInv, NEW r \in Rows, RememberAgain(r)
  PROVE  IInv'
<1>1. PICK list \in Lists[r] : entities' = [entities EXCEPT ![r] = list]
  BY DEF RememberAgain
<1>2. /\ rewritten' = rewritten \cup {r}
      /\ UNCHANGED <<inserted, stored, graphed, links, summary, worker, forget, faults, shared, raced, purged>>
  BY DEF RememberAgain, graph
<1>3. list \in Seq(Nodes)
  BY EntityGraphAssumption DEF EntityGraphAssumption, Rows
<1>4. /\ entities' \in [Rows -> Seq(Nodes)]
      /\ \A q \in Rows \ rewritten' : entities'[q] = entities[q]
  BY <1>1, <1>2, <1>3 DEF IInv, Types
<1>5. Types' /\ LocksExclude' /\ TransactionsInOrder' /\ ForgetKnowsNodes'
  BY <1>2, <1>4 DEF IInv, Types, LocksExclude, LockedBy, TransactionsInOrder, TransactionInOrder,
     PendingOf, ForgetKnowsNodes, Mentioning, Batch
<1>6. 1..inserted \subseteq Rows
  BY RowNumbers DEF IInv
<1>7. BatchesKnown' /\ GraphedIsLinked'
  BY <1>2, <1>4, <1>6 DEF IInv, Types, BatchesKnown, GraphedIsLinked, Batch
<1>8. SummarisedIsDone' /\ LinkedHasSummary' /\ ForgetCleansNodes' /\ MergedOnce'
  BY <1>2 DEF IInv, SummarisedIsDone, LinkedHasSummary, ForgetCleansNodes, MergedOnce, Batch
<1>9. QED
  BY <1>5, <1>7, <1>8 DEF IInv

\* A row commits: its nodes link it, and each of its pending changes was made
\* to the summary that is replaced.
LEMMA FinishRowIInv ==
  ASSUME IInv, NEW w \in Workers, FinishRow(w)
  PROVE  IInv'
<1> DEFINE me == worker[w]
           r == me.row
           rest == Restrict(me.batch, Batch(w) \ {r})
<1>1. PICK x \in At(me.pc, rest) : worker' = [worker EXCEPT ![w] = x]
  BY DEF FinishRow
<1>2. /\ me \in WorkerState /\ TransactionInOrder(me)
      /\ r # NoRow /\ me.todo = <<>> /\ r # forget.row
      /\ Batch(w) = DOMAIN me.batch /\ LockedBy(w) = DOMAIN me.pending
  BY RowNumbers DEF FinishRow, IInv, TransactionsInOrder, Batch, LockedBy
<1>3. /\ r \in Batch(w) /\ me.pc \in {"private", "org"} /\ r \in 1..inserted /\ r \in Rows
      /\ ToSet(me.batch[r]) \subseteq LockedBy(w)
  BY <1>2, NothingElements, RowNumbers DEF IInv, Types, TransactionInOrder
<1>4. LockedBy(w) \subseteq Nodes
  BY <1>2 DEF WorkerState, PendingType
<1>5. rest \in BatchType /\ DOMAIN rest = Batch(w) \ {r} /\ \A q \in DOMAIN rest : rest[q] = me.batch[q]
  <2>1. PICK S \in SUBSET Rows : me.batch \in [S -> Seq(Nodes)]
    BY <1>2 DEF WorkerState, BatchType
  <2>2. rest \in [(S \ {r}) -> Seq(Nodes)]
    BY <1>2, <2>1 DEF Restrict
  <2>3. QED
    BY <1>2, <2>1, <2>2 DEF BatchType, Restrict
<1>6. /\ x \in WorkerState /\ DOMAIN x.batch = Batch(w) \ {r}
      /\ \A q \in DOMAIN x.batch : x.batch[q] = me.batch[q]
      /\ TransactionInOrder(x) /\ DOMAIN x.pending = {}
  <2> HIDE DEF rest, r, me
  <2>1. QED
    BY <1>1, <1>3, <1>5, AtShape
<1>7. /\ graphed' = graphed \cup ({r} \cap stored)
      /\ \A n \in Nodes : links'[n] = IF n \in LockedBy(w) THEN links[n] \cup {r} ELSE links[n]
      /\ \A n \in Nodes : summary'[n] = IF n \in LockedBy(w) THEN me.pending[n] ELSE summary[n]
      /\ links' \in [Nodes -> SUBSET (1..inserted)]
      /\ DOMAIN summary' = Nodes /\ summary' = [n \in Nodes |-> summary'[n]]
      /\ UNCHANGED <<inserted, stored, entities, rewritten, forget, faults, shared, raced, purged>>
  BY <1>3 DEF FinishRow, Marked, Appended, IInv, Types
<1>8. \A n \in LockedBy(w) : PendingOf(n, r, me.pending[n])
  BY <1>2 DEF TransactionInOrder
<1>9. \A v \in Workers : worker'[v] = IF v = w THEN x ELSE worker[v]
  BY <1>1 DEF IInv, Types
<1> HIDE DEF rest, r, me
<1>10. \A v \in Workers : /\ LockedBy(v)' = IF v = w THEN {} ELSE LockedBy(v)
                          /\ Batch(v)' = IF v = w THEN Batch(w) \ {r} ELSE Batch(v)
  BY <1>6, <1>9 DEF LockedBy, Batch
<1>11. ASSUME NEW n \in Nodes
       PROVE  /\ \/ summary'[n] \in {<<r>>, Empty, summary[n]}
                 \/ summary[n] # NoSummary /\ summary'[n] = Append(summary[n], r)
              /\ summary'[n] \in {NoSummary} \cup Seq(1..inserted)
              /\ n \in LockedBy(w) => summary'[n] # NoSummary
              /\ \A q \in ToSet(summary'[n]) : q = r \/ q \in ToSet(summary[n])
  <2> DEFINE S == 1..inserted
  <2>1. /\ r \in S /\ inserted \in Nat
        /\ summary[n] = NoSummary \/ summary[n] \in Seq(S)
    BY <1>3, RowNumbers DEF IInv, Types
  <2>2. NoSummary \notin Seq(S)
    BY <2>1, NoSummaryShape
  <2> HIDE DEF S
  <2>3. summary[n] \in Seq(S) =>
          /\ Append(summary[n], r) \in Seq(S)
          /\ ToSet(Append(summary[n], r)) = ToSet(summary[n]) \cup {r}
    BY <2>1, SequenceElements
  <2>4. /\ <<r>> \in Seq(S) /\ ToSet(<<r>>) = {r} /\ Empty \in Seq(S) /\ ToSet(Empty) = {}
    BY <2>1, SequenceElements, NothingElements DEF Empty
  <2>5. CASE n \in LockedBy(w)
    <3>1. PendingOf(n, r, summary'[n])
      BY <1>7, <1>8, <2>5
    <3>2. \/ summary'[n] \in {<<r>>, Empty}
          \/ summary[n] # NoSummary /\ summary'[n] \in {summary[n], Append(summary[n], r)}
      BY <3>1 DEF PendingOf
    <3>3. summary'[n] \in Seq(S) /\ \A q \in ToSet(summary'[n]) : q = r \/ q \in ToSet(summary[n])
      BY <2>1, <2>3, <2>4, <3>2
    <3>4. QED
      BY <2>2, <3>2, <3>3 DEF S
  <2>6. CASE n \notin LockedBy(w)
    BY <1>7, <2>1, <2>6 DEF S
  <2>7. QED
    BY <2>5, <2>6
<1>12. Types'
  <2>1. summary' \in [Nodes -> {NoSummary} \cup Seq(1..inserted)]
    BY <1>7, <1>11
  <2>2. worker' \in [Workers -> WorkerState]
    BY <1>1, <1>6 DEF IInv, Types
  <2>3. \A v \in Workers : Batch(v)' \subseteq 1..inserted
    BY <1>10 DEF IInv, Types
  <2>4. QED
    BY <1>7, <2>1, <2>2, <2>3 DEF IInv, Types
<1>13. LocksExclude'
  BY <1>7, <1>10 DEF IInv, LocksExclude
<1>14. TransactionsInOrder'
  <2>1. SUFFICES ASSUME NEW v \in Workers, v # w
                 PROVE  TransactionInOrder(worker[v])'
    <3>1. TransactionInOrder(worker[w])'
      BY <1>6, <1>9 DEF TransactionInOrder
    <3>2. QED
      BY <3>1 DEF TransactionsInOrder
  <2>2. worker'[v] = worker[v] /\ TransactionInOrder(worker[v])
    BY <1>9, <2>1 DEF IInv, TransactionsInOrder
  <2>3. \A n \in DOMAIN worker[v].pending : summary'[n] = summary[n]
    <3>1. DOMAIN worker[v].pending \subseteq Nodes \ LockedBy(w)
      BY <2>1, RowNumbers DEF IInv, LocksExclude, LockedBy, WorkerState, PendingType
    <3>2. QED
      BY <1>7, <3>1
  <2>4. QED
    BY <2>2, <2>3 DEF TransactionInOrder, PendingOf
<1>15. BatchesKnown'
  <2>1. ASSUME NEW v \in Workers
        PROVE  /\ \A q \in Batch(v)' \ rewritten : worker'[v].batch[q] = entities[q]
               /\ Batch(v)' \subseteq stored \cup raced \cup purged
    BY <1>6, <1>9, <1>10 DEF IInv, BatchesKnown, me
  <2>2. ASSUME NEW u \in Workers, NEW v \in Workers \ {u}
        PROVE  Batch(v)' \cap Batch(u)' \subseteq shared
    BY <1>10 DEF IInv, BatchesKnown
  <2>3. QED
    BY <1>7, <2>1, <2>2 DEF BatchesKnown
<1>16. SummarisedIsDone'
  <2>1. SUFFICES ASSUME NEW n \in Nodes, NEW q \in ToSet(summary'[n])
                 PROVE  /\ q \in stored => q \in graphed'
                        /\ \A v \in Workers : q \in Batch(v)' => q \in shared
    BY <1>7 DEF SummarisedIsDone
  <2>2. CASE q = r
    BY <1>3, <1>7, <1>10, <2>2 DEF IInv, BatchesKnown
  <2>3. CASE q \in ToSet(summary[n])
    BY <1>7, <1>10, <2>3 DEF IInv, SummarisedIsDone
  <2>4. QED
    BY <1>11, <2>2, <2>3
<1>17. ForgetKnowsNodes'
  BY <1>2, <1>7 DEF IInv, ForgetKnowsNodes, Mentioning
<1>18. GraphedIsLinked'
  <2>1. SUFFICES ASSUME NEW q \in graphed' \ rewritten, NEW n \in ToSet(entities[q])
                 PROVE  q \in links'[n]
    BY <1>7 DEF GraphedIsLinked
  <2>2. CASE q \in graphed
    <3>1. n \in Nodes /\ q \in links[n]
      BY <2>1, <2>2, ElementsAreNodes DEF IInv, GraphedIsLinked
    <3>2. QED
      BY <1>7, <3>1
  <2>3. CASE q = r
    <3>1. n \in LockedBy(w)
      BY <1>3, <2>1, <2>3 DEF IInv, BatchesKnown, me
    <3>2. QED
      BY <1>4, <1>7, <2>3, <3>1
  <2>4. QED
    BY <1>7, <2>1, <2>2, <2>3
<1>19. LinkedHasSummary' /\ ForgetCleansNodes'
  BY <1>3, <1>7, <1>11 DEF IInv, LinkedHasSummary, ForgetCleansNodes, BatchesKnown
<1>20. MergedOnce'
  <2>1. SUFFICES ASSUME NEW n \in Nodes, NEW i \in DOMAIN summary'[n], NEW j \in DOMAIN summary'[n],
                        summary'[n][i] = summary'[n][j], summary'[n][i] \notin shared
                 PROVE  i = j
    BY <1>7 DEF MergedOnce
  <2>2. summary'[n] = summary[n] => i = j
    BY <2>1 DEF IInv, MergedOnce
  <2>3. summary'[n] = <<r>> \/ summary'[n] = Empty => i = j
    BY <2>1 DEF Empty
  <2>4. ASSUME summary[n] # NoSummary, summary'[n] = Append(summary[n], r) PROVE i = j
    <3> DEFINE old == summary[n]
               len == Len(old)
    <3>1. /\ len \in Nat /\ DOMAIN old = 1..len /\ DOMAIN summary'[n] = 1..(len + 1)
          /\ summary'[n][len + 1] = r
          /\ \A k \in 1..len : summary'[n][k] = old[k]
      <4> DEFINE S == 1..inserted
      <4>1. old \in Seq(S) /\ r \in S
        BY <1>3, <2>4 DEF IInv, Types
      <4> HIDE DEF S, old
      <4>2. /\ Append(old, r) \in Seq(S) /\ Len(Append(old, r)) = len + 1
            /\ \A k \in 1..len : Append(old, r)[k] = old[k]
            /\ Append(old, r)[len + 1] = r
        BY <4>1, AppendProperties
      <4>3. QED
        BY <2>4, <4>1, <4>2, LenProperties DEF old
    <3>2. \A k \in 1..len : old[k] = r => r \in shared
      BY <1>3, <3>1 DEF IInv, SummarisedIsDone, ToSet
    <3>3. \A k, l \in 1..len : old[k] = old[l] /\ old[k] \notin shared => k = l
      BY <3>1 DEF IInv, MergedOnce
    <3> HIDE DEF old, len
    <3>4. QED
      BY <2>1, <3>1, <3>2, <3>3
  <2>5. QED
    BY <1>11, <2>2, <2>3, <2>4
<1>21. QED
  BY <1>12, <1>13, <1>14, <1>15, <1>16, <1>17, <1>18, <1>19, <1>20 DEF IInv

\* A transaction that PostgreSQL aborts is rolled back, a worker's or a
\* forget's.
LEMMA AbortVictimIInv ==
  ASSUME IInv, NEW t \in Transactions, AbortVictim(t)
  PROVE  IInv'
<1>1. faults' \in 0..MaxFaults
  BY DEF AbortVictim, IInv, Types
<1>2. CASE t = "forget"
  <2>1. forget' = NoForget /\ UNCHANGED <<table, graph, worker, shared, raced, purged>>
    BY <1>2 DEF AbortVictim
  <2>2. \A w \in Workers : LockedBy(w) \cap forget'.locks = {}
    BY <2>1 DEF NoForget
  <2>3. ForgetKnowsNodes'
    BY <2>1 DEF ForgetKnowsNodes, NoForget
  <2>4. QED
    BY <1>1, <2>1, <2>2, <2>3, NoForgetShape, ForgetStep
<1>3. CASE t # "forget"
  BY <1>1, <1>3, RollbackIInv DEF AbortVictim, Transactions
<1>4. QED
  BY <1>2, <1>3

LEMMA FailForgetIInv == IInv /\ FailForget => IInv'
<1> SUFFICES ASSUME IInv, FailForget PROVE IInv'
  OBVIOUS
<1>1. /\ forget' = NoForget /\ UNCHANGED <<table, graph, worker, shared, raced, purged>>
      /\ faults' \in 0..MaxFaults
  BY EntityGraphAssumption DEF FailForget, IInv, Types, EntityGraphAssumption
<1>2. (\A w \in Workers : LockedBy(w) \cap forget'.locks = {}) /\ ForgetKnowsNodes'
  BY <1>1 DEF ForgetKnowsNodes, NoForget
<1>3. QED
  BY <1>1, <1>2, NoForgetShape, ForgetStep

LEMMA FailWorkerIInv ==
  ASSUME IInv, NEW w \in Workers, FailWorker(w)
  PROVE  IInv'
<1>1. faults' \in 0..MaxFaults
  BY EntityGraphAssumption DEF FailWorker, IInv, Types, EntityGraphAssumption
<1>2. QED
  BY <1>1, RollbackIInv DEF FailWorker

LEMMA EndBatchIInv ==
  ASSUME IInv, NEW w \in Workers, EndBatch(w)
  PROVE  IInv'
<1>1. faults' \in 0..MaxFaults
  BY DEF EndBatch, IInv, Types
<1>2. QED
  BY <1>1, RollbackIInv DEF EndBatch

LEMMA InitIInv == Init => IInv
<1> SUFFICES ASSUME Init PROVE IInv
  OBVIOUS
<1>1. Types
  <2>1. worker \in [Workers -> WorkerState] /\ \A w \in Workers : Batch(w) = {}
    BY IdleShape DEF Init, Batch
  <2>2. forget \in ForgetState
    BY NoForgetShape DEF Init
  <2>3. entities \in [Rows -> Seq(Nodes)] /\ summary \in [Nodes -> {NoSummary}]
    BY NothingElements DEF Init
  <2>4. QED
    BY <2>1, <2>2, <2>3, EntityGraphAssumption DEF Init, Types, EntityGraphAssumption
<1>2. \A w \in Workers : LockedBy(w) = {} /\ Batch(w) = {} /\ TransactionInOrder(worker[w])
  BY IdleShape DEF Init, LockedBy, Batch
<1>3. LocksExclude /\ TransactionsInOrder /\ BatchesKnown
  BY <1>2 DEF LocksExclude, TransactionsInOrder, BatchesKnown
<1>4. \A n \in Nodes : summary[n] = NoSummary /\ links[n] = {}
  BY DEF Init
<1>5. SummarisedIsDone /\ LinkedHasSummary /\ ForgetCleansNodes /\ MergedOnce
  <2>1. Init /\ NoRow \notin stored /\ \A n \in Nodes : ToSet(summary[n]) = {NoRow}
    BY <1>4, NoSummaryShape DEF Init
  <2>2. QED
    BY <1>2, <1>4, <2>1, NoSummaryShape DEF SummarisedIsDone, LinkedHasSummary,
       ForgetCleansNodes, MergedOnce
<1>6. ForgetKnowsNodes /\ GraphedIsLinked
  BY DEF Init, NoForget, ForgetKnowsNodes, GraphedIsLinked
<1>7. QED
  BY <1>1, <1>3, <1>5, <1>6 DEF IInv

LEMMA NextIInv == IInv /\ [Next]_vars => IInv'
<1> SUFFICES ASSUME IInv, [Next]_vars PROVE IInv'
  OBVIOUS
<1>1. CASE Remember
  BY <1>1, RememberIInv
<1>2. ASSUME NEW r \in Rows, RememberAgain(r) PROVE IInv'
  BY <1>2, RememberAgainIInv
<1>3. ASSUME NEW r \in Rows, DeleteRow(r) PROVE IInv'
  BY <1>3, DeleteRowIInv
<1>4. CASE FindNodes
  BY <1>4, FindNodesIInv
<1>5. CASE CleanNode
  BY <1>5, CleanNodeIInv
<1>6. CASE CommitForget
  BY <1>6, CommitForgetIInv
<1>7. ASSUME NEW w \in Workers, ClaimPrivate(w) PROVE IInv'
  <2>1. Rows \ Org \in SUBSET Rows
    OBVIOUS
  <2>2. QED
    BY <1>7, <2>1, ClaimIInv DEF ClaimPrivate
<1>8. ASSUME NEW w \in Workers, ClaimOrg(w) PROVE IInv'
  <2>1. Org \in SUBSET Rows
    BY EntityGraphAssumption DEF EntityGraphAssumption, Rows
  <2>2. QED
    BY <1>8, <2>1, ClaimIInv DEF ClaimOrg
<1>9. ASSUME NEW w \in Workers, EndBatch(w) PROVE IInv'
  BY <1>9, EndBatchIInv
<1>10. ASSUME NEW w \in Workers, LinkNode(w) PROVE IInv'
  BY <1>10, LinkNodeIInv
<1>11. ASSUME NEW w \in Workers, FinishRow(w) PROVE IInv'
  BY <1>11, FinishRowIInv
<1>12. ASSUME NEW w \in Workers, FailWorker(w) PROVE IInv'
  BY <1>12, FailWorkerIInv
<1>13. CASE FailForget
  BY <1>13, FailForgetIInv
<1>14. ASSUME NEW t \in Transactions, AbortVictim(t) PROVE IInv'
  BY <1>14, AbortVictimIInv
<1>15. ASSUME NEW r \in Rows, Purge(r) PROVE IInv'
  BY <1>15, PurgeIInv
<1>16. CASE UNCHANGED vars
  <2>1. faults' \in 0..MaxFaults /\ forget' \in ForgetState
    BY <1>16 DEF vars, IInv, Types
  <2>2. ForgetKnowsNodes' /\ \A w \in Workers : LockedBy(w) \cap forget'.locks = {}
    BY <1>16 DEF vars, graph, IInv, ForgetKnowsNodes, Mentioning, LocksExclude
  <2>3. QED
    BY <1>16, <2>1, <2>2, ForgetStep DEF vars
<1>17. QED
  BY <1>1, <1>2, <1>3, <1>4, <1>5, <1>6, <1>7, <1>8, <1>9, <1>10, <1>11, <1>12, <1>13,
     <1>14, <1>15, <1>16 DEF Next

LEMMA Invariance == Spec => []IInv
  BY InitIInv, NextIInv, PTL DEF Spec

(***************************************************************************)
(* The theorems.                                                           *)
(***************************************************************************)
\* Rows, nodes and transactions stay well formed, and a node is locked by one
\* transaction at most: the row lock of the upsert in _populate_graph_batch
\* and of the UPDATE in forget.
THEOREM TypeCorrect == Spec => []TypeOK
  BY Invariance, TypesOK, PTL

\* A row marked is_graphed by _populate_graph_batch is linked from each of its
\* entities, whatever fails, overlaps or is forgotten in between, unless
\* remember_org has written it again.
THEOREM MarkedRowsAreLinked == Spec => []GraphedIsLinked
<1>1. IInv => GraphedIsLinked
  BY DEF IInv
<1>2. QED
  BY <1>1, Invariance, PTL

\* _maybe_update_entity_summary never misses the first row of a node: the
\* summary of a node with rows has been set.
THEOREM NodesHaveSummaries == Spec => []LinkedHasSummary
<1>1. IInv => LinkedHasSummary
  BY DEF IInv
<1>2. QED
  BY <1>1, Invariance, PTL

\* The UPDATE in forget takes its row off every node, unless a worker held it
\* at the time; rows that _purge_expired_short_term_memories deleted are the
\* only others a node may still have.
THEOREM NodesAreCleaned == Spec => []ForgetCleansNodes
<1>1. IInv => ForgetCleansNodes
  BY DEF IInv
<1>2. QED
  BY <1>1, Invariance, PTL

\* _update_entity_summary merges a row once, unless two workers claimed it:
\* the marks and the summaries of a row commit together.
THEOREM RowsAreMergedOnce == Spec => []MergedOnce
<1>1. IInv => MergedOnce
  BY DEF IInv
<1>2. QED
  BY <1>1, Invariance, PTL
=============================================================================
