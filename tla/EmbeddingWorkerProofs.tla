----------------------- MODULE EmbeddingWorkerProofs -----------------------
(***************************************************************************)
(* Theorems about EmbeddingWorker, for any finite set of worker processes  *)
(* and any limits.                                                         *)
(***************************************************************************)
EXTENDS EmbeddingWorker, FiniteSetTheorems, TLAPS

(***************************************************************************)
(* The inductive invariant.                                                *)
(***************************************************************************)
\* The rows a worker holds in its local variables.
Held(x) == x.batch \cup x.found \cup ({x.row} \ {NoRow})

\* A worker that is not idle has a batch, the row it works on is in it, and
\* what it holds was once inserted.
WellHeld(x) ==
  /\ Held(x) \subseteq 1..inserted
  /\ x.pc = "idle" => x = Idle
  /\ x.pc # "idle" => x.batch # {}
  /\ x.pc \in {"finding", "linking"} => x.row \in x.batch

HandsInOrder == \A w \in Workers : WellHeld(worker[w])

\* A row that is gone and still in some worker's hand was in it when it was
\* deleted.
GoneInHandIsRaced == \A r \in Gone : InHand(r) => r \in raced

\* Two claims never lock the same row.
ClaimsExclude ==
  \A v, w \in Workers :
    v # w /\ worker[v].pc = "claiming" /\ worker[w].pc = "claiming"
      => worker[v].batch \cap worker[w].batch = {}

\* The links a forget has deleted are still there, with their reverses; unless
\* a worker has had the row in hand since, they are all links of the row, and
\* no worker has it.
ForgetInOrder ==
  /\ forget.pc = "none" => forget = NoForget
  /\ forget.pc # "none" => forget.row \in stored
  /\ forget.links \subseteq links
  /\ \A l \in forget.links : <<l[2], l[1]>> \in forget.links
  /\ forget.pc = "cleaned" /\ ~forget.held =>
       ~InHand(forget.row) /\ LinksOf(forget.row) \subseteq forget.links

IInv ==
  /\ TypeOK
  /\ HandsInOrder
  /\ ClaimsExclude
  /\ AttemptsBounded
  /\ LinksAreSymmetric
  /\ GoneInHandIsRaced
  /\ ForgetCleansLinks
  /\ ForgetInOrder

(***************************************************************************)
(* Lemmas about the operators.                                             *)
(***************************************************************************)
\* The oldest row of a batch is in the batch.
LEMMA OldestIsMember ==
  ASSUME NEW S \in SUBSET Nat, S # {}
  PROVE  Oldest(S) \in S /\ \A q \in S : Oldest(S) <= q
<1> DEFINE Less == {p \in Nat \X Nat : p[1] < p[2]}
<1>1. IsWellFoundedOn(Less, Nat)
  BY NatLessThanWellFounded DEF OpToRel
<1>2. \E r \in S : \A q \in S : <<q, r>> \notin Less
  <2> HIDE DEF Less
  <2>1. QED
    BY <1>1, WFMin
<1>3. \A q, n \in S : <<q, n>> \notin Less => n <= q
  OBVIOUS
<1>4. \E r \in S : \A q \in S : r <= q
  <2> HIDE DEF Less
  <2>1. QED
    BY <1>2, <1>3
<1>5. QED
  BY <1>4 DEF Oldest

\* The rows in the table are among those inserted, and those among all rows.
LEMMA StoredRows ==
  ASSUME TypeOK
  PROVE  /\ inserted \in Nat /\ MaxRows \in Nat
         /\ 1..inserted \subseteq Rows /\ stored \subseteq 1..inserted
         /\ embedded \subseteq stored /\ NoRow \notin Rows
  BY EmbeddingAssumption DEF EmbeddingAssumption, TypeOK, Rows, NoRow

\* A forget locks its row.
LEMMA ForgetLocks == forget.row # NoRow => forget.row \in Locked
  BY DEF Locked

\* Who holds a row after the variables of one worker have changed.
LEMMA HoldersStep ==
  ASSUME TypeOK, NEW w \in Workers, NEW x, worker' = [worker EXCEPT ![w] = x], NEW r
  PROVE  Holders(r)' = IF r \in x.batch THEN Holders(r) \cup {w} ELSE Holders(r) \ {w}
  BY DEF TypeOK, Holders

\* The number of workers that hold a row.
LEMMA HoldersCount ==
  ASSUME NEW r
  PROVE  /\ IsFiniteSet(Holders(r)) /\ Cardinality(Holders(r)) \in Nat
         /\ Cardinality(Holders(r)) <= Cardinality(Workers)
         /\ Cardinality(Workers) \in Nat
<1>1. IsFiniteSet(Workers)
  BY EmbeddingAssumption DEF EmbeddingAssumption
<1>2. Holders(r) \in SUBSET Workers
  BY DEF Holders
<1>3. QED
  BY <1>1, <1>2, FS_Subset, FS_CardinalityType

\* The bound on the attempts, after a step of one worker that claims rows
\* below the limit, gives rows up, or counts an attempt at a row it gives up.
LEMMA AttemptsStep ==
  ASSUME TypeOK, AttemptsBounded, NEW w \in Workers, NEW x,
         worker' = [worker EXCEPT ![w] = x],
         \A r \in Rows :
           \/ attempts'[r] = attempts[r] /\ (r \in x.batch => r \in worker[w].batch)
           \/ attempts'[r] = attempts[r] /\ attempts[r] < MaxAttempts
           \/ attempts'[r] = attempts[r] + 1 /\ r \in worker[w].batch \ x.batch
  PROVE  AttemptsBounded'
<1> SUFFICES ASSUME NEW r \in Rows
             PROVE  attempts'[r] + Cardinality(Holders(r)')
                      < MaxAttempts + Cardinality(Workers)
  BY DEF AttemptsBounded
<1>1. attempts[r] \in Nat /\ MaxAttempts \in Nat
  BY EmbeddingAssumption DEF TypeOK, EmbeddingAssumption
<1>2. attempts[r] + Cardinality(Holders(r)) < MaxAttempts + Cardinality(Workers)
  BY DEF AttemptsBounded
<1>3. Holders(r)' = IF r \in x.batch THEN Holders(r) \cup {w} ELSE Holders(r) \ {w}
  BY HoldersStep
<1>4. w \in Holders(r) <=> r \in worker[w].batch
  BY DEF Holders
<1>5. /\ IsFiniteSet(Holders(r)) /\ Cardinality(Holders(r)) \in Nat
      /\ Cardinality(Workers) \in Nat
  BY HoldersCount
<1>6. Holders(r)' \in SUBSET Workers
  BY <1>3 DEF Holders
<1>7. Cardinality(Holders(r)') \in Nat /\ Cardinality(Holders(r)') <= Cardinality(Workers)
  BY <1>6, FS_Subset, FS_CardinalityType, EmbeddingAssumption DEF EmbeddingAssumption
<1>8. CASE attempts'[r] = attempts[r] /\ (r \in x.batch => r \in worker[w].batch)
  <2>1. Holders(r)' \in SUBSET Holders(r)
    BY <1>3, <1>4, <1>8
  <2>2. Cardinality(Holders(r)') <= Cardinality(Holders(r))
    BY <1>5, <2>1, FS_Subset
  <2>3. QED
    BY <1>1, <1>2, <1>5, <1>7, <1>8, <2>2
<1>9. CASE attempts'[r] = attempts[r] /\ attempts[r] < MaxAttempts
  BY <1>1, <1>5, <1>7, <1>9
<1>10. CASE attempts'[r] = attempts[r] + 1 /\ r \in worker[w].batch \ x.batch
  <2>1. Cardinality(Holders(r)') = Cardinality(Holders(r)) - 1
    BY <1>3, <1>4, <1>5, <1>10, FS_RemoveElement
  <2>2. QED
    BY <1>1, <1>2, <1>5, <1>7, <1>10, <2>1
<1>11. QED
  BY <1>8, <1>9, <1>10

\* A step of one worker that leaves the rows alone keeps the hands in order,
\* if the worker takes only stored rows and locks none that is locked.
LEMMA HandsStep ==
  ASSUME TypeOK, HandsInOrder, ClaimsExclude, GoneInHandIsRaced,
         NEW w \in Workers, NEW x \in WorkerState,
         worker' = [worker EXCEPT ![w] = x],
         WellHeld(x),
         Held(x) \subseteq stored \cup Held(worker[w]),
         x.pc = "claiming" => x.batch \cap Locked = {},
         UNCHANGED <<inserted, stored, raced>>
  PROVE  /\ worker' \in [Workers -> WorkerState]
         /\ HandsInOrder' /\ ClaimsExclude' /\ GoneInHandIsRaced'
<1>1. \A v \in Workers : worker'[v] = IF v = w THEN x ELSE worker[v]
  BY DEF TypeOK
<1>2. worker' \in [Workers -> WorkerState]
  BY DEF TypeOK
<1>3. HandsInOrder'
  BY <1>1 DEF HandsInOrder, WellHeld
<1>4. ClaimsExclude'
  <2>1. \A v \in Workers : worker[v].pc = "claiming" => worker[v].batch \subseteq Locked
    BY DEF Locked, ClaimLocks
  <2>2. QED
    BY <1>1, <2>1 DEF ClaimsExclude
<1>5. GoneInHandIsRaced'
  <2>1. SUFFICES ASSUME NEW r \in Gone, NEW v \in Workers, r \in Held(worker'[v])
                 PROVE  r \in raced
    BY DEF GoneInHandIsRaced, InHand, Held, Gone, NoRow
  <2>2. r \notin stored
    BY DEF Gone
  <2>3. \E u \in Workers : r \in Held(worker[u])
    BY <1>1, <2>1, <2>2
  <2>4. InHand(r)
    BY <2>3 DEF InHand, Held
  <2>5. QED
    BY <2>4 DEF GoneInHandIsRaced
<1>6. QED
  BY <1>2, <1>3, <1>4, <1>5

\* The order of a forget, after a step of one worker that leaves the rows and
\* the links alone and takes the row of the forget only as the forget records.
LEMMA ForgetStep ==
  ASSUME TypeOK, ForgetInOrder, NEW w \in Workers, NEW x,
         worker' = [worker EXCEPT ![w] = x],
         UNCHANGED <<stored, links>>,
         \/ forget' = forget /\ (forget.row \in Held(x) => forget.row \in Held(worker[w]))
         \/ forget' = forget /\ forget.pc # "cleaned"
         \/ forget' = [forget EXCEPT !.held = TRUE] /\ forget.pc = "cleaned"
  PROVE  ForgetInOrder' /\ forget' \in ForgetState
<1>1. \A v \in Workers : worker'[v] = IF v = w THEN x ELSE worker[v]
  BY DEF TypeOK
<1>2. forget \in ForgetState
  BY DEF TypeOK
<1>3. CASE forget' = forget /\ (forget.row \in Held(x) => forget.row \in Held(worker[w]))
  <2>1. forget.pc = "cleaned" => forget.row # NoRow
    BY StoredRows DEF ForgetInOrder
  <2>2. forget.pc = "cleaned" /\ InHand(forget.row)' => InHand(forget.row)
    BY <1>1, <1>3, <2>1 DEF InHand, Held
  <2>3. LinksOf(forget.row)' = LinksOf(forget.row)
    BY <1>3 DEF LinksOf
  <2>4. QED
    BY <1>2, <1>3, <2>2, <2>3 DEF ForgetInOrder
<1>4. CASE forget' = forget /\ forget.pc # "cleaned"
  BY <1>2, <1>4 DEF ForgetInOrder
<1>5. CASE forget' = [forget EXCEPT !.held = TRUE] /\ forget.pc = "cleaned"
  BY <1>2, <1>5 DEF ForgetInOrder, ForgetState
<1>6. QED
  BY <1>3, <1>4, <1>5

\* Links that are not touched stay in order when the rows are not touched.
LEMMA LinksStep ==
  ASSUME LinksAreSymmetric, ForgetCleansLinks,
         UNCHANGED <<inserted, stored, links, raced>>
  PROVE  LinksAreSymmetric' /\ ForgetCleansLinks'
  BY DEF LinksAreSymmetric, ForgetCleansLinks, Gone

(***************************************************************************)
(* Every step preserves the invariant.                                     *)
(***************************************************************************)
LEMMA InitIInv == Init => IInv
<1> SUFFICES ASSUME Init PROVE IInv
  OBVIOUS
<1>1. TypeOK
  BY EmbeddingAssumption DEF EmbeddingAssumption, Init, TypeOK, Idle, WorkerState, NoRow,
     NoForget, ForgetState
<1>2. HandsInOrder /\ ClaimsExclude
  BY DEF Init, HandsInOrder, WellHeld, Held, ClaimsExclude, Idle, NoRow
<1>3. AttemptsBounded
  BY HoldersCount, EmbeddingAssumption, FS_EmptySet
  DEF EmbeddingAssumption, Init, AttemptsBounded, Holders, Idle
<1>4. LinksAreSymmetric /\ GoneInHandIsRaced /\ ForgetCleansLinks /\ ForgetInOrder
  BY DEF Init, LinksAreSymmetric, GoneInHandIsRaced, ForgetCleansLinks, Gone, ForgetInOrder,
     NoForget
<1>5. QED
  BY <1>1, <1>2, <1>3, <1>4 DEF IInv

\* A new row is in nobody's hand.
LEMMA InsertIInv == IInv /\ Insert => IInv'
<1> SUFFICES ASSUME IInv, Insert PROVE IInv'
  OBVIOUS
<1>1. /\ inserted \in 0..MaxRows /\ inserted' = inserted + 1 /\ inserted' \in 0..MaxRows
      /\ stored' = stored \cup {inserted'}
      /\ UNCHANGED <<embedded, attempts, links, raced, forget, worker>>
  BY EmbeddingAssumption DEF EmbeddingAssumption, IInv, TypeOK, Insert
<1>2. 1..inserted' = (1..inserted) \cup {inserted'} /\ Gone' = Gone
  BY <1>1 DEF Gone, IInv, TypeOK
<1>3. TypeOK'
  BY <1>1, <1>2 DEF IInv, TypeOK
<1>4. HandsInOrder' /\ ClaimsExclude'
  BY <1>1, <1>2 DEF IInv, HandsInOrder, WellHeld, ClaimsExclude
<1>5. AttemptsBounded'
  BY <1>1 DEF IInv, AttemptsBounded, Holders
<1>6. /\ LinksAreSymmetric' /\ GoneInHandIsRaced' /\ ForgetCleansLinks'
      /\ ForgetInOrder'
  BY <1>1, <1>2 DEF IInv, LinksAreSymmetric, GoneInHandIsRaced, ForgetCleansLinks, InHand,
     ForgetInOrder, LinksOf
<1>7. QED
  BY <1>3, <1>4, <1>5, <1>6 DEF IInv

\* The purge deletes a row that no forget has deleted, and no link.
LEMMA PurgeIInv ==
  ASSUME IInv, NEW r \in stored, Purge(r)
  PROVE  IInv'
<1>1. /\ stored' = stored \ {r} /\ embedded' = embedded \ {r}
      /\ raced' = raced \cup {r} /\ r \notin Locked
      /\ UNCHANGED <<inserted, attempts, links, forget, worker>>
  BY DEF Purge
<1>2. r \in Rows /\ r \in 1..inserted /\ Gone' = Gone \cup {r} /\ r # forget.row
  BY <1>1, StoredRows, ForgetLocks DEF IInv, Gone
<1>3. TypeOK'
  BY <1>1, <1>2 DEF IInv, TypeOK
<1>4. HandsInOrder' /\ ClaimsExclude'
  BY <1>1 DEF IInv, HandsInOrder, WellHeld, ClaimsExclude
<1>5. AttemptsBounded' /\ LinksAreSymmetric'
  BY <1>1 DEF IInv, AttemptsBounded, Holders, LinksAreSymmetric
<1>6. GoneInHandIsRaced' /\ ForgetCleansLinks'
  BY <1>1, <1>2 DEF IInv, GoneInHandIsRaced, InHand, ForgetCleansLinks
<1>7. ForgetInOrder'
  BY <1>1, <1>2 DEF IInv, ForgetInOrder, InHand, LinksOf
<1>8. QED
  BY <1>3, <1>4, <1>5, <1>6, <1>7 DEF IInv

\* A step of forget that commits nothing.
LEMMA ForgetOnlyIInv ==
  ASSUME IInv, forget' \in ForgetState, forget'.row \in stored \cup {NoRow}, ForgetInOrder',
         UNCHANGED <<inserted, stored, embedded, attempts, links, raced, worker>>
  PROVE  IInv'
<1>1. TypeOK' /\ HandsInOrder' /\ ClaimsExclude'
  BY DEF IInv, TypeOK, HandsInOrder, WellHeld, ClaimsExclude
<1>2. AttemptsBounded' /\ GoneInHandIsRaced'
  BY DEF IInv, AttemptsBounded, Holders, GoneInHandIsRaced, InHand, Gone
<1>3. QED
  BY <1>1, <1>2, LinksStep DEF IInv

LEMMA DeleteRowIInv ==
  ASSUME IInv, NEW r \in stored, DeleteRow(r)
  PROVE  IInv'
<1>1. forget' = [pc |-> "deleted", row |-> r, links |-> {}, held |-> FALSE]
  BY DEF DeleteRow, NoForget
<1>2. r \in 0..MaxRows
  BY StoredRows DEF IInv, Rows
<1>3. forget' \in ForgetState /\ forget'.row \in stored
  BY <1>1, <1>2 DEF ForgetState
<1>4. stored' = stored
  BY DEF DeleteRow
<1>5. ForgetInOrder'
  BY <1>1, <1>4 DEF ForgetInOrder
<1>6. QED
  BY <1>3, <1>5, ForgetOnlyIInv DEF DeleteRow

LEMMA DeleteLinksIInv == IInv /\ DeleteLinks => IInv'
<1> SUFFICES ASSUME IInv, DeleteLinks PROVE IInv'
  OBVIOUS
<1>1. /\ forget' = [forget EXCEPT !.pc = "cleaned", !.links = LinksOf(forget.row),
                                 !.held = InHand(forget.row)]
      /\ forget.pc = "deleted" /\ forget \in ForgetState /\ forget.row \in stored
      /\ UNCHANGED <<inserted, stored, embedded, attempts, links, raced, worker>>
  BY DEF DeleteLinks, IInv, TypeOK, ForgetInOrder
<1>2. /\ LinksOf(forget.row) \subseteq links /\ links \subseteq Rows \X Rows
      /\ InHand(forget.row) \in BOOLEAN
  BY DEF LinksOf, InHand, IInv, TypeOK
<1>3. /\ forget' \in ForgetState /\ forget'.pc = "cleaned" /\ forget'.row = forget.row
      /\ forget'.links = LinksOf(forget.row) /\ forget'.held = InHand(forget.row)
  BY <1>1, <1>2 DEF ForgetState
<1>4. \A l \in LinksOf(forget.row) : <<l[2], l[1]>> \in LinksOf(forget.row)
  BY DEF LinksOf, IInv, LinksAreSymmetric
<1>5. InHand(forget.row)' = InHand(forget.row) /\ LinksOf(forget.row)' = LinksOf(forget.row)
  BY <1>1, <1>3 DEF InHand, LinksOf
<1>6. ForgetInOrder'
  BY <1>1, <1>2, <1>3, <1>4, <1>5 DEF ForgetInOrder
<1>7. QED
  BY <1>1, <1>3, <1>6, ForgetOnlyIInv

\* forget commits: a link of its row that it has not deleted was inserted by a
\* worker that had the row in hand.
LEMMA CommitForgetIInv == IInv /\ CommitForget => IInv'
<1> SUFFICES ASSUME IInv, CommitForget PROVE IInv'
  OBVIOUS
<1> DEFINE r == forget.row
<1>1. /\ stored' = stored \ {r} /\ embedded' = embedded \ {r}
      /\ links' = links \ forget.links
      /\ raced' = (IF forget.held THEN raced \cup {r} ELSE raced)
      /\ forget' = NoForget /\ forget.pc = "cleaned"
      /\ UNCHANGED <<inserted, attempts, worker>>
  BY DEF CommitForget
<1>2. r \in stored /\ r \in Rows /\ r \in 1..inserted /\ Gone' = Gone \cup {r}
  BY <1>1, StoredRows DEF IInv, Gone, ForgetInOrder
<1>3. forget.held \/ (~InHand(r) /\ LinksOf(r) \subseteq forget.links)
  BY <1>1 DEF IInv, ForgetInOrder
<1>4. NoForget \in ForgetState /\ NoForget.row = NoRow /\ NoForget.links = {} /\ NoForget.pc = "none"
  BY StoredRows DEF IInv, NoForget, ForgetState, NoRow
<1> HIDE DEF r
<1>5. TypeOK'
  BY <1>1, <1>2, <1>4 DEF IInv, TypeOK
<1>6. HandsInOrder' /\ ClaimsExclude'
  BY <1>1 DEF IInv, HandsInOrder, WellHeld, ClaimsExclude
<1>7. AttemptsBounded'
  BY <1>1 DEF IInv, AttemptsBounded, Holders
<1>8. LinksAreSymmetric'
  <2>1. SUFFICES ASSUME NEW l \in links, l \notin forget.links
                 PROVE  <<l[2], l[1]>> \in links \ forget.links
    BY <1>1 DEF LinksAreSymmetric
  <2>2. <<l[2], l[1]>> \in links
    BY DEF IInv, LinksAreSymmetric
  <2>3. <<l[2], l[1]>> \in forget.links => <<l[1], l[2]>> \in forget.links
    BY DEF IInv, ForgetInOrder
  <2>4. l = <<l[1], l[2]>>
    BY DEF IInv, TypeOK
  <2>5. QED
    BY <2>1, <2>2, <2>3, <2>4
<1>9. GoneInHandIsRaced'
  BY <1>1, <1>2, <1>3 DEF IInv, GoneInHandIsRaced, InHand
<1>10. ForgetCleansLinks'
  BY <1>1, <1>2, <1>3 DEF IInv, ForgetCleansLinks, LinksOf
<1>11. ForgetInOrder'
  BY <1>1, <1>4 DEF ForgetInOrder
<1>12. QED
  BY <1>5, <1>6, <1>7, <1>8, <1>9, <1>10, <1>11 DEF IInv

LEMMA FailForgetIInv == IInv /\ FailForget => IInv'
<1> SUFFICES ASSUME IInv, FailForget PROVE IInv'
  OBVIOUS
<1>1. /\ NoForget \in ForgetState /\ NoForget.row = NoRow /\ NoForget.links = {}
      /\ NoForget.pc = "none"
  BY StoredRows DEF IInv, NoForget, ForgetState, NoRow
<1>2. forget' = NoForget
  BY DEF FailForget
<1>3. ForgetInOrder'
  BY <1>1, <1>2 DEF ForgetInOrder
<1>4. QED
  BY <1>1, <1>2, <1>3, ForgetOnlyIInv DEF FailForget

\* A claim takes rows that are pending and that no other claim locks.
LEMMA ClaimIInv ==
  ASSUME IInv, NEW w \in Workers, Claim(w)
  PROVE  IInv'
<1> DEFINE x == [worker[w] EXCEPT !.pc = "claiming", !.batch = Claimable]
<1>1. /\ worker' = [worker EXCEPT ![w] = x]
      /\ worker[w] \in WorkerState /\ worker[w] = Idle
      /\ UNCHANGED <<inserted, stored, embedded, attempts, links, raced, forget>>
  BY DEF Claim, IInv, TypeOK, HandsInOrder, WellHeld
<1>2. /\ Claimable \subseteq stored \ Locked /\ Claimable # {}
      /\ \A r \in Claimable : attempts[r] < MaxAttempts
  BY DEF Claim, Claimable, Pending
<1>3. /\ x.pc = "claiming" /\ x.batch = Claimable /\ x.found = {} /\ x.row = NoRow
      /\ x \in WorkerState
  <2>1. x.pc = "claiming" /\ x.batch = Claimable
    BY <1>1 DEF WorkerState
  <2>2. x.found = worker[w].found /\ x.row = worker[w].row
    BY <1>1 DEF WorkerState
  <2>3. worker[w].found = {} /\ worker[w].row = NoRow
    BY <1>1 DEF Idle
  <2>4. Claimable \subseteq Rows
    BY <1>2, StoredRows DEF IInv
  <2>5. x \in WorkerState
    BY <1>1, <2>4 DEF WorkerState
  <2>6. QED
    BY <2>1, <2>2, <2>3, <2>5
<1> HIDE DEF x
<1>4. Held(x) = Claimable
  BY <1>3 DEF Held
<1>5. WellHeld(x)
  BY <1>2, <1>3, <1>4, StoredRows DEF IInv, WellHeld
<1>6. /\ worker' \in [Workers -> WorkerState]
      /\ HandsInOrder' /\ ClaimsExclude' /\ GoneInHandIsRaced'
  BY <1>1, <1>2, <1>3, <1>4, <1>5, HandsStep DEF IInv
<1>7. AttemptsBounded'
  BY <1>1, <1>2, <1>3, AttemptsStep DEF IInv
<1>8. TypeOK'
  BY <1>1, <1>6 DEF IInv, TypeOK
<1>9. ForgetInOrder'
  <2>1. forget.row \notin Held(x)
    BY <1>2, <1>4, StoredRows, ForgetLocks DEF IInv
  <2>2. QED
    BY <1>1, <2>1, ForgetStep DEF IInv
<1>10. QED
  BY <1>1, <1>6, <1>7, <1>8, <1>9, LinksStep DEF IInv

\* The local variables a worker goes on with after a row.
LEMMA AfterShape ==
  ASSUME TypeOK, NEW w \in Workers, WellHeld(worker[w]), NEW r
  PROVE  /\ After(w, r) \in WorkerState /\ WellHeld(After(w, r))
         /\ After(w, r).batch = worker[w].batch \ {r}
         /\ After(w, r).pc \in {"idle", "working"}
         /\ Held(After(w, r)) \subseteq Held(worker[w])
<1> DEFINE rest == worker[w].batch \ {r}
           x == After(w, r)
<1>0. Idle \in WorkerState
  BY StoredRows DEF Idle, WorkerState, NoRow
<1>1. /\ x.pc = (IF rest = {} THEN "idle" ELSE "working")
      /\ x.batch = rest /\ x.row = NoRow /\ x.found = {}
  BY DEF After, Idle
<1>2. worker[w].batch \subseteq Rows /\ Held(worker[w]) \subseteq 1..inserted
  BY DEF TypeOK, WorkerState, WellHeld
<1>3. Held(x) = rest
  BY <1>1 DEF Held
<1>4. x \in WorkerState
  BY <1>0, <1>2 DEF After, WorkerState
<1>5. rest \subseteq Held(worker[w])
  BY DEF Held
<1>6. x.pc = "idle" => x = Idle
  BY <1>0, <1>1, <1>4 DEF Idle, WorkerState
<1>7. QED
  BY <1>1, <1>2, <1>3, <1>4, <1>5, <1>6 DEF WellHeld

\* A worker goes on to other local variables that hold no new row, and locks
\* nothing.
LEMMA LocalStepIInv ==
  ASSUME IInv, NEW w \in Workers, NEW x \in WorkerState,
         worker' = [worker EXCEPT ![w] = x],
         WellHeld(x), x.pc # "claiming",
         x.batch \subseteq worker[w].batch,
         Held(x) \subseteq Held(worker[w]),
         UNCHANGED <<inserted, stored, embedded, attempts, links, raced, forget>>
  PROVE  IInv'
<1>1. /\ worker' \in [Workers -> WorkerState]
      /\ HandsInOrder' /\ ClaimsExclude' /\ GoneInHandIsRaced'
  BY HandsStep DEF IInv
<1>2. AttemptsBounded'
  BY AttemptsStep DEF IInv
<1>3. TypeOK'
  BY <1>1 DEF IInv, TypeOK
<1>4. ForgetInOrder'
  BY ForgetStep DEF IInv
<1>5. QED
  BY <1>1, <1>2, <1>3, <1>4, LinksStep DEF IInv

\* The end of a claim, the search, the end of a row and the loss of a batch.
LEMMA EndClaimIInv ==
  ASSUME IInv, NEW w \in Workers, EndClaim(w)
  PROVE  IInv'
<1> DEFINE x == [worker[w] EXCEPT !.pc = "working"]
<1>1. /\ worker' = [worker EXCEPT ![w] = x] /\ worker[w].pc = "claiming"
      /\ worker[w] \in WorkerState /\ WellHeld(worker[w])
      /\ UNCHANGED <<inserted, stored, embedded, attempts, links, raced, forget>>
  BY DEF EndClaim, IInv, TypeOK, HandsInOrder
<1>2. /\ x \in WorkerState /\ x.pc = "working" /\ x.batch = worker[w].batch
      /\ x.row = worker[w].row /\ x.found = worker[w].found
  BY <1>1 DEF WorkerState
<1> HIDE DEF x
<1>3. WellHeld(x) /\ Held(x) = Held(worker[w])
  BY <1>1, <1>2 DEF WellHeld, Held
<1>4. QED
  BY <1>1, <1>2, <1>3, LocalStepIInv

LEMMA FindSimilarIInv ==
  ASSUME IInv, NEW w \in Workers, FindSimilar(w)
  PROVE  IInv'
<1>1. PICK found \in SUBSET (embedded \ (ShortTerm \cup {worker[w].row})) :
        /\ worker' = [worker EXCEPT ![w].pc = "linking", ![w].found = found]
        /\ forget' = [forget EXCEPT
             !.held = @ \/ (forget.pc = "cleaned" /\ forget.row \in found)]
  BY DEF FindSimilar
<1> DEFINE x == [worker[w] EXCEPT !.pc = "linking", !.found = found]
<1>2. /\ worker' = [worker EXCEPT ![w] = x] /\ worker[w].pc = "finding"
      /\ worker[w] \in WorkerState /\ WellHeld(worker[w])
      /\ UNCHANGED <<inserted, stored, embedded, attempts, links, raced>>
  BY <1>1 DEF FindSimilar, IInv, TypeOK, HandsInOrder
<1>3. found \subseteq stored /\ found \subseteq 1..inserted /\ found \subseteq Rows
  BY StoredRows DEF IInv
<1>4. /\ x \in WorkerState /\ x.pc = "linking" /\ x.batch = worker[w].batch
      /\ x.row = worker[w].row /\ x.found = found
  BY <1>2, <1>3 DEF WorkerState
<1> HIDE DEF x
<1>5. /\ WellHeld(x) /\ Held(x) \subseteq stored \cup Held(worker[w])
      /\ Held(x) \subseteq found \cup Held(worker[w])
  BY <1>2, <1>3, <1>4 DEF WellHeld, Held
<1>6. /\ worker' \in [Workers -> WorkerState]
      /\ HandsInOrder' /\ ClaimsExclude' /\ GoneInHandIsRaced'
  BY <1>2, <1>4, <1>5, HandsStep DEF IInv
<1>7. AttemptsBounded'
  BY <1>2, <1>4, AttemptsStep DEF IInv
<1>8. \/ forget' = forget /\ (forget.row \in Held(x) => forget.row \in Held(worker[w]))
      \/ forget' = forget /\ forget.pc # "cleaned"
      \/ forget' = [forget EXCEPT !.held = TRUE] /\ forget.pc = "cleaned"
  <2>1. CASE forget.pc = "cleaned" /\ forget.row \in found
    BY <1>1, <2>1
  <2>2. CASE ~(forget.pc = "cleaned" /\ forget.row \in found)
    <3>1. forget \in ForgetState
      BY DEF IInv, TypeOK
    <3>2. forget' = [forget EXCEPT !.held = @]
      BY <1>1, <2>2, <3>1 DEF ForgetState
    <3>3. forget' = forget
      BY <3>1, <3>2 DEF ForgetState
    <3>4. QED
      BY <1>5, <2>2, <3>3
  <2>3. QED
    BY <2>1, <2>2
<1>9. ForgetInOrder' /\ forget' \in ForgetState
  BY <1>2, <1>8, ForgetStep DEF IInv
<1>10. TypeOK'
  <2>1. forget'.row = forget.row
    BY <1>1 DEF IInv, TypeOK, ForgetState
  <2>2. QED
    BY <1>2, <1>6, <1>9, <2>1 DEF IInv, TypeOK
<1>11. QED
  BY <1>2, <1>6, <1>7, <1>9, <1>10, LinksStep DEF IInv

LEMMA FinishRowIInv ==
  ASSUME IInv, NEW w \in Workers, FinishRow(w)
  PROVE  IInv'
<1>1. WellHeld(worker[w])
  BY DEF IInv, HandsInOrder
<1>2. QED
  BY <1>1, AfterShape, LocalStepIInv DEF FinishRow, IInv

LEMMA AbandonIInv ==
  ASSUME IInv, NEW w \in Workers, Abandon(w)
  PROVE  IInv'
<1>1. Idle \in WorkerState /\ WellHeld(Idle) /\ Held(Idle) = {} /\ Idle.batch = {}
      /\ Idle.pc = "idle"
  BY StoredRows DEF IInv, Idle, WorkerState, WellHeld, Held, NoRow
<1>2. QED
  BY <1>1, LocalStepIInv DEF Abandon

\* The embedding of the oldest row is stored, if the row is there.
LEMMA StoreEmbeddingIInv ==
  ASSUME IInv, NEW w \in Workers, StoreEmbedding(w)
  PROVE  IInv'
<1> DEFINE r == Oldest(worker[w].batch)
           x == [worker[w] EXCEPT !.pc = "finding", !.row = r]
<1>1. /\ worker' = [worker EXCEPT ![w] = x] /\ worker[w].pc = "working"
      /\ worker[w] \in WorkerState /\ WellHeld(worker[w])
      /\ embedded' = embedded \cup Updated(r)
      /\ UNCHANGED <<inserted, stored, attempts, links, raced, forget>>
  BY DEF StoreEmbedding, IInv, TypeOK, HandsInOrder
<1>2. r \in worker[w].batch
  BY <1>1, OldestIsMember, StoredRows DEF IInv, WellHeld, WorkerState, Rows
<1> HIDE DEF r
<1>3. r \in Rows
  BY <1>1, <1>2 DEF WorkerState
<1>4. /\ x \in WorkerState /\ x.pc = "finding" /\ x.batch = worker[w].batch
      /\ x.row = r /\ x.found = worker[w].found
  <2>1. r \in 0..MaxRows
    BY <1>3, StoredRows DEF IInv, Rows
  <2>2. QED
    BY <1>1, <2>1 DEF WorkerState
<1> HIDE DEF x
<1>5. WellHeld(x) /\ Held(x) \subseteq Held(worker[w])
  BY <1>1, <1>2, <1>4 DEF WellHeld, Held
<1>6. /\ worker' \in [Workers -> WorkerState]
      /\ HandsInOrder' /\ ClaimsExclude' /\ GoneInHandIsRaced'
  BY <1>1, <1>4, <1>5, HandsStep DEF IInv
<1>7. AttemptsBounded'
  BY <1>1, <1>4, AttemptsStep DEF IInv
<1>8. TypeOK'
  BY <1>1, <1>6 DEF IInv, TypeOK, Updated
<1>9. ForgetInOrder'
  BY <1>1, <1>5, ForgetStep DEF IInv
<1>10. QED
  BY <1>1, <1>6, <1>7, <1>8, <1>9, LinksStep DEF IInv

\* A failure is counted against a row the worker holds, and the row leaves its
\* hands in the same step.
LEMMA FailEmbeddingIInv ==
  ASSUME IInv, NEW w \in Workers, FailEmbedding(w)
  PROVE  IInv'
<1> DEFINE r == Oldest(worker[w].batch)
           x == After(w, r)
<1>1. /\ worker' = [worker EXCEPT ![w] = x] /\ worker[w].pc = "working"
      /\ worker[w] \in WorkerState /\ WellHeld(worker[w])
      /\ attempts' = IF r \in stored THEN [attempts EXCEPT ![r] = @ + 1] ELSE attempts
      /\ UNCHANGED <<inserted, stored, embedded, links, raced, forget>>
  BY DEF FailEmbedding, IInv, TypeOK, HandsInOrder
<1>2. r \in worker[w].batch
  BY <1>1, OldestIsMember, StoredRows DEF IInv, WellHeld, WorkerState, Rows
<1> HIDE DEF r
<1>3. /\ x \in WorkerState /\ WellHeld(x) /\ x.batch = worker[w].batch \ {r}
      /\ x.pc \in {"idle", "working"} /\ Held(x) \subseteq Held(worker[w])
  BY <1>1, AfterShape DEF IInv
<1> HIDE DEF x
<1>4. /\ worker' \in [Workers -> WorkerState]
      /\ HandsInOrder' /\ ClaimsExclude' /\ GoneInHandIsRaced'
  BY <1>1, <1>3, HandsStep DEF IInv
<1>5. attempts' \in [Rows -> Nat]
  <2>1. r \in Rows /\ attempts \in [Rows -> Nat]
    BY <1>1, <1>2 DEF IInv, TypeOK, WorkerState
  <2>2. CASE r \in stored
    BY <1>1, <2>1, <2>2
  <2>3. QED
    BY <1>1, <2>1, <2>2
<1>6. AttemptsBounded'
  BY <1>1, <1>2, <1>3, AttemptsStep DEF IInv, TypeOK
<1>7. TypeOK'
  BY <1>1, <1>4, <1>5 DEF IInv, TypeOK
<1>8. ForgetInOrder'
  BY <1>1, <1>3, ForgetStep DEF IInv
<1>9. QED
  BY <1>1, <1>4, <1>6, <1>7, <1>8, LinksStep DEF IInv

\* Both links are inserted in one step; a row that is gone is known as raced,
\* since the worker still had it in hand.
LEMMA LinkIInv ==
  ASSUME IInv, NEW w \in Workers, Link(w)
  PROVE  IInv'
<1>1. PICK q \in worker[w].found :
        /\ links' = links \cup Both(worker[w].row, q)
        /\ worker' = [worker EXCEPT ![w].found = @ \ {q}]
  BY DEF Link
<1> DEFINE r == worker[w].row
           x == [worker[w] EXCEPT !.found = @ \ {q}]
<1>2. /\ worker' = [worker EXCEPT ![w] = x] /\ worker[w].pc = "linking"
      /\ worker[w] \in WorkerState /\ WellHeld(worker[w])
      /\ UNCHANGED <<inserted, stored, embedded, attempts, raced, forget>>
  BY <1>1 DEF Link, IInv, TypeOK, HandsInOrder
<1>3. r \in Rows /\ q \in Rows /\ InHand(r) /\ InHand(q)
  BY <1>2 DEF WellHeld, WorkerState, InHand
<1>4. links' = links \cup {<<r, q>>, <<q, r>>}
  BY <1>1 DEF Both
<1>5. /\ x \in WorkerState /\ x.pc = "linking" /\ x.batch = worker[w].batch
      /\ x.row = worker[w].row /\ x.found \subseteq worker[w].found
  BY <1>2 DEF WorkerState
<1> HIDE DEF x, r
<1>6. WellHeld(x) /\ Held(x) \subseteq Held(worker[w])
  BY <1>2, <1>5 DEF WellHeld, Held
<1>7. /\ worker' \in [Workers -> WorkerState]
      /\ HandsInOrder' /\ ClaimsExclude' /\ GoneInHandIsRaced'
  BY <1>2, <1>5, <1>6, HandsStep DEF IInv
<1>8. AttemptsBounded'
  BY <1>2, <1>5, AttemptsStep DEF IInv
<1>9. TypeOK'
  BY <1>2, <1>3, <1>4, <1>7 DEF IInv, TypeOK
<1>10. LinksAreSymmetric'
  <2>1. ASSUME NEW l \in links PROVE <<l[2], l[1]>> \in links'
    BY <1>4 DEF IInv, LinksAreSymmetric
  <2>2. ASSUME NEW l \in {<<r, q>>, <<q, r>>} PROVE <<l[2], l[1]>> \in links'
    BY <1>4
  <2>3. QED
    BY <1>4, <2>1, <2>2 DEF LinksAreSymmetric
<1>11. ForgetCleansLinks'
  BY <1>2, <1>3, <1>4 DEF IInv, ForgetCleansLinks, GoneInHandIsRaced, Gone
<1>12. ForgetInOrder'
  <2>1. forget.pc = "cleaned" => forget.row # NoRow
    BY StoredRows DEF IInv, ForgetInOrder
  <2>2. forget.pc = "cleaned" /\ InHand(forget.row)' => InHand(forget.row)
    BY <1>2, <1>6, <2>1 DEF InHand, Held, IInv, TypeOK
  <2>3. forget.pc = "cleaned" /\ ~forget.held => LinksOf(forget.row)' = LinksOf(forget.row)
    BY <1>2, <1>3, <1>4 DEF IInv, ForgetInOrder, LinksOf
  <2>4. QED
    BY <1>2, <1>4, <2>2, <2>3 DEF IInv, ForgetInOrder
<1>13. QED
  BY <1>7, <1>8, <1>9, <1>10, <1>11, <1>12 DEF IInv

LEMMA NextIInv == IInv /\ [Next]_vars => IInv'
<1> SUFFICES ASSUME IInv, [Next]_vars PROVE IInv'
  OBVIOUS
<1>1. CASE Insert
  BY <1>1, InsertIInv
<1>2. CASE \E r \in stored : DeleteRow(r) \/ Purge(r)
  BY <1>2, DeleteRowIInv, PurgeIInv
<1>3. ASSUME NEW w \in Workers,
             \/ Claim(w) \/ EndClaim(w)
             \/ StoreEmbedding(w) \/ FailEmbedding(w)
             \/ FindSimilar(w) \/ Link(w) \/ FinishRow(w)
             \/ Abandon(w)
      PROVE  IInv'
  BY <1>3, ClaimIInv, EndClaimIInv, StoreEmbeddingIInv, FailEmbeddingIInv,
     FindSimilarIInv, LinkIInv, FinishRowIInv, AbandonIInv
<1>4. CASE DeleteLinks \/ CommitForget \/ FailForget
  BY <1>4, DeleteLinksIInv, CommitForgetIInv, FailForgetIInv
<1>5. CASE UNCHANGED vars
  <2>1. UNCHANGED <<inserted, stored, embedded, attempts, links, raced, forget, worker>>
    BY <1>5 DEF vars
  <2>2. ForgetInOrder' /\ forget' \in ForgetState /\ forget'.row \in stored \cup {NoRow}
    BY <2>1 DEF IInv, TypeOK, ForgetInOrder, InHand, LinksOf
  <2>3. QED
    BY <2>1, <2>2, ForgetOnlyIInv
<1>6. QED
  BY <1>1, <1>2, <1>3, <1>4, <1>5 DEF Next

\* The invariant holds in every reachable state.
LEMMA Invariance == Spec => []IInv
  BY InitIInv, NextIInv, PTL DEF Spec

(***************************************************************************)
(* What the invariant says about the program.                              *)
(***************************************************************************)
\* Every variable keeps its type: only stored rows have an embedding.
THEOREM TypeCorrect == Spec => []TypeOK
  BY Invariance, PTL DEF IInv

\* FOR UPDATE SKIP LOCKED keeps two claims that are open at the same time from
\* holding one row, in any number of processes.
THEOREM ClaimsAreDisjoint == Spec => []ClaimsExclude
  BY Invariance, PTL DEF IInv

\* A row is never tried more than the limit and once more for every other
\* worker, whatever dies, is retried or overlaps.
THEOREM AttemptsHaveALimit == Spec => []AttemptsBounded
  BY Invariance, PTL DEF IInv

\* memory_links holds the reverse of every link, through any overlap of
\* linking, forgetting and purging.
THEOREM LinksGoBothWays == Spec => []LinksAreSymmetric
  BY Invariance, PTL DEF IInv

\* forget leaves no link of its row behind, although its statements are seen
\* one by one, unless a worker had the row in hand after the DELETE of the
\* links; the other links to deleted rows are of purged ones.
THEOREM LinksAreCleaned == Spec => []ForgetCleansLinks
  BY Invariance, PTL DEF IInv
=============================================================================
