-------------------------- MODULE EmbeddingWorker --------------------------
(***************************************************************************)
(* run_embedding_worker over one agent's hindsight_memories, in any number *)
(* of worker processes, while remember adds rows and forget and the        *)
(* archival task delete them.                                              *)
(*                                                                         *)
(* A worker claims the oldest rows without an embedding in a transaction   *)
(* of its own, whose row locks end with it, and then works through the     *)
(* batch row by row: it asks for the embedding, stores it, finds similar   *)
(* rows and links them, each in a statement or transaction of its own.     *)
(* forget is one transaction of several statements under READ COMMITTED:   *)
(* its row is locked once it is deleted, and can be found until the commit.*)
(*                                                                         *)
(* Rows are numbered in the order of created_at.  An embedding is present  *)
(* or not; which rows are similar, unexpired and still valid is left open, *)
(* so _find_similar_memories may return any of the rows that can be found. *)
(***************************************************************************)
EXTENDS Integers, FiniteSets

CONSTANTS
  Workers,      \* worker processes running the embed loop
  ShortTerm,    \* the rows of type short_term
  MaxRows,      \* bound: rows ever inserted
  BatchSize,    \* EMBEDDING_BATCH_SIZE
  MaxAttempts,  \* the 3 of "embedding_attempts < 3"
  TopN          \* LINK_TOP_N

Rows == 1..MaxRows

ASSUME EmbeddingAssumption ==
  /\ IsFiniteSet(Workers)
  /\ MaxRows \in Nat
  /\ ShortTerm \subseteq 1..MaxRows
  /\ BatchSize \in Nat \ {0}
  /\ MaxAttempts \in Nat \ {0}
  /\ TopN \in Nat

VARIABLES
  inserted,  \* rows ever inserted are 1..inserted
  stored,    \* rows in the table
  embedded,  \* stored rows with an embedding
  attempts,  \* embedding_attempts of each row
  links,     \* memory_links, as <<source_id, target_id>>
  raced,     \* deleted rows whose links forget could not all see
  forget,    \* the transaction of a forget
  worker     \* the local variables of each worker

vars == <<inserted, stored, embedded, attempts, links, raced, forget, worker>>

NoRow == 0
Idle == [pc |-> "idle", batch |-> {}, row |-> NoRow, found |-> {}]
NoForget == [pc |-> "none", row |-> NoRow, links |-> {}, held |-> FALSE]

Init ==
  /\ inserted = 0
  /\ stored = {} /\ embedded = {}
  /\ attempts = [r \in Rows |-> 0]
  /\ links = {} /\ raced = {}
  /\ forget = NoForget
  /\ worker = [w \in Workers |-> Idle]

Oldest(S) == CHOOSE r \in S : \A q \in S : r <= q

\* The rows the claim transactions hold with FOR UPDATE.
ClaimLocks == UNION {worker[w].batch : w \in {v \in Workers : worker[v].pc = "claiming"}}

\* These, and the row a forget has deleted.
Locked == ClaimLocks \cup ({forget.row} \ {NoRow})

\* A worker has the row in a batch or among the similar rows it is linking.
InHand(r) ==
  \E w \in Workers : r \in worker[w].batch \cup worker[w].found \cup {worker[w].row}

\* The links that mention a row.  Mutant: those it is the source of.
LinksOf_Source(r) == {l \in links : l[1] = r}
LinksOf(r) == {l \in links : l[1] = r \/ l[2] = r}

(***************************************************************************)
(* The requests and the archival task.                                     *)
(***************************************************************************)
\* remember, or a reflection whose embedding failed, inserts a row.
Insert ==
  /\ inserted < MaxRows
  /\ inserted' = inserted + 1
  /\ stored' = stored \cup {inserted'}
  /\ UNCHANGED <<embedded, attempts, links, raced, forget, worker>>

\* forget deletes the row.
DeleteRow(r) ==
  /\ forget.pc = "none"
  /\ r \in stored \ Locked
  /\ forget' = [NoForget EXCEPT !.pc = "deleted", !.row = r]
  /\ UNCHANGED <<inserted, stored, embedded, attempts, links, raced, worker>>

\* It deletes the links that mention the row and are committed by now.
DeleteLinks ==
  /\ forget.pc = "deleted"
  /\ forget' = [forget EXCEPT !.pc = "cleaned", !.links = LinksOf(forget.row),
                              !.held = InHand(forget.row)]
  /\ UNCHANGED <<inserted, stored, embedded, attempts, links, raced, worker>>

\* The audit record follows, and the transaction commits.
CommitForget ==
  /\ forget.pc = "cleaned"
  /\ stored' = stored \ {forget.row}
  /\ embedded' = embedded \ {forget.row}
  /\ links' = links \ forget.links
  /\ raced' = IF forget.held THEN raced \cup {forget.row} ELSE raced
  /\ forget' = NoForget
  /\ UNCHANGED <<inserted, attempts, worker>>

\* A statement raises or the process dies: the transaction is rolled back.
FailForget ==
  /\ forget.pc # "none"
  /\ forget' = NoForget
  /\ UNCHANGED <<inserted, stored, embedded, attempts, links, raced, worker>>

\* _purge_expired_short_term_memories deletes the row and nothing else.
Purge(r) ==
  /\ r \in (stored \cap ShortTerm) \ Locked
  /\ stored' = stored \ {r}
  /\ embedded' = embedded \ {r}
  /\ raced' = raced \cup {r}
  /\ UNCHANGED <<inserted, attempts, links, forget, worker>>

(***************************************************************************)
(* The worker.                                                             *)
(***************************************************************************)
\* What the claim selects from.  Mutant: rows that failed too often as well.
Pending_NoCap == stored \ embedded
Pending == {r \in stored \ embedded : attempts[r] < MaxAttempts}

\* ORDER BY created_at LIMIT BatchSize FOR UPDATE SKIP LOCKED.
Claimable ==
  LET free == Pending \ Locked
  IN {r \in free : Cardinality({q \in free : q < r}) < BatchSize}

Claim(w) ==
  /\ worker[w].pc = "idle"
  /\ Claimable # {}
  /\ worker' = [worker EXCEPT ![w].pc = "claiming", ![w].batch = Claimable]
  /\ UNCHANGED <<inserted, stored, embedded, attempts, links, raced, forget>>

\* The claim transaction commits and its locks end.
EndClaim(w) ==
  /\ worker[w].pc = "claiming"
  /\ worker' = [worker EXCEPT ![w].pc = "working"]
  /\ UNCHANGED <<inserted, stored, embedded, attempts, links, raced, forget>>

\* The rest of the batch, after row r is done with.
After(w, r) ==
  LET rest == worker[w].batch \ {r}
  IN [Idle EXCEPT !.pc = IF rest = {} THEN "idle" ELSE "working", !.batch = rest]

\* UPDATE ... WHERE id: nothing when the row is gone.  Mutant: an upsert.
Updated_Upsert(r) == {r}
Updated(r) == {r} \cap stored

\* The embedding arrives and is stored, if the row is still there.
StoreEmbedding(w) ==
  LET r == Oldest(worker[w].batch)
  IN /\ worker[w].pc = "working"
     /\ r \notin Locked
     /\ embedded' = embedded \cup Updated(r)
     /\ worker' = [worker EXCEPT ![w].pc = "finding", ![w].row = r]
     /\ UNCHANGED <<inserted, stored, attempts, links, raced, forget>>

\* The embedding call or the update of the row raises.  Mutant: the attempt
\* is not counted.
FailEmbedding_NotCounted(w) ==
  LET r == Oldest(worker[w].batch)
  IN /\ worker[w].pc = "working"
     /\ r \notin Locked
     /\ worker' = [worker EXCEPT ![w] = After(w, r)]
     /\ UNCHANGED <<inserted, stored, embedded, attempts, links, raced, forget>>
FailEmbedding(w) ==
  LET r == Oldest(worker[w].batch)
  IN /\ worker[w].pc = "working"
     /\ r \notin Locked
     /\ attempts' = IF r \in stored THEN [attempts EXCEPT ![r] = @ + 1] ELSE attempts
     /\ worker' = [worker EXCEPT ![w] = After(w, r)]
     /\ UNCHANGED <<inserted, stored, embedded, links, raced, forget>>

\* _find_similar_memories; when it fails it returns nothing.
FindSimilar(w) ==
  /\ worker[w].pc = "finding"
  /\ \E found \in SUBSET (embedded \ (ShortTerm \cup {worker[w].row})) :
       /\ Cardinality(found) <= TopN
       /\ worker' = [worker EXCEPT ![w].pc = "linking", ![w].found = found]
       /\ forget' = [forget EXCEPT !.held = @ \/ (forget.pc = "cleaned" /\ forget.row \in found)]
  /\ UNCHANGED <<inserted, stored, embedded, attempts, links, raced>>

\* The two rows one statement of _upsert_memory_links inserts.  Mutant: one.
Both_OneWay(r, q) == {<<r, q>>}
Both(r, q) == {<<r, q>>, <<q, r>>}

\* The insert waits for links that a forget has deleted.
Link(w) ==
  /\ worker[w].pc = "linking"
  /\ \E q \in worker[w].found :
       /\ Both(worker[w].row, q) \cap forget.links = {}
       /\ links' = links \cup Both(worker[w].row, q)
       /\ worker' = [worker EXCEPT ![w].found = @ \ {q}]
  /\ UNCHANGED <<inserted, stored, embedded, attempts, raced, forget>>

\* All similar rows are linked, or linking failed and is given up.
FinishRow(w) ==
  /\ worker[w].pc = "linking"
  /\ worker' = [worker EXCEPT ![w] = After(w, worker[w].row)]
  /\ UNCHANGED <<inserted, stored, embedded, attempts, links, raced, forget>>

\* The process dies and is started again, or the embedding key of the tenant
\* cannot be fetched and the batch is dropped.
Abandon(w) ==
  /\ worker[w].pc # "idle"
  /\ worker' = [worker EXCEPT ![w] = Idle]
  /\ UNCHANGED <<inserted, stored, embedded, attempts, links, raced, forget>>

Next ==
  \/ Insert
  \/ \E r \in stored : DeleteRow(r) \/ Purge(r)
  \/ DeleteLinks \/ CommitForget \/ FailForget
  \/ \E w \in Workers :
       \/ Claim(w) \/ EndClaim(w)
       \/ StoreEmbedding(w) \/ FailEmbedding(w)
       \/ FindSimilar(w) \/ Link(w) \/ FinishRow(w)
       \/ Abandon(w)

Spec == Init /\ [][Next]_vars

(***************************************************************************)
(* Fairness: a process is started again when it dies, its death does not   *)
(* come before every outcome of an embedding call for ever, and a forget   *)
(* goes on.                                                                *)
(***************************************************************************)
Fairness ==
  /\ \A w \in Workers :
       /\ SF_vars(Claim(w)) /\ SF_vars(EndClaim(w))
       /\ SF_vars(StoreEmbedding(w) \/ FailEmbedding(w))
       /\ WF_vars(FindSimilar(w) \/ FinishRow(w))
  /\ WF_vars(DeleteLinks \/ CommitForget)

FairSpec == Spec /\ Fairness

(***************************************************************************)
(* Properties.                                                             *)
(***************************************************************************)
WorkerState ==
  [pc : {"idle", "claiming", "working", "finding", "linking"},
   batch : SUBSET Rows, row : 0..MaxRows, found : SUBSET Rows]

ForgetState ==
  [pc : {"none", "deleted", "cleaned"}, row : 0..MaxRows,
   links : SUBSET (Rows \X Rows), held : BOOLEAN]

\* The type of every variable; the row of a forget is in the table.
TypeOK ==
  /\ inserted \in 0..MaxRows
  /\ stored \subseteq 1..inserted /\ embedded \subseteq stored
  /\ attempts \in [Rows -> Nat]
  /\ links \subseteq Rows \X Rows
  /\ raced \subseteq Rows
  /\ forget \in ForgetState /\ forget.row \in stored \cup {NoRow}
  /\ worker \in [Workers -> WorkerState]

Gone == (1..inserted) \ stored

Holders(r) == {w \in Workers : r \in worker[w].batch}

\* The limit of three attempts is exceeded by at most one for every other
\* worker: the attempts are checked when a row is claimed and counted when it
\* fails, with no lock in between, so each worker may still hold a row the
\* others are failing.
AttemptsBounded ==
  \A r \in Rows : attempts[r] + Cardinality(Holders(r)) < MaxAttempts + Cardinality(Workers)

\* Every link has its reverse (one statement inserts both, forget deletes
\* both), so that recall can follow links from source_id alone.
LinksAreSymmetric == \A l \in links : <<l[2], l[1]>> \in links

\* forget leaves no link behind, although workers find and link its row until
\* it commits.  A link outlives its row only when the row was purged, or a
\* worker had it in hand between the statement that deletes the links and the
\* commit.
ForgetCleansLinks == \A l \in links : l[2] \in Gone => l[2] \in raced

\* When no more rows are inserted, there comes a time from which every stored
\* row is embedded or given up after MaxAttempts failures, however often
\* workers die in the middle of their work: a row that fails gives way to the
\* rows behind it.
RowsSettle == <>[](\A r \in stored : r \in embedded \/ attempts[r] >= MaxAttempts)

(***************************************************************************)
(* What the repository says and the code does not do (see README.md).      *)
(***************************************************************************)
\* "G5: skip embedding for short_term": the claim does not select type, so the
\* check for it never holds.
ShortTermIsNotEmbedded == embedded \cap ShortTerm = {}
=============================================================================
