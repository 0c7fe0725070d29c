---------------------------- MODULE EntityGraph ----------------------------
(***************************************************************************)
(* The entity graph: _populate_graph_batch in any number of worker         *)
(* processes, while rows are remembered, org rows are written again, rows  *)
(* are forgotten and short_term rows are purged.                           *)
(*                                                                         *)
(* A worker claims private rows and then org rows.  Its claim is a         *)
(* statement of its own, so its row locks end at once and two workers may  *)
(* hold one row.  Each row is a transaction that locks the node of each of *)
(* its entities, in the order of its list, until it commits.  forget       *)
(* deletes the row and then visits the nodes it can see the row on; the    *)
(* purge deletes rows that have expired and visits no node.                *)
(* Transactions can wait for each other in a circle; PostgreSQL then       *)
(* aborts one of them.                                                     *)
(*                                                                         *)
(* A summary is the sequence of the rows whose content went into it: none  *)
(* when the language model answered with an empty text.                    *)
(***************************************************************************)
EXTENDS Integers, SequencesExt

CONSTANTS
  Workers,     \* worker processes running the embed loop
  MaxRows,     \* bound: rows ever inserted
  Org,         \* the rows that are inserted into org_memory
  ShortTerm,   \* the private rows of type short_term
  Nodes,       \* the rows of qortia_entities
  Lists,       \* for each row, the entity lists its content may have; a list
               \* names an entity once
  MergeEvery,  \* the 3 of "link_count >= 3 and link_count % 3 == 0"
  BatchLimit,  \* the 50 of LIMIT 50
  MaxFaults    \* bound: transactions that fail for no reason of their own

Rows == 1..MaxRows

ASSUME EntityGraphAssumption ==
  /\ MaxRows \in Nat
  /\ Org \subseteq 1..MaxRows /\ ShortTerm \subseteq (1..MaxRows) \ Org
  /\ IsFiniteSet(Nodes)
  /\ \A r \in 1..MaxRows : \A list \in Lists[r] : list \in Seq(Nodes) /\ IsInjective(list)
  /\ MergeEvery \in Nat \ {0, 1}
  /\ BatchLimit \in Nat \ {0}
  /\ MaxFaults \in Nat

VARIABLES
  inserted,   \* rows ever inserted are 1..inserted
  stored,     \* rows in the table
  entities,   \* the entity list of each row
  graphed,    \* stored rows with is_graphed
  links,      \* linked_memory_ids of each node
  summary,    \* the summary of each node
  worker,     \* the local variables and the transaction of each worker
  forget,     \* the transaction of a forget
  faults,     \* failures so far
  rewritten,  \* rows written again since they were inserted
  shared,     \* rows two workers held at the same time
  raced,      \* rows forgotten while a worker held them
  purged      \* rows the purge has deleted

table == <<inserted, stored, entities, graphed, rewritten>>
graph == <<links, summary>>
vars == <<table, graph, worker, forget, faults, shared, raced, purged>>

NoRow == 0
Nothing == <<>>  \* no pending change
Empty == <<>>    \* the text of no content
NoSummary == <<NoRow>>  \* the column is NULL
Idle == [pc |-> "idle", batch |-> Nothing, row |-> NoRow, todo |-> <<>>, pending |-> Nothing]
NoForget == [pc |-> "none", row |-> NoRow, todo |-> <<>>, locks |-> {}]

Init ==
  /\ inserted = 0
  /\ stored = {} /\ graphed = {} /\ rewritten = {}
  /\ entities = [r \in Rows |-> <<>>]
  /\ links = [n \in Nodes |-> {}]
  /\ summary = [n \in Nodes |-> NoSummary]
  /\ worker = [w \in Workers |-> Idle]
  /\ forget = NoForget
  /\ faults = 0
  /\ shared = {} /\ raced = {} /\ purged = {}

\* The rows a worker has claimed and not finished.
Batch(w) == DOMAIN worker[w].batch
\* The nodes a transaction has changed, and holds until it ends.
LockedBy(w) == DOMAIN worker[w].pending

(***************************************************************************)
(* Requests.                                                               *)
(***************************************************************************)
\* remember, or remember_org.
Remember ==
  /\ inserted < MaxRows
  /\ inserted' = inserted + 1
  /\ stored' = stored \cup {inserted'}
  /\ \E list \in Lists[inserted'] : entities' = [entities EXCEPT ![inserted'] = list]
  /\ UNCHANGED <<graphed, rewritten, graph, worker, forget, faults, shared, raced, purged>>

\* remember_org finds the title taken: it writes the row again and leaves
\* is_graphed as it is.
RememberAgain(r) ==
  /\ r \in stored \cap Org
  /\ r # forget.row
  /\ \E list \in Lists[r] \ {entities[r]} : entities' = [entities EXCEPT ![r] = list]
  /\ rewritten' = rewritten \cup {r}
  /\ UNCHANGED <<inserted, stored, graphed, graph, worker, forget, faults, shared, raced, purged>>

\* forget deletes the row.
DeleteRow(r) ==
  /\ forget.pc = "none"
  /\ r \in stored
  /\ forget' = [NoForget EXCEPT !.pc = "deleted", !.row = r]
  /\ UNCHANGED <<table, graph, worker, faults, shared, raced, purged>>

\* The nodes that mention a row.  Mutant: forget leaves them alone.
Mentioning_None(r) == {}
Mentioning(r) == {n \in Nodes : r \in links[n]}

\* The UPDATE of the nodes finds them, in any order.
FindNodes ==
  /\ forget.pc = "deleted"
  /\ \E order \in SetToAllKPermutations(Mentioning(forget.row)) :
       /\ ToSet(order) = Mentioning(forget.row)
       /\ forget' = [forget EXCEPT !.pc = "cleaning", !.todo = order]
  /\ UNCHANGED <<table, graph, worker, faults, shared, raced, purged>>

\* The row is removed from the next node, when no worker holds it.
CleanNode ==
  /\ forget.pc = "cleaning"
  /\ forget.todo # <<>>
  /\ \A w \in Workers : Head(forget.todo) \notin LockedBy(w)
  /\ forget' = [forget EXCEPT !.todo = Tail(@), !.locks = @ \cup {Head(forget.todo)}]
  /\ UNCHANGED <<table, graph, worker, faults, shared, raced, purged>>

\* The links and the audit record follow, and the transaction commits.
CommitForget ==
  /\ forget.pc = "cleaning"
  /\ forget.todo = <<>>
  /\ stored' = stored \ {forget.row}
  /\ graphed' = graphed \ {forget.row}
  /\ links' = [n \in Nodes |->
       IF n \in forget.locks THEN links[n] \ {forget.row} ELSE links[n]]
  /\ raced' = raced \cup {r \in {forget.row} : \E w \in Workers : r \in Batch(w)}
  /\ forget' = NoForget
  /\ UNCHANGED <<inserted, entities, rewritten, summary, worker, faults, shared, purged>>

\* _purge_expired_short_term_memories: one statement, for the expired rows
\* that no forget has deleted.
Purge(r) ==
  /\ r \in (stored \cap ShortTerm) \ {forget.row}
  /\ stored' = stored \ {r}
  /\ graphed' = graphed \ {r}
  /\ purged' = purged \cup {r}
  /\ UNCHANGED <<inserted, entities, rewritten, graph, worker, forget, faults, shared, raced>>

(***************************************************************************)
(* The worker.                                                             *)
(***************************************************************************)
\* What a claim of one of the two tables selects from.  FOR UPDATE SKIP
\* LOCKED passes over the row a forget has deleted.
Claimable(tbl) == {r \in (stored \cap tbl) \ (graphed \cup {forget.row}) : entities[r] # <<>>}

\* The worker with a batch, at one of its rows; without one it goes on from
\* the private rows to the org rows.
At(pc, batch) ==
  IF DOMAIN batch = {} THEN {[Idle EXCEPT !.pc = IF pc = "private" THEN "between" ELSE "idle"]}
  ELSE {[pc |-> pc, batch |-> batch, row |-> r, todo |-> batch[r], pending |-> Nothing] :
          r \in DOMAIN batch}

Claim(w, tbl, pc) ==
  /\ \E S \in SUBSET Claimable(tbl) :
       /\ S # {}
       /\ Cardinality(S) <= BatchLimit
       /\ Cardinality(S) < BatchLimit => S = Claimable(tbl)
       /\ \E me \in At(pc, [r \in S |-> entities[r]]) : worker' = [worker EXCEPT ![w] = me]
       /\ shared' = shared \cup (S \cap UNION {Batch(v) : v \in Workers \ {w}})
  /\ UNCHANGED <<table, graph, forget, faults, raced, purged>>

ClaimPrivate(w) == worker[w].pc = "idle" /\ Claim(w, Rows \ Org, "private")

\* The org rows come when the private ones are done.
ClaimOrg(w) ==
  /\ \/ worker[w].pc = "idle" /\ Claimable(Rows \ Org) = {}
     \/ worker[w].pc = "between"
  /\ Claim(w, Org, "org")

EndBatch(w) ==
  /\ worker[w].pc = "between"
  /\ Claimable(Org) = {}
  /\ worker' = [worker EXCEPT ![w] = Idle]
  /\ UNCHANGED <<table, graph, forget, faults, shared, raced, purged>>

\* _update_entity_summary: without a summary, or with an empty one, the row
\* becomes the summary; otherwise the language model merges it into the old
\* one, and an empty answer is one, too.  The summary stays as it is when
\* that fails or no model is configured.
Merged(old, r) ==
  {old} \cup IF old \in {NoSummary, Empty} THEN {<<r>>} ELSE {Append(old, r), Empty}

\* _maybe_update_entity_summary: the first row of a node becomes its summary;
\* every MergeEvery-th is merged.  Mutant: the first row is not taken.
Summaries_NoBootstrap(old, r, count) ==
  IF count % MergeEvery = 0 THEN Merged(old, r) ELSE {old}
Summaries(old, r, count) ==
  IF count = 1 THEN {<<r>>}
  ELSE IF count % MergeEvery = 0 THEN Merged(old, r)
  ELSE {old}

\* A node can be locked.  Mutant: only a forget is waited for.
Free_Forget(w, n) == n \notin forget.locks
Free(w, n) == n \notin forget.locks \cup UNION {LockedBy(v) : v \in Workers \ {w}}

\* The pending changes with one more.
With(pending, n, s) == [m \in {n} \cup DOMAIN pending |-> IF m = n THEN s ELSE pending[m]]

\* The upsert of the next entity, which takes the lock of its node whether or
\* not the row is on it already, and the summary after it.
LinkNode(w) ==
  LET me == worker[w]
      n == Head(me.todo)
  IN /\ me.row # NoRow /\ me.todo # <<>>
     /\ Free(w, n)
     /\ \E s \in Summaries(summary[n], me.row, Cardinality(links[n] \cup {me.row})) :
          worker' = [worker EXCEPT ![w].todo = Tail(@), ![w].pending = With(@, n, s)]
     /\ UNCHANGED <<table, graph, forget, faults, shared, raced, purged>>

\* array_append, unless the row is in the array already.  Mutant: the array of
\* the INSERT replaces the old one.
Appended_Replaced(n, r) == {r}
Appended(n, r) == links[n] \cup {r}

\* UPDATE ... SET is_graphed = true WHERE id.  Mutant: it is left out.
Marked_Not(r) == {}
Marked(r) == {r} \cap stored

\* All entities are linked: the row is marked, when no forget holds it, and
\* the transaction commits.
FinishRow(w) ==
  LET me == worker[w]
  IN /\ me.row # NoRow /\ me.todo = <<>>
     /\ me.row # forget.row
     /\ graphed' = graphed \cup Marked(me.row)
     /\ links' = [n \in Nodes |->
          IF n \in LockedBy(w) THEN Appended(n, me.row) ELSE links[n]]
     /\ summary' = [n \in Nodes |->
          IF n \in LockedBy(w) THEN me.pending[n] ELSE summary[n]]
     /\ \E next \in At(me.pc, Restrict(me.batch, Batch(w) \ {me.row})) :
          worker' = [worker EXCEPT ![w] = next]
     /\ UNCHANGED <<inserted, stored, entities, rewritten, forget, faults, shared, raced, purged>>

(***************************************************************************)
(* Failures.                                                               *)
(***************************************************************************)
\* A statement raises or the process dies: the transaction is rolled back and
\* the whole batch is given up.  Mutant: the transaction stays open.
FailWorker_NoRollback(w) ==
  /\ worker[w].pc # "idle"
  /\ faults < MaxFaults
  /\ faults' = faults + 1
  /\ worker' = [worker EXCEPT ![w] = [Idle EXCEPT !.pending = worker[w].pending]]
  /\ UNCHANGED <<table, graph, forget, shared, raced, purged>>
FailWorker(w) ==
  /\ worker[w].pc # "idle"
  /\ faults < MaxFaults
  /\ faults' = faults + 1
  /\ worker' = [worker EXCEPT ![w] = Idle]
  /\ UNCHANGED <<table, graph, forget, shared, raced, purged>>

FailForget ==
  /\ forget.pc # "none"
  /\ faults < MaxFaults
  /\ faults' = faults + 1
  /\ forget' = NoForget
  /\ UNCHANGED <<table, graph, worker, shared, raced, purged>>

\* The transactions a transaction waits for.
Transactions == Workers \cup {"forget"}

Blockers(t) ==
  IF t = "forget"
  THEN {w \in Workers : forget.todo # <<>> /\ Head(forget.todo) \in LockedBy(w)}
  ELSE LET me == worker[t]
       IN {w \in Workers \ {t} : me.todo # <<>> /\ Head(me.todo) \in LockedBy(w)}
          \cup {f \in {"forget"} :
                  \/ me.todo # <<>> /\ Head(me.todo) \in forget.locks
                  \/ me.row # NoRow /\ me.todo = <<>> /\ me.row = forget.row}

\* They wait for each other in a circle.
Circle(S) ==
  \A t \in S : (\E u \in S : u \in Blockers(t)) /\ (\E u \in S : t \in Blockers(u))

\* PostgreSQL aborts one of them: the request fails, or the batch ends.
Victim(t) == \E S \in SUBSET Transactions : t \in S /\ Circle(S)

AbortVictim(t) ==
  /\ Victim(t)
  /\ IF t = "forget" THEN forget' = NoForget /\ UNCHANGED worker
     ELSE worker' = [worker EXCEPT ![t] = Idle] /\ UNCHANGED forget
  /\ UNCHANGED <<table, graph, faults, shared, raced, purged>>

Next ==
  \/ Remember
  \/ \E r \in Rows : RememberAgain(r) \/ DeleteRow(r) \/ Purge(r)
  \/ FindNodes \/ CleanNode \/ CommitForget
  \/ \E w \in Workers :
       \/ ClaimPrivate(w) \/ ClaimOrg(w) \/ EndBatch(w)
       \/ LinkNode(w) \/ FinishRow(w)
       \/ FailWorker(w)
  \/ FailForget
  \/ \E t \in Transactions : AbortVictim(t)

Spec == Init /\ [][Next]_vars

(***************************************************************************)
(* Fairness: the loop goes on, a transaction that holds nodes obtains a    *)
(* lock that is free again and again (a worker that was aborted sleeps     *)
(* before it comes back), and a circle is broken.  Other failures come to  *)
(* an end, which MaxFaults says.                                           *)
(***************************************************************************)
Start(w) ==
  \/ ClaimPrivate(w) \/ ClaimOrg(w) \/ EndBatch(w)
  \/ worker[w].pending = Nothing /\ LinkNode(w)

GoOn(w) ==
  \/ worker[w].pending # Nothing /\ LinkNode(w)
  \/ FinishRow(w)

Fairness ==
  /\ \A w \in Workers : WF_vars(Start(w)) /\ SF_vars(GoOn(w))
  /\ SF_vars(FindNodes \/ CleanNode \/ CommitForget)
  /\ WF_vars(\E t \in Transactions : AbortVictim(t))

FairSpec == Spec /\ Fairness

(***************************************************************************)
(* Properties.                                                             *)
(***************************************************************************)
\* Rows, nodes and transactions are well formed, and a node is locked by one
\* transaction at most.
TypeOK ==
  /\ inserted \in 0..MaxRows
  /\ graphed \subseteq stored /\ stored \subseteq 1..inserted
  /\ \A n \in Nodes :
       /\ links[n] \subseteq 1..inserted
       /\ summary[n] = NoSummary \/ ToSet(summary[n]) \subseteq 1..inserted
  /\ \A w \in Workers :
       /\ worker[w].pc \in {"idle", "private", "between", "org"}
       /\ worker[w].row \in Batch(w) \cup {NoRow}
       /\ LockedBy(w) \cap (forget.locks \cup UNION {LockedBy(v) : v \in Workers \ {w}}) = {}
  /\ faults \in 0..MaxFaults

\* A row that is marked as graphed is linked from each of its entities, after
\* whatever failures, retries, overlapping batches and concurrent forgets;
\* only rows that remember_org has written again are exempt.
GraphedIsLinked ==
  \A r \in graphed \ rewritten : \A n \in ToSet(entities[r]) : r \in links[n]

\* A node that has a row has been summarised (the column is set, be it to an
\* empty answer of the model): the first row is taken, and no later one can
\* be the first instead.
LinkedHasSummary == \A n \in Nodes : links[n] # {} => summary[n] # NoSummary

\* forget takes a row off every node, unless a worker held it at that moment.
\* The only other rows on a node that are not stored were purged, which
\* takes them off no node.
ForgetCleansNodes == \A n \in Nodes : links[n] \subseteq stored \cup raced \cup purged

\* The content of a row goes into a summary once, except when two workers
\* held the row at the same time.
MergedOnce ==
  \A n \in Nodes : \A i, j \in DOMAIN summary[n] :
    summary[n][i] = summary[n][j] /\ summary[n][i] \notin shared => i = j

\* Every row with entities is graphed in the end or deleted, and no lock or
\* circle of locks prevents it, nor a number of failures that ends.
RowsAreGraphed ==
  \A r \in Rows :
    r \in stored /\ entities[r] # <<>> ~> r \notin stored \/ r \in graphed \/ entities[r] = <<>>

\* A forget ends, by its commit or as the victim of a circle.
ForgetsEnd == forget.pc # "none" ~> forget.pc = "none"
=============================================================================
