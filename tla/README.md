# Qortia in TLA+

Qortia is a memory service for agents: a FastAPI application and a process of
background workers over one PostgreSQL database and one language model gateway.
This directory holds TLA+ modules of its core, the TLC runs that check them, and
proofs checked by TLAPS. `PROJECT.json` lists the components, runs, findings,
hazards and theorems, and maps every definition to the lines it models.

## The system

| Component | State | Operations | What is hard | What makes it correct |
|---|---|---|---|---|
| reflection (`reflect.py`) | consolidated `hindsight_memories`, `reflection_counter` | `POST /v1/reflect`, idle trigger | read, language model call and write are three separate moments; requests and any number of worker processes overlap | rows are retired once, nothing is lost by a stale or empty answer, due agents are reflected |
| remember, forget, context (`remember.py`) | private and org rows, audit records | `remember`, `remember_org`, `forget`, `get_context` | check-then-insert at READ COMMITTED, forget against everything in flight | the audit trail explains the table, nothing left behind, a budget keeps the best |
| embedding worker (`reflect.py`) | `embedding`, `embedding_attempts` | claim, embed, count a failure | locks end before the work, processes die, a row that always fails | every row settles, attempts bounded |
| memory links (`links.py`) | `memory_links` | find similar, link, expand | rows deleted between find and link | symmetric, cleaned by forget except after a race, followed to current rows only |
| entity graph (`entity_graph.py`) | `qortia_entities`, `is_graphed` | populate, summarise | one failing row, two workers on one row, circles of locks, forget and the purge | a graphed row is on its nodes, each memory merged once, every row graphed in the end |
| knowledge (`knowledge.py`) | `org_knowledge` | ingest, delete | two ingests of one source, the embedding worker on a chunk that is being replaced | a source is one version, an embedding is that of its text |
| weekly summary (`knowledge.py`, `leader.py`) | `weekly_summary_last_run_at` | daily cycle, advisory lock | a lock that ends with its connection, restarts, hours that drift, a `last_run_at` read before the lock | no two summaries of one week, no handoff left out between two summaries |
| recall (`recall*.py`) | `recall_count`, `last_recalled_at` | BM25, vector, fusion, MMR, links, rerank, budget | searches that read at different moments, an unreliable rerank, budgets | an answer is eligible, without repetition, and the best that fits |
| outcomes (`recall.py`) | session reads, outcome records, confidence | log reads, report outcome | logging races the report or is lost, reports are repeated | confidence falls for reported reads only |
| embedding cache (`embedding_cache.py`) | per-tenant LRU with TTL | get, put | nothing concurrent: no await between read and write | not modelled |
| provisioning, admin, auth, configuration | keys, agents, tenants | single statements | nothing concurrent of their own | not modelled |

Components meet in the database: transactions at READ COMMITTED, row locks held
to the end of a transaction, `FOR UPDATE SKIP LOCKED` claims. They call each other
directly only inside one process: a recall calls link expansion, the embed loop calls the
graph batch after its own batch. The language model is called with no transaction open,
with one exception: the summary of an entity is merged inside the transaction of the row,
which holds the locks of its nodes meanwhile.

## The modules

**`Consolidation`** is one agent's mental models and lessons, its audit records and
its reflection counter. Its state is the tables, as sets of row ids (`stored`,
`consolidated`, `closed` for a `valid_until` that is set, `history`), the agent row
(`counter`, `idle` for an `updated_at` past the idle window), how many memories a
reflection would read and how many others there are (`recent`, `older`), and one record per
reflection that may be under way (`session`), holding the local variables of `reflect`
or `_reflect_agent`. Its actions:

| Action | Code |
|---|---|
| `Remember` | the transaction of `remember`, for several memories of which some are episodic |
| `Forget`, `ForgetMemory` | `forget` of a mental model or lesson, and of another memory |
| `Age` | a memory passes the seven days of the read, or expires |
| `BecomeIdle` | the passing of `idle_reflection_window_h` |
| `Trigger` | the scan of `_trigger_idle_reflections` selects the agent |
| `ReturnEarly` | "nothing to reflect on": a triggered reflection finds nothing recent |
| `Read` | the read transaction of a reflection |
| `Answer` | the language model's answer, and the guard statement that opens `_write_reflections` |
| `SelectPrune` | the snapshot of the prune statement |
| `Commit` | the prune, the UPDATE and CREATE items, the counter and the audit records, which become visible together |
| `Fail` | every way a reflection ends without writing, the death of the process included |

The write transaction is split where PostgreSQL splits it. Under READ COMMITTED the
guard and the prune see different snapshots, and a row the prune selected is checked
again when its lock is obtained. From then on nobody else can change the rows the
transaction touched and nobody sees the rows it inserts, so the rest is one step.
The two statements of `Answer` are one step because nothing another process
does matters between an answer and the guard. Answers are all the lists
`_call_litellm_reflect` accepts, with ids that were shown, repeated ids and invented
ids, also on a CREATE; contents matter only for being equal within an answer (`seen_hashes`).
`remembered` and `reflected` count episodic memories; `reflected` exists for the
properties only, the code does not keep it. The window of seven days decides whether there
is anything to read (`recent`); which 30 of the recent memories are shown decides only the
contents of the answer. The scan of the trigger looks at neither (`HasRows`), so an agent whose
memories are all old is selected and left again at every scan.

**`RowLifecycle`** is the abstract specification: what the store promises about a row,
whoever writes it. A row is current, then at most once replaced or pruned, and only
forget removes it. `Consolidation` implements it under the mapping `RowStatus`.

**`EmbeddingWorker`** is `run_embedding_worker` over one agent's rows, in several
processes, with `remember`, `forget` and the purge of expired short_term rows. forget is its
statements (`DeleteRow`, `DeleteLinks`, `CommitForget`, `FailForget`): until the commit the row can
be found, and a link committed after `DeleteLinks` stays. One forget is under way at a time; the
purge and the workers go on meanwhile. `Claim` and `EndClaim` are the claim transaction (rows are locked in between), `StoreEmbedding`,
`FailEmbedding`, `FindSimilar`, `Link` and `FinishRow` the statements of
`_embed_single_row` and `links.py`, `Abandon` a process that dies or drops its batch.
Similarity, expiry and validity of the rows that may be found are left open: `FindSimilar`
returns any set of rows its other conditions allow. `raced` and `forget.held` exist for one property only.

**`Knowledge`** is `ingest_knowledge` and `delete_knowledge` of several requests at once.
A request is a record that holds the local variables of the handler and what its
transaction has deleted and added; every statement is an action (`Ingest` with the first
SELECT, `BeginDelete` and `EndDelete` for the snapshot and the locks of the DELETE,
`SelectEmbedding`, `InsertChunk` or `Collide`, `CommitIngest`, `Delete`, `CommitDelete`,
`Abort`). What READ COMMITTED and the unique index do is external: `Visible`, `Obtainable`,
`KeyPending`. Documents are sequences of paragraphs with a size, and `Sections` is
`split_into_sections`; a text stands for its hash and for its index fields, which are
computed from it. `ClaimChunk`, `StoreEmbedding` and `DropClaim` are the embedding worker.
**`KnowledgeRegister`** is its abstract specification: per source, what is kept of one
document, written and cleared in one step. `Knowledge` implements it.

**`EntityGraph`** is `_populate_graph_batch` in several processes, with `remember`,
`remember_org`, `forget` and the purge (`Purge`, which visits no node). `ClaimPrivate`, `ClaimOrg` and `EndBatch` are the two claims,
`LinkNode` the upsert of one entity with its summary, `FinishRow` the mark and the commit.
`DeleteRow`, `FindNodes`, `CleanNode` and `CommitForget` are the statements of forget that
lock something a worker wants. A transaction waits for the nodes others have
changed; when they wait in a circle, `AbortVictim` is PostgreSQL's deadlock detection.
A summary is the list of the rows in it, or NULL (`NoSummary`); an empty answer of the
model is stored as a summary of no row (`Empty`), which the next merge takes for none.
`shared`, `raced`, `purged` and `rewritten` exist for the properties. Each worker works through its
batch in any order, since the claim has no ORDER BY.

**`Ranking`** has the pure part of recall: dynamic importance, the stable sort, fusion, MMR,
rerank and the two budgets, each as what it returns. **`Recall`** is a request: `Search` is one
of the searches `gather` runs, `Route` or `FuseHits` what follows them, `Expand` or `ExpandFails` the
links, `Answer` rerank and budget, `Record` and `Log` the two tasks a recall leaves behind,
`LoseTask` their failure, `Report` an outcome, `ReadContext` and `AnswerContext` the context.
`Supersede`, `Archive`, `Expire` and `Leave` are what reflection, the weekly archival, time
and forget do to rows between the searches. What a text matches is left open: a search
finds any of the rows its filters admit, in any order. `Consolidated` are the mental models
and lessons the context may use. Scores are integers that keep the
order (`OccurrenceScore` is the fused score times a common denominator), confidence moves
in steps. `met` and `current` of a call exist for the properties: they collect which
rows could have been answered since the call began.

**`WeeklySummary`** is the daily loop of each process for one tenant, on a clock of ticks: a cycle
begins up to `Delay` ticks after the day of sleep is over and lasts some, so hours drift.
`Wake` is the advisory lock, `ReadTenants`, `LockTenant` and `Summarise` the cycle,
`SkipTenant` what SKIP LOCKED does, `EndCycle` the unlock, `DropConnection`, `Crash` and `Restart` the failures. Handoffs are
stored under the time their transaction began and may commit later (`writing`, `late`). Any
insert of a tenant's row holds the tenant FOR KEY SHARE until it commits (the foreign keys of
`V1__initial_schema.sql`), which the claim of the tenant skips: since other tables do the same,
`SkipTenant` needs no cause. In the other direction an insert waits for a worker that has the tenant.

**`Ordering`** has what `Knowledge`, `KnowledgeRegister` and `Ranking` need of lists: `Sorted` (ORDER BY and `sorted`) and `At` (a list
comprehension with a condition), in a form that can be reasoned about.

The `MC...` modules give the constants values for TLC.
**`ConsolidationProofs`**, **`EmbeddingWorkerProofs`**, **`EntityGraphProofs`**, **`KnowledgeProofs`**,
**`WeeklySummaryProofs`** and **`RecallProofs`** hold the theorems; each extends the module it is about.
**`OrderingProofs`** has the lemmas about orders, selections, folds, sums and flattened lists,
**`RankingProofs`** those about what `Ranking` computes. An operator whose name ends in
`_Something` right above another definition is a mutant of it: a plausible bug that
violates a property, kept as evidence that the property speaks about the code.

## The runs

| Run | Instance | What it shows |
|---|---|---|
| `reflect_sessions` | two requests, answers of two items, two rows | every overlap of two reflections, with forget in between |
| `reflect_background` | one worker, threshold 1, answers of two items, three rows, three episodic memories, two memories in the table | bounds of a prune, accounting of the counter while memories come, go and get old, liveness |
| `embed_workers` | two workers, two rows (one short_term), batches of one, three attempts, one forget at a time | claims that overlap, retries, deaths, deletions in every order of their statements; a failing row gives way |
| `knowledge` | two requests, two sources, four documents, the worker | every interleaving of two ingests or deletes: no mixture of versions, no chunk twice (`SourcesAreWhole`); texts that are split, merged and dropped |
| `graph` | two workers, two private rows and an org row, three nodes, no failure but the aborts of deadlocks | claims that overlap, forget, the purge and `remember_org` in between; empty answers of the model |
| `graph_settles` | two workers, two private rows (one short_term) with the same entities in opposite orders, one failure at any step | the nodes after a rollback, and liveness through circles of locks |
| `recall` | one call out of seven kinds of request, four private rows, an org row, a chunk, one change, two reports | eligibility, fusion, rerank, budgets, counts, confidence |
| `weekly` | two processes, weeks of two days of two ticks, eight ticks, a delay of one, three handoffs of which one is enough, one crash or dropped connection | leader changes, drift, skipped and repeated weeks |
| `retired_closed`, `embed_short_term`, `reingest_reuse`, `mmr_dedup` | the smallest that shows it | the findings below |

Bounds. Two sessions are enough for the races the guard and the prune can lose: each
involves one session that is stale and one that moves on. Two rows suffice
there, because the case that matters is one row forgotten and another inserted between
guard and prune. The 50% guard needs three consolidated rows to be able to refuse,
so the run it is checked in has three. `MaxRows` bounds the ids: an answer that would insert more
is not given, so a reflection is never stuck by the bound. `MaxRemembered` lets the
threshold be reached three times; requests write episodic and other memories, and `MaxMemories` makes some be
forgotten before the last ones come. The request runs remember nothing new, so the counter is
exercised by `reflect_background`.

In `embed_workers` the limit of attempts is the three of the code, and a
batch is smaller than the table, so that a failing row can block another; two rows are the two ends of a link. In `knowledge` the
documents are chosen for their sections: an introduction that is too short, a section that is
split because one paragraph fits no chunk, a short one that is merged, a text of which nothing
is kept, and a second source with a chunk of the first, whose embedding is copied. In
`graph` a summary is merged at every second row (`MergeEvery = 2`), so two rows reach it; the two private
rows name two entities in opposite orders, which is the smallest circle. In `recall` a count
starts one below the largest a SMALLINT holds and another at it, and the row that is
changed is any row at any moment between two searches; a rerank answer names two places, valid or
not. In `weekly` the horizon is two weeks, in which the tenant's day comes twice: at the first one
it is summarised, skipped or missed, at the second one the hour of each process may have moved. A third week would
add nothing for the properties, which relate a summary to the one before it.

`SYMMETRY` is used in the safety runs `reflect_sessions` (requests), `graph` and `weekly` (processes)
only, never with liveness. `CHECK_DEADLOCK FALSE` stands where the system may rest:
nothing remembered any more and nothing due, every row settled or given up, the call
answered and its tasks done, the last tick of the horizon.

Fairness. `Consolidation!Fairness` and `EmbeddingWorker!Fairness` say that time passes,
that the worker loops keep running (they are `while True` loops, restarted by the container
runtime), and, as strong fairness, that a step attempted again and again succeeds some
time: the language model answers, a transaction commits, a process survives one row.
Requests need not come; a forget that has begun goes on. The scans are assumed to reach the agent: their
LIMIT 50 has no order, and fifty other agents that stay due could leave it out. Nothing gets an agent with
nothing recent past `ReturnEarly`. Without the strong fairness of `Answer` the claim is
false: the trigger swallows every error and leaves the counter as it was.
`Knowledge!FairSpec` says that the database goes on with each transaction; strong, because a lock that
is free now may be taken by another request before the waiting one gets it, which
PostgreSQL's queues of waiters prevent for ever. `EntityGraph!Fairness` is weak for the
start of a row and strong for a transaction that already holds nodes: of two workers that
keep aborting each other one is asleep (the embed loop sleeps ten seconds after each batch)
while the other goes on. `RowsSettle` and `RowsAreGraphed` speak of a finite number of
inserted rows, and `RowsAreGraphed` of failures that come to an end (`MaxFaults`): a row that
always fails is tried again for ever, and in every batch in front of the others.

Properties hold under narrower conditions than one might expect, and say so.
`PruneOnlyShown` and `LaterMemoriesAreCounted` fail as soon as reflections overlap, the second one also when they are
requested, and it speaks of what was remembered after the read only. `DueIsReflected` exempts an agent that has
nothing recent at some time. `EmptyAnswerSparesShown` holds for any
overlap, but an answer that keeps nothing may still close rows that others inserted: when
every row it was shown is gone the guard counts zero and lets the prune go on.
`ForgetCleansLinks` and `ForgetCleansNodes` allow what a worker with the row in hand leaves behind
and the rows the purge deletes, `LinkedHasSummary` allows a summary with an empty text, `MergedOnce` allows rows two workers held, `GraphedIsLinked` exempts rows
`remember_org` has written again. `MemoriesAnsweredOnce` exempts a rerank answer that repeats a place,
which `_llm_rerank` returns as it came. `SummariesDoNotOverlap` is about summaries whose writer still
had the advisory lock, and `NoHandoffIsLost` about cycles that get the tenant: handoffs may be lost by cycles that do not, since
SKIP LOCKED skips a busy tenant, and an hour that drifts past midnight misses the tenant's weekday.
It leaves out handoffs that are committed in a later tick than they began in.
`AnswersWereEligible` does not promise that all rows of an answer were eligible at the same moment.

## Findings

* `retired_closed`: a row replaced by UPDATE keeps `valid_until` NULL and stays in recall.
* `embed_short_term`: `type` is not among the claimed columns, so short_term rows are embedded
  (and the near-duplicate check, which looks at the same column, never runs).
* `reingest_reuse`: the rows of a source are deleted before their embeddings are looked up, so
  the sections of a changed document that did not change are embedded again.
* `mmr_dedup`: `_mmr` gets the query's embedding as that of every vector candidate and none for the
  others: at most two chunks survive, and they can be the same one.

Other divergences, met while modelling and not kept as runs: the 50% guard counts list
entries, so repeated or invented ids pass it (`ARCHITECTURE.md:522`); a requested reflection
discharges memories it was never shown (`reflect.py:670`), and any reflection those outside its seven days and 30 memories; an agent with nothing
recent stays due and is left again at every scan (`reflect.py:755`), where `reflect.py:670` says "at least
reflection_threshold new episodic memories"; a worker links a row
after forget has deleted it and its links (`ARCHITECTURE.md:568`); the purge of short_term rows takes them off
neither the entity nodes nor the links, although both workers put them there; an empty answer
of the model is stored as an entity's summary and counts as none in the next merge (`entity_graph.py:28`);
a tenant with any insert in progress gets no weekly summary that day (`knowledge.py:470`), so none that week; `_rrf_fuse` sums over the
occurrences of an id and not over its ranks, as
`tests/unit/test_recall_helpers_behavior.py:266` notes, where `README.md:13` says "reciprocal
rank fusion"; an outcome reported twice decays twice although its record is inserted once.

## What is proved

Every safety invariant, every action property and both refinements that a run checks are theorems;
what is left to TLC is liveness. The theorems hold for all values of the constants
that satisfy the assumption of the module (`ConsolidationAssumption` and so on: numbers are naturals,
limits positive, sets whose members are counted finite, requests and documents well formed), so for any number
of processes, rows, requests and paragraphs. TLC evaluates every assumption in the runs of the module.

Each module has an inductive invariant, `IInv`, which is what has to be understood to
believe the rest. `Init => IInv` is a lemma
and so is `IInv /\ [Next]_vars => IInv'`, with one lemma per action or, where several
change the same variables, one for all of them. Where a theorem needs more, a further invariant is
proved on top of `IInv`; it is named below.

**`ConsolidationProofs`**: `TypeCorrect`, `AuditTrail`, `Lineage`, `EmptyAnswerIsHarmless`, and
`Refinement`: `Spec` implements `RowLifecycle`, step by step (a forget is its `Forget`, a commit
its `Reflect`, everything else a stutter). The properties are not inductive alone.
That new rows are new needs `IdsAreOld` (every row with a record is at most `lastRow`); the
lineage needs that what a session was shown had a record when it was read and that its answer
names nothing else (`SessionsRooted`); the counter stays in its range because it never exceeds
`remembered`; and the guard is useful to the prune because of `EmptyPruneFindsNothing`: a session
that may prune on an empty answer found no consolidated row, and rows never become
consolidated again, so no row it was shown can be among its targets, however much
others insert before the prune.

The prune and the counter need more.
`PruneKeepsHalf` holds for any number of sessions: `SessionsGuarded` says that a session which may prune
keeps half of what is *left* of the rows it was shown, a set that only shrinks, and that it prunes
nothing its answer keeps; the rest counts sets. `PruneIsShown` and `CounterKeepsLaterMemories` are about
a reflection that is alone, and say so: they assume `Alone` (no two sessions), the second one
also `Background = Sessions` (none was requested). With two sessions TLC refutes both. `ShownIsAll`: nobody
else inserts rows, so what was shown stays all that is consolidated. `CounterCovers` is the account of
one session: while it waits, the counter holds the threshold it will subtract beyond the memories
remembered since its read.

**`EmbeddingWorkerProofs`**: `TypeCorrect`, `ClaimsAreDisjoint`, `AttemptsHaveALimit`, `LinksGoBothWays`,
`LinksAreCleaned`. The bound on attempts is inductive because it counts the holders: a failure
moves one worker out of `Holders(r)` as it moves `attempts[r]` up, and a claim, which adds a
worker, needs attempts below the limit and never finds the worker itself among the holders.
`GoneInHandIsRaced` and `ForgetInOrder` carry the links: a worker may insert one to a row it found long ago, and the row
is either still stored or was in its hand when it was deleted; while a forget waits to commit, the links it has
deleted are all the links of its row, unless a worker has had the row in hand since.

**`EntityGraphProofs`**: `TypeCorrect` (with the exclusion of row locks), `MarkedRowsAreLinked`,
`NodesHaveSummaries`, `NodesAreCleaned`, `RowsAreMergedOnce`. `TransactionsInOrder` says that the nodes of
the row a worker is at are behind it (locked, in `pending`) or before it (`todo`), and that what it will
write still starts from the committed summary, which `LocksExclude` keeps from changing;
`BatchesKnown` that a batch still knows the entities of its rows, unless `remember_org` wrote them
again; `SummarisedIsDone` that a summarised row is graphed, so no later claim takes it;
`ForgetKnowsNodes` that a forget which has read the nodes of its row goes on knowing all of them, since
no worker can finish that row while it is deleted.

**`KnowledgeProofs`**: `TypeCorrect`, `VersionsAreNotMixed`, `EmbeddingsAreOfTheirText`, and
`SourcesAreRegisters`: `Spec` implements `KnowledgeRegister`. A transaction deletes
all rows of its source or none, and inserts sections 0, 1, ... of one document only after
(`RequestsInProgress`); two transactions never both hold one source, because the second one waits at
the row locks or at the unique index (`RequestsApart`); so a commit replaces a whole by a whole. The worker
stores an embedding by id: `HeldIsThere` says that the row it holds is gone or has the text
that was read.

For the refinement a step must map to a write, a clear or a stutter. Only commits and the embedding worker
change rows, each those of one source (`CommitWrites`, `StoreWrites`), and what a source holds after a step is
nothing or the sections of a document (`SourcesAreWhole`), in order (`NumberedTexts`). That these,
one after the other, are what is kept of the document (`DocumentIsKept`) is about the splitting alone and
holds for documents of any length: `_paragraph_split` loses nothing and makes no empty chunk
(`SplitKeepsAll`); of a document with headings everything is kept from its first long part on
(`HeadedSections`); of one without, a chunk that is dropped is short, so each paragraph in it is
(`FlatIsKept`, from `SelectedLists`: to flatten some of the lists is to select their places).

**`WeeklySummaryProofs`**: `TypeCorrect` and `SummariesAreAWeekApart`, for any length of day and week and
any delay. A leader that is due or holds the tenant has seen every summary a leader wrote (`LeaderHasSeen`;
one who lost the lock may have missed some, and its own summaries do not count), and the week it compared
with is over as long as it holds the tenant (`WeekIsOver`).

The module also proves `HandoffsAreSummarised`, for any delay and any failures: a worker that has the tenant to itself
leaves no handoff out that came in time. Either it writes the summary itself, or it compared with a last run
less than a week ago, and that one has the handoff: `SummariesAreComplete` says that a summary has
every handoff of its week that was committed in time (an insert waits for the worker that has the tenant), and that every last run a worker has
read is the time of a summary. `WithinDays` is the arithmetic, that fewer than seven whole days are less than a week.
That some cycle gets the tenant is not promised by the code, so it is neither proved nor checked.

**`RecallProofs`**: `RowsAreCountedOnce` and `DecayIsAlwaysReported` follow from `IInv`, whatever the searches, the
fusion, the rerank and the budgets answer: `CountsAreTasks` compares the count of a row with the calls
whose counting task is over, only an answered call has tasks (`OnlyAnswersAreHeld`), and a report lowers
the confidence of each row read under its order by at most two steps, and only rows answered under that order
count as read (`ReadsAreAnswers`). The other theorems need
`RInv == IInv /\ RowsFit /\ CallsFit`, in which `Fits` says of every call, at each `pc`, what its
hits are: found by a search it made, of a row that could be answered then (`Remembers`), without
repetition (`Distinct`) until links and chunks are added, and then without a memory twice (`Once`). From it come
`TypesAreKept`, `AnswersAreEligible`, `MemoriesAreAnsweredOnce`, `RerankNeverLoses`, `BudgetsAreKept` and
`FusionKeepsTheOrder`. `RecallAssumption` says what a request may be (the API's validation) and that the three kinds
of rows are disjoint.

The last ones rest on `RankingProofs`: a stable sort is a permutation that puts no smaller key first; the
fused list has each row once; MMR takes hits from its list; a rerank by valid places, completed by the rest, loses
nothing; a budget keeps a prefix of its list (the context's is sorted by importance first), with at least one row when there is one. For the order of a fused list, a row that is ahead
in all the lists has an occurrence ahead of each of the other's, so its score is at least as large, and
the sort is stable (`FusionRespects`).

**`OrderingProofs`**. The folds, sorts and sums of the modules are reached without induction theorems that take
an operator: a property of places is a *set* of places that holds 0 and the next of each of its members
(`CountUp`), the same for the parts of a finite set (`PartByPart`). `Sorted` is characterised by how many
elements come before one (`RanksAreTaken`, `ListedByRank`), a fold by what it reaches after each element
(`FoldReaches`, `FoldFollows`), flattening by the place each element goes to (`FlattenLays`,
`PlacesApart`).

What stays with TLC is liveness (`DueIsReflected`, `RowsSettle`, `RequestsEnd`, `RowsAreGraphed`,
`ForgetsEnd`): it needs fairness and `ENABLED`, which the prover does not support. The properties of the runs that show
a finding are refuted there and have no theorem.

## Not modelled, and the plan

Next, in this order:

1. `Requests`: the content check of `remember` over 24 hours and the second audit record of a double forget.
2. The idle trigger over several agents, of which one that keeps failing fills the scan.

Left out of the modules that exist: the filters by entity and language, which only narrow
what a search finds; changes of clearance and audience of a stored row (`Readable` is a constant, also
where `remember_org` could change it); `org_memory` and `qortia_entities` in the embedding worker,
which are claimed and stored by the same statements without linking; the agent becoming
inactive; index fields; the near-duplicate check, which cannot run.

Row-level security and authentication are not modelled: they filter what a request sees and
keep no state. Provisioning is single statements. The embedding cache is a dictionary used without
an await between read and write, and a cached vector is the vector the model would return. The evaluation router, configuration, logging and
telemetry hold no logic of the product.
