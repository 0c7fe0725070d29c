------------------------------- MODULE Recall -------------------------------
(***************************************************************************)
(* The requests of one agent that read memories: /v1/recall, /v1/context   *)
(* and, for the recalls made under a work order, /v1/outcome.              *)
(*                                                                         *)
(* Each search of a recall, the reading of entities, the expansion by      *)
(* links and the two tasks the recall leaves behind are transactions of    *)
(* their own; between them rows are superseded, archived, forgotten or     *)
(* expire.  What a text or an embedding matches is not modelled: a search  *)
(* finds any of the rows its filters admit, in any order.  The filters by  *)
(* entity and language only narrow that choice and are left out, and the   *)
(* agent stays active.                                                     *)
(***************************************************************************)
EXTENDS Ranking

CONSTANTS
  Calls,       \* the read requests, each made once
  Requests,    \* what each call may ask for
  Private, Org, Chunks,   \* the rows of the three tables
  Type,        \* the type of each private row
  Consolidated,  \* the private rows with is_consolidated
  Readable,    \* the rows of Org and Chunks clearance and audience admit
  ThenValid,   \* the private rows valid at the moment as_of asks about
  Links,       \* memory_links: pairs <<source, target>> of private rows
  MaxFound,    \* result limit times fetch multiplier
  TopSources, PerSource,  \* EXPAND_TOP_RESULTS, EXPAND_LIMIT_PER_RESULT
  MaxConfidence,  \* confidence_multiplier 1.0, in steps above 0.10
  Unset, DefaultBudget,  \* max_chars left out; recall_default_max_chars
  ContextLimit,   \* the LIMIT of each list of /v1/context
  MaxCount,    \* the largest recall_count a SMALLINT holds
  FirstCount, FirstReads,  \* recall_count and the session reads at the start
  NoOrder, Orders,  \* the value without a work order; the work orders
  MaxReports,  \* bound on outcome reports
  MaxChanges,  \* bound on the changes other operations make to rows
  MaxNamed     \* bound on the places a rerank answer names

Rows == Private \cup Org \cup Chunks

ASSUME RecallAssumption ==
  /\ IsFiniteSet(Calls) /\ IsFiniteSet(Rows) /\ IsFiniteSet(Orders) /\ NoRow \notin Rows
  /\ Private \cap (Org \cup Chunks) = {} /\ Org \cap Chunks = {}
  /\ \A n \in Calls : \A request \in Requests[n] :
       /\ request.kind \in {"recall", "context"} /\ request.order \in Orders \cup {NoOrder}
       /\ request.scope \in {"private", "org", "knowledge", "archive", "all"}
       /\ \/ request.maxChars = Unset
          \/ request.maxChars \in IF request.kind = "context" THEN Nat \ {0} ELSE Int
  /\ TopSources \in Nat /\ ContextLimit \in Nat /\ DefaultBudget \in Int
  /\ MaxReports \in Nat /\ MaxChanges \in Nat
  /\ MaxConfidence \in Nat \ {0} /\ MaxCount \in Nat
  /\ FirstCount \in [Rows -> 0..MaxCount] /\ FirstReads \subseteq Orders \X Private
  /\ Weight \in [Rows -> Nat] /\ DOMAIN Length = Rows /\ Links \subseteq Private \X Private
  /\ Readable \subseteq Org \cup Chunks /\ ThenValid \subseteq Private
  /\ Consolidated \subseteq Private

VARIABLES
  status,      \* where each row is in its life
  count,       \* recall_count
  confidence,  \* confidence_multiplier of the private rows
  call,        \* the calls
  reads,       \* qortia_session_reads, distinct: <<work order, row>>
  outcomes,    \* qortia_outcome_records: the work orders with one
  reports,     \* outcomes reported so far for each work order
  changes  \* changes and failures so far

vars == <<status, count, confidence, call, reads, outcomes, reports, changes>>

NoRequest == [kind |-> "none"]
Idle ==
  [pc |-> "idle", request |-> NoRequest, embedded |-> FALSE, found |-> <<>>,
   met |-> {}, current |-> {}, hits |-> <<>>, chunks |-> <<>>,
   lifted |-> {}, answer |-> <<>>, tasks |-> {}]

Init ==
  /\ status = [r \in Rows |-> "active"]
  /\ count = FirstCount
  /\ confidence = [r \in Private |-> MaxConfidence]
  /\ call = [n \in Calls |-> Idle]
  /\ reads = FirstReads
  /\ outcomes = {}
  /\ reports = [o \in Orders |-> 0]
  /\ changes = 0

(***************************************************************************)
(* What the searches admit.                                                *)
(***************************************************************************)
Routed == {"decision", "lesson", "episodic", "short_term"}

\* The tables a scope asks for; the strategies of a routed type know one.
Scopes(request) ==
  IF request.type \in Routed
  THEN IF request.scope \in {"private", "all", "archive"} THEN {"private"} ELSE {}
  ELSE CASE request.scope \in {"private", "archive"} -> {"private"}
         [] request.scope \in {"org", "knowledge"} -> {request.scope}
         [] OTHER -> {"private", "org", "knowledge"}

\* Every search there is, in the order their results are taken.
AllSearches ==
  << <<"type", "private">>, <<"bm25", "private">>, <<"vector", "private">>,
     <<"bm25", "org">>, <<"vector", "org">>,
     <<"bm25", "knowledge">>, <<"vector", "knowledge">> >>

\* The searches of one recall.
Searches(request, embedded) ==
  LET by == IF request.type \in Routed
            THEN IF request.type = "lesson" /\ ~embedded THEN {} ELSE {"type"}
            ELSE IF embedded THEN {"bm25", "vector"} ELSE {"bm25"}
  IN At(AllSearches, {i \in DOMAIN AllSearches :
                        /\ AllSearches[i][1] \in by
                        /\ AllSearches[i][2] \in Scopes(request)})

\* Tier, type, expiry and validity of a private row.  A row superseded since
\* the moment as_of asks about is found by the text search only.
\* Mutant: the text search has no temporal clause.
AdmitsPrivate_NoTemporal(request, by, r, state) ==
  /\ IF request.type \in Routed THEN Type[r] = request.type
     ELSE Type[r] # "short_term" /\ request.type \in {"any", Type[r]}
  /\ \/ state = IF request.scope = "archive" THEN "archived" ELSE "active"
     \/ state = "superseded" /\ by = "bm25" /\ request.scope # "archive"
AdmitsPrivate(request, by, r, state) ==
  /\ IF request.type \in Routed THEN Type[r] = request.type
     ELSE Type[r] # "short_term" /\ request.type \in {"any", Type[r]}
  /\ request.asOf /\ request.type \notin Routed => r \in ThenValid
  /\ \/ state = IF request.scope = "archive" THEN "archived" ELSE "active"
     \/ /\ state = "superseded"
        /\ by = "bm25" /\ request.asOf /\ request.scope # "archive"

\* Clearance, audience and validity of an org row; chunks have no validity.
AdmitsOrg(r, state) == r \in Readable /\ state = "active"
AdmitsChunk(r, state) == r \in Readable /\ state = "active"

\* The rows one search may find.
Admitted(request, search, states) ==
  CASE search[2] = "private" ->
         {r \in Private : AdmitsPrivate(request, search[1], r, states[r])}
    [] search[2] = "org" -> {r \in Org : AdmitsOrg(r, states[r])}
    [] OTHER -> {r \in Chunks : AdmitsChunk(r, states[r])}

\* What a caller asks for, whichever search finds it: the filters of the
\* request for a row in some state.  (The routed types ignore as_of.)
Meets(request, r, state) ==
  /\ \/ r \in Private /\ (state = "archived" <=> request.scope = "archive")
                      /\ request.scope \in {"private", "all", "archive"}
     \/ r \in Org \cap Readable /\ request.scope \in {"org", "all"}
     \/ r \in Chunks \cap Readable /\ request.scope \in {"knowledge", "all"}
  /\ r \in Private =>
       /\ request.type \in {"any", Type[r]}
       /\ request.asOf /\ request.type \notin Routed => r \in ThenValid
  /\ \/ state \in {"active", "archived"}
     \/ state = "superseded" /\ request.asOf /\ request.type \notin Routed

Met(request, states) == {r \in Rows : Meets(request, r, states[r])}

\* _to_result.  _vector_knowledge gives its hits the query's embedding.
Hit(r, search) ==
  [row |-> r,
   importance |-> DynamicImportance(Weight[r], count[r],
                    IF r \in Private THEN confidence[r] ELSE MaxConfidence),
   embedded |-> search = <<"vector", "knowledge">>,
   via |-> NoRow]

(***************************************************************************)
(* A recall.                                                               *)
(***************************************************************************)
\* embed_query: the embedding model answers or does not.
Embeds(request) == IF request.kind = "context" THEN {FALSE} ELSE BOOLEAN

\* The agent waits for one answer before it asks again; the tasks of the calls
\* answered before may still be under way.
Begin(n) ==
  /\ call[n].pc = "idle"
  /\ \A m \in Calls : call[m].pc \in {"idle", "answered", "failed"}
  /\ \E request \in Requests[n] : \E embedded \in Embeds(request) :
       /\ call' = [call EXCEPT ![n] =
            [Idle EXCEPT
               !.pc = IF request.kind = "context" THEN "context" ELSE "searching",
               !.request = request,
               !.embedded = embedded,
               !.met = IF request.kind = "context" THEN {} ELSE Met(request, status),
               !.current = {r \in Private : status[r] = "active"}]]
  /\ UNCHANGED <<status, count, confidence, reads, outcomes, reports, changes>>

Asked(n) == Searches(call[n].request, call[n].embedded)
\* One of the concurrent searches.  One that fails counts as one that finds
\* nothing (return_exceptions).
Search(n) ==
  /\ call[n].pc = "searching"
  /\ \E search \in ToSet(Asked(n)) \ DOMAIN call[n].found :
     \E rows \in SetToAllKPermutations(Admitted(call[n].request, search, status)) :
       /\ Len(rows) <= MaxFound
       /\ call' = [call EXCEPT ![n].found =
            [s \in DOMAIN call[n].found \cup {search} |->
               IF s = search THEN [i \in DOMAIN rows |-> Hit(rows[i], search)]
               ELSE call[n].found[s]]]
  /\ UNCHANGED <<status, count, confidence, reads, outcomes, reports, changes>>

AllFound(n) ==
  /\ call[n].pc = "searching"
  /\ DOMAIN call[n].found = ToSet(Asked(n))

\* The hits of the searches of some tables, one search after the other.
FoundIn(n, tables) ==
  LET all == Asked(n)
      asked == At(all, {i \in DOMAIN all : all[i][2] \in tables})
  IN FlattenSeq([i \in DOMAIN asked |-> call[n].found[asked[i]]])

\* _recall_decisions and its siblings.
Route(n) ==
  /\ AllFound(n) /\ call[n].request.type \in Routed
  /\ ~(call[n].request.type = "short_term" /\ call[n].request.scope = "archive")
  /\ call' = [call EXCEPT ![n].pc = "found", ![n].found = <<>>,
                ![n].hits = SortByImportance(FoundIn(n, {"private"}))]
  /\ UNCHANGED <<status, count, confidence, reads, outcomes, reports, changes>>

\* The rows that entities of the query link to, and those two hops away from
\* them (_bfs_entity_traversal), may be any.
EntityLinked(hits) == SUBSET RowsOf(hits)

\* Fusion and diversification.  The chunks above min_score may be any.
\* Without a vector, or without hits, no links are followed.
FuseHits(n) ==
  /\ AllFound(n) /\ call[n].request.type \notin Routed
  /\ LET memory == FoundIn(n, {"private", "org"})
         knowledge == FoundIn(n, {"knowledge"})
     IN \E boosted \in EntityLinked(memory), scored \in SUBSET DOMAIN knowledge :
          LET fused == Fuse(memory, boosted)
              kept == IF call[n].embedded THEN Diversify(At(knowledge, scored))
                      ELSE SubSeq(knowledge, 1, Min({MaxDiverse, Len(knowledge)}))
              follow == call[n].embedded /\ fused # <<>>
          IN /\ call[n].embedded \/ scored = {}
             /\ call' = [call EXCEPT
                  ![n].pc = IF follow THEN "fused" ELSE "found",
                  ![n].found = <<>>,
                  ![n].hits = IF follow THEN fused ELSE fused \o kept,
                  ![n].lifted = IF follow THEN boosted ELSE {},
                  ![n].chunks = IF follow THEN kept ELSE <<>>]
  /\ UNCHANGED <<status, count, confidence, reads, outcomes, reports, changes>>

\* _expand_with_links: of the top results' links the most similar to rows
\* that are not results yet, and of their targets the current ones.
\* Mutant: a row that is already a result is taken again.
Unlisted_Any(hits, source) == {link[2] : link \in {l \in Links : l[1] = source}}
Unlisted(hits, source) ==
  {link[2] : link \in {l \in Links : l[1] = source}} \ RowsOf(hits)

LinkChoices(hits) ==
  LET sources == RowsOf(SubSeq(hits, 1, Min({TopSources, Len(hits)})))
      Bounded(taken) ==
        \A s \in sources :
          /\ taken[s] \subseteq Unlisted(hits, s)
          /\ Cardinality(taken[s]) = Min({PerSource, Cardinality(Unlisted(hits, s))})
  IN {taken \in [sources -> SUBSET Private] : Bounded(taken)}

Expand(n) ==
  /\ call[n].pc = "fused"
  /\ \E taken \in LinkChoices(call[n].hits) :
       LET current == {r \in UNION Range(taken) : status[r] = "active"}
       IN \E rows \in SetToSeqs(current),
             via \in {f \in [current -> DOMAIN taken] : \A r \in current : r \in taken[f[r]]} :
            call' = [call EXCEPT
              ![n].pc = "found", ![n].chunks = <<>>, ![n].lifted = {},
              ![n].hits = @ \o [i \in DOMAIN rows |->
                                 [row |-> rows[i], importance |-> 0,
                                  embedded |-> FALSE, via |-> via[rows[i]]]]
                           \o call[n].chunks]
  /\ UNCHANGED <<status, count, confidence, reads, outcomes, reports, changes>>

ExpandFails(n) ==
  /\ call[n].pc = "fused"
  /\ call' = [call EXCEPT ![n].pc = "found", ![n].chunks = <<>>, ![n].lifted = {},
                ![n].hits = @ \o call[n].chunks]
  /\ UNCHANGED <<status, count, confidence, reads, outcomes, reports, changes>>

\* What a rerank may make of the hits; a failed one leaves them as they are.
Ranked(request, hits) ==
  IF request.rerank /\ Len(hits) >= 2
  THEN {Rerank(hits, order) : order \in SeqOf(0..Len(hits) + 1, MaxNamed)}
  ELSE {hits}

\* _resolve_max_chars
ResolveMaxChars(max) == IF max = Unset THEN DefaultBudget ELSE max

\* The rerank, the budget and the response; two tasks are left behind.
Answer(n) ==
  /\ call[n].pc = "found"
  /\ \E ranked \in Ranked(call[n].request, call[n].hits) :
       LET max == ResolveMaxChars(call[n].request.maxChars)
           kept == IF max > 0 THEN ApplyCharBudget(ranked, max) ELSE ranked
       IN call' = [call EXCEPT ![n] =
            [Idle EXCEPT
               !.pc = "answered", !.request = call[n].request,
               !.answer = AsRows(kept),
               !.tasks = {"record"} \cup
                         IF call[n].request.order = NoOrder THEN {} ELSE {"log"}]]
  /\ UNCHANGED <<status, count, confidence, reads, outcomes, reports, changes>>

\* An exception nothing catches - in the search of a routed type, or when the
\* entities are read - or the end of the process.  Archive asked of short_term
\* rows always ends so.
Fail(n) ==
  /\ call[n].pc \in {"searching", "fused", "found", "context"}
  /\ call' = [call EXCEPT ![n] = [Idle EXCEPT !.pc = "failed"]]
  /\ UNCHANGED <<status, count, confidence, reads, outcomes, reports, changes>>

(***************************************************************************)
(* The tasks a recall leaves behind, and the outcome of a work order.      *)
(***************************************************************************)
\* _record_recall_access: one transaction for the rows of all tables, which
\* a count that would overflow aborts.
Recorded(n) == {r \in ToSet(call[n].answer) : status[r] # "gone"}

\* Mutant: the task may run again after it has committed.
Record_Again(n) ==
  /\ "record" \in call[n].tasks
  /\ call' = [call EXCEPT ![n].tasks = @ \ {"log"}]
  /\ count' = IF \E r \in Recorded(n) : count[r] = MaxCount THEN count
              ELSE [r \in Rows |-> IF r \in Recorded(n) THEN count[r] + 1 ELSE count[r]]
  /\ UNCHANGED <<status, confidence, reads, outcomes, reports, changes>>
Record(n) ==
  /\ "record" \in call[n].tasks
  /\ call' = [call EXCEPT ![n].tasks = @ \ {"record"}]
  /\ count' = IF \E r \in Recorded(n) : count[r] = MaxCount THEN count
              ELSE [r \in Rows |-> IF r \in Recorded(n) THEN count[r] + 1 ELSE count[r]]
  /\ UNCHANGED <<status, confidence, reads, outcomes, reports, changes>>

\* _log_session_reads
Log(n) ==
  /\ "log" \in call[n].tasks
  /\ call' = [call EXCEPT ![n].tasks = @ \ {"log"}]
  /\ reads' = reads \cup ({call[n].request.order} \X (ToSet(call[n].answer) \cap Private))
  /\ UNCHANGED <<status, count, confidence, outcomes, reports, changes>>

\* A failed task is logged and forgotten.
LoseTask(n) ==
  /\ \E task \in call[n].tasks : call' = [call EXCEPT ![n].tasks = @ \ {task}]
  /\ UNCHANGED <<status, count, confidence, reads, outcomes, reports, changes>>

\* 1.05, 0.85 and 0.60, in steps, between the floor and the cap.
\* Mutant: there is no floor.
Decayed_NoFloor(level, outcome) ==
  LET moved == CASE outcome = "SUCCESS" -> level + 1
                 [] outcome = "MINOR_FAILURE" -> level - 1
                 [] outcome = "CRITICAL_FAILURE" -> level - 2
  IN Min({MaxConfidence, moved})
Decayed(level, outcome) ==
  LET moved == CASE outcome = "SUCCESS" -> level + 1
                 [] outcome = "MINOR_FAILURE" -> level - 1
                 [] outcome = "CRITICAL_FAILURE" -> level - 2
  IN Max({1, Min({MaxConfidence, moved})})

\* Mutant: the rows read under any work order are implicated.
Implicated_Any(o) == {read[2] : read \in reads}
Implicated(o) == {read[2] : read \in {rd \in reads : rd[1] = o}}

TotalReports == SumFunction(reports)

\* _record_work_order_outcome: the rows read under the order decay with every
\* report, of which the first leaves a record.  Orders no recall was made
\* under are left out.
Report(o) ==
  /\ TotalReports < MaxReports
  /\ \/ Implicated(o) # {}
     \/ \E n \in Calls : call[n].request # NoRequest /\ call[n].request.order = o
  /\ \E outcome \in {"SUCCESS", "MINOR_FAILURE", "CRITICAL_FAILURE"} :
       confidence' = [r \in Private |->
                           IF r \in Implicated(o) /\ status[r] # "gone"
                           THEN Decayed(confidence[r], outcome) ELSE confidence[r]]
  /\ outcomes' = outcomes \cup {o}
  /\ reports' = [reports EXCEPT ![o] = @ + 1]
  /\ UNCHANGED <<status, count, call, reads, changes>>

(***************************************************************************)
(* /v1/context: one transaction, then _budget_memories.                    *)
(***************************************************************************)
\* Decisions are read whether consolidated and superseded or not, in any tier.
InContext(type) ==
  {r \in Private :
     /\ Type[r] = type
     /\ \/ type = "decision" /\ status[r] \in {"active", "superseded"}
        \/ type # "decision" /\ status[r] = "active" /\ r \in Consolidated}

\* The heaviest rows of one type, heaviest first.
ContextList(type) ==
  {[i \in 1..Min({ContextLimit, Len(rows)}) |->
      [row |-> rows[i], importance |-> Weight[rows[i]],
       embedded |-> FALSE, via |-> NoRow]] :
     rows \in {p \in SetToSeqs(InContext(type)) :
                \A i \in 1..Len(p) - 1 : Weight[p[i]] >= Weight[p[i + 1]]}}

\* The lists read, for as long as the properties compare them with the answer.
ReadContext(n) ==
  /\ call[n].pc = "context"
  /\ \E models \in ContextList("mental_model"),
        decisions \in ContextList("decision"), lessons \in ContextList("lesson") :
       call' = [call EXCEPT ![n].pc = "read", ![n].hits = models \o decisions \o lessons]
  /\ UNCHANGED <<status, count, confidence, reads, outcomes, reports, changes>>

AnswerContext(n) ==
  /\ call[n].pc = "read"
  /\ LET budget == call[n].request.maxChars
         kept == IF budget = Unset THEN call[n].hits
                 ELSE BudgetMemories(call[n].hits, budget)
     IN call' = [call EXCEPT ![n] =
          [Idle EXCEPT !.pc = "answered", !.request = call[n].request,
                       !.answer = AsRows(kept)]]
  /\ UNCHANGED <<status, count, confidence, reads, outcomes, reports, changes>>

(***************************************************************************)
(* What other operations do to the rows meanwhile.                         *)
(***************************************************************************)
\* A recall remembers which rows it could have found since it began.
Move(r, to) ==
  /\ changes < MaxChanges
  /\ changes' = changes + 1
  /\ status' = [status EXCEPT ![r] = to]
  /\ call' = [n \in Calls |->
       IF call[n].pc = "searching"
       THEN [call[n] EXCEPT !.met = @ \cup Met(call[n].request, status')]
       ELSE call[n]]
  /\ UNCHANGED <<count, confidence, reads, outcomes, reports>>

\* A reflection prunes a row.
Supersede(r) ==
  /\ r \in Private /\ status[r] = "active" /\ Type[r] \notin {"episodic", "short_term"}
  /\ Move(r, "superseded")

\* _archive_old_episodic_memories
Archive(r) ==
  /\ r \in Private /\ status[r] = "active" /\ Type[r] = "episodic" /\ count[r] < 3
  /\ Move(r, "archived")

Expire(r) ==
  /\ r \in Private /\ status[r] = "active" /\ Type[r] = "short_term"
  /\ Move(r, "expired")

\* forget, the purge of expired rows, and the chunks of a source deleted.
Leave(r) ==
  /\ status[r] # "gone"
  /\ Move(r, "gone")

Next ==
  \/ \E n \in Calls :
       \/ Begin(n) \/ Search(n) \/ Route(n) \/ FuseHits(n)
       \/ Expand(n) \/ ExpandFails(n) \/ Answer(n) \/ Fail(n)
       \/ Record(n) \/ Log(n) \/ LoseTask(n)
       \/ ReadContext(n) \/ AnswerContext(n)
  \/ \E o \in Orders : Report(o)
  \/ \E r \in Rows : Supersede(r) \/ Archive(r) \/ Expire(r) \/ Leave(r)

Spec == Init /\ [][Next]_vars

(***************************************************************************)
(* Properties.                                                             *)
(***************************************************************************)
HitRecord ==
  [row : Rows, importance : Nat, embedded : BOOLEAN, via : Rows \cup {NoRow}]

\* The type of every variable.
TypeOK ==
  /\ status \in [Rows -> {"active", "superseded", "archived", "expired", "gone"}]
  /\ count \in [Rows -> 0..MaxCount]
  /\ confidence \in [Private -> 1..MaxConfidence]
  /\ reads \subseteq Orders \X Private
  /\ outcomes \subseteq Orders
  /\ reports \in [Orders -> 0..MaxReports]
  /\ changes \in 0..MaxChanges
  /\ \A n \in Calls :
       /\ call[n].pc \in {"idle", "searching", "fused", "found", "answered",
                          "failed", "context", "read"}
       /\ call[n].request \in Requests[n] \cup {NoRequest}
       /\ call[n].embedded \in BOOLEAN
       /\ call[n].met \cup call[n].lifted \subseteq Rows /\ call[n].current \subseteq Private
       /\ \A search \in DOMAIN call[n].found :
            ToSet(call[n].found[search]) \subseteq HitRecord
       /\ ToSet(call[n].hits) \cup ToSet(call[n].chunks) \subseteq HitRecord
       /\ ToSet(call[n].answer) \subseteq Rows
       /\ call[n].tasks \subseteq {"record", "log"}

Answers(n) == call[n].pc \in {"found", "read"} /\ call'[n].pc = "answered"
Recalls(n) == Answers(n) /\ call[n].request.kind = "recall"
Uncapped(n) == ResolveMaxChars(call[n].request.maxChars) <= 0

\* The rows of an answer that were found by a search, not linked.
Searched(n) ==
  {r \in ToSet(call'[n].answer) :
     \E i \in Places(call[n].hits, r) : call[n].hits[i].via = NoRow}

\* Every row of an answer met all filters of the request - table, clearance,
\* tier, type, expiry, validity - at one moment since the request came,
\* although its searches read at different moments; a linked row was current
\* then and is linked to a row that met them (_expand_with_links ignores the
\* scope, the type and the moment the request asks about).
AnswersWereEligible ==
  [][\A n \in Calls : Recalls(n) =>
       /\ Searched(n) \subseteq call[n].met
       /\ \A r \in ToSet(call'[n].answer) \ Searched(n) :
            /\ r \in call[n].current
            /\ \E source \in call[n].met : <<source, r>> \in Links]_vars

\* A memory is answered once, although two searches find it, at two moments
\* with two values, and links lead to it: only a rerank answer that repeats
\* a place can repeat it.
MemoriesAnsweredOnce ==
  [][\A n \in Calls : Recalls(n) /\ ~call[n].request.rerank =>
       \A i, j \in DOMAIN call'[n].answer :
         call'[n].answer[i] = call'[n].answer[j] /\ i # j
           => call'[n].answer[i] \in Chunks]_vars

\* The order of the fused rows respects the lists: of two rows found by the
\* same searches, with the same importance, the one ahead in all of them
\* comes first, unless an entity lifts the other.  No memory is lost.
FusionRespectsLists ==
  [][\A n \in Calls :
       call[n].pc = "searching" /\ call'[n].pc = "fused" =>
         LET found == call[n].found
             fused == call'[n].hits
             memory == {search \in DOMAIN found : search[2] # "knowledge"}
             Ahead(r, q, hits) ==
               \E i \in Places(hits, r), j \in Places(hits, q) :
                 i < j /\ hits[i].importance = hits[j].importance
             Together(r, q, hits) == r \in RowsOf(hits) <=> q \in RowsOf(hits)
         IN /\ RowsOf(fused) = UNION {RowsOf(found[search]) : search \in memory}
            /\ \A r, q \in RowsOf(fused) :
                 /\ r # q
                 /\ \A search \in memory :
                      /\ Together(r, q, found[search])
                      /\ r \in RowsOf(found[search]) => Ahead(r, q, found[search])
                 /\ q \in call'[n].lifted => r \in call'[n].lifted
                 => Ahead(r, q, fused)]_vars

\* Whatever the rerank answers - places left out, repeated or invented - a
\* request without a budget gets every row the pipeline had.
RerankLosesNothing ==
  [][\A n \in Calls : Recalls(n) /\ Uncapped(n) =>
       RowsOf(call[n].hits) \subseteq ToSet(call'[n].answer)]_vars

\* "Same policy": both budgets keep what ranks highest - by the order of the
\* recall, by importance across the buckets of the context - at least one row,
\* otherwise no more than the budget, and stop only where the next one
\* would not fit.  (A rerank, or MMR, may repeat a row: then it may be a
\* repeated one that does not fit.)
Budget(n) ==
  IF call[n].request.kind = "context" THEN call[n].request.maxChars
  ELSE ResolveMaxChars(call[n].request.maxChars)
Budgeted(n) ==
  IF call[n].request.kind = "context" THEN Budget(n) # Unset ELSE Budget(n) > 0

BudgetsKeepTheBest ==
  [][\A n \in Calls : Answers(n) =>
       LET hits == call[n].hits
           kept == call'[n].answer
           dropped == RowsOf(hits) \ ToSet(kept)
       IN /\ hits # <<>> => kept # <<>>
          /\ Budgeted(n) => Len(kept) <= 1 \/ Total(kept) <= Budget(n)
          /\ dropped # {} =>
               /\ Budgeted(n)
               /\ \E r \in IF call[n].request.kind = "context" THEN dropped ELSE RowsOf(hits) :
                    Total(kept) + Length[r] > Budget(n)
          /\ call[n].request.kind = "context" =>
               \A r \in dropped, q \in ToSet(kept) : Weight[r] <= Weight[q]
          /\ call[n].request.kind = "recall" /\ ~call[n].request.rerank =>
               \A i \in DOMAIN kept : kept[i] = hits[i].row]_vars

\* "A result dropped here was never shown to the caller": a row is counted as
\* recalled at most once for each answer that holds it, whatever becomes of
\* the tasks and however often a rerank repeats it.
CountsAreAnswers ==
  \A r \in Rows :
    count[r] - FirstCount[r] <= Cardinality({n \in Calls : r \in ToSet(call[n].answer)})

\* Confidence is lost only for what was reported: at most two steps for every
\* report on a work order under which the row was answered.
DecayIsReported ==
  \A r \in Private :
    LET orders == {o \in Orders :
                     \/ <<o, r>> \in FirstReads
                     \/ \E n \in Calls :
                          /\ call[n].request # NoRequest /\ call[n].request.order = o
                          /\ r \in ToSet(call[n].answer)}
    IN MaxConfidence - confidence[r] <= 2 * FoldFunctionOnSet(+, 0, reports, orders)

(***************************************************************************)
(* What the repository says and the code does not do (see README.md).      *)
(***************************************************************************)
\* "MMR dedup": a chunk is answered once.
ChunksAnsweredOnce ==
  [][\A n \in Calls : Recalls(n) /\ ~call[n].request.rerank =>
       \A i, j \in DOMAIN call'[n].answer :
         call'[n].answer[i] = call'[n].answer[j] => i = j]_vars
=============================================================================
