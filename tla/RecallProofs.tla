---------------------------- MODULE RecallProofs ----------------------------
(***************************************************************************)
(* Theorems about Recall, for any set of requests, rows and links.         *)
(*                                                                         *)
(* Two invariants.  IInv is about the rows that are counted, and holds     *)
(* whatever a search, a fusion, a rerank or a budget answers; RInv adds    *)
(* what they answer, from the lemmas of RankingProofs.                     *)
(***************************************************************************)
EXTENDS Recall, RankingProofs

(***************************************************************************)
(* The inductive invariant.                                                *)
(***************************************************************************)
\* Every call is a record of the same fields.
Fields(c) ==
  [pc |-> c.pc, request |-> c.request, embedded |-> c.embedded, found |-> c.found,
   met |-> c.met, current |-> c.current, hits |-> c.hits, chunks |-> c.chunks,
   lifted |-> c.lifted, answer |-> c.answer, tasks |-> c.tasks]

CallsAreRecords ==
  /\ call = [n \in Calls |-> call[n]]
  /\ \A n \in Calls : call[n] = Fields(call[n])

\* Only a call that was answered has an answer, or tasks left.
OnlyAnswersAreHeld ==
  \A n \in Calls : call[n].pc # "answered" => call[n].answer = <<>> /\ call[n].tasks = {}

\* A count never overflows: a task that would make one does nothing.
CountsFit == count \in [Rows -> 0..MaxCount]

\* The calls that answered a row and whose counting task is over.
Settled(r) ==
  {n \in Calls : r \in ToSet(call[n].answer) /\ "record" \notin call[n].tasks}

\* A row is counted only by tasks that are over.
CountsAreTasks ==
  \A r \in Rows : count[r] - FirstCount[r] <= Cardinality(Settled(r))

\* A call that does more than wait, or has failed, has a request, with a work
\* order if its reads are to be logged.
RequestsAreMade ==
  \A n \in Calls :
    /\ call[n].pc \in {"idle", "failed"} \/ call[n].request \in Requests[n]
    /\ "log" \in call[n].tasks => call[n].request.order \in Orders

\* The levels of confidence, and the numbers of reports.
LevelsFit ==
  /\ confidence \in [Private -> 1..MaxConfidence]
  /\ reports \in [Orders -> Nat]

\* The work orders under which a row was answered.
OrdersOf(r) ==
  {o \in Orders :
     \/ <<o, r>> \in FirstReads
     \/ \E n \in Calls :
          /\ call[n].request # NoRequest /\ call[n].request.order = o
          /\ r \in ToSet(call[n].answer)}

\* Only what was answered under a work order is implicated in its outcome.
ReadsAreAnswers ==
  \A read \in reads : \E o \in Orders, r \in Private : read = <<o, r>> /\ o \in OrdersOf(r)

IInv ==
  /\ CallsAreRecords
  /\ OnlyAnswersAreHeld
  /\ CountsFit
  /\ CountsAreTasks
  /\ RequestsAreMade
  /\ LevelsFit
  /\ ReadsAreAnswers
  /\ DecayIsReported

(***************************************************************************)
(* Lemmas.                                                                 *)
(***************************************************************************)
\* The calls that settled a row are finitely many.
LEMMA SettledIsFinite ==
  ASSUME NEW r
  PROVE  IsFiniteSet(Settled(r)) /\ Cardinality(Settled(r)) \in Nat
<1>1. IsFiniteSet(Calls)
  BY RecallAssumption DEF RecallAssumption
<1>2. Settled(r) \in SUBSET Calls
  BY DEF Settled
<1>3. IsFiniteSet(Settled(r))
  BY <1>1, <1>2, FS_Subset
<1> QED
  BY <1>3, FS_CardinalityType

\* The next states of a step that counts nothing: the calls that settled a
\* row still have.
LEMMA NothingCounted ==
  ASSUME IInv, UNCHANGED count,
         \A r \in Rows : Settled(r) \subseteq Settled(r)'
  PROVE  CountsFit' /\ CountsAreTasks'
<1>1. CountsFit'
  BY DEF IInv, CountsFit
<1>2. ASSUME NEW r \in Rows
      PROVE  count'[r] - FirstCount[r] <= Cardinality(Settled(r)')
  <2>1. IsFiniteSet(Settled(r)') /\ Cardinality(Settled(r)') \in Nat
    <3>1. IsFiniteSet(Calls)
      BY RecallAssumption DEF RecallAssumption
    <3>2. Settled(r)' \in SUBSET Calls
      BY DEF Settled
    <3>3. IsFiniteSet(Settled(r)')
      BY <3>1, <3>2, FS_Subset
    <3> QED
      BY <3>3, FS_CardinalityType
  <2>2. Settled(r) \in SUBSET (Settled(r)')
    OBVIOUS
  <2>3. Cardinality(Settled(r)) <= Cardinality(Settled(r)')
    BY <2>1, <2>2, FS_Subset
  <2>4. Cardinality(Settled(r)) \in Nat
    BY SettledIsFinite
  <2>5. count'[r] = count[r] /\ count[r] \in Int /\ FirstCount[r] \in Int
    BY RecallAssumption DEF RecallAssumption, IInv, CountsFit
  <2>6. count[r] - FirstCount[r] <= Cardinality(Settled(r))
    BY DEF IInv, CountsAreTasks
  <2> QED
    BY <2>1, <2>3, <2>4, <2>5, <2>6
<1>3. CountsAreTasks'
  BY <1>2 DEF CountsAreTasks
<1> QED
  BY <1>1, <1>3

\* An answer is kept, with its request.
AnswersAreKept ==
  \A n \in Calls : call[n].answer # <<>> =>
    call'[n].answer = call[n].answer /\ call'[n].request = call[n].request

\* No request is the value of a call without one.
LEMMA RequestsAreAsked ==
  ASSUME NEW n \in Calls, NEW request \in Requests[n]
  PROVE  request # NoRequest
BY RecallAssumption DEF RecallAssumption, NoRequest

\* Then a row stays answered under the work orders it was.
LEMMA OrdersGrow ==
  ASSUME AnswersAreKept, NEW r
  PROVE  OrdersOf(r) \subseteq OrdersOf(r)'
<1> SUFFICES ASSUME NEW o \in OrdersOf(r)
             PROVE  o \in OrdersOf(r)'
  OBVIOUS
<1>1. CASE <<o, r>> \in FirstReads
  BY <1>1 DEF OrdersOf
<1>2. ASSUME NEW n \in Calls, call[n].request # NoRequest, call[n].request.order = o,
             r \in ToSet(call[n].answer)
      PROVE  o \in OrdersOf(r)'
  <2>1. call[n].answer # <<>>
    BY <1>2 DEF ToSet
  <2>2. call'[n].answer = call[n].answer /\ call'[n].request = call[n].request
    BY <2>1 DEF AnswersAreKept
  <2> QED
    BY <1>2, <2>2 DEF OrdersOf
<1> QED
  BY <1>1, <1>2 DEF OrdersOf

\* What is reported on the work orders of a row.
Reported(r) == Sum(reports, OrdersOf(r))

\* It is a number.
LEMMA ReportedIsNumber ==
  ASSUME LevelsFit, NEW r
  PROVE  Reported(r) \in Nat
<1>1. OrdersOf(r) \in SUBSET Orders /\ IsFiniteSet(Orders)
  BY RecallAssumption DEF OrdersOf, RecallAssumption
<1>2. \A o \in Orders : reports[o] \in Nat /\ reports[o] <= reports[o]
  BY DEF LevelsFit
<1>3. \A S \in SUBSET Orders : Sum(reports, S) \in Nat
  BY <1>1, <1>2, SumsGrow
<1> QED
  BY <1>1, <1>3 DEF Reported

\* In one state the bound on the decay, with that number.
LEMMA DecayBound ==
  DecayIsReported <=> \A r \in Private : MaxConfidence - confidence[r] <= 2 * Reported(r)
BY DEF DecayIsReported, Reported, Sum, OrdersOf

\* What was reported only grows.
LEMMA ReportedGrows ==
  ASSUME LevelsFit, AnswersAreKept, reports' \in [Orders -> Nat],
         \A o \in Orders : reports[o] <= reports'[o],
         NEW r
  PROVE  /\ Reported(r) \in Nat /\ Reported(r)' \in Nat /\ Reported(r) <= Reported(r)'
         /\ \A o \in OrdersOf(r) : reports[o] < reports'[o] => Reported(r) < Reported(r)'
<1> DEFINE f == reports
           g == reports'
           S == OrdersOf(r)
           T == OrdersOf(r)'
<1>1. IsFiniteSet(Orders) /\ \A o \in Orders : f[o] \in Nat /\ g[o] \in Nat /\ f[o] <= g[o]
  BY RecallAssumption DEF RecallAssumption, LevelsFit
<1>2. T \in SUBSET Orders /\ S \in SUBSET T
  BY OrdersGrow DEF OrdersOf
<1>3. Reported(r) = Sum(f, S) /\ Reported(r)' = Sum(g, T)
  BY DEF Reported
<1>4. \A o \in Orders : g[o] \in Nat /\ g[o] <= g[o]
  BY <1>1
<1> HIDE DEF f, g, S, T
<1>5. /\ Sum(f, S) \in Nat /\ Sum(f, S) <= Sum(g, S)
      /\ \A o \in S : f[o] < g[o] => Sum(f, S) < Sum(g, S)
  BY <1>1, <1>2, SumsGrow
<1>6. Sum(g, S) \in Nat /\ Sum(g, T) \in Nat /\ Sum(g, S) <= Sum(g, T)
  BY <1>1, <1>2, <1>4, SumsGrow
<1> QED
  BY <1>3, <1>5, <1>6 DEF f, g, S

\* The part of the invariant that is about decay, after a step that neither
\* reports nor decays: what is logged as read is in an answer.
LEMMA NothingDecayed ==
  ASSUME IInv, UNCHANGED <<confidence, reports>>, AnswersAreKept,
         \A read \in reads' \ reads :
           \E o \in Orders, r \in Private : read = <<o, r>> /\ o \in OrdersOf(r)'
  PROVE  LevelsFit' /\ ReadsAreAnswers' /\ DecayIsReported'
<1>1. LevelsFit'
  BY DEF IInv, LevelsFit
<1>2. ReadsAreAnswers'
  BY OrdersGrow DEF IInv, ReadsAreAnswers
<1>3. ASSUME NEW r \in Private
      PROVE  MaxConfidence - confidence'[r] <= 2 * Reported(r)'
  <2>1. Reported(r) \in Nat /\ Reported(r)' \in Nat /\ Reported(r) <= Reported(r)'
    BY ReportedGrows DEF IInv, LevelsFit
  <2>2. MaxConfidence - confidence[r] <= 2 * Reported(r)
    BY DecayBound DEF IInv
  <2>3. MaxConfidence \in Int /\ confidence[r] \in Int /\ confidence'[r] = confidence[r]
    BY RecallAssumption DEF RecallAssumption, IInv, LevelsFit
  <2> QED
    BY <2>1, <2>2, <2>3
<1>4. DecayIsReported'
  BY <1>3 DEF DecayIsReported, Reported, Sum, OrdersOf
<1> QED
  BY <1>1, <1>2, <1>4

\* The next state differs in one call at most.
OnlyCall(n) ==
  /\ call' = [m \in Calls |-> call'[m]] /\ call'[n] = Fields(call'[n])
  /\ \A m \in Calls \ {n} : call'[m] = call[m]

\* A step of one call that keeps the answer it has, if it has one, and takes
\* up no task again.
LEMMA OneCall ==
  ASSUME IInv, UNCHANGED <<count, confidence, reports>>, NEW n \in Calls, OnlyCall(n),
         call'[n].pc # "answered" => call'[n].answer = <<>> /\ call'[n].tasks = {},
         call'[n].pc \in {"idle", "failed"} \/ call'[n].request \in Requests[n],
         "log" \in call'[n].tasks => call'[n].request.order \in Orders,
         \/ call[n].answer = <<>>
         \/ /\ call'[n].answer = call[n].answer /\ call'[n].tasks \subseteq call[n].tasks
            /\ call'[n].request = call[n].request,
         \A read \in reads' \ reads :
           \E o \in Orders, r \in Private : read = <<o, r>> /\ o \in OrdersOf(r)'
  PROVE  IInv'
<1>1. CallsAreRecords'
  BY DEF IInv, CallsAreRecords, OnlyCall, Fields
<1>2. OnlyAnswersAreHeld'
  BY DEF IInv, OnlyAnswersAreHeld, OnlyCall
<1>3. ASSUME NEW r \in Rows, NEW m \in Settled(r)
      PROVE  m \in Settled(r)'
  <2>1. m \in Calls /\ r \in ToSet(call[m].answer) /\ "record" \notin call[m].tasks
    BY DEF Settled
  <2>2. call[m].answer # <<>>
    BY <2>1 DEF ToSet
  <2>3. call'[m].answer = call[m].answer /\ call'[m].tasks \subseteq call[m].tasks
    BY <2>1, <2>2 DEF OnlyCall
  <2> QED
    BY <2>1, <2>3 DEF Settled
<1>4. CountsFit' /\ CountsAreTasks'
  BY <1>3, NothingCounted
<1>5. RequestsAreMade'
  BY DEF IInv, RequestsAreMade, OnlyCall
<1>6. AnswersAreKept
  BY DEF AnswersAreKept, OnlyCall
<1>7. LevelsFit' /\ ReadsAreAnswers' /\ DecayIsReported'
  BY <1>6, NothingDecayed
<1> QED
  BY <1>1, <1>2, <1>4, <1>5, <1>7 DEF IInv

\* A step that leaves the calls and the counts alone.
LEMMA NoCall ==
  ASSUME IInv, UNCHANGED <<call, count>>,
         LevelsFit' /\ ReadsAreAnswers' /\ DecayIsReported'
  PROVE  IInv'
  BY DEF IInv, CallsAreRecords, Fields, OnlyAnswersAreHeld, CountsFit, CountsAreTasks,
         Settled, RequestsAreMade

(***************************************************************************)
(* The steps.                                                              *)
(***************************************************************************)
\* A step of a recall or of a context, up to its answer: none is of a call
\* that holds an answer.
LEMMA RequestStep ==
  ASSUME IInv, NEW n \in Calls,
         \/ Begin(n) \/ Search(n) \/ Route(n) \/ FuseHits(n)
         \/ Expand(n) \/ ExpandFails(n) \/ Answer(n) \/ Fail(n)
         \/ ReadContext(n) \/ AnswerContext(n)
  PROVE  IInv'
<1>1. /\ call = [m \in Calls |-> call[m]] /\ call[n] = Fields(call[n])
      /\ call[n].pc # "answered" => call[n].answer = <<>> /\ call[n].tasks = {}
  BY DEF IInv, CallsAreRecords, OnlyAnswersAreHeld
<1>2. UNCHANGED <<count, confidence, reports, reads>> /\ call[n].pc # "answered"
  BY DEF Begin, Search, Route, FuseHits, AllFound, Expand, ExpandFails, Answer, Fail,
         ReadContext, AnswerContext
<1>13. call[n].pc \in {"searching", "fused", "found", "context", "read"}
         => call[n].request \in Requests[n]
  BY DEF IInv, RequestsAreMade
<1> DEFINE Empty == call'[n].answer = <<>> /\ call'[n].tasks = {}
           Made == /\ call'[n].pc \in {"idle", "failed"} \/ call'[n].request \in Requests[n]
                   /\ "log" \in call'[n].tasks => call'[n].request.order \in Orders
<1>3. CASE Begin(n)
  <2>1. PICK request \in Requests[n] : \E embedded \in Embeds(request) :
          call' = [call EXCEPT ![n] =
            [Idle EXCEPT
               !.pc = IF request.kind = "context" THEN "context" ELSE "searching",
               !.request = request,
               !.embedded = embedded,
               !.met = IF request.kind = "context" THEN {} ELSE Met(request, status),
               !.current = {r \in Private : status[r] = "active"}]]
    BY <1>3 DEF Begin
  <2> DEFINE pc == IF request.kind = "context" THEN "context" ELSE "searching"
             met == IF request.kind = "context" THEN {} ELSE Met(request, status)
             current == {r \in Private : status[r] = "active"}
  <2>2. PICK embedded :
          call' = [call EXCEPT ![n] =
            [Idle EXCEPT !.pc = pc, !.request = request, !.embedded = embedded,
                         !.met = met, !.current = current]]
    BY <2>1
  <2> HIDE DEF pc, met, current
  <2>3. OnlyCall(n) /\ Empty /\ Made
    BY <1>1, <1>2, <2>2 DEF OnlyCall, Fields, Idle
  <2> QED
    BY <1>1, <1>2, <2>3, OneCall
<1>4. CASE Search(n)
  <2>0. call[n].pc = "searching"
    BY <1>4 DEF Search
  <2>1. PICK found : call' = [call EXCEPT ![n].found = found]
    BY <1>4 DEF Search
  <2>2. OnlyCall(n) /\ Empty /\ Made
    BY <1>1, <1>2, <1>13, <2>0, <2>1 DEF OnlyCall, Fields
  <2> QED
    BY <1>1, <1>2, <2>2, OneCall
<1>5. CASE Route(n)
  <2>0. call[n].pc = "searching"
    BY <1>5 DEF Route, AllFound
  <2>1. PICK hits :
          call' = [call EXCEPT ![n].pc = "found", ![n].found = <<>>, ![n].hits = hits]
    BY <1>5 DEF Route
  <2>2. OnlyCall(n) /\ Empty /\ Made
    BY <1>1, <1>2, <1>13, <2>0, <2>1 DEF OnlyCall, Fields
  <2> QED
    BY <1>1, <1>2, <2>2, OneCall
<1>6. CASE FuseHits(n)
  <2>0. call[n].pc = "searching"
    BY <1>6 DEF FuseHits, AllFound
  <2> DEFINE memory == FoundIn(n, {"private", "org"})
             knowledge == FoundIn(n, {"knowledge"})
             Follow(boosted) == call[n].embedded /\ Fuse(memory, boosted) # <<>>
             Kept(scored) ==
               IF call[n].embedded THEN Diversify(At(knowledge, scored))
               ELSE SubSeq(knowledge, 1, Min({MaxDiverse, Len(knowledge)}))
             Hits(boosted, scored) ==
               IF Follow(boosted) THEN Fuse(memory, boosted)
               ELSE Fuse(memory, boosted) \o Kept(scored)
  <2>1. PICK boosted \in EntityLinked(memory), scored \in SUBSET DOMAIN knowledge :
          call' = [call EXCEPT
                     ![n].pc = IF Follow(boosted) THEN "fused" ELSE "found",
                     ![n].found = <<>>,
                     ![n].hits = Hits(boosted, scored),
                     ![n].lifted = IF Follow(boosted) THEN boosted ELSE {},
                     ![n].chunks = IF Follow(boosted) THEN Kept(scored) ELSE <<>>]
    BY <1>6 DEF FuseHits
  <2> HIDE DEF Follow, Kept, Hits
  <2>2. OnlyCall(n) /\ Empty /\ Made
    BY <1>1, <1>2, <1>13, <2>0, <2>1 DEF OnlyCall, Fields
  <2> QED
    BY <1>1, <1>2, <2>2, OneCall
<1>7. CASE Expand(n)
  <2>0. call[n].pc = "fused"
    BY <1>7 DEF Expand
  <2>1. PICK hits :
          call' = [call EXCEPT ![n].pc = "found", ![n].chunks = <<>>, ![n].lifted = {},
                               ![n].hits = hits]
    BY <1>7 DEF Expand
  <2>2. OnlyCall(n) /\ Empty /\ Made
    BY <1>1, <1>2, <1>13, <2>0, <2>1 DEF OnlyCall, Fields
  <2> QED
    BY <1>1, <1>2, <2>2, OneCall
<1>8. CASE ExpandFails(n)
  <2>0. call[n].pc = "fused"
    BY <1>8 DEF ExpandFails
  <2>1. PICK hits :
          call' = [call EXCEPT ![n].pc = "found", ![n].chunks = <<>>, ![n].lifted = {},
                               ![n].hits = hits]
    BY <1>8 DEF ExpandFails
  <2>2. OnlyCall(n) /\ Empty /\ Made
    BY <1>1, <1>2, <1>13, <2>0, <2>1 DEF OnlyCall, Fields
  <2> QED
    BY <1>1, <1>2, <2>2, OneCall
<1>9. CASE Answer(n)
  <2>0. call[n].pc = "found"
    BY <1>9 DEF Answer
  <2> DEFINE tasks == {"record"} \cup
                      IF call[n].request.order = NoOrder THEN {} ELSE {"log"}
  <2>1. PICK answer :
          call' = [call EXCEPT ![n] =
            [Idle EXCEPT !.pc = "answered", !.request = call[n].request,
                         !.answer = answer, !.tasks = tasks]]
    BY <1>9 DEF Answer
  <2>3. "log" \in tasks => call[n].request.order \in Orders
    BY <1>13, <2>0, RecallAssumption DEF RecallAssumption
  <2> HIDE DEF tasks
  <2>2. OnlyCall(n) /\ call'[n].pc = "answered" /\ Made
    BY <1>1, <1>2, <1>13, <2>0, <2>1, <2>3 DEF OnlyCall, Fields, Idle
  <2> QED
    BY <1>1, <1>2, <2>2, OneCall
<1>10. CASE Fail(n)
  <2>1. call' = [call EXCEPT ![n] = [Idle EXCEPT !.pc = "failed"]]
    BY <1>10 DEF Fail
  <2>2. OnlyCall(n) /\ Empty /\ Made
    BY <1>1, <1>2, <2>1 DEF OnlyCall, Fields, Idle
  <2> QED
    BY <1>1, <1>2, <2>2, OneCall
<1>11. CASE ReadContext(n)
  <2>0. call[n].pc = "context"
    BY <1>11 DEF ReadContext
  <2>1. PICK hits : call' = [call EXCEPT ![n].pc = "read", ![n].hits = hits]
    BY <1>11 DEF ReadContext
  <2>2. OnlyCall(n) /\ Empty /\ Made
    BY <1>1, <1>2, <1>13, <2>0, <2>1 DEF OnlyCall, Fields
  <2> QED
    BY <1>1, <1>2, <2>2, OneCall
<1>12. CASE AnswerContext(n)
  <2>0. call[n].pc = "read"
    BY <1>12 DEF AnswerContext
  <2>1. PICK answer :
          call' = [call EXCEPT ![n] =
            [Idle EXCEPT !.pc = "answered", !.request = call[n].request,
                         !.answer = answer]]
    BY <1>12 DEF AnswerContext
  <2>2. OnlyCall(n) /\ call'[n].pc = "answered" /\ Made
    BY <1>1, <1>2, <1>13, <2>0, <2>1 DEF OnlyCall, Fields, Idle
  <2> QED
    BY <1>1, <1>2, <2>2, OneCall
<1> QED
  BY <1>3, <1>4, <1>5, <1>6, <1>7, <1>8, <1>9, <1>10, <1>11, <1>12

\* The session reads are logged, or a task is lost.
LEMMA TaskStep ==
  ASSUME IInv, NEW n \in Calls, Log(n) \/ LoseTask(n)
  PROVE  IInv'
<1>1. /\ call = [m \in Calls |-> call[m]] /\ call[n] = Fields(call[n])
      /\ call[n].pc # "answered" => call[n].answer = <<>> /\ call[n].tasks = {}
  BY DEF IInv, CallsAreRecords, OnlyAnswersAreHeld
<1>2. PICK task \in call[n].tasks :
        /\ UNCHANGED <<count, confidence, reports>>
        /\ call' = [call EXCEPT ![n].tasks = @ \ {task}]
  BY DEF Log, LoseTask
<1>3. /\ OnlyCall(n) /\ call'[n].pc = call[n].pc /\ call'[n].request = call[n].request
      /\ call'[n].answer = call[n].answer /\ call'[n].tasks = call[n].tasks \ {task}
  BY <1>1, <1>2 DEF OnlyCall, Fields
<1>4. call[n].request \in Requests[n] /\ ("log" \in call[n].tasks => call[n].request.order \in Orders)
  BY <1>1, <1>2 DEF IInv, RequestsAreMade
<1>6. call[n].request # NoRequest
  BY <1>4, RequestsAreAsked
<1>5. ASSUME NEW read \in reads' \ reads
      PROVE  \E o \in Orders, r \in Private : read = <<o, r>> /\ o \in OrdersOf(r)'
  <2>1. /\ "log" \in call[n].tasks
        /\ read \in {call[n].request.order} \X (ToSet(call[n].answer) \cap Private)
    BY DEF Log, LoseTask
  <2>2. PICK r \in Private : read = <<call[n].request.order, r>> /\ r \in ToSet(call[n].answer)
    BY <2>1
  <2>3. call[n].request.order \in OrdersOf(r)'
    BY <1>3, <1>4, <1>6, <2>1, <2>2 DEF OrdersOf
  <2> QED
    BY <1>4, <2>1, <2>2, <2>3
<1> QED
  BY <1>1, <1>2, <1>3, <1>4, <1>5, OneCall

\* The counting task: it settles the call, and the rows it counts are rows of
\* the answer, whose call had not been settled.
LEMMA RecordStep ==
  ASSUME IInv, NEW n \in Calls, Record(n)
  PROVE  IInv'
<1>0. call[n] = Fields(call[n])
  BY DEF IInv, CallsAreRecords
<1>1. /\ call' = [m \in Calls |-> call'[m]]
      /\ call'[n] = Fields(call'[n])
      /\ call'[n].pc = call[n].pc /\ call'[n].answer = call[n].answer
      /\ call'[n].tasks = call[n].tasks \ {"record"}
      /\ \A m \in Calls \ {n} : call'[m] = call[m]
  BY <1>0 DEF IInv, CallsAreRecords, Record, Fields
<1>2. CallsAreRecords'
  BY <1>1 DEF IInv, CallsAreRecords, Fields
<1>3. OnlyAnswersAreHeld'
  BY <1>1 DEF IInv, OnlyAnswersAreHeld
<1>7. call'[n].request = call[n].request
  BY <1>0 DEF IInv, CallsAreRecords, Record, Fields
<1>8. RequestsAreMade'
  BY <1>1, <1>7 DEF IInv, RequestsAreMade
<1>9. LevelsFit' /\ ReadsAreAnswers' /\ DecayIsReported'
  <2>1. UNCHANGED <<confidence, reports, reads>>
    BY DEF Record
  <2>2. AnswersAreKept
    BY <1>1, <1>7 DEF AnswersAreKept
  <2> QED
    BY <2>1, <2>2, NothingDecayed
<1>4. ASSUME NEW r \in Rows
      PROVE  /\ Settled(r)' = IF r \in ToSet(call[n].answer) THEN Settled(r) \cup {n}
                              ELSE Settled(r)
             /\ n \notin Settled(r)
  <2>1. n \notin Settled(r)
    BY DEF Record, Settled
  <2>2. "record" \notin call'[n].tasks
    BY <1>1
  <2>3. \A m \in Calls : m \in Settled(r)' <=>
           r \in ToSet(call'[m].answer) /\ "record" \notin call'[m].tasks
    BY DEF Settled
  <2>4. \A m \in Calls : m \in Settled(r) <=>
           r \in ToSet(call[m].answer) /\ "record" \notin call[m].tasks
    BY DEF Settled
  <2>5. Settled(r)' \subseteq Calls /\ Settled(r) \subseteq Calls
    BY DEF Settled
  <2> QED
    BY <1>1, <2>1, <2>2, <2>3, <2>4, <2>5
<1>5. CASE \E r \in Recorded(n) : count[r] = MaxCount
  <2>1. UNCHANGED count
    BY <1>5 DEF Record
  <2> QED
    BY <1>2, <1>3, <1>4, <1>8, <1>9, <2>1, NothingCounted DEF IInv
<1>6. CASE \A r \in Recorded(n) : count[r] # MaxCount
  <2>1. count' = [r \in Rows |-> IF r \in Recorded(n) THEN count[r] + 1 ELSE count[r]]
    BY <1>6 DEF Record
  <2>2. count \in [Rows -> 0..MaxCount] /\ MaxCount \in Nat
    BY RecallAssumption DEF RecallAssumption, IInv, CountsFit
  <2>3. CountsFit'
    BY <1>6, <2>1, <2>2 DEF CountsFit
  <2>4. ASSUME NEW r \in Rows
        PROVE  count'[r] - FirstCount[r] <= Cardinality(Settled(r)')
    <3>1. /\ count[r] - FirstCount[r] <= Cardinality(Settled(r))
          /\ count[r] \in Int /\ FirstCount[r] \in Int
      BY <2>2, RecallAssumption DEF RecallAssumption, IInv, CountsAreTasks
    <3>2. IsFiniteSet(Settled(r)) /\ Cardinality(Settled(r)) \in Nat
      BY SettledIsFinite
    <3>3. CASE r \in ToSet(call[n].answer)
      <4>1. Cardinality(Settled(r)') = Cardinality(Settled(r)) + 1
        BY <1>4, <3>2, <3>3, FS_AddElement
      <4>2. count'[r] = count[r] \/ count'[r] = count[r] + 1
        BY <2>1
      <4> QED
        BY <3>1, <3>2, <4>1, <4>2
    <3>4. CASE r \notin ToSet(call[n].answer)
      <4>1. Settled(r)' = Settled(r)
        BY <1>4, <3>4
      <4>2. count'[r] = count[r]
        BY <2>1, <3>4 DEF Recorded
      <4> QED
        BY <3>1, <4>1, <4>2
    <3> QED
      BY <3>3, <3>4
  <2>5. CountsAreTasks'
    BY <2>4 DEF CountsAreTasks
  <2> QED
    BY <1>2, <1>3, <1>8, <1>9, <2>3, <2>5 DEF IInv
<1> QED
  BY <1>5, <1>6

\* A row changes meanwhile: the recalls that search remember it, the answers
\* and tasks stay.
LEMMA MoveStep ==
  ASSUME IInv, NEW r \in Rows, NEW to, Move(r, to)
  PROVE  IInv'
<1>1. /\ UNCHANGED <<count, confidence, reports, reads>>
      /\ call' = [n \in Calls |->
           IF call[n].pc = "searching"
           THEN [call[n] EXCEPT !.met = @ \cup Met(call[n].request, status')]
           ELSE call[n]]
  BY DEF Move
<1>2. call' = [n \in Calls |-> call'[n]]
  BY <1>1
<1>3. ASSUME NEW n \in Calls
      PROVE  /\ call'[n] = Fields(call'[n])
             /\ call'[n].pc = call[n].pc /\ call'[n].request = call[n].request
             /\ call'[n].answer = call[n].answer /\ call'[n].tasks = call[n].tasks
  <2>1. call[n] = Fields(call[n])
    BY DEF IInv, CallsAreRecords
  <2> QED
    BY <1>1, <2>1 DEF Fields
<1>4. CallsAreRecords' /\ OnlyAnswersAreHeld' /\ RequestsAreMade'
  BY <1>2, <1>3 DEF IInv, CallsAreRecords, OnlyAnswersAreHeld, RequestsAreMade
<1>5. \A q \in Rows : Settled(q) \subseteq Settled(q)'
  BY <1>3 DEF Settled
<1>6. AnswersAreKept
  BY <1>3 DEF AnswersAreKept
<1>7. LevelsFit' /\ ReadsAreAnswers' /\ DecayIsReported'
  BY <1>1, <1>6, NothingDecayed
<1> QED
  BY <1>1, <1>4, <1>5, <1>7, NothingCounted DEF IInv

\* An outcome moves a level by two steps at most, between floor and cap.
LEMMA DecayedLevel ==
  ASSUME NEW level \in 1..MaxConfidence,
         NEW outcome \in {"SUCCESS", "MINOR_FAILURE", "CRITICAL_FAILURE"}
  PROVE  Decayed(level, outcome) \in 1..MaxConfidence /\ Decayed(level, outcome) >= level - 2
<1> DEFINE moved == CASE outcome = "SUCCESS" -> level + 1
                      [] outcome = "MINOR_FAILURE" -> level - 1
                      [] outcome = "CRITICAL_FAILURE" -> level - 2
           capped == Min({MaxConfidence, moved})
<1>1. MaxConfidence \in Nat \ {0}
  BY RecallAssumption DEF RecallAssumption
<1>2. moved \in Int /\ moved >= level - 2
  BY <1>1
<1>3. Decayed(level, outcome) = Max({1, capped})
  BY DEF Decayed
<1> HIDE DEF moved
<1>4. capped = CHOOSE x \in {MaxConfidence, moved} : \A y \in {MaxConfidence, moved} : x <= y
  BY DEF Min
<1>5. \E x \in {MaxConfidence, moved} : \A y \in {MaxConfidence, moved} : x <= y
  BY <1>1, <1>2
<1> HIDE DEF capped
<1>6. capped \in {MaxConfidence, moved} /\ capped <= MaxConfidence /\ capped <= moved
  BY <1>4, <1>5
<1>7. Max({1, capped}) = CHOOSE x \in {1, capped} : \A y \in {1, capped} : x >= y
  BY DEF Max
<1>8. \E x \in {1, capped} : \A y \in {1, capped} : x >= y
  BY <1>1, <1>2, <1>6
<1> DEFINE floored == Max({1, capped})
<1> HIDE DEF floored
<1>9. floored \in {1, capped} /\ floored >= 1 /\ floored >= capped
  BY <1>7, <1>8 DEF floored
<1>10. floored \in 1..MaxConfidence /\ floored >= level - 2
  BY <1>1, <1>2, <1>6, <1>9
<1> QED
  BY <1>3, <1>10 DEF floored

\* The outcome of a work order: every row it moves was answered under it, so
\* that what is reported on the row grows too.
LEMMA ReportStep ==
  ASSUME IInv, NEW o \in Orders, Report(o)
  PROVE  IInv'
<1>1. PICK outcome \in {"SUCCESS", "MINOR_FAILURE", "CRITICAL_FAILURE"} :
        confidence' = [r \in Private |->
                           IF r \in Implicated(o) /\ status[r] # "gone"
                           THEN Decayed(confidence[r], outcome) ELSE confidence[r]]
  BY DEF Report
<1>2. UNCHANGED <<call, count, reads>> /\ reports' = [reports EXCEPT ![o] = @ + 1]
  BY DEF Report
<1>3. confidence \in [Private -> 1..MaxConfidence] /\ reports \in [Orders -> Nat]
  BY DEF IInv, LevelsFit
<1>4. LevelsFit'
  <2>1. confidence' \in [Private -> 1..MaxConfidence]
    BY <1>1, <1>3, DecayedLevel
  <2>2. reports' \in [Orders -> Nat]
    BY <1>2, <1>3
  <2> QED
    BY <2>1, <2>2 DEF LevelsFit
<1>5. AnswersAreKept
  BY <1>2 DEF AnswersAreKept
<1>6. ReadsAreAnswers'
  BY <1>2, <1>5, OrdersGrow DEF IInv, ReadsAreAnswers
<1>7. reports' \in [Orders -> Nat] /\ \A q \in Orders : reports[q] <= reports'[q]
  BY <1>2, <1>3
<1>8. reports[o] < reports'[o]
  BY <1>2, <1>3
<1>9. ASSUME NEW r \in Private
      PROVE  MaxConfidence - confidence'[r] <= 2 * Reported(r)'
  <2>1. /\ Reported(r) \in Nat /\ Reported(r)' \in Nat /\ Reported(r) <= Reported(r)'
        /\ o \in OrdersOf(r) => Reported(r) < Reported(r)'
    BY <1>5, <1>7, <1>8, ReportedGrows DEF IInv
  <2>2. MaxConfidence - confidence[r] <= 2 * Reported(r)
    BY DecayBound DEF IInv
  <2>3. MaxConfidence \in Int /\ confidence[r] \in Int
    BY <1>3, RecallAssumption DEF RecallAssumption
  <2>4. CASE r \in Implicated(o) /\ status[r] # "gone"
    <3>1. \E read \in reads : read[1] = o /\ read[2] = r
      BY <2>4 DEF Implicated
    <3>3. o \in OrdersOf(r)
      BY <3>1 DEF IInv, ReadsAreAnswers
    <3>4. confidence'[r] \in Int /\ confidence'[r] >= confidence[r] - 2
      BY <1>1, <1>3, <2>4, DecayedLevel
    <3> QED
      BY <2>1, <2>2, <2>3, <3>3, <3>4
  <2>5. CASE ~(r \in Implicated(o) /\ status[r] # "gone")
    <3>1. confidence'[r] = confidence[r]
      BY <1>1, <2>5
    <3> QED
      BY <2>1, <2>2, <2>3, <3>1
  <2> QED
    BY <2>4, <2>5
<1>10. DecayIsReported'
  BY <1>9 DEF DecayIsReported, Reported, Sum, OrdersOf
<1> QED
  BY <1>2, <1>4, <1>6, <1>10, NoCall

(***************************************************************************)
(* The theorems.                                                           *)
(***************************************************************************)
\* No call has been made, and nothing has been counted.
LEMMA Initially ==
  ASSUME Init
  PROVE  IInv
<1>1. /\ CallsAreRecords /\ OnlyAnswersAreHeld
      /\ \A n \in Calls : call[n].answer = <<>>
  BY DEF Init, Idle, CallsAreRecords, Fields, OnlyAnswersAreHeld
<1>2. count = FirstCount /\ FirstCount \in [Rows -> 0..MaxCount] /\ MaxCount \in Nat
  BY RecallAssumption DEF RecallAssumption, Init
<1>3. CountsFit
  BY <1>2 DEF CountsFit
<1>4. ASSUME NEW r \in Rows
      PROVE  count[r] - FirstCount[r] <= Cardinality(Settled(r))
  <2>1. Cardinality(Settled(r)) \in Nat
    BY SettledIsFinite
  <2> QED
    BY <1>2, <2>1
<1>5. CountsAreTasks
  BY <1>4 DEF CountsAreTasks
<1>6. RequestsAreMade /\ LevelsFit
  BY RecallAssumption DEF RecallAssumption, Init, Idle, RequestsAreMade, LevelsFit
<1>7. ReadsAreAnswers
  <2>1. reads = FirstReads /\ FirstReads \subseteq Orders \X Private
    BY RecallAssumption DEF RecallAssumption, Init
  <2>2. \A o \in Orders : \A r : <<o, r>> \in FirstReads => o \in OrdersOf(r)
    BY DEF OrdersOf
  <2>3. ASSUME NEW read \in reads
        PROVE  \E o \in Orders, r \in Private : read = <<o, r>> /\ o \in OrdersOf(r)
    <3>1. PICK o \in Orders, r \in Private : read = <<o, r>>
      BY <2>1
    <3>2. o \in OrdersOf(r)
      BY <2>1, <2>2, <3>1
    <3> QED
      BY <3>1, <3>2
  <2> QED
    BY <2>3 DEF ReadsAreAnswers
<1>8. DecayIsReported
  <2>1. \A r \in Private : Reported(r) \in Nat /\ confidence[r] = MaxConfidence
    BY <1>6, ReportedIsNumber DEF Init
  <2>2. MaxConfidence \in Int
    BY RecallAssumption DEF RecallAssumption
  <2> QED
    BY <2>1, <2>2, DecayBound
<1> QED
  BY <1>1, <1>3, <1>5, <1>6, <1>7, <1>8 DEF IInv

\* Every step preserves the invariant.
LEMMA Steps ==
  ASSUME IInv, [Next]_vars
  PROVE  IInv'
<1>1. CASE UNCHANGED vars
  <2>1. UNCHANGED <<call, count, confidence, reports, reads>>
    BY <1>1 DEF vars
  <2>2. LevelsFit' /\ ReadsAreAnswers' /\ DecayIsReported'
    BY <2>1, NothingDecayed DEF AnswersAreKept
  <2> QED
    BY <2>1, <2>2, NoCall
<1>2. ASSUME NEW n \in Calls,
             \/ Begin(n) \/ Search(n) \/ Route(n) \/ FuseHits(n)
             \/ Expand(n) \/ ExpandFails(n) \/ Answer(n) \/ Fail(n)
             \/ ReadContext(n) \/ AnswerContext(n)
      PROVE  IInv'
  BY <1>2, RequestStep
<1>3. ASSUME NEW n \in Calls, Log(n) \/ LoseTask(n)
      PROVE  IInv'
  BY <1>3, TaskStep
<1>4. ASSUME NEW n \in Calls, Record(n)
      PROVE  IInv'
  BY <1>4, RecordStep
<1>5. ASSUME NEW o \in Orders, Report(o)
      PROVE  IInv'
  BY <1>5, ReportStep
<1>6. ASSUME NEW r \in Rows, Supersede(r) \/ Archive(r) \/ Expire(r) \/ Leave(r)
      PROVE  IInv'
  BY <1>6, MoveStep DEF Supersede, Archive, Expire, Leave
<1> QED
  BY <1>1, <1>2, <1>3, <1>4, <1>5, <1>6 DEF Next

\* Of any number of calls, on any rows: the counting tasks, the tasks that are
\* lost, the counts that would overflow and the answers a rerank repeats, in
\* any order, count a row at most once for each answer that held it.
THEOREM RowsAreCountedOnce == Spec => []CountsAreAnswers
<1>1. ASSUME IInv
      PROVE  CountsAreAnswers
  <2>1. ASSUME NEW r \in Rows
        PROVE  count[r] - FirstCount[r]
                 <= Cardinality({n \in Calls : r \in ToSet(call[n].answer)})
    <3> DEFINE answered == {n \in Calls : r \in ToSet(call[n].answer)}
    <3>1. IsFiniteSet(Calls) /\ answered \in SUBSET Calls
      BY RecallAssumption DEF RecallAssumption
    <3>2. IsFiniteSet(answered)
      BY <3>1, FS_Subset
    <3>3. Settled(r) \in SUBSET answered
      BY DEF Settled
    <3>4. Cardinality(Settled(r)) <= Cardinality(answered)
      BY <3>2, <3>3, FS_Subset
    <3>5. Cardinality(Settled(r)) \in Nat /\ Cardinality(answered) \in Nat
      BY <3>2, SettledIsFinite, FS_CardinalityType
    <3>6. /\ count[r] - FirstCount[r] <= Cardinality(Settled(r))
          /\ count[r] \in Int /\ FirstCount[r] \in Int
      BY <1>1, RecallAssumption DEF RecallAssumption, IInv, CountsAreTasks, CountsFit
    <3> QED
      BY <3>4, <3>5, <3>6
  <2> QED
    BY <2>1 DEF CountsAreAnswers
<1> QED
  BY <1>1, Initially, Steps, PTL DEF Spec

\* Of any number of work orders and reports, in any order, with rows that
\* change, answers that arrive late and reads that are logged or lost: a row
\* loses confidence only by reports on orders it was answered under.
THEOREM DecayIsAlwaysReported == Spec => []DecayIsReported
<1>1. IInv => DecayIsReported
  BY DEF IInv
<1> QED
  BY <1>1, Initially, Steps, PTL DEF Spec

(***************************************************************************)
(* What a call holds: the second inductive invariant.                      *)
(***************************************************************************)
Pcs == {"idle", "searching", "fused", "found", "answered", "failed", "context", "read"}

\* The types of what a call holds.
Typed(c, requests) ==
  /\ c.pc \in Pcs
  /\ c.request \in requests \cup {NoRequest}
  /\ c.embedded \in BOOLEAN
  /\ c.met \subseteq Rows /\ c.lifted \subseteq Rows /\ c.current \subseteq Private
  /\ \A search \in DOMAIN c.found : c.found[search] \in Seq(HitRecord)
  /\ c.hits \in Seq(HitRecord) /\ c.chunks \in Seq(HitRecord)
  /\ c.answer \in Seq(Rows)
  /\ c.tasks \subseteq {"record", "log"}

TableOf(search) ==
  CASE search[2] = "private" -> Private [] search[2] = "org" -> Org [] OTHER -> Chunks

\* A hit that was searched for met the request, and is of its table.
SearchedFor(c, hit) == hit.via = NoRow /\ hit.row \in c.met

\* Each search found rows of its table that met the request, each once.
FoundWell(c) ==
  \A search \in DOMAIN c.found :
    /\ search \in ToSet(Searches(c.request, c.embedded))
    /\ Distinct(c.found[search])
    /\ \A hit \in ToSet(c.found[search]) : SearchedFor(c, hit) /\ hit.row \in TableOf(search)

\* What a recall and a context remember of the rows.
Remembers(c, state) ==
  /\ c.pc \in {"searching", "fused", "found"} =>
       /\ c.request.kind = "recall"
       /\ {r \in Private : state[r] = "active"} \subseteq c.current
  /\ c.pc \in {"context", "read"} => c.request.kind = "context"
  /\ c.pc = "searching" => Met(c.request, state) \subseteq c.met

\* A hit of an answer was searched for or linked.
Eligible(c, hit) ==
  IF hit.via = NoRow THEN hit.row \in c.met
  ELSE hit.row \in c.current /\ \E source \in c.met : <<source, hit.row>> \in Links

\* No memory is listed twice.
Once(hits) ==
  \A i, j \in DOMAIN hits : hits[i].row = hits[j].row /\ i # j => hits[i].row \in Chunks

\* What was fused, and what is about to be answered: a context lists no row
\* twice.
ResultsAreWell(c) ==
  /\ c.pc = "fused" =>
       /\ \A hit \in ToSet(c.hits) \cup ToSet(c.chunks) : SearchedFor(c, hit)
       /\ Distinct(c.hits) /\ RowsOf(c.chunks) \subseteq Chunks
  /\ c.pc = "found" => Once(c.hits) /\ \A hit \in ToSet(c.hits) : Eligible(c, hit)
  /\ c.pc = "read" => Distinct(c.hits)

Fits(c, requests, state) ==
  /\ c = Fields(c)
  /\ Typed(c, requests)
  /\ FoundWell(c)
  /\ Remembers(c, state)
  /\ ResultsAreWell(c)

States == {"active", "superseded", "archived", "expired", "gone"}

RowsFit ==
  /\ status \in [Rows -> States]
  /\ outcomes \subseteq Orders
  /\ changes \in 0..MaxChanges
  /\ TotalReports <= MaxReports

CallsFit == \A n \in Calls : Fits(call[n], Requests[n], status)

RInv == IInv /\ RowsFit /\ CallsFit

(***************************************************************************)
(* Lemmas about the searches.                                              *)
(***************************************************************************)
\* The searches a recall makes, and those of a routed type.
LEMMA SearchesMade ==
  ASSUME NEW request, NEW embedded
  PROVE  /\ Searches(request, embedded) \in Seq({AllSearches[i] : i \in 1..7})
         /\ \A search \in ToSet(Searches(request, embedded)) :
              /\ search[2] \in Scopes(request)
              /\ search[1] = "type" <=> request.type \in Routed
         /\ request.type \in Routed => Len(Searches(request, embedded)) <= 1
<1> DEFINE by == IF request.type \in Routed
                 THEN IF request.type = "lesson" /\ ~embedded THEN {} ELSE {"type"}
                 ELSE IF embedded THEN {"bm25", "vector"} ELSE {"bm25"}
           S == {i \in DOMAIN AllSearches : /\ AllSearches[i][1] \in by
                                            /\ AllSearches[i][2] \in Scopes(request)}
<1>1. Searches(request, embedded) = At(AllSearches, S)
  BY DEF Searches
<1>2. Len(AllSearches) = 7 /\ DOMAIN AllSearches = 1..7
  BY DEF AllSearches
<1>3. AllSearches \in Seq({AllSearches[i] : i \in 1..7})
  <2>1. AllSearches = [i \in 1..7 |-> AllSearches[i]]
    BY DEF AllSearches
  <2>2. AllSearches \in [1..7 -> {AllSearches[i] : i \in 1..7}]
    <3> HIDE DEF S
    <3> QED
      BY <2>1 DEF AllSearches
  <2> QED
    BY <2>2, SeqDef
<1>4. S \in SUBSET (1..Len(AllSearches))
  BY <1>2
<1>5. \A i \in S : /\ AllSearches[i][2] \in Scopes(request)
                   /\ AllSearches[i][1] = "type" <=> request.type \in Routed
  OBVIOUS
<1>6. request.type \in Routed => S \subseteq {1}
  <2>1. \A i \in 1..7 : AllSearches[i][1] = "type" => i = 1
    BY DEF AllSearches
  <2> QED
    BY <1>2, <1>5, <2>1
<1> HIDE DEF S, by
<1>7. /\ Cardinality(S) \in Nat /\ At(AllSearches, S) \in Seq({AllSearches[i] : i \in 1..7})
      /\ DOMAIN At(AllSearches, S) = 1..Cardinality(S)
      /\ ToSet(At(AllSearches, S)) = {AllSearches[i] : i \in S}
  BY <1>3, <1>4, AtSelects
<1>8. S \subseteq {1} => Cardinality(S) <= 1
  <2>1. IsFiniteSet({1}) /\ Cardinality({1}) = 1
    BY FS_Singleton
  <2>2. S \subseteq {1} => Cardinality(S) <= Cardinality({1})
    BY <2>1, FS_Subset
  <2> QED
    BY <2>1, <2>2
<1>9. Len(At(AllSearches, S)) = Cardinality(S)
  BY <1>7
<1> QED
  BY <1>1, <1>5, <1>6, <1>7, <1>8, <1>9

\* What a search admits meets the request.
LEMMA AdmittedMeets ==
  ASSUME NEW n \in Calls, NEW request \in Requests[n], NEW embedded, NEW state,
         NEW search \in ToSet(Searches(request, embedded))
  PROVE  /\ Admitted(request, search, state) \subseteq Met(request, state)
         /\ Admitted(request, search, state) \subseteq TableOf(search)
<1>1. /\ search[2] \in Scopes(request)
      /\ search[1] = "type" <=> request.type \in Routed
  BY SearchesMade
<1>2. request.scope \in {"private", "org", "knowledge", "archive", "all"}
  BY RecallAssumption DEF RecallAssumption
<1>3. CASE search[2] = "private"
  <2>1. Admitted(request, search, state)
          = {r \in Private : AdmitsPrivate(request, search[1], r, state[r])}
    BY <1>3 DEF Admitted
  <2>2. request.scope \in {"private", "all", "archive"}
    BY <1>1, <1>2, <1>3 DEF Scopes
  <2>3. ASSUME NEW r \in Private, AdmitsPrivate(request, search[1], r, state[r])
        PROVE  Meets(request, r, state[r])
    <3>1. state[r] = "superseded" => search[1] = "bm25" /\ request.asOf
      BY <2>3 DEF AdmitsPrivate
    <3>2. state[r] = "superseded" => request.type \notin Routed
      BY <1>1, <3>1
    <3>3. request.type \in {"any", Type[r]}
      BY <2>3 DEF AdmitsPrivate
    <3>4. request.asOf /\ request.type \notin Routed => r \in ThenValid
      BY <2>3 DEF AdmitsPrivate
    <3>5. /\ state[r] \in {"active", "archived", "superseded"}
          /\ state[r] = "archived" <=> request.scope = "archive"
      BY <2>3 DEF AdmitsPrivate
    <3> QED
      BY <2>2, <3>1, <3>2, <3>3, <3>4, <3>5 DEF Meets
  <2> QED
    BY <1>3, <2>1, <2>3 DEF Met, Rows, TableOf
<1>4. CASE search[2] = "org"
  <2>1. Admitted(request, search, state) = {r \in Org : AdmitsOrg(r, state[r])}
    BY <1>4 DEF Admitted
  <2>2. request.scope \in {"org", "all"}
    BY <1>1, <1>2, <1>4 DEF Scopes
  <2>3. \A r \in Org : r \notin Private
    BY RecallAssumption DEF RecallAssumption
  <2> QED
    BY <1>4, <2>1, <2>2, <2>3 DEF AdmitsOrg, Met, Meets, Rows, TableOf
<1>5. CASE search[2] # "private" /\ search[2] # "org"
  <2>1. Admitted(request, search, state) = {r \in Chunks : AdmitsChunk(r, state[r])}
    BY <1>5 DEF Admitted
  <2>2. request.scope \in {"knowledge", "all"}
    BY <1>1, <1>2, <1>5 DEF Scopes
  <2>3. \A r \in Chunks : r \notin Private
    BY RecallAssumption DEF RecallAssumption
  <2> QED
    BY <1>5, <2>1, <2>2, <2>3 DEF AdmitsChunk, Met, Meets, Rows, TableOf
<1> QED
  BY <1>3, <1>4, <1>5

\* Every hit of a search is a hit.
LEMMA HitsAreHits ==
  ASSUME NEW r \in Rows, NEW search,
         count \in [Rows -> 0..MaxCount], confidence \in [Private -> 1..MaxConfidence]
  PROVE  /\ Hit(r, search) \in HitRecord
         /\ Hit(r, search).row = r /\ Hit(r, search).via = NoRow
<1> DEFINE level == IF r \in Private THEN confidence[r] ELSE MaxConfidence
           sum == Weight[r] + count[r]
           low == Min({TopImportance, sum})
<1>1. level \in Nat /\ sum \in Nat /\ TopImportance \in Nat
  BY RecallAssumption, RankingAssumption DEF RecallAssumption, RankingAssumption
<1> HIDE DEF level, sum
<1>2. low \in Nat
  <2>1. {TopImportance, sum} \in SUBSET Nat /\ {TopImportance, sum} # {}
    BY <1>1
  <2> QED
    BY <2>1, Smallest
<1> HIDE DEF low
<1>3. low * level \in Nat
  BY <1>1, <1>2
<1>4. Hit(r, search) = [row |-> r, importance |-> low * level,
                        embedded |-> search = <<"vector", "knowledge">>, via |-> NoRow]
  BY DEF Hit, DynamicImportance, low, level, sum
<1> QED
  BY <1>3, <1>4 DEF HitRecord

\* The lists the searches of some tables found, one after the other.
ListsFound(n, tables, lists) ==
  /\ FoundIn(n, tables) = FlattenSeq(lists)
  /\ \A i \in 1..Len(lists) :
       \E search \in DOMAIN call[n].found :
         search[2] \in tables /\ lists[i] = call[n].found[search]
  /\ \A search \in DOMAIN call[n].found :
       search[2] \in tables
         => \E i \in 1..Len(lists) : lists[i] = call[n].found[search]
  /\ call[n].request.type \in Routed => Len(lists) <= 1

\* They are such lists.
LEMMA FoundLists ==
  ASSUME NEW n \in Calls, Fits(call[n], Requests[n], status), AllFound(n), NEW tables
  PROVE  \E lists \in Seq(Seq(HitRecord)) : ListsFound(n, tables, lists)
<1> DEFINE all == Asked(n)
           S == {i \in DOMAIN all : all[i][2] \in tables}
           asked == At(all, S)
           lists == [i \in DOMAIN asked |-> call[n].found[asked[i]]]
           A == {AllSearches[i] : i \in 1..7}
<1>1. FoundIn(n, tables) = FlattenSeq(lists)
  BY DEF FoundIn
<1>2. all \in Seq(A) /\ (call[n].request.type \in Routed => Len(all) <= 1)
  BY SearchesMade DEF Asked
<1>3. DOMAIN call[n].found = ToSet(all)
  BY DEF AllFound
<1> HIDE DEF all, A
<1>4. S \in SUBSET (1..Len(all))
  BY <1>2
<1>5. \A i \in S : all[i] \in ToSet(all) /\ all[i][2] \in tables
  BY DEF ToSet
<1>12. \A search \in ToSet(all) : search[2] \in tables => \E i \in S : all[i] = search
  BY DEF ToSet
<1> HIDE DEF S
<1>6. /\ Cardinality(S) \in Nat /\ asked \in Seq(A) /\ DOMAIN asked = 1..Cardinality(S)
      /\ ToSet(asked) = {all[i] : i \in S}
  BY <1>2, <1>4, AtSelects
<1>7. Cardinality(S) <= Len(all)
  <2>1. Len(all) \in Nat /\ 1 \in Int /\ Len(all) \in Int
    BY <1>2
  <2>2. IsFiniteSet(1..Len(all))
        /\ Cardinality(1..Len(all)) = IF 1 > Len(all) THEN 0 ELSE Len(all) - 1 + 1
    BY <2>1, FS_Interval
  <2>3. Cardinality(S) <= Cardinality(1..Len(all))
    BY <1>4, <2>2, FS_Subset
  <2> QED
    BY <2>1, <2>2, <2>3
<1> HIDE DEF asked
<1>8. \A i \in DOMAIN asked : asked[i] \in DOMAIN call[n].found /\ asked[i][2] \in tables
  BY <1>3, <1>5, <1>6 DEF ToSet
<1>9. \A search \in DOMAIN call[n].found :
        search[2] \in tables => \E i \in DOMAIN asked : asked[i] = search
  BY <1>3, <1>6, <1>12 DEF ToSet
<1>10. \A search \in DOMAIN call[n].found : call[n].found[search] \in Seq(HitRecord)
  BY DEF Fits, Typed
<1>11. /\ lists \in Seq(Seq(HitRecord)) /\ DOMAIN lists = DOMAIN asked
       /\ Len(lists) = Cardinality(S)
       /\ \A i \in DOMAIN asked : lists[i] = call[n].found[asked[i]]
  <2>1. lists \in [1..Cardinality(S) -> Seq(HitRecord)]
    BY <1>6, <1>8, <1>10
  <2> QED
    BY <1>6, <2>1, SeqDef
<1> HIDE DEF lists
<1>13. call[n].request.type \in Routed => Len(lists) <= 1
  BY <1>2, <1>6, <1>7, <1>11
<1>14. DOMAIN asked = 1..Len(lists)
  BY <1>6, <1>11
<1>15. \A i \in 1..Len(lists) :
         \E search \in DOMAIN call[n].found :
           search[2] \in tables /\ lists[i] = call[n].found[search]
  BY <1>8, <1>11, <1>14
<1>16. \A search \in DOMAIN call[n].found :
         search[2] \in tables
           => \E i \in 1..Len(lists) : lists[i] = call[n].found[search]
  BY <1>9, <1>11, <1>14
<1>17. ListsFound(n, tables, lists)
  BY <1>1, <1>13, <1>15, <1>16 DEF ListsFound
<1> QED
  BY <1>11, <1>17

\* What the searches of some tables found.
LEMMA FoundInside ==
  ASSUME NEW n \in Calls, Fits(call[n], Requests[n], status), AllFound(n), NEW tables
  PROVE  /\ FoundIn(n, tables) \in Seq(HitRecord)
         /\ \A hit \in ToSet(FoundIn(n, tables)) :
              \E search \in DOMAIN call[n].found :
                search[2] \in tables /\ hit \in ToSet(call[n].found[search])
         /\ \A search \in DOMAIN call[n].found :
              search[2] \in tables
                => ToSet(call[n].found[search]) \subseteq ToSet(FoundIn(n, tables))
         /\ call[n].request.type \in Routed => Distinct(FoundIn(n, tables))
<1>1. PICK lists \in Seq(Seq(HitRecord)) : ListsFound(n, tables, lists)
  BY FoundLists
<1>2. Len(lists) \in Nat /\ DOMAIN lists = 1..Len(lists)
  OBVIOUS
<1>3. /\ FlattenSeq(lists) \in Seq(HitRecord)
      /\ ToSet(FlattenSeq(lists)) = UNION {ToSet(lists[i]) : i \in DOMAIN lists}
  BY Flattened
<1>4. \A hit \in ToSet(FlattenSeq(lists)) :
        \E search \in DOMAIN call[n].found :
          search[2] \in tables /\ hit \in ToSet(call[n].found[search])
  <2> TAKE hit \in ToSet(FlattenSeq(lists))
  <2>1. PICK i \in DOMAIN lists : hit \in ToSet(lists[i])
    BY <1>3
  <2>2. PICK search \in DOMAIN call[n].found :
          search[2] \in tables /\ lists[i] = call[n].found[search]
    BY <1>1, <1>2 DEF ListsFound
  <2> QED
    BY <2>1, <2>2
<1>5. ASSUME NEW search \in DOMAIN call[n].found, search[2] \in tables
      PROVE  ToSet(call[n].found[search]) \subseteq ToSet(FlattenSeq(lists))
  <2>1. PICK i \in DOMAIN lists : lists[i] = call[n].found[search]
    BY <1>1, <1>2, <1>5 DEF ListsFound
  <2> QED
    BY <1>3, <2>1
<1>6. ASSUME call[n].request.type \in Routed
      PROVE  Distinct(FlattenSeq(lists))
  <2>1. FlattenSeq(lists) = IF Len(lists) = 0 THEN <<>> ELSE lists[1]
    BY <1>1, <1>2, <1>6, FlattenOne DEF ListsFound
  <2>2. CASE Len(lists) = 0
    BY <2>1, <2>2 DEF Distinct
  <2>3. CASE Len(lists) # 0
    <3>1. 1 \in 1..Len(lists)
      BY <1>2, <2>3
    <3>2. PICK search \in DOMAIN call[n].found : lists[1] = call[n].found[search]
      BY <1>1, <3>1 DEF ListsFound
    <3>3. Distinct(call[n].found[search])
      BY DEF Fits, FoundWell
    <3> QED
      BY <2>1, <2>3, <3>2, <3>3
  <2> QED
    BY <2>2, <2>3
<1> QED
  BY <1>1, <1>3, <1>4, <1>5, <1>6 DEF ListsFound

(***************************************************************************)
(* The steps, on the second invariant.                                     *)
(***************************************************************************)
\* A step of one call, that leaves the rows alone.
StepOf(n) == UNCHANGED status /\ \A m \in Calls \ {n} : call'[m] = call[m]

\* What an answer lists.
LEMMA Listed ==
  ASSUME NEW hits \in Seq(HitRecord)
  PROVE  /\ AsRows(hits) \in Seq(Rows) /\ DOMAIN AsRows(hits) = DOMAIN hits
         /\ ToSet(AsRows(hits)) = RowsOf(hits)
<1>2. Len(hits) \in Nat /\ DOMAIN hits = 1..Len(hits)
  OBVIOUS
<1>1. \A i \in DOMAIN hits : hits[i].row \in Rows
  <2>1. \A i \in DOMAIN hits : hits[i] \in HitRecord
    OBVIOUS
  <2> QED
    BY <2>1 DEF HitRecord
<1>3. AsRows(hits) \in [1..Len(hits) -> Rows]
  BY <1>1, <1>2 DEF AsRows
<1>4. AsRows(hits) \in Seq(Rows)
  BY <1>2, <1>3, SeqDef
<1> QED
  BY <1>2, <1>4 DEF AsRows, ToSet, RowsOf

\* A call begins: it remembers the rows that meet its request now.
LEMMA BeginFits ==
  ASSUME RInv, NEW n \in Calls, Begin(n)
  PROVE  StepOf(n) /\ Fits(call'[n], Requests[n], status)
<1>1. call = [m \in Calls |-> call[m]] /\ call[n] = Fields(call[n])
  BY DEF RInv, IInv, CallsAreRecords
<1> DEFINE pc(request) == IF request.kind = "context" THEN "context" ELSE "searching"
           met(request) == IF request.kind = "context" THEN {} ELSE Met(request, status)
           current == {r \in Private : status[r] = "active"}
<1>14. PICK request \in Requests[n] : \E embedded \in Embeds(request) :
         call' = [call EXCEPT ![n] =
            [Idle EXCEPT !.pc = pc(request), !.request = request, !.embedded = embedded,
                         !.met = met(request), !.current = current]]
  BY DEF Begin
<1>2. PICK embedded \in Embeds(request) :
         call' = [call EXCEPT ![n] =
            [Idle EXCEPT !.pc = pc(request), !.request = request, !.embedded = embedded,
                         !.met = met(request), !.current = current]]
  BY <1>14
<1>3. embedded \in BOOLEAN
  BY DEF Embeds
<1>4. request.kind \in {"recall", "context"}
  BY RecallAssumption DEF RecallAssumption
<1> DEFINE d == call'[n]
           p == pc(request)
           q == met(request)
<1>6. /\ p = IF request.kind = "context" THEN "context" ELSE "searching"
      /\ request.kind # "context" => q = Met(request, status)
      /\ q \subseteq Rows /\ current \subseteq Private
  BY DEF Met
<1>7. current = {r \in Private : status[r] = "active"}
  OBVIOUS
<1>8. call' = [call EXCEPT ![n] =
            [Idle EXCEPT !.pc = p, !.request = request, !.embedded = embedded,
                         !.met = q, !.current = current]]
  BY <1>2
<1> HIDE DEF p, q, current, pc, met
<1>5. /\ d = Fields(d) /\ d.pc = p /\ d.request = request
      /\ d.embedded = embedded /\ d.met = q /\ d.current = current
      /\ d.found = <<>> /\ d.hits = <<>> /\ d.chunks = <<>> /\ d.lifted = {}
      /\ d.answer = <<>> /\ d.tasks = {}
  BY <1>1, <1>8 DEF Fields, Idle
<1>9. StepOf(n)
  BY <1>1, <1>8 DEF Begin, StepOf
<1> HIDE DEF d
<1>10. Typed(d, Requests[n])
  BY <1>3, <1>5, <1>6 DEF Typed, Pcs
<1>11. FoundWell(d)
  BY <1>5 DEF FoundWell
<1>12. Remembers(d, status)
  BY <1>4, <1>5, <1>6, <1>7 DEF Remembers
<1>13. ResultsAreWell(d)
  BY <1>5, <1>6 DEF ResultsAreWell
<1> QED
  BY <1>5, <1>9, <1>10, <1>11, <1>12, <1>13 DEF Fits, d

\* A search: what it finds met the request, as it admits the row now.
LEMMA SearchFits ==
  ASSUME RInv, NEW n \in Calls, Search(n)
  PROVE  StepOf(n) /\ Fits(call'[n], Requests[n], status)
<1>1. call = [m \in Calls |-> call[m]] /\ call[n] = Fields(call[n])
  BY DEF RInv, IInv, CallsAreRecords
<1> DEFINE c == call[n]
           d == call'[n]
<1>2. /\ Typed(c, Requests[n]) /\ FoundWell(c) /\ Remembers(c, status)
      /\ c.pc = "searching"
  BY DEF RInv, CallsFit, Fits, Search
<1>24. PICK search \in ToSet(Asked(n)) \ DOMAIN c.found :
         \E rows \in SetToAllKPermutations(Admitted(c.request, search, status)) :
           call' = [call EXCEPT ![n].found =
            [s \in DOMAIN c.found \cup {search} |->
               IF s = search THEN [i \in DOMAIN rows |-> Hit(rows[i], search)]
               ELSE c.found[s]]]
  BY DEF Search
<1>3. PICK rows \in SetToAllKPermutations(Admitted(c.request, search, status)) :
        call' = [call EXCEPT ![n].found =
            [s \in DOMAIN c.found \cup {search} |->
               IF s = search THEN [i \in DOMAIN rows |-> Hit(rows[i], search)]
               ELSE c.found[s]]]
  BY <1>24
<1> DEFINE list == [i \in DOMAIN rows |-> Hit(rows[i], search)]
           found == [s \in DOMAIN c.found \cup {search} |->
                       IF s = search THEN list ELSE c.found[s]]
           admitted == Admitted(c.request, search, status)
<1>4. c.request \in Requests[n]
  BY <1>2 DEF RInv, IInv, RequestsAreMade
<1>5. search \in ToSet(Searches(c.request, c.embedded))
  BY <1>3 DEF Asked
<1>6. admitted \subseteq Met(c.request, status) /\ admitted \subseteq TableOf(search)
  BY <1>4, <1>5, AdmittedMeets
<1>7. admitted \subseteq c.met /\ admitted \subseteq Rows
  BY <1>2, <1>6 DEF Remembers, Typed
<1>8. PICK s \in SUBSET admitted : rows \in SetToSeqs(s)
  BY <1>3 DEF SetToAllKPermutations
<1> DEFINE N == Cardinality(s)
<1>9. N \in Nat /\ rows \in [1..N -> s] /\ \A i, j \in 1..N : i # j => rows[i] # rows[j]
  <2>1. IsFiniteSet(Rows) /\ s \in SUBSET Rows
    BY <1>7, RecallAssumption DEF RecallAssumption
  <2>2. IsFiniteSet(s)
    BY <2>1, FS_Subset
  <2> QED
    BY <1>8, <2>2, FS_CardinalityType DEF SetToSeqs
<1>10. count \in [Rows -> 0..MaxCount] /\ confidence \in [Private -> 1..MaxConfidence]
  BY DEF RInv, IInv, CountsFit, LevelsFit
<1> HIDE DEF N, admitted
<1>11. \A i \in 1..N : rows[i] \in admitted /\ rows[i] \in Rows
  BY <1>7, <1>9
<1>12. \A i \in 1..N : /\ list[i] \in HitRecord /\ list[i].row = rows[i]
                       /\ list[i].via = NoRow
  BY <1>9, <1>10, <1>11, HitsAreHits
<1>13. list \in Seq(HitRecord) /\ DOMAIN list = 1..N
  <2>1. list \in [1..N -> HitRecord]
    BY <1>9, <1>12
  <2> QED
    BY <1>9, <2>1, SeqDef
<1> HIDE DEF list
<1>14. Distinct(list)
  BY <1>9, <1>12, <1>13 DEF Distinct
<1>15. \A hit \in ToSet(list) : SearchedFor(c, hit) /\ hit.row \in TableOf(search)
  BY <1>6, <1>7, <1>11, <1>12, <1>13 DEF ToSet, SearchedFor
<1>16. /\ DOMAIN found = DOMAIN c.found \cup {search} /\ found[search] = list
       /\ \A t \in DOMAIN c.found : found[t] = c.found[t]
  BY <1>3
<1>17. call' = [call EXCEPT ![n].found = found]
  BY <1>3 DEF list
<1> HIDE DEF found, c
<1>18. /\ d = Fields(d) /\ d.pc = c.pc /\ d.request = c.request
       /\ d.embedded = c.embedded /\ d.met = c.met /\ d.current = c.current
       /\ d.found = found /\ d.hits = c.hits /\ d.chunks = c.chunks
       /\ d.lifted = c.lifted /\ d.answer = c.answer /\ d.tasks = c.tasks
  BY <1>1, <1>17 DEF Fields, c
<1>19. StepOf(n)
  BY <1>1, <1>17 DEF Search, StepOf
<1> HIDE DEF d
<1>20. Typed(d, Requests[n])
  BY <1>2, <1>13, <1>16, <1>18 DEF Typed
<1>21. FoundWell(d)
  BY <1>2, <1>5, <1>14, <1>15, <1>16, <1>18 DEF FoundWell, SearchedFor
<1>22. Remembers(d, status)
  BY <1>2, <1>18 DEF Remembers
<1>23. ResultsAreWell(d)
  BY <1>2, <1>18 DEF ResultsAreWell
<1> QED
  BY <1>18, <1>19, <1>20, <1>21, <1>22, <1>23 DEF Fits, d

\* A routed recall has its one list sorted.
LEMMA RouteFits ==
  ASSUME RInv, NEW n \in Calls, Route(n)
  PROVE  StepOf(n) /\ Fits(call'[n], Requests[n], status)
<1>1. call = [m \in Calls |-> call[m]] /\ call[n] = Fields(call[n])
  BY DEF RInv, IInv, CallsAreRecords
<1> DEFINE c == call[n]
           d == call'[n]
           memory == FoundIn(n, {"private"})
           hits == SortByImportance(memory)
<1>2. /\ Typed(c, Requests[n]) /\ FoundWell(c) /\ Remembers(c, status)
      /\ c.pc = "searching" /\ AllFound(n) /\ Fits(c, Requests[n], status)
      /\ c.request.type \in Routed
  BY DEF RInv, CallsFit, Fits, Route, AllFound
<1>3. call' = [call EXCEPT ![n].pc = "found", ![n].found = <<>>, ![n].hits = hits]
  BY DEF Route
<1>4. /\ memory \in Seq(HitRecord) /\ Distinct(memory)
      /\ \A hit \in ToSet(memory) :
           \E search \in DOMAIN c.found : hit \in ToSet(c.found[search])
  BY <1>2, FoundInside
<1>5. \A hit \in ToSet(memory) : SearchedFor(c, hit)
  BY <1>2, <1>4 DEF FoundWell
<1>6. \A hit \in HitRecord : hit.importance \in Int
  BY DEF HitRecord
<1> HIDE DEF memory
<1>7. hits \in Seq(HitRecord) /\ ToSet(hits) = ToSet(memory) /\ Distinct(hits)
  BY <1>4, <1>6, ImportanceKeeps
<1> HIDE DEF hits, c
<1>8. /\ d = Fields(d) /\ d.pc = "found" /\ d.request = c.request
      /\ d.embedded = c.embedded /\ d.met = c.met /\ d.current = c.current
      /\ d.found = <<>> /\ d.hits = hits /\ d.chunks = c.chunks
      /\ d.lifted = c.lifted /\ d.answer = c.answer /\ d.tasks = c.tasks
  BY <1>1, <1>3 DEF Fields, c
<1>9. StepOf(n)
  BY <1>1, <1>3 DEF Route, StepOf
<1> HIDE DEF d
<1>10. Typed(d, Requests[n])
  BY <1>2, <1>7, <1>8 DEF Typed, Pcs
<1>11. FoundWell(d)
  BY <1>8 DEF FoundWell
<1>12. Remembers(d, status)
  BY <1>2, <1>8 DEF Remembers
<1>13. ResultsAreWell(d)
  BY <1>5, <1>7, <1>8 DEF ResultsAreWell, Once, Distinct, Eligible, SearchedFor
<1> QED
  BY <1>8, <1>9, <1>10, <1>11, <1>12, <1>13 DEF Fits, d

\* The kinds of rows.
LEMMA Tables ==
  /\ Private \cap Chunks = {} /\ Private \cap Org = {} /\ Org \cap Chunks = {}
  /\ Private \subseteq Rows /\ Chunks \subseteq Rows
  /\ \A r \in Rows : r # NoRow
BY RecallAssumption DEF RecallAssumption, Rows

\* What is fused and diversified: all of it was searched for, the memories are
\* listed once, and the rest are chunks.
LEMMA FuseMakes ==
  ASSUME NEW n \in Calls, Fits(call[n], Requests[n], status), AllFound(n),
         NEW boosted, NEW scored \in SUBSET DOMAIN FoundIn(n, {"knowledge"}),
         NEW fused, fused = Fuse(FoundIn(n, {"private", "org"}), boosted),
         NEW kept, kept = IF call[n].embedded
                          THEN Diversify(At(FoundIn(n, {"knowledge"}), scored))
                          ELSE SubSeq(FoundIn(n, {"knowledge"}), 1,
                                      Min({MaxDiverse, Len(FoundIn(n, {"knowledge"}))}))
  PROVE  /\ fused \in Seq(HitRecord) /\ kept \in Seq(HitRecord)
         /\ \A hit \in ToSet(fused) \cup ToSet(kept) : SearchedFor(call[n], hit)
         /\ Distinct(fused) /\ RowsOf(kept) \subseteq Chunks
         /\ RowsOf(fused) \subseteq Private \cup Org
<1> DEFINE c == call[n]
           memory == FoundIn(n, {"private", "org"})
           knowledge == FoundIn(n, {"knowledge"})
           m == Min({MaxDiverse, Len(knowledge)})
<1>1. /\ memory \in Seq(HitRecord)
      /\ \A hit \in ToSet(memory) :
           \E search \in DOMAIN c.found :
             search[2] \in {"private", "org"} /\ hit \in ToSet(c.found[search])
  BY FoundInside
<1>2. /\ knowledge \in Seq(HitRecord)
      /\ \A hit \in ToSet(knowledge) :
           \E search \in DOMAIN c.found :
             search[2] \in {"knowledge"} /\ hit \in ToSet(c.found[search])
  BY FoundInside
<1>3. \A search \in DOMAIN c.found : \A hit \in ToSet(c.found[search]) :
        SearchedFor(c, hit) /\ hit.row \in TableOf(search)
  BY DEF Fits, FoundWell
<1>4. \A hit \in ToSet(memory) : SearchedFor(c, hit) /\ hit.row \in Private \cup Org
  BY <1>1, <1>3 DEF TableOf
<1>5. \A hit \in ToSet(knowledge) : SearchedFor(c, hit) /\ hit.row \in Chunks
  BY <1>2, <1>3 DEF TableOf
<1>6. \A hit \in HitRecord : hit.importance \in Int
  BY DEF HitRecord
<1>7. fused = Fuse(memory, boosted) /\ scored \in SUBSET (1..Len(knowledge))
  BY <1>2
<1>8. kept = IF c.embedded THEN Diversify(At(knowledge, scored)) ELSE SubSeq(knowledge, 1, m)
  OBVIOUS
<1> HIDE DEF memory, knowledge, c
<1>9. /\ fused \in Seq(HitRecord) /\ Distinct(fused) /\ ToSet(fused) \subseteq ToSet(memory)
  BY <1>1, <1>6, <1>7, FuseKeeps
<1>10. kept \in Seq(HitRecord) /\ ToSet(kept) \subseteq ToSet(knowledge)
  <2>1. CASE c.embedded
    <3> DEFINE some == At(knowledge, scored)
    <3>1. some \in Seq(HitRecord) /\ ToSet(some) = {knowledge[i] : i \in scored}
      BY <1>2, <1>7, AtSelects
    <3>2. ToSet(some) \subseteq ToSet(knowledge)
      <4>1. DOMAIN knowledge = 1..Len(knowledge)
        BY <1>2
      <4>2. {knowledge[i] : i \in scored} \subseteq ToSet(knowledge)
        BY <1>7, <4>1 DEF ToSet
      <4> QED
        BY <3>1, <4>2
    <3>4. kept = Diversify(some)
      BY <1>8, <2>1
    <3> HIDE DEF some
    <3>3. Diversify(some) \in Seq(HitRecord) /\ ToSet(Diversify(some)) \subseteq ToSet(some)
      BY <3>1, DiversifyKeeps
    <3> QED
      BY <3>2, <3>3, <3>4
  <2>2. CASE ~c.embedded
    <3>1. m \in 0..Len(knowledge)
      <4>1. MaxDiverse \in Nat /\ Len(knowledge) \in Nat
        BY <1>2, RankingAssumption DEF RankingAssumption
      <4>2. {MaxDiverse, Len(knowledge)} \in SUBSET Nat /\ {MaxDiverse, Len(knowledge)} # {}
        BY <4>1
      <4>3. m \in {MaxDiverse, Len(knowledge)} /\ \A x \in {MaxDiverse, Len(knowledge)} : m <= x
        BY <4>2, Smallest
      <4> QED
        BY <4>1, <4>3
    <3> HIDE DEF m
    <3>2. /\ SubSeq(knowledge, 1, m) \in Seq(HitRecord)
          /\ ToSet(SubSeq(knowledge, 1, m)) \subseteq ToSet(knowledge)
      BY <1>2, <3>1, FirstParts
    <3> QED
      BY <1>8, <2>2, <3>2
  <2> QED
    BY <2>1, <2>2
<1>11. /\ \A hit \in ToSet(fused) : SearchedFor(c, hit) /\ hit.row \in Private \cup Org
       /\ \A hit \in ToSet(kept) : SearchedFor(c, hit) /\ hit.row \in Chunks
  BY <1>4, <1>5, <1>9, <1>10
<1>12. RowsOf(kept) \subseteq Chunks /\ RowsOf(fused) \subseteq Private \cup Org
  BY <1>11 DEF RowsOf, ToSet
<1> QED
  BY <1>9, <1>10, <1>11, <1>12 DEF c

\* Two results one after the other.
LEMMA OneAfterTheOther ==
  ASSUME NEW a \in Seq(HitRecord), NEW b \in Seq(HitRecord)
  PROVE  /\ a \o b \in Seq(HitRecord) /\ ToSet(a \o b) = ToSet(a) \cup ToSet(b)
         /\ RowsOf(a \o b) = RowsOf(a) \cup RowsOf(b)
         /\ Once(a) /\ Once(b) /\ RowsOf(a) \cap RowsOf(b) \subseteq Chunks => Once(a \o b)
<1>1. a \o b \in Seq(HitRecord) /\ ToSet(a \o b) = ToSet(a) \cup ToSet(b)
  BY Concatenated
<1>2. \A c : RowsOf(c) = {hit.row : hit \in ToSet(c)}
  BY DEF RowsOf, ToSet
<1>3. RowsOf(a \o b) = RowsOf(a) \cup RowsOf(b)
  BY <1>1, <1>2
<1>4. ASSUME Once(a), Once(b), RowsOf(a) \cap RowsOf(b) \subseteq Chunks
      PROVE  Once(a \o b)
  <2> DEFINE M == Len(a)
             N == Len(b)
             s == a \o b
  <2>1. /\ M \in Nat /\ N \in Nat /\ DOMAIN a = 1..M /\ DOMAIN b = 1..N
        /\ DOMAIN s = 1..M + N
        /\ \A i \in 1..M : s[i] = a[i]
        /\ \A i \in M + 1..M + N : s[i] = b[i - M] /\ i - M \in 1..N
    OBVIOUS
  <2> HIDE DEF M, N, s
  <2>2. ASSUME NEW i \in DOMAIN s, NEW j \in DOMAIN s, s[i].row = s[j].row, i < j
        PROVE  s[i].row \in Chunks
    <3>1. i \in 1..M \/ i \in M + 1..M + N
      BY <2>1
    <3>2. j \in 1..M \/ j \in M + 1..M + N
      BY <2>1
    <3>3. CASE j \in 1..M
      <4>1. i \in 1..M /\ i # j
        BY <2>1, <2>2, <3>3
      <4> QED
        BY <1>4, <2>1, <2>2, <3>3, <4>1 DEF Once
    <3>4. CASE i \in M + 1..M + N
      <4>1. j \in M + 1..M + N /\ i - M # j - M
        BY <2>1, <2>2, <3>4
      <4> QED
        BY <1>4, <2>1, <2>2, <3>4, <4>1 DEF Once
    <3>5. CASE i \in 1..M /\ j \in M + 1..M + N
      <4>1. s[i].row \in RowsOf(a) /\ s[j].row \in RowsOf(b)
        BY <2>1, <3>5 DEF RowsOf
      <4> QED
        BY <1>4, <2>2, <4>1
    <3> QED
      BY <3>1, <3>2, <3>3, <3>4, <3>5
  <2>3. \A i, j \in DOMAIN s : i = j \/ i < j \/ j < i
    BY <2>1
  <2> QED
    BY <2>2, <2>3 DEF Once, s
<1> QED
  BY <1>1, <1>3, <1>4

\* A fusion: what is followed by links, or what is answered without them.
LEMMA FuseFits ==
  ASSUME RInv, NEW n \in Calls, FuseHits(n)
  PROVE  StepOf(n) /\ Fits(call'[n], Requests[n], status)
<1>1. call = [m \in Calls |-> call[m]] /\ call[n] = Fields(call[n])
  BY DEF RInv, IInv, CallsAreRecords
<1> DEFINE c == call[n]
           d == call'[n]
           memory == FoundIn(n, {"private", "org"})
           knowledge == FoundIn(n, {"knowledge"})
           Kept(scored) ==
             IF c.embedded THEN Diversify(At(knowledge, scored))
             ELSE SubSeq(knowledge, 1, Min({MaxDiverse, Len(knowledge)}))
           Follow(fused) == c.embedded /\ fused # <<>>
           Made(fused, kept, boosted) == call' = [call EXCEPT
              ![n].pc = IF Follow(fused) THEN "fused" ELSE "found",
              ![n].found = <<>>,
              ![n].hits = IF Follow(fused) THEN fused ELSE fused \o kept,
              ![n].lifted = IF Follow(fused) THEN boosted ELSE {},
              ![n].chunks = IF Follow(fused) THEN kept ELSE <<>>]
<1>2. /\ Typed(c, Requests[n]) /\ FoundWell(c) /\ Remembers(c, status)
      /\ c.pc = "searching" /\ AllFound(n) /\ Fits(c, Requests[n], status)
  BY DEF RInv, CallsFit, Fits, FuseHits, AllFound
<1>3. PICK boosted \in SUBSET RowsOf(memory) : \E scored \in SUBSET DOMAIN knowledge :
        Made(Fuse(memory, boosted), Kept(scored), boosted)
  BY DEF FuseHits, EntityLinked
<1>4. PICK scored \in SUBSET DOMAIN knowledge :
        Made(Fuse(memory, boosted), Kept(scored), boosted)
  BY <1>3
<1> DEFINE fused == Fuse(memory, boosted)
           kept == Kept(scored)
<1>5. /\ fused \in Seq(HitRecord) /\ kept \in Seq(HitRecord)
      /\ \A hit \in ToSet(fused) \cup ToSet(kept) : SearchedFor(c, hit)
      /\ Distinct(fused) /\ RowsOf(kept) \subseteq Chunks
      /\ RowsOf(fused) \subseteq Private \cup Org
  BY <1>2, FuseMakes
<1>6. boosted \subseteq Rows
  <2>1. /\ memory \in Seq(HitRecord)
        /\ \A hit \in HitRecord : hit.row \in Rows
    BY <1>2, FoundInside DEF HitRecord
  <2> HIDE DEF memory
  <2>2. \A i \in DOMAIN memory : memory[i] \in HitRecord
    BY <2>1
  <2> QED
    BY <2>1, <2>2 DEF RowsOf
<1>7. Made(fused, kept, boosted)
  BY <1>4
<1> DEFINE follow == Follow(fused)
           hits == IF follow THEN fused ELSE fused \o kept
           chunks == IF follow THEN kept ELSE <<>>
           lifted == IF follow THEN boosted ELSE {}
           pc == IF follow THEN "fused" ELSE "found"
<1>8. call' = [call EXCEPT ![n].pc = pc, ![n].found = <<>>, ![n].hits = hits,
                           ![n].lifted = lifted, ![n].chunks = chunks]
  BY <1>7
<1> HIDE DEF fused, kept, Made, Kept, memory, knowledge, c, follow
<1>9. hits \in Seq(HitRecord) /\ chunks \in Seq(HitRecord) /\ lifted \subseteq Rows
  BY <1>5, <1>6, OneAfterTheOther
<1>10. ~follow => Once(hits) /\ \A hit \in ToSet(hits) : SearchedFor(c, hit)
  <2>1. Once(fused)
    BY <1>5 DEF Once, Distinct
  <2>2. Once(kept)
    BY <1>5 DEF Once, RowsOf
  <2>3. RowsOf(fused) \cap RowsOf(kept) \subseteq Chunks
    BY <1>5
  <2> QED
    BY <1>5, <2>1, <2>2, <2>3, OneAfterTheOther
<1>11. follow => /\ \A hit \in ToSet(hits) \cup ToSet(chunks) : SearchedFor(c, hit)
                 /\ Distinct(hits) /\ RowsOf(chunks) \subseteq Chunks
  BY <1>5
<1>12. pc = "fused" <=> follow
  OBVIOUS
<1>13. pc \in {"fused", "found"}
  OBVIOUS
<1> HIDE DEF hits, chunks, lifted, pc
<1>14. /\ d = Fields(d) /\ d.pc = pc /\ d.request = c.request
       /\ d.embedded = c.embedded /\ d.met = c.met /\ d.current = c.current
       /\ d.found = <<>> /\ d.hits = hits /\ d.chunks = chunks
       /\ d.lifted = lifted /\ d.answer = c.answer /\ d.tasks = c.tasks
  BY <1>1, <1>8 DEF Fields, c
<1>15. StepOf(n)
  BY <1>1, <1>8 DEF FuseHits, StepOf
<1> HIDE DEF d
<1>16. Typed(d, Requests[n])
  BY <1>2, <1>9, <1>13, <1>14 DEF Typed, Pcs
<1>17. FoundWell(d)
  BY <1>14 DEF FoundWell
<1>18. Remembers(d, status)
  BY <1>2, <1>13, <1>14 DEF Remembers
<1>19. ResultsAreWell(d)
  BY <1>10, <1>11, <1>12, <1>13, <1>14 DEF ResultsAreWell, Eligible, SearchedFor
<1> QED
  BY <1>14, <1>15, <1>16, <1>17, <1>18, <1>19 DEF Fits, d

\* What the links of the best results lead to: rows that are no results yet,
\* each linked from one of them.
LEMMA LinkedFrom ==
  ASSUME NEW hits \in Seq(HitRecord), NEW taken \in LinkChoices(hits),
         NEW source \in DOMAIN taken, NEW r \in taken[source]
  PROVE  /\ source \in RowsOf(hits) /\ r \notin RowsOf(hits)
         /\ <<source, r>> \in Links /\ r \in Private
<1> DEFINE m == Min({TopSources, Len(hits)})
           first == SubSeq(hits, 1, m)
           best == RowsOf(first)
<1>1. /\ taken \in [best -> SUBSET Private]
      /\ \A s \in best : taken[s] \subseteq Unlisted(hits, s)
  BY DEF LinkChoices
<1>2. m \in 0..Len(hits)
  <2>1. TopSources \in Nat /\ Len(hits) \in Nat
    BY RecallAssumption DEF RecallAssumption
  <2>2. {TopSources, Len(hits)} \in SUBSET Nat /\ {TopSources, Len(hits)} # {}
    BY <2>1
  <2>3. m \in {TopSources, Len(hits)} /\ \A x \in {TopSources, Len(hits)} : m <= x
    BY <2>2, Smallest
  <2> QED
    BY <2>1, <2>3
<1> HIDE DEF m
<1>3. ToSet(first) \subseteq ToSet(hits)
  BY <1>2, FirstParts
<1> HIDE DEF first
<1>4. best \subseteq RowsOf(hits)
  BY <1>3, SameRows
<1> HIDE DEF best
<1>5. source \in best /\ r \in Unlisted(hits, source) /\ r \in Private
  BY <1>1
<1>6. r \notin RowsOf(hits) /\ \E link \in Links : link[1] = source /\ r = link[2]
  BY <1>5 DEF Unlisted
<1>7. \A link \in Links : link = <<link[1], link[2]>>
  BY RecallAssumption DEF RecallAssumption
<1> QED
  BY <1>4, <1>5, <1>6, <1>7

\* A row that was linked is a hit.
LinkedHit(r, source) ==
  [row |-> r, importance |-> 0, embedded |-> FALSE, via |-> source]

\* Its fields.
LEMMA LinkedHits ==
  ASSUME NEW r \in Rows, NEW source \in Rows
  PROVE  /\ LinkedHit(r, source) \in HitRecord
         /\ LinkedHit(r, source).row = r /\ LinkedHit(r, source).via = source
BY DEF LinkedHit, HitRecord

\* Links are followed: the rows they lead to are current, and none of them is
\* listed twice.
LEMMA ExpandFits ==
  ASSUME RInv, NEW n \in Calls, Expand(n)
  PROVE  StepOf(n) /\ Fits(call'[n], Requests[n], status)
<1>1. call = [m \in Calls |-> call[m]] /\ call[n] = Fields(call[n])
  BY DEF RInv, IInv, CallsAreRecords
<1> DEFINE c == call[n]
           d == call'[n]
           List(rows, via) == [i \in DOMAIN rows |->
                                 [row |-> rows[i], importance |-> 0,
                                  embedded |-> FALSE, via |-> via[rows[i]]]]
           Made(list) == call' = [call EXCEPT
              ![n].pc = "found", ![n].chunks = <<>>, ![n].lifted = {},
              ![n].hits = @ \o list \o c.chunks]
           Current(taken) == {r \in UNION Range(taken) : status[r] = "active"}
           Vias(taken) == {f \in [Current(taken) -> DOMAIN taken] :
                             \A r \in Current(taken) : r \in taken[f[r]]}
<1>2. /\ Typed(c, Requests[n]) /\ Remembers(c, status) /\ ResultsAreWell(c)
      /\ c.pc = "fused" /\ FoundWell(c)
  BY DEF RInv, CallsFit, Fits, Expand
<1>3. PICK taken \in LinkChoices(c.hits) :
        \E rows \in SetToSeqs(Current(taken)), via \in Vias(taken) : Made(List(rows, via))
  BY DEF Expand
<1>4. PICK rows \in SetToSeqs(Current(taken)) :
        \E via \in Vias(taken) : Made(List(rows, via))
  BY <1>3
<1>5. PICK via \in Vias(taken) : Made(List(rows, via))
  BY <1>4
<1> DEFINE current == Current(taken)
           list == List(rows, via)
           N == Cardinality(current)
<1>6. /\ \A r \in current : status[r] = "active"
      /\ via \in [current -> DOMAIN taken] /\ \A r \in current : r \in taken[via[r]]
  OBVIOUS
<1>7. rows \in SetToSeqs(current)
  OBVIOUS
<1>8. c.hits \in Seq(HitRecord) /\ c.chunks \in Seq(HitRecord)
  BY <1>2 DEF Typed
<1> HIDE DEF current, c
<1>9. \A r \in current : /\ via[r] \in RowsOf(c.hits) /\ r \notin RowsOf(c.hits)
                         /\ <<via[r], r>> \in Links /\ r \in Private
  BY <1>3, <1>6, <1>8, LinkedFrom
<1>10. N \in Nat /\ rows \in [1..N -> current] /\ \A i, j \in 1..N : i # j => rows[i] # rows[j]
  <2>1. IsFiniteSet(Rows) /\ current \in SUBSET Rows
    BY <1>9, Tables, RecallAssumption DEF RecallAssumption
  <2>2. IsFiniteSet(current)
    BY <2>1, FS_Subset
  <2> QED
    BY <1>7, <2>2, FS_CardinalityType DEF SetToSeqs
<1> HIDE DEF N
<1>11. /\ \A hit \in ToSet(c.hits) \cup ToSet(c.chunks) : SearchedFor(c, hit)
       /\ Distinct(c.hits) /\ RowsOf(c.chunks) \subseteq Chunks
  BY <1>2 DEF ResultsAreWell
<1>12. RowsOf(c.hits) \subseteq c.met /\ RowsOf(c.hits) \subseteq Rows
  BY <1>2, <1>11 DEF RowsOf, ToSet, SearchedFor, Typed
<1>13. current \subseteq c.current
  BY <1>2, <1>6, <1>9 DEF Remembers
<1>14. \A i \in 1..N : /\ list[i] \in HitRecord /\ list[i].row = rows[i]
                       /\ rows[i] \in current /\ list[i].via = via[rows[i]]
  <2> TAKE i \in 1..N
  <2>1. list[i] = LinkedHit(rows[i], via[rows[i]])
    BY <1>10 DEF LinkedHit
  <2>2. rows[i] \in current /\ rows[i] \in Rows /\ via[rows[i]] \in Rows
    BY <1>9, <1>10, <1>12, Tables
  <2> HIDE DEF list
  <2> QED
    BY <2>1, <2>2, LinkedHits
<1>15. list \in Seq(HitRecord) /\ DOMAIN list = 1..N
  <2>1. list \in [1..N -> HitRecord]
    BY <1>10, <1>14
  <2> QED
    BY <1>10, <2>1, SeqDef
<1>23. Made(list)
  BY <1>5
<1> HIDE DEF list, Made
<1>16. \A hit \in ToSet(list) : /\ hit.row \in current /\ hit.via = via[hit.row]
  BY <1>14, <1>15 DEF ToSet
<1>17. \A hit \in ToSet(list) : Eligible(c, hit)
  BY <1>9, <1>12, <1>13, <1>16, Tables DEF Eligible
<1>18. RowsOf(list) \subseteq current
  BY <1>14, <1>15 DEF RowsOf
<1>19. Once(c.hits) /\ Once(list) /\ Once(c.chunks)
  <2>1. Once(c.hits)
    BY <1>11 DEF Once, Distinct
  <2>2. Once(list)
    BY <1>10, <1>14, <1>15 DEF Once
  <2>3. Once(c.chunks)
    BY <1>11 DEF Once, RowsOf
  <2> QED
    BY <2>1, <2>2, <2>3
<1> DEFINE both == c.hits \o list
           hits == both \o c.chunks
<1>20. /\ both \in Seq(HitRecord) /\ Once(both) /\ RowsOf(both) = RowsOf(c.hits) \cup RowsOf(list)
       /\ ToSet(both) = ToSet(c.hits) \cup ToSet(list)
  BY <1>8, <1>9, <1>15, <1>18, <1>19, OneAfterTheOther
<1> HIDE DEF both
<1>21. /\ hits \in Seq(HitRecord) /\ ToSet(hits) = ToSet(both) \cup ToSet(c.chunks)
       /\ RowsOf(both) \cap RowsOf(c.chunks) \subseteq Chunks
       /\ Once(hits)
  BY <1>8, <1>11, <1>19, <1>20, OneAfterTheOther
<1>22. \A hit \in ToSet(hits) : Eligible(c, hit)
  BY <1>11, <1>17, <1>20, <1>21 DEF Eligible, SearchedFor
<1>24. call' = [call EXCEPT ![n].pc = "found", ![n].chunks = <<>>, ![n].lifted = {},
                            ![n].hits = hits]
  BY <1>23 DEF Made, both, c
<1> HIDE DEF hits
<1>25. /\ d = Fields(d) /\ d.pc = "found" /\ d.request = c.request
       /\ d.embedded = c.embedded /\ d.met = c.met /\ d.current = c.current
       /\ d.found = c.found /\ d.hits = hits /\ d.chunks = <<>>
       /\ d.lifted = {} /\ d.answer = c.answer /\ d.tasks = c.tasks
  BY <1>1, <1>24 DEF Fields, c
<1>26. StepOf(n)
  BY <1>1, <1>24 DEF Expand, StepOf
<1> HIDE DEF d
<1>27. Typed(d, Requests[n])
  BY <1>2, <1>21, <1>25 DEF Typed, Pcs
<1>28. FoundWell(d)
  BY <1>2, <1>25 DEF FoundWell, SearchedFor
<1>29. Remembers(d, status)
  BY <1>2, <1>25 DEF Remembers
<1>30. ResultsAreWell(d)
  BY <1>21, <1>22, <1>25 DEF ResultsAreWell, Eligible
<1> QED
  BY <1>25, <1>26, <1>27, <1>28, <1>29, <1>30 DEF Fits, d

\* The links could not be followed.
LEMMA ExpandFailsFits ==
  ASSUME RInv, NEW n \in Calls, ExpandFails(n)
  PROVE  StepOf(n) /\ Fits(call'[n], Requests[n], status)
<1>1. call = [m \in Calls |-> call[m]] /\ call[n] = Fields(call[n])
  BY DEF RInv, IInv, CallsAreRecords
<1> DEFINE c == call[n]
           d == call'[n]
           hits == c.hits \o c.chunks
<1>2. /\ Typed(c, Requests[n]) /\ Remembers(c, status) /\ ResultsAreWell(c)
      /\ c.pc = "fused" /\ FoundWell(c)
  BY DEF RInv, CallsFit, Fits, ExpandFails
<1>3. call' = [call EXCEPT ![n].pc = "found", ![n].chunks = <<>>, ![n].lifted = {},
                           ![n].hits = hits]
  BY DEF ExpandFails
<1> HIDE DEF c
<1>4. c.hits \in Seq(HitRecord) /\ c.chunks \in Seq(HitRecord)
  BY <1>2 DEF Typed
<1>5. /\ \A hit \in ToSet(c.hits) \cup ToSet(c.chunks) : SearchedFor(c, hit)
      /\ Distinct(c.hits) /\ RowsOf(c.chunks) \subseteq Chunks
  BY <1>2 DEF ResultsAreWell
<1>6. Once(c.hits) /\ Once(c.chunks)
  BY <1>5 DEF Once, Distinct, RowsOf
<1>7. /\ hits \in Seq(HitRecord) /\ ToSet(hits) = ToSet(c.hits) \cup ToSet(c.chunks)
      /\ Once(hits)
  BY <1>4, <1>5, <1>6, OneAfterTheOther
<1> HIDE DEF hits
<1>8. /\ d = Fields(d) /\ d.pc = "found" /\ d.request = c.request
      /\ d.embedded = c.embedded /\ d.met = c.met /\ d.current = c.current
      /\ d.found = c.found /\ d.hits = hits /\ d.chunks = <<>>
      /\ d.lifted = {} /\ d.answer = c.answer /\ d.tasks = c.tasks
  BY <1>1, <1>3 DEF Fields, c
<1>9. StepOf(n)
  BY <1>1, <1>3 DEF ExpandFails, StepOf
<1> HIDE DEF d
<1>10. Typed(d, Requests[n])
  BY <1>2, <1>7, <1>8 DEF Typed, Pcs
<1>11. FoundWell(d)
  BY <1>2, <1>8 DEF FoundWell, SearchedFor
<1>12. Remembers(d, status)
  BY <1>2, <1>8 DEF Remembers
<1>13. ResultsAreWell(d)
  BY <1>5, <1>7, <1>8 DEF ResultsAreWell, Eligible, SearchedFor
<1> QED
  BY <1>8, <1>9, <1>10, <1>11, <1>12, <1>13 DEF Fits, d

(***************************************************************************)
(* The answer of a recall.                                                 *)
(***************************************************************************)
\* What a rerank makes of the hits: the same rows, and the same hits.
LEMMA RankedKeeps ==
  ASSUME NEW request, NEW hits \in Seq(HitRecord), NEW ranked \in Ranked(request, hits)
  PROVE  /\ ranked \in Seq(HitRecord) /\ ToSet(ranked) \subseteq ToSet(hits)
         /\ RowsOf(ranked) = RowsOf(hits)
         /\ ~request.rerank => ranked = hits
<1>1. CASE request.rerank /\ Len(hits) >= 2
  <2>1. PICK order \in SeqOf(0..Len(hits) + 1, MaxNamed) : ranked = Rerank(hits, order)
    BY <1>1 DEF Ranked
  <2>2. order \in Seq(Int)
    <3>1. PICK m \in 0..MaxNamed : order \in [1..m -> 0..Len(hits) + 1]
      BY <2>1 DEF SeqOf
    <3>2. m \in Nat /\ order \in [1..m -> Int]
      BY <3>1
    <3> QED
      BY <3>2, SeqDef
  <2> QED
    BY <1>1, <2>1, <2>2, RerankKeeps
<1>2. CASE ~(request.rerank /\ Len(hits) >= 2)
  BY <1>2 DEF Ranked
<1> QED
  BY <1>1, <1>2

\* What is answered of the hits, reranked and cut.
Cut(request, ranked) ==
  LET max == ResolveMaxChars(request.maxChars)
  IN IF max > 0 THEN ApplyCharBudget(ranked, max) ELSE ranked

\* A cut answer is a prefix, and all of it without a budget.
LEMMA CutKeeps ==
  ASSUME NEW request, NEW ranked \in Seq(HitRecord)
  PROVE  /\ Cut(request, ranked) \in Seq(HitRecord)
         /\ Len(Cut(request, ranked)) \in 0..Len(ranked)
         /\ \A i \in DOMAIN Cut(request, ranked) : Cut(request, ranked)[i] = ranked[i]
         /\ ~(ResolveMaxChars(request.maxChars) > 0) => Cut(request, ranked) = ranked
<1> DEFINE max == ResolveMaxChars(request.maxChars)
<1>1. CASE max > 0
  <2>1. PICK m \in 0..Len(ranked) : ApplyCharBudget(ranked, max) = SubSeq(ranked, 1, m)
    BY BudgetKeepsFirst
  <2>2. Cut(request, ranked) = SubSeq(ranked, 1, m)
    BY <1>1, <2>1 DEF Cut
  <2>3. /\ SubSeq(ranked, 1, m) \in Seq(HitRecord) /\ Len(SubSeq(ranked, 1, m)) = m
        /\ \A i \in 1..m : SubSeq(ranked, 1, m)[i] = ranked[i]
    BY FirstParts
  <2>4. DOMAIN SubSeq(ranked, 1, m) = 1..m
    BY <2>3
  <2> QED
    BY <1>1, <2>2, <2>3, <2>4
<1>2. CASE ~(max > 0)
  <2>1. Cut(request, ranked) = ranked /\ Len(ranked) \in 0..Len(ranked)
    BY <1>2 DEF Cut
  <2> QED
    BY <2>1
<1> QED
  BY <1>1, <1>2

\* A call that is over.
Over(pc, request, answer, tasks) ==
  [pc |-> pc, request |-> request, embedded |-> FALSE, found |-> <<>>, met |-> {},
   current |-> {}, hits |-> <<>>, chunks |-> <<>>, lifted |-> {},
   answer |-> answer, tasks |-> tasks]

\* What an answer is: the rows of the hits, those of a prefix of what a rerank
\* made of them.
LEMMA AnswerMakes ==
  ASSUME RInv, NEW n \in Calls, Answer(n)
  PROVE  \E ranked \in Ranked(call[n].request, call[n].hits), tasks \in SUBSET {"record", "log"} :
           call' = [call EXCEPT ![n] =
             Over("answered", call[n].request, AsRows(Cut(call[n].request, ranked)), tasks)]
<1> DEFINE tasks == {"record"} \cup IF call[n].request.order = NoOrder THEN {} ELSE {"log"}
<1>1. tasks \in SUBSET {"record", "log"}
  OBVIOUS
<1>2. PICK ranked \in Ranked(call[n].request, call[n].hits) :
        call' = [call EXCEPT ![n] =
             [Idle EXCEPT !.pc = "answered", !.request = call[n].request,
                          !.answer = AsRows(Cut(call[n].request, ranked)), !.tasks = tasks]]
  BY DEF Answer, Cut
<1> DEFINE answer == AsRows(Cut(call[n].request, ranked))
<1> HIDE DEF tasks, answer
<1> DEFINE over == call'[n]
<1>6. call = [m \in Calls |-> call[m]]
  BY DEF RInv, IInv, CallsAreRecords
<1>3. /\ over = Fields(over) /\ over.pc = "answered" /\ over.request = call[n].request
      /\ over.embedded = FALSE /\ over.met = {} /\ over.current = {}
      /\ over.found = <<>> /\ over.hits = <<>> /\ over.chunks = <<>>
      /\ over.lifted = {} /\ over.answer = answer /\ over.tasks = tasks
  BY <1>2, <1>6 DEF Fields, Idle, answer
<1>4. call' = [call EXCEPT ![n] = over]
  BY <1>2, <1>6
<1> HIDE DEF over
<1>5. over = Over("answered", call[n].request, answer, tasks)
  BY <1>3 DEF Fields, Over
<1> QED
  BY <1>1, <1>4, <1>5 DEF answer

\* A call that is over holds nothing but its answer.
LEMMA OverFits ==
  ASSUME RInv, NEW n \in Calls, NEW pc \in {"answered", "failed"},
         NEW request \in Requests[n] \cup {NoRequest}, NEW answer \in Seq(Rows),
         NEW tasks \in SUBSET {"record", "log"},
         call' = [call EXCEPT ![n] = Over(pc, request, answer, tasks)],
         UNCHANGED status
  PROVE  StepOf(n) /\ Fits(call'[n], Requests[n], status) /\ call'[n].answer = answer
<1>1. call = [m \in Calls |-> call[m]]
  BY DEF RInv, IInv, CallsAreRecords
<1> DEFINE d == call'[n]
<1>2. /\ d = Fields(d) /\ d.pc = pc /\ d.request = request
      /\ d.embedded = FALSE /\ d.met = {} /\ d.current = {}
      /\ d.found = <<>> /\ d.hits = <<>> /\ d.chunks = <<>> /\ d.lifted = {}
      /\ d.answer = answer /\ d.tasks = tasks
  BY <1>1 DEF Fields, Over
<1>3. StepOf(n)
  BY <1>1 DEF StepOf
<1> HIDE DEF d
<1>4. Typed(d, Requests[n])
  <2>1. d.pc \in Pcs /\ d.request \in Requests[n] \cup {NoRequest}
    BY <1>2 DEF Pcs
  <2>2. /\ d.hits \in Seq(HitRecord) /\ d.chunks \in Seq(HitRecord)
        /\ d.answer \in Seq(Rows) /\ d.tasks \subseteq {"record", "log"}
    BY <1>2
  <2>3. \A search \in DOMAIN d.found : d.found[search] \in Seq(HitRecord)
    BY <1>2
  <2> QED
    BY <1>2, <2>1, <2>2, <2>3 DEF Typed
<1>5. FoundWell(d) /\ Remembers(d, status) /\ ResultsAreWell(d)
  BY <1>2 DEF FoundWell, Remembers, ResultsAreWell
<1> QED
  BY <1>2, <1>3, <1>4, <1>5 DEF Fits, d

\* An answer.
LEMMA AnswerFits ==
  ASSUME RInv, NEW n \in Calls, Answer(n)
  PROVE  StepOf(n) /\ Fits(call'[n], Requests[n], status)
<1> DEFINE c == call[n]
<1>1. Typed(c, Requests[n]) /\ UNCHANGED status
  BY DEF RInv, CallsFit, Fits, Answer
<1>2. c.hits \in Seq(HitRecord) /\ c.request \in Requests[n] \cup {NoRequest}
  BY <1>1 DEF Typed
<1>3. PICK ranked \in Ranked(c.request, c.hits) : \E tasks \in SUBSET {"record", "log"} :
        call' = [call EXCEPT ![n] =
                   Over("answered", c.request, AsRows(Cut(c.request, ranked)), tasks)]
  BY AnswerMakes
<1> DEFINE kept == Cut(c.request, ranked)
           answer == AsRows(kept)
<1>4. PICK tasks \in SUBSET {"record", "log"} :
        call' = [call EXCEPT ![n] = Over("answered", c.request, answer, tasks)]
  BY <1>3
<1>5. ranked \in Seq(HitRecord)
  BY <1>2, RankedKeeps
<1>6. kept \in Seq(HitRecord)
  BY <1>5, CutKeeps
<1> HIDE DEF kept, c
<1>7. answer \in Seq(Rows)
  BY <1>6, Listed
<1> HIDE DEF answer
<1> QED
  BY <1>1, <1>2, <1>4, <1>7, OverFits

\* A failure, or the end of the process.
LEMMA FailFits ==
  ASSUME RInv, NEW n \in Calls, Fail(n)
  PROVE  StepOf(n) /\ Fits(call'[n], Requests[n], status)
<1> DEFINE over == call'[n]
<1>6. call = [m \in Calls |-> call[m]]
  BY DEF RInv, IInv, CallsAreRecords
<1>1. call' = [call EXCEPT ![n] = over] /\ UNCHANGED status
  BY <1>6 DEF Fail
<1>2. /\ over = Fields(over) /\ over.pc = "failed" /\ over.request = NoRequest
      /\ over.embedded = FALSE /\ over.met = {} /\ over.current = {}
      /\ over.found = <<>> /\ over.hits = <<>> /\ over.chunks = <<>>
      /\ over.lifted = {} /\ over.answer = <<>> /\ over.tasks = {}
  BY <1>6 DEF Fields, Idle, Fail
<1> HIDE DEF over
<1>3. <<>> \in Seq(Rows) /\ {} \in SUBSET {"record", "log"}
  OBVIOUS
<1>4. over = Over("failed", NoRequest, <<>>, {})
  BY <1>2 DEF Fields, Over
<1>5. call' = [call EXCEPT ![n] = Over("failed", NoRequest, <<>>, {})]
  BY <1>1, <1>4
<1> QED
  BY <1>1, <1>3, <1>5, OverFits

(***************************************************************************)
(* The context.                                                            *)
(***************************************************************************)
\* A list of the context holds memories of its type, each once.
LEMMA ContextLists ==
  ASSUME NEW type, NEW list \in ContextList(type)
  PROVE  /\ list \in Seq(HitRecord) /\ Distinct(list)
         /\ RowsOf(list) \subseteq InContext(type)
<1> DEFINE Entry(r) == [row |-> r, importance |-> Weight[r], embedded |-> FALSE, via |-> NoRow]
           M(rows) == Min({ContextLimit, Len(rows)})
<1>1. PICK rows \in SetToSeqs(InContext(type)) : list = [i \in 1..M(rows) |-> Entry(rows[i])]
  BY DEF ContextList
<1> DEFINE m == M(rows)
           N == Cardinality(InContext(type))
<1>2. InContext(type) \subseteq Private
  BY DEF InContext
<1>3. N \in Nat /\ rows \in [1..N -> InContext(type)]
  <2>1. IsFiniteSet(Rows) /\ InContext(type) \in SUBSET Rows
    BY <1>2, Tables, RecallAssumption DEF RecallAssumption
  <2>2. IsFiniteSet(InContext(type))
    BY <2>1, FS_Subset
  <2> QED
    BY <2>2, FS_CardinalityType DEF SetToSeqs
<1> HIDE DEF N
<1>4. Len(rows) = N
  BY <1>3
<1>5. m \in Nat /\ m <= N
  <2>1. ContextLimit \in Nat
    BY RecallAssumption DEF RecallAssumption
  <2>2. {ContextLimit, N} \in SUBSET Nat /\ {ContextLimit, N} # {}
    BY <1>3, <2>1
  <2>3. Min({ContextLimit, N}) \in {ContextLimit, N} /\ Min({ContextLimit, N}) <= N
    BY <2>2, Smallest
  <2> QED
    BY <1>4, <2>2, <2>3
<1>6. ASSUME NEW i \in 1..m
      PROVE  Entry(rows[i]) \in HitRecord
  <2>1. i \in 1..N
    BY <1>3, <1>5
  <2>2. rows[i] \in Rows
    BY <1>2, <1>3, <2>1, Tables
  <2>3. Weight[rows[i]] \in Nat
    BY <2>2, RecallAssumption DEF RecallAssumption
  <2> QED
    BY <2>2, <2>3 DEF HitRecord
<1> HIDE DEF Entry
<1>7. list = [i \in 1..m |-> Entry(rows[i])]
  BY <1>1
<1> HIDE DEF m
<1>8. list \in [1..m -> HitRecord]
  BY <1>6, <1>7
<1>9. DOMAIN list = 1..m /\ \A i \in 1..m : i \in 1..N /\ list[i].row = rows[i]
  BY <1>3, <1>5, <1>7 DEF Entry
<1>10. \A i, j \in 1..N : i # j => rows[i] # rows[j]
  BY <1>1 DEF SetToSeqs, N
<1>11. Distinct(list) /\ RowsOf(list) \subseteq InContext(type)
  BY <1>3, <1>9, <1>10 DEF Distinct, RowsOf
<1> QED
  BY <1>5, <1>8, <1>11, SeqDef

\* The lists of a context.
LEMMA ReadContextFits ==
  ASSUME RInv, NEW n \in Calls, ReadContext(n)
  PROVE  StepOf(n) /\ Fits(call'[n], Requests[n], status)
<1>1. call = [m \in Calls |-> call[m]] /\ call[n] = Fields(call[n])
  BY DEF RInv, IInv, CallsAreRecords
<1> DEFINE c == call[n]
           d == call'[n]
           Made(models, decisions, lessons) ==
             call' = [call EXCEPT ![n].pc = "read", ![n].hits = models \o decisions \o lessons]
<1>2. /\ Typed(c, Requests[n]) /\ Remembers(c, status) /\ c.pc = "context" /\ FoundWell(c)
  BY DEF RInv, CallsFit, Fits, ReadContext
<1>3. PICK models \in ContextList("mental_model") :
        \E decisions \in ContextList("decision"), lessons \in ContextList("lesson") :
          Made(models, decisions, lessons)
  BY DEF ReadContext
<1>4. PICK decisions \in ContextList("decision") :
        \E lessons \in ContextList("lesson") : Made(models, decisions, lessons)
  BY <1>3
<1>5. PICK lessons \in ContextList("lesson") : Made(models, decisions, lessons)
  BY <1>4
<1> DEFINE hits == models \o decisions \o lessons
<1>6. /\ models \in Seq(HitRecord) /\ decisions \in Seq(HitRecord)
      /\ lessons \in Seq(HitRecord)
  BY ContextLists
<1>7. hits \in Seq(HitRecord) /\ Distinct(hits)
  <2> DEFINE rest == decisions \o lessons
  <2>1. /\ Once(models) /\ Once(decisions) /\ Once(lessons)
        /\ RowsOf(models) \subseteq InContext("mental_model")
        /\ RowsOf(decisions) \subseteq InContext("decision")
        /\ RowsOf(lessons) \subseteq InContext("lesson")
    BY ContextLists DEF Distinct, Once
  <2>2. /\ InContext("decision") \cap InContext("lesson") = {}
        /\ InContext("mental_model") \cap InContext("decision") = {}
        /\ InContext("mental_model") \cap InContext("lesson") = {}
        /\ \A type : InContext(type) \subseteq Private
    BY DEF InContext
  <2>3. /\ rest \in Seq(HitRecord) /\ RowsOf(rest) = RowsOf(decisions) \cup RowsOf(lessons)
        /\ Once(rest)
    BY <1>6, <2>1, <2>2, OneAfterTheOther
  <2>4. hits = models \o rest
    BY <1>6
  <2> HIDE DEF rest, hits
  <2>5. /\ hits \in Seq(HitRecord) /\ RowsOf(hits) = RowsOf(models) \cup RowsOf(rest)
        /\ Once(hits)
    <3>1. RowsOf(models) \cap RowsOf(rest) \subseteq Chunks
      BY <2>1, <2>2, <2>3
    <3> QED
      BY <1>6, <2>1, <2>3, <2>4, <3>1, OneAfterTheOther
  <2>6. RowsOf(hits) \subseteq Private
    BY <2>1, <2>2, <2>3, <2>5
  <2>7. \A i \in DOMAIN hits : hits[i].row \in RowsOf(hits)
    BY DEF RowsOf
  <2> QED
    BY <2>5, <2>6, <2>7, Tables DEF Once, Distinct
<1>8. call' = [call EXCEPT ![n].pc = "read", ![n].hits = hits]
  BY <1>5
<1> HIDE DEF hits, c
<1>9. /\ d = Fields(d) /\ d.pc = "read" /\ d.request = c.request
      /\ d.embedded = c.embedded /\ d.met = c.met /\ d.current = c.current
      /\ d.found = c.found /\ d.hits = hits /\ d.chunks = c.chunks
      /\ d.lifted = c.lifted /\ d.answer = c.answer /\ d.tasks = c.tasks
  BY <1>1, <1>8 DEF Fields, c
<1>10. StepOf(n)
  BY <1>1, <1>8 DEF ReadContext, StepOf
<1> HIDE DEF d
<1>11. Typed(d, Requests[n])
  BY <1>2, <1>7, <1>9 DEF Typed, Pcs
<1>12. FoundWell(d)
  BY <1>2, <1>9 DEF FoundWell, SearchedFor
<1>13. Remembers(d, status) /\ ResultsAreWell(d)
  BY <1>2, <1>7, <1>9 DEF Remembers, ResultsAreWell
<1> QED
  BY <1>9, <1>10, <1>11, <1>12, <1>13 DEF Fits, d

\* The answer of a context.
LEMMA AnswerContextFits ==
  ASSUME RInv, NEW n \in Calls, AnswerContext(n)
  PROVE  /\ StepOf(n) /\ Fits(call'[n], Requests[n], status)
         /\ call'[n].answer = AsRows(IF call[n].request.maxChars = Unset THEN call[n].hits
                                     ELSE BudgetMemories(call[n].hits, call[n].request.maxChars))
<1> DEFINE c == call[n]
           budget == c.request.maxChars
           kept == IF budget = Unset THEN c.hits ELSE BudgetMemories(c.hits, budget)
           answer == AsRows(kept)
           over == call'[n]
<1>1. Typed(c, Requests[n]) /\ UNCHANGED status
  BY DEF RInv, CallsFit, Fits, AnswerContext
<1>2. c.hits \in Seq(HitRecord) /\ c.request \in Requests[n] \cup {NoRequest}
  BY <1>1 DEF Typed
<1>3. kept \in Seq(HitRecord)
  BY <1>2, MemoriesKept
<1>4. call' = [call EXCEPT ![n] = [Idle EXCEPT !.pc = "answered", !.request = c.request,
                                               !.answer = answer]]
  BY DEF AnswerContext
<1> HIDE DEF kept, c
<1>5. answer \in Seq(Rows)
  BY <1>3, Listed
<1> HIDE DEF answer
<1>6. call = [m \in Calls |-> call[m]]
  BY DEF RInv, IInv, CallsAreRecords
<1>7. /\ over = Fields(over) /\ over.pc = "answered" /\ over.request = c.request
      /\ over.embedded = FALSE /\ over.met = {} /\ over.current = {}
      /\ over.found = <<>> /\ over.hits = <<>> /\ over.chunks = <<>>
      /\ over.lifted = {} /\ over.answer = answer /\ over.tasks = {}
  BY <1>4, <1>6 DEF Fields, Idle
<1>8. call' = [call EXCEPT ![n] = over]
  BY <1>4, <1>6
<1> HIDE DEF over
<1>9. over = Over("answered", c.request, answer, {})
  BY <1>7 DEF Fields, Over
<1>10. {} \in SUBSET {"record", "log"} /\ "answered" \in {"answered", "failed"}
  OBVIOUS
<1>11. call' = [call EXCEPT ![n] = Over("answered", c.request, answer, {})]
  BY <1>8, <1>9
<1>12. /\ StepOf(n) /\ Fits(call'[n], Requests[n], status)
       /\ call'[n].answer = answer
  BY <1>1, <1>2, <1>5, <1>10, <1>11, OverFits
<1> QED
  BY <1>12 DEF answer, kept, c

(***************************************************************************)
(* The tasks, and what happens to the rows meanwhile.                      *)
(***************************************************************************)
\* A task that ran or was lost.
LEMMA TaskFits ==
  ASSUME RInv, NEW n \in Calls, Record(n) \/ Log(n) \/ LoseTask(n)
  PROVE  StepOf(n) /\ Fits(call'[n], Requests[n], status)
<1>1. call = [m \in Calls |-> call[m]] /\ call[n] = Fields(call[n])
  BY DEF RInv, IInv, CallsAreRecords
<1> DEFINE c == call[n]
           d == call'[n]
<1>2. /\ Typed(c, Requests[n]) /\ Remembers(c, status) /\ FoundWell(c)
      /\ ResultsAreWell(c)
  BY DEF RInv, CallsFit, Fits
<1>3. PICK task : call' = [call EXCEPT ![n].tasks = @ \ {task}]
  BY DEF Record, Log, LoseTask
<1>4. UNCHANGED status
  BY DEF Record, Log, LoseTask
<1> HIDE DEF c
<1>5. /\ d = Fields(d) /\ d.pc = c.pc /\ d.request = c.request
      /\ d.embedded = c.embedded /\ d.met = c.met /\ d.current = c.current
      /\ d.found = c.found /\ d.hits = c.hits /\ d.chunks = c.chunks
      /\ d.lifted = c.lifted /\ d.answer = c.answer /\ d.tasks = c.tasks \ {task}
  BY <1>1, <1>3 DEF Fields, c
<1>6. StepOf(n)
  BY <1>1, <1>3, <1>4 DEF StepOf
<1> HIDE DEF d
<1>7. Typed(d, Requests[n])
  BY <1>2, <1>5 DEF Typed
<1>8. FoundWell(d)
  BY <1>2, <1>5 DEF FoundWell, SearchedFor
<1>9. Remembers(d, status)
  BY <1>2, <1>5 DEF Remembers
<1>10. ResultsAreWell(d)
  BY <1>2, <1>5 DEF ResultsAreWell, SearchedFor, Eligible
<1> QED
  BY <1>5, <1>6, <1>7, <1>8, <1>9, <1>10 DEF Fits, d

\* A row that changes is current no longer; a recall that searches remembers
\* what it meets from now on.
LEMMA MoveFits ==
  ASSUME RInv, NEW r \in Rows, NEW to \in States \ {"active"}, Move(r, to)
  PROVE  RowsFit' /\ CallsFit'
<1>1. /\ status \in [Rows -> States] /\ changes \in 0..MaxChanges /\ changes < MaxChanges
      /\ outcomes \subseteq Orders /\ TotalReports <= MaxReports
  BY DEF RInv, RowsFit, Move
<1>2. /\ changes' = changes + 1 /\ UNCHANGED <<outcomes, reports>>
      /\ status' = [status EXCEPT ![r] = to]
  BY DEF Move
<1>3. MaxChanges \in Nat
  BY RecallAssumption DEF RecallAssumption
<1>4. status' \in [Rows -> States]
  BY <1>1, <1>2
<1>5. changes' \in 0..MaxChanges
  BY <1>1, <1>2, <1>3
<1>6. RowsFit'
  <2>1. TotalReports' = TotalReports
    BY <1>2 DEF TotalReports
  <2> QED
    BY <1>1, <1>2, <1>4, <1>5, <2>1 DEF RowsFit
<1>7. \A q \in Private : status'[q] = "active" => status[q] = "active"
  BY <1>1, <1>2, Tables
<1>8. ASSUME NEW n \in Calls
      PROVE  Fits(call'[n], Requests[n], status')
  <2> DEFINE c == call[n]
             d == call'[n]
             now == Met(c.request, status')
             met == IF c.pc = "searching" THEN c.met \cup now ELSE c.met
  <2>1. /\ c = Fields(c) /\ Typed(c, Requests[n]) /\ FoundWell(c)
        /\ Remembers(c, status) /\ ResultsAreWell(c)
    BY DEF RInv, CallsFit, Fits
  <2>2. d = IF c.pc = "searching" THEN [c EXCEPT !.met = @ \cup now] ELSE c
    BY DEF Move
  <2>3. c.pc = "searching" => now \subseteq met
    OBVIOUS
  <2>4. now \subseteq Rows
    BY DEF Met
  <2> HIDE DEF c, now
  <2>5. /\ d = Fields(d) /\ d.pc = c.pc /\ d.request = c.request
        /\ d.embedded = c.embedded /\ d.met = met /\ d.current = c.current
        /\ d.found = c.found /\ d.hits = c.hits /\ d.chunks = c.chunks
        /\ d.lifted = c.lifted /\ d.answer = c.answer /\ d.tasks = c.tasks
    BY <2>1, <2>2 DEF Fields
  <2>6. c.met \subseteq met /\ met \subseteq c.met \cup now /\ (c.pc # "searching" => met = c.met)
    OBVIOUS
  <2> HIDE DEF d, met
  <2>7. Typed(d, Requests[n])
    BY <2>1, <2>4, <2>5, <2>6 DEF Typed
  <2>8. FoundWell(d)
    BY <2>1, <2>5, <2>6 DEF FoundWell, SearchedFor
  <2>9. Remembers(d, status')
    <3>1. {q \in Private : status'[q] = "active"} \subseteq {q \in Private : status[q] = "active"}
      BY <1>7
    <3>2. c.pc = "searching" => Met(d.request, status') \subseteq d.met
      BY <2>3, <2>5 DEF now
    <3> QED
      BY <2>1, <2>5, <3>1, <3>2 DEF Remembers
  <2>10. ResultsAreWell(d)
    BY <2>1, <2>5, <2>6 DEF ResultsAreWell, SearchedFor, Eligible
  <2> QED
    BY <2>5, <2>7, <2>8, <2>9, <2>10 DEF Fits, d
<1>9. CallsFit'
  BY <1>8 DEF CallsFit
<1> QED
  BY <1>6, <1>9

\* A report.
LEMMA ReportFits ==
  ASSUME RInv, NEW o \in Orders, Report(o)
  PROVE  RowsFit' /\ CallsFit'
<1>1. /\ status \in [Rows -> States] /\ changes \in 0..MaxChanges
      /\ outcomes \subseteq Orders /\ TotalReports < MaxReports
  BY DEF RInv, RowsFit, Report
<1>2. /\ UNCHANGED <<status, call, changes>>
      /\ outcomes' = outcomes \cup {o} /\ reports' = [reports EXCEPT ![o] = @ + 1]
  BY DEF Report
<1>3. reports \in [Orders -> Nat]
  BY DEF RInv, IInv, LevelsFit
<1>4. TotalReports = Sum(reports, Orders) /\ TotalReports' = Sum(reports', Orders)
  <2>1. DOMAIN reports = Orders /\ DOMAIN reports' = Orders
    BY <1>2, <1>3
  <2>2. TotalReports = Sum(reports, DOMAIN reports)
    BY DEF TotalReports, SumFunction, SumFunctionOnSet, Sum
  <2>4. TotalReports' = SumFunction(reports')
    BY DEF TotalReports
  <2>3. TotalReports' = Sum(reports', DOMAIN reports')
    BY <2>4 DEF SumFunction, SumFunctionOnSet, Sum
  <2> QED
    BY <2>1, <2>2, <2>3
<1>5. IsFiniteSet(Orders) /\ MaxReports \in Nat
  BY RecallAssumption DEF RecallAssumption
<1>6. /\ \A q \in Orders : reports[q] \in Nat
      /\ reports'[o] = reports[o] + 1
      /\ \A q \in Orders \ {o} : reports'[q] = reports[q]
  BY <1>2, <1>3
<1>7. /\ Sum(reports, Orders) \in Nat
      /\ Sum(reports', Orders) = Sum(reports, Orders) + 1
  BY <1>5, <1>6, SumCountsUp
<1>8. TotalReports' <= MaxReports
  BY <1>1, <1>4, <1>5, <1>7
<1>9. RowsFit'
  BY <1>1, <1>2, <1>8 DEF RowsFit
<1>10. CallsFit'
  BY <1>2 DEF RInv, CallsFit
<1> QED
  BY <1>9, <1>10

(***************************************************************************)
(* The second invariant is kept.                                           *)
(***************************************************************************)
LEMMA RInitially ==
  ASSUME Init
  PROVE  RInv
<1>1. IInv
  BY Initially
<1>2. /\ status = [r \in Rows |-> "active"] /\ outcomes = {} /\ changes = 0
      /\ reports = [o \in Orders |-> 0] /\ call = [n \in Calls |-> Idle]
  BY DEF Init
<1>3. TotalReports <= MaxReports
  <2>1. DOMAIN reports = Orders /\ \A o \in Orders : reports[o] = 0
    BY <1>2
  <2>2. IsFiniteSet(Orders) /\ MaxReports \in Nat
    BY RecallAssumption DEF RecallAssumption
  <2>3. Sum(reports, Orders) = 0
    BY <2>1, <2>2, SumOfNothing
  <2>4. TotalReports = Sum(reports, Orders)
    BY <2>1 DEF TotalReports, SumFunction, SumFunctionOnSet, Sum
  <2> QED
    BY <2>2, <2>3, <2>4
<1>4. MaxChanges \in Nat
  BY RecallAssumption DEF RecallAssumption
<1>5. RowsFit
  BY <1>2, <1>3, <1>4 DEF RowsFit, States
<1>6. ASSUME NEW n \in Calls
      PROVE  Fits(call[n], Requests[n], status)
  <2> DEFINE c == call[n]
  <2>1. c = Idle
    BY <1>2
  <2>2. /\ c = Fields(c) /\ c.pc = "idle" /\ c.request = NoRequest
        /\ c.embedded = FALSE /\ c.met = {} /\ c.current = {}
        /\ c.found = <<>> /\ c.hits = <<>> /\ c.chunks = <<>> /\ c.lifted = {}
        /\ c.answer = <<>> /\ c.tasks = {}
    BY <2>1 DEF Fields, Idle
  <2> HIDE DEF c
  <2>3. c.pc \in Pcs /\ \A search \in DOMAIN c.found : c.found[search] \in Seq(HitRecord)
    BY <2>2 DEF Pcs
  <2>4. /\ c.hits \in Seq(HitRecord) /\ c.chunks \in Seq(HitRecord)
        /\ c.answer \in Seq(Rows)
    BY <2>2
  <2>5. Typed(c, Requests[n])
    BY <2>2, <2>3, <2>4 DEF Typed
  <2>6. FoundWell(c) /\ Remembers(c, status) /\ ResultsAreWell(c)
    BY <2>2 DEF FoundWell, Remembers, ResultsAreWell
  <2> QED
    BY <2>2, <2>5, <2>6 DEF Fits, c
<1>7. CallsFit
  BY <1>6 DEF CallsFit
<1> QED
  BY <1>1, <1>5, <1>7 DEF RInv

\* The steps of one call.
CallStep(n) ==
  \/ Begin(n) \/ Search(n) \/ Route(n) \/ FuseHits(n)
  \/ Expand(n) \/ ExpandFails(n) \/ Answer(n) \/ Fail(n)
  \/ Record(n) \/ Log(n) \/ LoseTask(n)
  \/ ReadContext(n) \/ AnswerContext(n)

\* Every step of a call leaves it fitting its request.
LEMMA CallStepFits ==
  ASSUME RInv, NEW n \in Calls, CallStep(n)
  PROVE  StepOf(n) /\ Fits(call'[n], Requests[n], status)
<1>1. CASE Begin(n)
  BY <1>1, BeginFits
<1>2. CASE Search(n)
  BY <1>2, SearchFits
<1>3. CASE Route(n)
  BY <1>3, RouteFits
<1>4. CASE FuseHits(n)
  BY <1>4, FuseFits
<1>5. CASE Expand(n)
  BY <1>5, ExpandFits
<1>6. CASE ExpandFails(n)
  BY <1>6, ExpandFailsFits
<1>7. CASE Answer(n)
  BY <1>7, AnswerFits
<1>8. CASE Fail(n)
  BY <1>8, FailFits
<1>9. CASE Record(n) \/ Log(n) \/ LoseTask(n)
  BY <1>9, TaskFits
<1>10. CASE ReadContext(n)
  BY <1>10, ReadContextFits
<1>11. CASE AnswerContext(n)
  BY <1>11, AnswerContextFits
<1> QED
  BY <1>1, <1>2, <1>3, <1>4, <1>5, <1>6, <1>7, <1>8, <1>9, <1>10, <1>11 DEF CallStep

\* The kinds of steps.
LEMMA KindsOfSteps ==
  ASSUME [Next]_vars
  PROVE  \/ \E n \in Calls : CallStep(n)
         \/ \E o \in Orders : Report(o)
         \/ \E r \in Rows : \E to \in States \ {"active"} : Move(r, to)
         \/ UNCHANGED vars
<1>1. ASSUME NEW r \in Rows, Supersede(r) \/ Archive(r) \/ Expire(r) \/ Leave(r)
      PROVE  \E to \in States \ {"active"} : Move(r, to)
  BY <1>1 DEF Supersede, Archive, Expire, Leave, States
<1> QED
  BY <1>1 DEF Next, CallStep

\* Every step preserves the whole invariant.
LEMMA RSteps ==
  ASSUME RInv, [Next]_vars
  PROVE  RInv'
<1>1. IInv'
  BY Steps DEF RInv
<1>2. ASSUME UNCHANGED <<status, outcomes, reports, changes>>
      PROVE  RowsFit'
  <2>1. TotalReports' = TotalReports
    BY <1>2 DEF TotalReports
  <2> QED
    BY <1>2, <2>1 DEF RInv, RowsFit
<1>3. ASSUME NEW n \in Calls, CallStep(n)
      PROVE  RowsFit' /\ CallsFit'
  <2>1. StepOf(n) /\ Fits(call'[n], Requests[n], status)
    BY <1>3, CallStepFits
  <2>2. UNCHANGED <<status, outcomes, reports, changes>>
    BY <1>3 DEF CallStep, Begin, Search, Route, FuseHits, Expand, ExpandFails, Answer, Fail,
                Record, Log, LoseTask, ReadContext, AnswerContext
  <2>3. \A m \in Calls : Fits(call'[m], Requests[m], status')
    BY <2>1, <2>2 DEF StepOf, RInv, CallsFit
  <2> QED
    BY <1>2, <2>2, <2>3 DEF CallsFit
<1>4. ASSUME NEW o \in Orders, Report(o)
      PROVE  RowsFit' /\ CallsFit'
  BY <1>4, ReportFits
<1>5. ASSUME NEW r \in Rows, NEW to \in States \ {"active"}, Move(r, to)
      PROVE  RowsFit' /\ CallsFit'
  BY <1>5, MoveFits
<1>6. CASE UNCHANGED vars
  <2>1. CallsFit'
    BY <1>6 DEF vars, RInv, CallsFit
  <2> QED
    BY <1>1, <1>2, <1>6, <2>1 DEF vars, RInv
<1> QED
  BY <1>1, <1>3, <1>4, <1>5, <1>6, KindsOfSteps DEF RInv

\* The types follow.
LEMMA TypesFollow ==
  ASSUME RInv
  PROVE  TypeOK
<1>1. /\ status \in [Rows -> States] /\ outcomes \subseteq Orders
      /\ changes \in 0..MaxChanges /\ TotalReports <= MaxReports
  BY DEF RInv, RowsFit
<1>2. /\ count \in [Rows -> 0..MaxCount] /\ confidence \in [Private -> 1..MaxConfidence]
      /\ reports \in [Orders -> Nat]
  BY DEF RInv, IInv, CountsFit, LevelsFit
<1>3. reads \subseteq Orders \X Private
  BY DEF RInv, IInv, ReadsAreAnswers
<1>4. ASSUME NEW o \in Orders
      PROVE  reports[o] \in 0..MaxReports
  <2> DEFINE g == [reports EXCEPT ![o] = @ + 1]
  <2>1. IsFiniteSet(Orders) /\ MaxReports \in Nat
    BY RecallAssumption DEF RecallAssumption
  <2>2. /\ \A q \in Orders : reports[q] \in Nat
        /\ g[o] = reports[o] + 1 /\ \A q \in Orders \ {o} : g[q] = reports[q]
    BY <1>2
  <2> HIDE DEF g
  <2>3. Sum(reports, Orders) \in Nat /\ reports[o] <= Sum(reports, Orders)
    BY <2>1, <2>2, SumCountsUp
  <2>4. TotalReports = Sum(reports, Orders)
    BY <1>2 DEF TotalReports, SumFunction, SumFunctionOnSet, Sum
  <2> QED
    BY <1>1, <2>1, <2>2, <2>3, <2>4
<1>5. reports \in [Orders -> 0..MaxReports]
  BY <1>2, <1>4
<1>6. \A H, s : s \in Seq(H) => ToSet(s) \subseteq H
  BY DEF ToSet
<1>7. ASSUME NEW n \in Calls
      PROVE  /\ call[n].pc \in {"idle", "searching", "fused", "found", "answered",
                                "failed", "context", "read"}
             /\ call[n].request \in Requests[n] \cup {NoRequest}
             /\ call[n].embedded \in BOOLEAN
             /\ call[n].met \cup call[n].lifted \subseteq Rows
             /\ call[n].current \subseteq Private
             /\ \A search \in DOMAIN call[n].found :
                  ToSet(call[n].found[search]) \subseteq HitRecord
             /\ ToSet(call[n].hits) \cup ToSet(call[n].chunks) \subseteq HitRecord
             /\ ToSet(call[n].answer) \subseteq Rows
             /\ call[n].tasks \subseteq {"record", "log"}
  <2>1. Typed(call[n], Requests[n])
    BY DEF RInv, CallsFit, Fits
  <2> QED
    BY <1>6, <2>1 DEF Typed, Pcs
<1> QED
  BY <1>1, <1>2, <1>3, <1>5, <1>7 DEF TypeOK, States

\* A call that is answered was answered by this step.
LEMMA AnAnswer ==
  ASSUME RInv, [Next]_vars, NEW n \in Calls, Answers(n)
  PROVE  /\ call[n].request \in Requests[n]
         /\ \/ call[n].request.kind = "recall" /\ Answer(n)
            \/ call[n].request.kind = "context" /\ AnswerContext(n)
<1>1. /\ call[n].pc \in {"found", "read"} /\ call'[n].pc = "answered"
      /\ call[n].request \in Requests[n]
      /\ call[n].request.kind = IF call[n].pc = "found" THEN "recall" ELSE "context"
  <2>1. call[n].pc \in {"found", "read"} /\ call'[n].pc = "answered"
    BY DEF Answers
  <2>2. Remembers(call[n], status) /\ RequestsAreMade
    BY DEF RInv, IInv, CallsFit, Fits
  <2> QED
    BY <2>1, <2>2 DEF Remembers, RequestsAreMade
<1>2. ASSUME NEW m \in Calls, CallStep(m)
      PROVE  Answer(n) \/ AnswerContext(n)
  <2>1. StepOf(m)
    BY <1>2, CallStepFits
  <2>2. m = n
    BY <1>1, <2>1 DEF StepOf
  <2>3. ~(Begin(n) \/ Search(n) \/ Route(n) \/ FuseHits(n) \/ Expand(n) \/ ExpandFails(n)
           \/ ReadContext(n))
    BY <1>1 DEF Begin, Search, Route, FuseHits, AllFound, Expand, ExpandFails,
                ReadContext
  <2>4. call = [k \in Calls |-> call[k]] /\ call[n] = Fields(call[n])
    BY DEF RInv, IInv, CallsAreRecords
  <2>5. ~(Record(n) \/ Log(n) \/ LoseTask(n))
    BY <1>1, <2>4 DEF Record, Log, LoseTask, Fields
  <2>6. ~Fail(n)
    BY <1>1, <2>4 DEF Fail, Idle
  <2> QED
    BY <1>2, <2>2, <2>3, <2>5, <2>6 DEF CallStep
<1>3. ASSUME NEW o \in Orders, Report(o)
      PROVE  FALSE
  BY <1>1, <1>3 DEF Report
<1>4. ASSUME NEW r \in Rows, NEW to, Move(r, to)
      PROVE  FALSE
  <2>1. call'[n].pc = call[n].pc
    <3>1. call[n] = Fields(call[n])
      BY DEF RInv, IInv, CallsAreRecords
    <3> QED
      BY <1>4, <3>1 DEF Move, Fields
  <2> QED
    BY <1>1, <2>1
<1>5. ~UNCHANGED vars
  BY <1>1 DEF vars
<1>6. Answer(n) \/ AnswerContext(n)
  BY <1>2, <1>3, <1>4, <1>5, KindsOfSteps
<1> QED
  BY <1>1, <1>6 DEF Answer, AnswerContext

\* A recall that is answered was answered by this step.
LEMMA TheAnswer ==
  ASSUME RInv, [Next]_vars, NEW n \in Calls, Recalls(n)
  PROVE  Answer(n)
BY AnAnswer DEF Recalls

\* What is answered.
LEMMA WhatIsAnswered ==
  ASSUME RInv, NEW n \in Calls, Answer(n)
  PROVE  \E ranked \in Ranked(call[n].request, call[n].hits) :
           call'[n].answer = AsRows(Cut(call[n].request, ranked))
<1>1. call = [k \in Calls |-> call[k]]
  BY DEF RInv, IInv, CallsAreRecords
<1>2. PICK ranked \in Ranked(call[n].request, call[n].hits) :
        \E tasks \in SUBSET {"record", "log"} :
          call' = [call EXCEPT ![n] =
             Over("answered", call[n].request, AsRows(Cut(call[n].request, ranked)), tasks)]
  BY AnswerMakes
<1>3. PICK tasks \in SUBSET {"record", "log"} :
        call' = [call EXCEPT ![n] =
             Over("answered", call[n].request, AsRows(Cut(call[n].request, ranked)), tasks)]
  BY <1>2
<1>4. call'[n].answer = AsRows(Cut(call[n].request, ranked))
  BY <1>1, <1>3 DEF Over
<1> QED
  BY <1>4

(***************************************************************************)
(* The theorems about what is answered.                                    *)
(***************************************************************************)
\* The hits an answer is made of.
LEMMA HitsAnswered ==
  ASSUME RInv, NEW n \in Calls, Answer(n)
  PROVE  /\ call[n].hits \in Seq(HitRecord) /\ Once(call[n].hits)
         /\ \A hit \in ToSet(call[n].hits) : Eligible(call[n], hit)
         /\ call[n].request \in Requests[n]
<1>1. call[n].pc = "found"
  BY DEF Answer
<1>2. Typed(call[n], Requests[n]) /\ ResultsAreWell(call[n])
  BY DEF RInv, CallsFit, Fits
<1>3. call[n].request \in Requests[n]
  BY <1>1 DEF RInv, IInv, RequestsAreMade
<1> QED
  BY <1>1, <1>2, <1>3 DEF Typed, ResultsAreWell

\* Whatever the calls, the rows and the work orders are, every variable keeps
\* its type: levels stay between floor and cap, counts fit a SMALLINT.
THEOREM TypesAreKept == Spec => []TypeOK
<1>1. RInv => TypeOK
  BY TypesFollow
<1> QED
  BY <1>1, RInitially, RSteps, PTL DEF Spec

\* Whatever the rerank names, no row is lost without a budget.
THEOREM RerankNeverLoses == Spec => RerankLosesNothing
<1>1. ASSUME RInv, [Next]_vars, NEW n \in Calls, Recalls(n), Uncapped(n)
      PROVE  RowsOf(call[n].hits) \subseteq ToSet(call'[n].answer)
  <2> DEFINE hits == call[n].hits
             request == call[n].request
  <2>1. Answer(n)
    BY <1>1, TheAnswer
  <2>2. hits \in Seq(HitRecord) /\ request \in Requests[n]
    BY <1>1, <2>1, HitsAnswered
  <2>3. PICK ranked \in Ranked(request, hits) : call'[n].answer = AsRows(Cut(request, ranked))
    BY <1>1, <2>1, WhatIsAnswered
  <2>4. ~(ResolveMaxChars(request.maxChars) > 0)
    <3>1. ResolveMaxChars(request.maxChars) \in Int
      BY <2>2, RecallAssumption DEF RecallAssumption, ResolveMaxChars
    <3>2. ResolveMaxChars(request.maxChars) <= 0
      BY <1>1 DEF Uncapped
    <3> QED
      BY <3>1, <3>2
  <2> HIDE DEF hits, request
  <2>5. ranked \in Seq(HitRecord) /\ RowsOf(ranked) = RowsOf(hits)
    BY <2>2, RankedKeeps
  <2>6. Cut(request, ranked) = ranked
    BY <2>4, <2>5, CutKeeps
  <2>7. ToSet(AsRows(ranked)) = RowsOf(ranked)
    BY <2>5, Listed
  <2> QED
    BY <2>3, <2>5, <2>6, <2>7 DEF hits
<1>2. RInv /\ [Next]_vars =>
        [\A n \in Calls : Recalls(n) /\ Uncapped(n) =>
           RowsOf(call[n].hits) \subseteq ToSet(call'[n].answer)]_vars
  BY <1>1
<1> QED
  BY <1>2, RInitially, RSteps, PTL DEF Spec, RerankLosesNothing

\* Although searches read at different moments and rows change between them,
\* every row of an answer met the request at one moment since it came, or is
\* current and linked from one that did.
THEOREM AnswersAreEligible == Spec => AnswersWereEligible
<1>1. ASSUME RInv, [Next]_vars, NEW n \in Calls, Recalls(n)
      PROVE  /\ Searched(n) \subseteq call[n].met
             /\ \A r \in ToSet(call'[n].answer) \ Searched(n) :
                  /\ r \in call[n].current
                  /\ \E source \in call[n].met : <<source, r>> \in Links
  <2> DEFINE c == call[n]
             hits == c.hits
  <2>1. Answer(n)
    BY <1>1, TheAnswer
  <2>2. hits \in Seq(HitRecord) /\ \A hit \in ToSet(hits) : Eligible(c, hit)
    BY <1>1, <2>1, HitsAnswered
  <2>3. PICK ranked \in Ranked(c.request, hits) :
          call'[n].answer = AsRows(Cut(c.request, ranked))
    BY <1>1, <2>1, WhatIsAnswered
  <2> DEFINE kept == Cut(c.request, ranked)
  <2>4. ranked \in Seq(HitRecord) /\ RowsOf(ranked) = RowsOf(hits)
    BY <2>2, RankedKeeps
  <2>5. /\ kept \in Seq(HitRecord) /\ DOMAIN kept \subseteq DOMAIN ranked
        /\ \A i \in DOMAIN kept : kept[i] = ranked[i]
    <3>1. /\ kept \in Seq(HitRecord) /\ Len(kept) \in 0..Len(ranked)
          /\ \A i \in DOMAIN kept : kept[i] = ranked[i]
      BY <2>4, CutKeeps
    <3> HIDE DEF kept
    <3>2. /\ DOMAIN kept = 1..Len(kept) /\ DOMAIN ranked = 1..Len(ranked)
          /\ Len(kept) \in Nat /\ Len(ranked) \in Nat
      BY <2>4, <3>1
    <3> QED
      BY <3>1, <3>2
  <2>6. call'[n].answer = AsRows(kept)
    BY <2>3
  <2> HIDE DEF kept
  <2>7. ToSet(call'[n].answer) = RowsOf(kept)
    BY <2>5, <2>6, Listed
  <2>8. RowsOf(kept) \subseteq RowsOf(hits)
    BY <2>4, <2>5 DEF RowsOf
  <2>9. \A i \in DOMAIN hits : Eligible(c, hits[i])
    BY <2>2 DEF ToSet
  <2>10. ASSUME NEW r \in Searched(n)
         PROVE  r \in c.met
    <3>1. PICK i \in Places(hits, r) : hits[i].via = NoRow
      BY DEF Searched
    <3> QED
      BY <2>9, <3>1 DEF Eligible, Places
  <2>11. ASSUME NEW r \in ToSet(call'[n].answer) \ Searched(n)
         PROVE  r \in c.current /\ \E source \in c.met : <<source, r>> \in Links
    <3>1. PICK i \in DOMAIN hits : hits[i].row = r
      BY <2>7, <2>8 DEF RowsOf
    <3>2. hits[i].via # NoRow
      BY <3>1 DEF Searched, Places
    <3> QED
      BY <2>9, <3>1, <3>2 DEF Eligible
  <2> QED
    BY <2>10, <2>11
<1>2. RInv /\ [Next]_vars =>
        [\A n \in Calls : Recalls(n) =>
           /\ Searched(n) \subseteq call[n].met
           /\ \A r \in ToSet(call'[n].answer) \ Searched(n) :
                /\ r \in call[n].current
                /\ \E source \in call[n].met : <<source, r>> \in Links]_vars
  BY <1>1
<1> QED
  BY <1>2, RInitially, RSteps, PTL DEF Spec, AnswersWereEligible

\* Searches, links, fusion and budget never list a memory twice.
THEOREM MemoriesAreAnsweredOnce == Spec => MemoriesAnsweredOnce
<1>1. ASSUME RInv, [Next]_vars, NEW n \in Calls, Recalls(n), ~call[n].request.rerank,
             NEW i \in DOMAIN call'[n].answer, NEW j \in DOMAIN call'[n].answer,
             call'[n].answer[i] = call'[n].answer[j], i # j
      PROVE  call'[n].answer[i] \in Chunks
  <2> DEFINE hits == call[n].hits
             request == call[n].request
  <2>1. Answer(n)
    BY <1>1, TheAnswer
  <2>2. hits \in Seq(HitRecord) /\ Once(hits)
    BY <1>1, <2>1, HitsAnswered
  <2>3. PICK ranked \in Ranked(request, hits) : call'[n].answer = AsRows(Cut(request, ranked))
    BY <1>1, <2>1, WhatIsAnswered
  <2>4. ranked = hits
    BY <1>1, <2>2, RankedKeeps
  <2> DEFINE kept == Cut(request, hits)
  <2>5. /\ kept \in Seq(HitRecord) /\ Len(kept) \in 0..Len(hits)
        /\ \A k \in DOMAIN kept : kept[k] = hits[k]
    BY <2>2, CutKeeps
  <2>6. call'[n].answer = AsRows(kept)
    BY <2>3, <2>4
  <2> HIDE DEF kept, hits, request
  <2>7. /\ DOMAIN kept = 1..Len(kept) /\ DOMAIN hits = 1..Len(hits)
        /\ Len(kept) \in Nat /\ Len(hits) \in Nat
    BY <2>2, <2>5
  <2>8. /\ i \in DOMAIN hits /\ j \in DOMAIN hits
        /\ call'[n].answer[i] = hits[i].row /\ call'[n].answer[j] = hits[j].row
    BY <1>1, <2>5, <2>6, <2>7 DEF AsRows
  <2> QED
    BY <1>1, <2>2, <2>8 DEF Once
<1>2. RInv /\ [Next]_vars =>
        [\A n \in Calls : Recalls(n) /\ ~call[n].request.rerank =>
           \A i, j \in DOMAIN call'[n].answer :
             call'[n].answer[i] = call'[n].answer[j] /\ i # j
               => call'[n].answer[i] \in Chunks]_vars
  BY <1>1
<1> QED
  BY <1>2, RInitially, RSteps, PTL DEF Spec, MemoriesAnsweredOnce

\* What an answer is to keep of the hits.
KeepsToBudget(n) ==
  LET hits == call[n].hits
      kept == call'[n].answer
      dropped == RowsOf(hits) \ ToSet(kept)
  IN /\ hits # <<>> => kept # <<>>
     /\ Budgeted(n) => Len(kept) <= 1 \/ Total(kept) <= Budget(n)
     /\ dropped # {} =>
          /\ Budgeted(n)
          /\ \E r \in IF call[n].request.kind = "context" THEN dropped ELSE RowsOf(hits) :
               Total(kept) + Length[r] > Budget(n)
     /\ call[n].request.kind = "context" =>
          \A r \in dropped, q \in ToSet(kept) : Weight[r] <= Weight[q]
     /\ call[n].request.kind = "recall" /\ ~call[n].request.rerank =>
          \A i \in DOMAIN kept : kept[i] = hits[i].row

\* What a recall answers keeps to its budget, whatever the rerank makes of the
\* hits.
LEMMA RecallKeepsBudget ==
  ASSUME RInv, NEW n \in Calls, Answer(n), call[n].request.kind = "recall"
  PROVE  KeepsToBudget(n)
<1> DEFINE request == call[n].request
           hits == call[n].hits
           kept == call'[n].answer
           max == ResolveMaxChars(request.maxChars)
<1>1. hits \in Seq(HitRecord) /\ request \in Requests[n]
  BY HitsAnswered
<1>2. PICK ranked \in Ranked(request, hits) : kept = AsRows(Cut(request, ranked))
  BY WhatIsAnswered
<1>3. max \in Int
  BY <1>1, RecallAssumption DEF RecallAssumption, ResolveMaxChars
<1>13. Budget(n) = max /\ (Budgeted(n) <=> max > 0)
  BY DEF Budget, Budgeted
<1>14. max = ResolveMaxChars(request.maxChars)
  OBVIOUS
<1> HIDE DEF request, hits, kept, max
<1>4. /\ ranked \in Seq(HitRecord) /\ RowsOf(ranked) = RowsOf(hits)
      /\ ~request.rerank => ranked = hits
  BY <1>1, RankedKeeps
<1> DEFINE cut == Cut(request, ranked)
<1>5. /\ cut \in Seq(HitRecord) /\ Len(cut) \in 0..Len(ranked)
      /\ \A i \in DOMAIN cut : cut[i] = ranked[i]
  BY <1>4, CutKeeps
<1>6. cut = IF max > 0 THEN ApplyCharBudget(ranked, max) ELSE ranked
  BY <1>14 DEF Cut
<1> HIDE DEF cut
<1>7. /\ kept = AsRows(cut) /\ DOMAIN kept = DOMAIN cut /\ ToSet(kept) = RowsOf(cut)
      /\ kept \in Seq(Rows)
  BY <1>2, <1>5, Listed DEF cut
<1>8. Len(kept) = Len(cut) /\ (cut # <<>> => kept # <<>>)
  BY <1>5, <1>7
<1>9. hits # <<>> => ranked # <<>>
  <2>1. \A s : RowsOf(s) = {s[i].row : i \in DOMAIN s}
    BY DEF RowsOf
  <2>2. hits # <<>> => RowsOf(hits) # {}
    <3>1. hits # <<>> => 1 \in DOMAIN hits
      BY <1>1
    <3> QED
      BY <2>1, <3>1
  <2>3. ranked = <<>> => RowsOf(ranked) = {}
    BY <2>1
  <2> QED
    BY <1>4, <2>2, <2>3
<1>10. ASSUME max > 0
       PROVE  /\ ranked # <<>> => cut # <<>>
              /\ Len(cut) <= 1 \/ Total(AsRows(cut)) <= max
              /\ ~(RowsOf(ranked) \subseteq RowsOf(cut))
                   => \E r \in RowsOf(ranked) : Total(AsRows(cut)) + Length[r] > max
  <2>1. \A hit \in HitRecord : hit.row \in DOMAIN Length
    BY RecallAssumption DEF RecallAssumption, HitRecord
  <2>2. max \in Nat \ {0} /\ cut = ApplyCharBudget(ranked, max)
    BY <1>3, <1>6, <1>10
  <2> QED
    BY <1>4, <2>1, <2>2, HitsFit
<1>11. ASSUME ~(max > 0)
       PROVE  RowsOf(hits) = ToSet(kept) /\ cut = ranked
  BY <1>4, <1>6, <1>7, <1>11
<1>12. ASSUME ~request.rerank, NEW i \in DOMAIN kept
       PROVE  kept[i] = hits[i].row
  <2>1. i \in DOMAIN cut /\ kept[i] = cut[i].row
    BY <1>7, <1>12 DEF AsRows
  <2> QED
    BY <1>4, <1>5, <1>12, <2>1
<1>15. hits # <<>> => kept # <<>>
  BY <1>8, <1>9, <1>10, <1>11
<1>16. Budgeted(n) => Len(kept) <= 1 \/ Total(kept) <= Budget(n)
  BY <1>7, <1>8, <1>10, <1>13
<1>17. RowsOf(hits) \ ToSet(kept) # {}
         => Budgeted(n) /\ \E r \in RowsOf(hits) : Total(kept) + Length[r] > Budget(n)
  BY <1>4, <1>7, <1>10, <1>11, <1>13
<1> QED
  BY <1>12, <1>15, <1>16, <1>17 DEF KeepsToBudget, request, hits, kept

\* What a context answers keeps to its budget, and to the heaviest rows.
LEMMA ContextKeepsBudget ==
  ASSUME RInv, NEW n \in Calls, AnswerContext(n), call[n].request \in Requests[n],
         call[n].request.kind = "context"
  PROVE  KeepsToBudget(n)
<1> DEFINE hits == call[n].hits
           kept == call'[n].answer
           budget == call[n].request.maxChars
           dropped == RowsOf(hits) \ ToSet(kept)
<1>1. hits \in Seq(HitRecord) /\ Distinct(hits)
  BY DEF RInv, CallsFit, Fits, Typed, ResultsAreWell, AnswerContext
<1>2. budget = Unset \/ budget \in Nat \ {0}
  BY RecallAssumption DEF RecallAssumption
<1> DEFINE cut == IF budget = Unset THEN hits ELSE BudgetMemories(hits, budget)
<1>3. kept = AsRows(cut)
  BY AnswerContextFits
<1>4. cut \in Seq(HitRecord)
  BY <1>1, MemoriesKept
<1>5. /\ budget = Unset => cut = hits
      /\ budget # Unset => cut = BudgetMemories(hits, budget)
  OBVIOUS
<1>10. Budget(n) = budget /\ (Budgeted(n) <=> budget # Unset)
  BY DEF Budget, Budgeted
<1> HIDE DEF cut, hits, kept, budget
<1>6. /\ kept \in Seq(Rows) /\ DOMAIN kept = DOMAIN cut /\ ToSet(kept) = RowsOf(cut)
  BY <1>3, <1>4, Listed
<1>7. Len(kept) = Len(cut) /\ (cut # <<>> => kept # <<>>)
  BY <1>4, <1>6
<1>8. ASSUME budget = Unset
      PROVE  dropped = {}
  BY <1>5, <1>6, <1>8
<1>9. ASSUME budget # Unset
      PROVE  HeaviestKept(hits, cut, budget)
  <2>1. \A hit \in HitRecord : hit.row \in DOMAIN Length /\ Weight[hit.row] \in Int
    BY RecallAssumption DEF RecallAssumption, HitRecord
  <2>2. budget \in Nat \ {0} /\ cut = BudgetMemories(hits, budget)
    BY <1>2, <1>5, <1>9
  <2> QED
    BY <1>1, <2>1, <2>2, MemoriesFit
<1>11. hits # <<>> => kept # <<>>
  BY <1>5, <1>7, <1>9 DEF HeaviestKept
<1>12. Budgeted(n) => Len(kept) <= 1 \/ Total(kept) <= Budget(n)
  BY <1>3, <1>7, <1>9, <1>10 DEF HeaviestKept
<1>13. dropped # {} => Budgeted(n) /\ \E r \in dropped : Total(kept) + Length[r] > Budget(n)
  BY <1>3, <1>6, <1>8, <1>9, <1>10 DEF HeaviestKept
<1>14. \A r \in dropped, q \in ToSet(kept) : Weight[r] <= Weight[q]
  BY <1>6, <1>8, <1>9 DEF HeaviestKept
<1> QED
  BY <1>11, <1>12, <1>13, <1>14 DEF KeepsToBudget, hits, kept

\* Both budgets keep what ranks highest: at least one row, no more than the
\* budget otherwise, and they stop only where the next one would not fit.
THEOREM BudgetsAreKept == Spec => BudgetsKeepTheBest
<1>1. ASSUME RInv, [Next]_vars, NEW n \in Calls, Answers(n)
      PROVE  KeepsToBudget(n)
  BY <1>1, AnAnswer, RecallKeepsBudget, ContextKeepsBudget
<1>2. RInv /\ [Next]_vars => [\A n \in Calls : Answers(n) => KeepsToBudget(n)]_vars
  BY <1>1
<1>3. BudgetsKeepTheBest <=> [][\A n \in Calls : Answers(n) => KeepsToBudget(n)]_vars
  BY DEF BudgetsKeepTheBest, KeepsToBudget
<1> QED
  BY <1>2, <1>3, RInitially, RSteps, PTL DEF Spec

(***************************************************************************)
(* The order of the fused rows.                                            *)
(***************************************************************************)
Fuses(n) == call[n].pc = "searching" /\ call'[n].pc = "fused"

\* The searches that found memories.
MemorySearches(c) == {search \in DOMAIN c.found : search[2] # "knowledge"}

\* Of two rows every list has side by side the one is fused before the other,
\* unless only the other is lifted.
OrderKept(c, d) ==
  /\ RowsOf(d.hits) = UNION {RowsOf(c.found[search]) : search \in MemorySearches(c)}
  /\ \A r, q \in RowsOf(d.hits) :
       /\ r # q
       /\ \A search \in MemorySearches(c) : SideBySide(r, q, c.found[search])
       /\ q \in d.lifted => r \in d.lifted
       => Precedes(r, q, d.hits)

\* A call whose rows are fused is fused by this step.
LEMMA AFusion ==
  ASSUME RInv, [Next]_vars, NEW n \in Calls, Fuses(n)
  PROVE  FuseHits(n)
<1>1. call[n].pc = "searching" /\ call'[n].pc = "fused"
  BY DEF Fuses
<1>2. call = [k \in Calls |-> call[k]] /\ call[n] = Fields(call[n])
  BY DEF RInv, IInv, CallsAreRecords
<1>3. ASSUME NEW m \in Calls, CallStep(m)
      PROVE  FuseHits(n)
  <2>1. StepOf(m)
    BY <1>3, CallStepFits
  <2>2. m = n
    BY <1>1, <2>1 DEF StepOf
  <2>3. ~(\/ Begin(n) \/ Expand(n) \/ ExpandFails(n) \/ Answer(n)
          \/ ReadContext(n) \/ AnswerContext(n))
    BY <1>1 DEF Begin, Expand, ExpandFails, Answer, ReadContext, AnswerContext
  <2>4. ~(Search(n) \/ Route(n))
    BY <1>1, <1>2 DEF Search, Route, Fields
  <2>5. ~(Record(n) \/ Log(n) \/ LoseTask(n))
    BY <1>1, <1>2 DEF Record, Log, LoseTask, Fields
  <2>6. ~Fail(n)
    BY <1>1, <1>2 DEF Fail, Idle
  <2> QED
    BY <1>3, <2>2, <2>3, <2>4, <2>5, <2>6 DEF CallStep
<1>4. ASSUME NEW o \in Orders, Report(o)
      PROVE  FALSE
  BY <1>1, <1>4 DEF Report
<1>5. ASSUME NEW r \in Rows, NEW to, Move(r, to)
      PROVE  FALSE
  BY <1>1, <1>2, <1>5 DEF Move, Fields
<1>6. ~UNCHANGED vars
  BY <1>1 DEF vars
<1> QED
  BY <1>3, <1>4, <1>5, <1>6, KindsOfSteps

\* What is fused then.
LEMMA WhatIsFused ==
  ASSUME RInv, NEW n \in Calls, FuseHits(n), call'[n].pc = "fused"
  PROVE  call'[n].hits = Fuse(FoundIn(n, {"private", "org"}), call'[n].lifted)
<1>1. call = [k \in Calls |-> call[k]] /\ call[n] = Fields(call[n])
  BY DEF RInv, IInv, CallsAreRecords
<1> DEFINE c == call[n]
           memory == FoundIn(n, {"private", "org"})
           knowledge == FoundIn(n, {"knowledge"})
           Kept(scored) ==
             IF c.embedded THEN Diversify(At(knowledge, scored))
             ELSE SubSeq(knowledge, 1, Min({MaxDiverse, Len(knowledge)}))
           Follow(fused) == c.embedded /\ fused # <<>>
           Made(fused, kept, boosted) == call' = [call EXCEPT
              ![n].pc = IF Follow(fused) THEN "fused" ELSE "found",
              ![n].found = <<>>,
              ![n].hits = IF Follow(fused) THEN fused ELSE fused \o kept,
              ![n].lifted = IF Follow(fused) THEN boosted ELSE {},
              ![n].chunks = IF Follow(fused) THEN kept ELSE <<>>]
<1>2. PICK boosted \in SUBSET RowsOf(memory) : \E scored \in SUBSET DOMAIN knowledge :
        Made(Fuse(memory, boosted), Kept(scored), boosted)
  BY DEF FuseHits, EntityLinked
<1>3. PICK scored \in SUBSET DOMAIN knowledge :
        Made(Fuse(memory, boosted), Kept(scored), boosted)
  BY <1>2
<1> DEFINE fused == Fuse(memory, boosted)
           kept == Kept(scored)
<1>4. Made(fused, kept, boosted)
  BY <1>3
<1> DEFINE follow == Follow(fused)
           hits == IF follow THEN fused ELSE fused \o kept
           lifted == IF follow THEN boosted ELSE {}
           chunks == IF follow THEN kept ELSE <<>>
           pc == IF follow THEN "fused" ELSE "found"
<1>5. call' = [call EXCEPT ![n].pc = pc, ![n].found = <<>>, ![n].hits = hits,
                           ![n].lifted = lifted, ![n].chunks = chunks]
  BY <1>4
<1> HIDE DEF fused, kept, Made, Kept, memory, knowledge, c, follow
<1>6. pc = "fused" <=> follow
  OBVIOUS
<1>7. follow => hits = fused /\ lifted = boosted
  OBVIOUS
<1> HIDE DEF hits, chunks, lifted, pc
<1>8. call'[n].pc = pc /\ call'[n].hits = hits /\ call'[n].lifted = lifted
  BY <1>1, <1>5 DEF Fields
<1>9. follow
  BY <1>6, <1>8
<1> QED
  BY <1>7, <1>8, <1>9 DEF fused, memory

\* It keeps the order of the lists.
LEMMA FusionKeepsOrder ==
  ASSUME RInv, NEW n \in Calls, FuseHits(n), call'[n].pc = "fused"
  PROVE  OrderKept(call[n], call'[n])
<1> DEFINE c == call[n]
           d == call'[n]
           memory == FoundIn(n, {"private", "org"})
<1>1. Fits(c, Requests[n], status) /\ AllFound(n)
  BY DEF RInv, CallsFit, FuseHits
<1>2. d.hits = Fuse(memory, d.lifted)
  BY WhatIsFused
<1>3. \A search \in DOMAIN c.found :
        search[2] # "knowledge" <=> search[2] \in {"private", "org"}
  <2>1. \A search \in DOMAIN c.found : search \in {AllSearches[i] : i \in 1..7}
    <3>1. Asked(n) \in Seq({AllSearches[i] : i \in 1..7})
      BY SearchesMade DEF Asked
    <3>2. DOMAIN c.found = ToSet(Asked(n))
      BY <1>1 DEF AllFound
    <3> QED
      BY <3>1, <3>2 DEF ToSet
  <2>2. \A i \in 1..7 : AllSearches[i][2] \in {"private", "org", "knowledge"}
    BY DEF AllSearches
  <2> QED
    BY <2>1, <2>2
<1>4. PICK lists \in Seq(Seq(HitRecord)) : ListsFound(n, {"private", "org"}, lists)
  BY <1>1, FoundLists
<1>5. /\ \A i \in 1..Len(lists) : \E search \in MemorySearches(c) : lists[i] = c.found[search]
      /\ \A search \in MemorySearches(c) : \E i \in 1..Len(lists) : lists[i] = c.found[search]
  BY <1>3, <1>4 DEF MemorySearches, ListsFound
<1>6. \A search \in DOMAIN c.found : Distinct(c.found[search])
  BY <1>1 DEF Fits, FoundWell
<1>16. memory = FlattenSeq(lists)
  BY <1>4 DEF ListsFound
<1> HIDE DEF c, memory
<1>7. \A i \in 1..Len(lists) : Distinct(lists[i])
  BY <1>5, <1>6 DEF MemorySearches
<1>8. \A hit \in HitRecord : hit.importance \in Nat /\ hit.importance \in Int
  BY DEF HitRecord
<1>9. /\ memory \in Seq(HitRecord)
      /\ ToSet(memory) = UNION {ToSet(lists[i]) : i \in DOMAIN lists}
  BY <1>16, Flattened
<1>10. RowsOf(Fuse(memory, d.lifted)) = RowsOf(memory)
  BY <1>8, <1>9, FuseKeeps
<1>11. RowsOf(memory) = UNION {RowsOf(c.found[search]) : search \in MemorySearches(c)}
  <2>1. \A hits : RowsOf(hits) = {hit.row : hit \in ToSet(hits)}
    BY DEF RowsOf, ToSet
  <2>2. RowsOf(memory) = UNION {RowsOf(lists[i]) : i \in DOMAIN lists}
    BY <1>9, <2>1
  <2>3. DOMAIN lists = 1..Len(lists)
    OBVIOUS
  <2> QED
    BY <1>5, <2>2, <2>3
<1>12. PICK off : Laid(memory, lists, off)
  BY <1>16, FlattenLays
<1>13. DOMAIN memory \subseteq Nat
  BY <1>9
<1>14. ASSUME NEW r \in RowsOf(memory), NEW q \in RowsOf(memory),
              \A search \in MemorySearches(c) : SideBySide(r, q, c.found[search]),
              q \in d.lifted => r \in d.lifted
       PROVE  Precedes(r, q, Fuse(memory, d.lifted))
  <2>1. \A i \in 1..Len(lists) : SideBySide(r, q, lists[i])
    BY <1>5, <1>14
  <2>2. PICK g : Paired(memory, r, q, g)
    BY <1>7, <1>12, <1>13, <2>1, PairedInLists
  <2> QED
    BY <1>8, <1>9, <1>14, <2>2, FusionRespects
<1> HIDE DEF d
<1>15. OrderKept(c, d)
  BY <1>2, <1>10, <1>11, <1>14 DEF OrderKept
<1> QED
  BY <1>15 DEF c, d

\* The fused list has the rows the searches found, and respects their order.
THEOREM FusionKeepsTheOrder == Spec => FusionRespectsLists
<1>1. ASSUME RInv, [Next]_vars, NEW n \in Calls, Fuses(n)
      PROVE  OrderKept(call[n], call'[n])
  BY <1>1, AFusion, FusionKeepsOrder DEF Fuses
<1>2. RInv /\ [Next]_vars =>
        [\A n \in Calls : Fuses(n) => OrderKept(call[n], call'[n])]_vars
  BY <1>1
<1>3. [][\A n \in Calls : Fuses(n) => OrderKept(call[n], call'[n])]_vars
        <=> FusionRespectsLists
  BY DEF FusionRespectsLists, Fuses, OrderKept, MemorySearches, SideBySide, Precedes
<1> QED
  BY <1>2, <1>3, RInitially, RSteps, PTL DEF Spec
=============================================================================
