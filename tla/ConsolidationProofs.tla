------------------------ MODULE ConsolidationProofs ------------------------
(***************************************************************************)
(* Theorems about Consolidation, for any number of overlapping             *)
(* reflections and any bounds.                                             *)
(***************************************************************************)
EXTENDS Consolidation, FiniteSetTheorems, TLAPS

USE DEF Unknown, RowId, Pc

(***************************************************************************)
(* The inductive invariant.                                                *)
(***************************************************************************)
\* Row ids are handed out in order: every row with a record is old.
IdsAreOld == \A r \in Reflected : r \in 1..lastRow

\* What a session was shown was once inserted, its answer names only rows it
\* was shown or ids it invented, and before the answer there is none.
SessionsRooted ==
  \A s \in Sessions :
    /\ session[s].pc \in {"none", "due", "asked"}
         => session[s].answer = NoAnswer /\ ~session[s].prune
    /\ session[s].shown \subseteq Reflected
    /\ \A i \in DOMAIN session[s].answer :
         session[s].answer[i].id \in session[s].shown \cup {Unknown}

\* A session that may prune although its answer keeps nothing has found no
\* consolidated row, so none of the rows it was shown is consolidated.
EmptyPruneFindsNothing ==
  \A s \in Sessions :
    /\ session[s].pc = "selected" /\ ~session[s].prune => session[s].targets = {}
    /\ session[s].prune /\ ActivePos(session[s].answer) = {}
         => session[s].shown \cap consolidated = {}

IInv ==
  /\ TypeOK
  /\ counter <= remembered
  /\ recent + older <= MaxMemories
  /\ HistoryExplainsTable
  /\ IdsAreOld
  /\ LineageRooted
  /\ SessionsRooted
  /\ EmptyPruneFindsNothing

(***************************************************************************)
(* Lemmas about the operators.                                             *)
(***************************************************************************)
\* An answer names ids it was given, and its items are 1, 2, ...
LEMMA AnswerShape ==
  ASSUME NEW ids \in SUBSET RowId, NEW a \in Answers(ids)
  PROVE  /\ a \in Answers(RowId)
         /\ DOMAIN a \subseteq Nat \ {0}
         /\ \A i \in DOMAIN a : a[i].id \in ids \cup {Unknown}
<1>1. PICK n \in 1..MaxItems :
        a \in {b \in [1..n -> Item(ids)] : \A i \in 1..n : b[i].content <= i}
  BY DEF Answers
<1>2. DOMAIN a = 1..n /\ \A i \in 1..n : a[i] \in Item(ids)
  BY <1>1
<1>3. Item(ids) \subseteq Item(RowId) /\ \A x \in Item(ids) : x.id \in ids \cup {Unknown}
  BY DEF Item
<1>4. a \in [1..n -> Item(RowId)]
  BY <1>1, <1>2, <1>3
<1>5. a \in Answers(RowId)
  BY <1>1, <1>4 DEF Answers
<1>6. DOMAIN a \subseteq Nat \ {0}
  BY <1>2, <1>1, ConsolidationAssumption DEF ConsolidationAssumption
<1>7. QED
  BY <1>2, <1>3, <1>5, <1>6

\* The empty sequence a session starts with names nothing.
LEMMA NoAnswerShape == DOMAIN NoAnswer = {}
  BY DEF NoAnswer

\* In every state the answers of the sessions have that shape.
LEMMA SessionAnswers ==
  ASSUME TypeOK, NEW s \in Sessions
  PROVE  /\ session[s] \in SessionState
         /\ DOMAIN session[s].answer \subseteq Nat \ {0}
         /\ \A i \in DOMAIN session[s].answer : session[s].answer[i].id \in 0..MaxRows
<1>1. session[s] \in SessionState
  BY DEF TypeOK
<1>2. session[s].answer = NoAnswer \/ session[s].answer \in Answers(RowId)
  BY <1>1 DEF SessionState
<1>3. CASE session[s].answer = NoAnswer
  BY <1>1, <1>3, NoAnswerShape
<1>4. CASE session[s].answer \in Answers(RowId)
  <2>1. \A i \in DOMAIN session[s].answer : session[s].answer[i].id \in RowId \cup {Unknown}
    BY <1>4, AnswerShape
  <2>2. RowId \cup {Unknown} \subseteq 0..MaxRows
    BY ConsolidationAssumption DEF ConsolidationAssumption
  <2>3. QED
    BY <1>1, <1>4, <2>1, <2>2, AnswerShape
<1>5. QED
  BY <1>2, <1>3, <1>4

\* A commit adds records for exactly the new rows, and new rows are new.
LEMMA CommitRecords ==
  ASSUME TypeOK, NEW s \in Sessions, Commit(s)
  PROVE  LET new == NewRows(session[s].answer)
         IN /\ Reflected' = Reflected \cup new
            /\ Forgotten' = Forgotten
            /\ \A r \in new : r \in RowId /\ r > lastRow
            /\ lastRow' \in 0..MaxRows /\ lastRow' >= lastRow
            /\ \A r \in new : r <= lastRow'
<1> DEFINE a == session[s].answer
           new == NewRows(a)
           added == {Record("reflect", NewRow(i), ParentOf(a, i)) : i \in Written(a)}
<1>1. /\ new \subseteq RowId
      /\ history' = history \cup added
      /\ lastRow' \in new \cup {lastRow}
      /\ \A r \in new : r <= lastRow'
  BY DEF Commit
<1>2. \A h \in added : h.op = "reflect" /\ h.id \in new
  BY DEF Record, NewRows
<1>3. \A r \in new : \E h \in added : h.op = "reflect" /\ h.id = r
  <2>1. SUFFICES ASSUME NEW i \in Written(a)
                 PROVE  \E h \in added : h.op = "reflect" /\ h.id = NewRow(i)
    BY DEF NewRows
  <2>2. Record("reflect", NewRow(i), ParentOf(a, i)) \in added
    OBVIOUS
  <2>3. QED
    BY <2>2 DEF Record
<1>4. Reflected' = Reflected \cup new
  BY <1>1, <1>2, <1>3 DEF Reflected
<1>5. Forgotten' = Forgotten
  BY <1>1, <1>2 DEF Forgotten
<1>6. \A r \in new : r > lastRow
  <2>1. Written(a) \subseteq Nat \ {0}
    BY SessionAnswers DEF Written
  <2>2. QED
    BY <2>1 DEF NewRows, NewRow, TypeOK
<1>7. lastRow \in 0..MaxRows
  BY DEF TypeOK
<1>8. QED
  BY <1>1, <1>4, <1>5, <1>6, <1>7, ConsolidationAssumption DEF ConsolidationAssumption

\* forget adds one record and leaves those of the reflections alone.
LEMMA ForgetRecords ==
  ASSUME NEW r \in stored, Forget(r)
  PROVE  Reflected' = Reflected /\ Forgotten' = Forgotten \cup {r}
<1> DEFINE f == Record("forget", r, Unknown)
<1>1. history' = history \cup {f} /\ f.op = "forget" /\ f.id = r
  BY DEF Forget, Record
<1> HIDE DEF f
<1>2. Reflected' = Reflected
  BY <1>1 DEF Reflected
<1>3. Forgotten' = Forgotten \cup {r}
  BY <1>1 DEF Forgotten
<1>4. QED
  BY <1>2, <1>3

(***************************************************************************)
(* The inductive invariant holds at first and every step preserves it.     *)
(***************************************************************************)
\* The part of the invariant about one session's local variables.
Rooted(t) ==
  /\ t.pc \in {"none", "due", "asked"} => t.answer = NoAnswer /\ ~t.prune
  /\ t.shown \subseteq Reflected
  /\ \A i \in DOMAIN t.answer : t.answer[i].id \in t.shown \cup {Unknown}
  /\ t.pc = "selected" /\ ~t.prune => t.targets = {}
  /\ t.prune /\ ActivePos(t.answer) = {} => t.shown \cap consolidated = {}

\* The two parts of the invariant about sessions, session by session.
LEMMA SessionsAreRooted ==
  (SessionsRooted /\ EmptyPruneFindsNothing) <=> \A s \in Sessions : Rooted(session[s])
  BY DEF SessionsRooted, EmptyPruneFindsNothing, Rooted

\* A session that has not begun satisfies its part of the invariant.
LEMMA NoSessionRooted == NoSession \in SessionState /\ Rooted(NoSession)
<1>1. NoSession \in SessionState
  BY ConsolidationAssumption DEF NoSession, SessionState, ConsolidationAssumption
<1>2. Rooted(NoSession)
  BY NoAnswerShape DEF NoSession, Rooted
<1>3. QED
  BY <1>1, <1>2

\* A newly provisioned agent satisfies the invariant.
LEMMA InitIInv == Init => IInv
<1> SUFFICES ASSUME Init PROVE IInv
  OBVIOUS
<1>1. TypeOK
  <2>1. session \in [Sessions -> SessionState]
    BY NoSessionRooted DEF Init
  <2>2. 0 \in 0..MaxRows /\ 0 \in 0..MaxRemembered /\ 0 \in 0..MaxMemories
    BY ConsolidationAssumption DEF ConsolidationAssumption
  <2>3. QED
    BY <2>1, <2>2 DEF Init, TypeOK
<1>2. Reflected = {} /\ Forgotten = {}
  BY DEF Init, Reflected, Forgotten
<1>3. HistoryExplainsTable /\ IdsAreOld /\ LineageRooted
  BY <1>2 DEF Init, HistoryExplainsTable, IdsAreOld, LineageRooted
<1>4. SessionsRooted /\ EmptyPruneFindsNothing
  BY NoSessionRooted, SessionsAreRooted DEF Init
<1>5. QED
  BY <1>1, <1>3, <1>4, ConsolidationAssumption DEF IInv, Init, ConsolidationAssumption

\* A step of one session that leaves the tables alone preserves the invariant
\* when what it leaves in the session's variables satisfies it.
LEMMA SessionStep ==
  ASSUME IInv, NEW s \in Sessions, UNCHANGED <<rowVars, agentVars>>,
         NEW t \in SessionState, Rooted(t), session' = [session EXCEPT ![s] = t]
  PROVE  IInv'
<1>1. TypeOK'
  BY DEF IInv, TypeOK, rowVars, agentVars
<1>2. Reflected' = Reflected /\ Forgotten' = Forgotten
  BY DEF rowVars, Reflected, Forgotten
<1>3. HistoryExplainsTable' /\ IdsAreOld' /\ LineageRooted'
  BY <1>2 DEF IInv, rowVars, HistoryExplainsTable, IdsAreOld, LineageRooted
<1>4. \A u \in Sessions : session'[u] = IF u = s THEN t ELSE session[u]
  BY DEF IInv, TypeOK
<1>5. \A u \in Sessions : Rooted(session[u])
  BY SessionsAreRooted DEF IInv
<1>6. consolidated' = consolidated
  BY DEF rowVars
<1>7. SessionsRooted'
  BY <1>2, <1>4, <1>5 DEF SessionsRooted, Rooted
<1>8. EmptyPruneFindsNothing'
  BY <1>4, <1>5, <1>6 DEF EmptyPruneFindsNothing, Rooted
<1>9. QED
  BY <1>1, <1>3, <1>7, <1>8 DEF IInv, agentVars

\* The idle trigger selects the agent.
LEMMA TriggerIInv ==
  ASSUME IInv, NEW s \in Sessions, Trigger(s)
  PROVE  IInv'
<1> DEFINE t == [session[s] EXCEPT !.pc = "due"]
<1>1. session[s] \in SessionState /\ Rooted(session[s])
  BY SessionsAreRooted DEF IInv, TypeOK
<1>2. t \in SessionState /\ Rooted(t)
  BY <1>1 DEF SessionState, Rooted, Trigger
<1>3. session' = [session EXCEPT ![s] = t]
  BY DEF Trigger
<1>4. QED
  BY <1>2, <1>3, SessionStep DEF Trigger

\* A reflection ends without having written.
LEMMA FailIInv ==
  ASSUME IInv, NEW s \in Sessions, Fail(s)
  PROVE  IInv'
  BY NoSessionRooted, SessionStep DEF Fail

\* The trigger leaves an agent that has nothing recent.
LEMMA ReturnEarlyIInv ==
  ASSUME IInv, NEW s \in Sessions, ReturnEarly(s)
  PROVE  IInv'
  BY NoSessionRooted, SessionStep DEF ReturnEarly

\* The read transaction shows the session rows that have a record.
LEMMA ReadIInv ==
  ASSUME IInv, NEW s \in Sessions, Read(s)
  PROVE  IInv'
<1> DEFINE t == [session[s] EXCEPT !.pc = "asked", !.shown = Existing, !.seen = remembered]
<1>1. session[s] \in SessionState /\ Rooted(session[s])
  BY SessionsAreRooted DEF IInv, TypeOK
<1>2. t \in SessionState
  BY <1>1 DEF SessionState, IInv, TypeOK, Existing
<1>3. consolidated \subseteq Reflected
  BY DEF IInv, HistoryExplainsTable
<1>4. Rooted(t)
  BY <1>1, <1>3, NoAnswerShape DEF SessionState, Rooted, Existing, Read
<1>5. session' = [session EXCEPT ![s] = t]
  BY DEF Read
<1>6. QED
  BY <1>2, <1>4, <1>5, SessionStep DEF Read

\* The answer names what was shown, and the guard counts what can be pruned.
LEMMA AnswerIInv ==
  ASSUME IInv, NEW s \in Sessions, Answer(s)
  PROVE  IInv'
<1>1. PICK a \in Answers(session[s].shown) :
        session' = [session EXCEPT ![s].pc = "checked",
                                   ![s].answer = a,
                                   ![s].prune = session[s].shown # {} /\ PruneSafe(a)]
  BY DEF Answer
<1> DEFINE p == session[s].shown # {} /\ PruneSafe(a)
           t == [session[s] EXCEPT !.pc = "checked", !.answer = a, !.prune = p]
<1>2. session[s] \in SessionState /\ Rooted(session[s])
  BY SessionsAreRooted DEF IInv, TypeOK
<1>3. session[s].shown \in SUBSET RowId
  BY <1>2 DEF SessionState
<1>4. a \in Answers(RowId) /\ \A i \in DOMAIN a : a[i].id \in session[s].shown \cup {Unknown}
  BY <1>3, AnswerShape
<1>5. p \in BOOLEAN
  OBVIOUS
<1>6. p /\ ActivePos(a) = {} => consolidated = {}
  BY DEF PruneSafe, Countable, IInv, HistoryExplainsTable
<1> HIDE DEF p
<1>7. t \in SessionState
  BY <1>2, <1>4, <1>5 DEF SessionState
<1>8. Rooted(t)
  BY <1>2, <1>4, <1>6 DEF SessionState, Rooted
<1>9. session' = [session EXCEPT ![s] = t]
  BY <1>1 DEF p
<1>10. QED
  BY <1>7, <1>8, <1>9, SessionStep DEF Answer

\* The prune statement selects rows only when the guard allowed it.
LEMMA SelectPruneIInv ==
  ASSUME IInv, NEW s \in Sessions, SelectPrune(s)
  PROVE  IInv'
<1> DEFINE g == IF session[s].prune THEN Prunable(s) ELSE {}
           t == [session[s] EXCEPT !.pc = "selected", !.targets = g]
<1>1. session[s] \in SessionState /\ Rooted(session[s])
  BY SessionsAreRooted DEF IInv, TypeOK
<1>2. g \subseteq RowId
  BY DEF IInv, TypeOK, Prunable
<1>3. t \in SessionState
  BY <1>1, <1>2 DEF SessionState
<1>4. Rooted(t)
  BY <1>1 DEF SessionState, Rooted
<1>5. session' = [session EXCEPT ![s] = t]
  BY DEF SelectPrune
<1>6. QED
  BY <1>3, <1>4, <1>5, SessionStep DEF SelectPrune

\* A step that leaves the tables and the sessions alone preserves the
\* invariant when it keeps the counter within what was remembered and the
\* memories within their bound.
LEMMA AgentStep ==
  ASSUME IInv, UNCHANGED <<rowVars, session>>,
         counter' \in 0..MaxRemembered, idle' \in BOOLEAN,
         remembered' \in 0..MaxRemembered, reflected' = reflected,
         recent' \in 0..MaxMemories, older' \in 0..MaxMemories,
         counter' <= remembered', recent' + older' <= MaxMemories
  PROVE  IInv'
<1>1. TypeOK'
  BY DEF IInv, TypeOK, rowVars
<1>2. Reflected' = Reflected /\ Forgotten' = Forgotten
  BY DEF rowVars, Reflected, Forgotten
<1>3. HistoryExplainsTable' /\ IdsAreOld' /\ LineageRooted'
  BY <1>2 DEF IInv, rowVars, HistoryExplainsTable, IdsAreOld, LineageRooted
<1>4. SessionsRooted' /\ EmptyPruneFindsNothing'
  BY <1>2 DEF IInv, rowVars, SessionsRooted, EmptyPruneFindsNothing
<1>5. QED
  BY <1>1, <1>3, <1>4 DEF IInv

\* remember adds the same number to the counter and to what was remembered.
LEMMA RememberIInv ==
  ASSUME IInv, NEW n \in 1..MaxBatch, NEW k \in 0..n, Remember(n, k)
  PROVE  IInv'
<1>1. /\ remembered' = remembered + k /\ remembered + k <= MaxRemembered
      /\ counter' = counter + k /\ idle' = (idle /\ k = 0)
      /\ recent' = recent + n /\ older' = older /\ recent + older + n <= MaxMemories
      /\ UNCHANGED <<rowVars, reflected, session>>
  BY DEF Remember, rowVars
<1>2. n \in Nat /\ k \in Nat /\ MaxMemories \in Nat /\ MaxRemembered \in Nat
  BY ConsolidationAssumption DEF ConsolidationAssumption
<1>3. /\ counter' \in 0..MaxRemembered /\ counter' <= remembered'
      /\ remembered' \in 0..MaxRemembered
  BY <1>1, <1>2 DEF IInv, TypeOK
<1>4. recent' \in 0..MaxMemories /\ older' \in 0..MaxMemories /\ recent' + older' <= MaxMemories
  BY <1>1, <1>2 DEF IInv, TypeOK
<1>5. idle' \in BOOLEAN
  BY <1>1
<1>6. QED
  BY <1>1, <1>3, <1>4, <1>5, AgentStep

\* Time passes, and forget deletes memories: the counter stays as it is.
LEMMA TimeIInv ==
  ASSUME IInv, Age \/ ForgetMemory \/ BecomeIdle
  PROVE  IInv'
<1>1. /\ counter' = counter /\ remembered' = remembered /\ reflected' = reflected
      /\ idle' \in BOOLEAN /\ UNCHANGED <<rowVars, session>>
  BY DEF Age, ForgetMemory, BecomeIdle, IInv, TypeOK
<1>2. counter' \in 0..MaxRemembered /\ counter' <= remembered' /\ remembered' \in 0..MaxRemembered
  BY <1>1 DEF IInv, TypeOK
<1>3. recent' \in 0..MaxMemories /\ older' \in 0..MaxMemories /\ recent' + older' <= MaxMemories
  BY ConsolidationAssumption DEF Age, ForgetMemory, BecomeIdle, IInv, TypeOK, ConsolidationAssumption
<1>4. QED
  BY <1>1, <1>2, <1>3, AgentStep

\* forget deletes one row and records it.
LEMMA ForgetIInv ==
  ASSUME IInv, NEW r \in stored, Forget(r)
  PROVE  IInv'
<1>1. /\ stored' = stored \ {r} /\ consolidated' = consolidated \ {r}
      /\ closed' = closed \ {r}
      /\ history' = history \cup {Record("forget", r, Unknown)}
      /\ UNCHANGED <<lastRow, agentVars, session>>
  BY DEF Forget
<1>2. Reflected' = Reflected /\ Forgotten' = Forgotten \cup {r}
  BY ForgetRecords
<1>3. Record("forget", r, Unknown) \in [op : {"reflect", "forget"}, id : RowId, parent : 0..MaxRows]
  BY ConsolidationAssumption DEF Record, ConsolidationAssumption, IInv, TypeOK
<1>4. TypeOK'
  BY <1>1, <1>3 DEF IInv, TypeOK, agentVars
<1>5. HistoryExplainsTable'
  BY <1>1, <1>2 DEF IInv, HistoryExplainsTable
<1>6. IdsAreOld'
  BY <1>1, <1>2 DEF IInv, IdsAreOld
<1>7. LineageRooted'
  <2>1. Record("forget", r, Unknown).op = "forget"
    BY DEF Record
  <2>2. QED
    BY <1>1, <1>2, <2>1 DEF IInv, LineageRooted
<1>8. SessionsRooted'
  BY <1>1, <1>2 DEF IInv, SessionsRooted
<1>9. EmptyPruneFindsNothing'
  BY <1>1 DEF IInv, EmptyPruneFindsNothing
<1>10. counter' <= remembered' /\ recent' + older' <= MaxMemories
  BY <1>1 DEF IInv, agentVars
<1>11. QED
  BY <1>4, <1>5, <1>6, <1>7, <1>8, <1>9, <1>10 DEF IInv

\* The write transaction commits: the one step that touches every table.
LEMMA CommitIInv ==
  ASSUME IInv, NEW s \in Sessions, Commit(s)
  PROVE  IInv'
<1> DEFINE a == session[s].answer
           new == NewRows(a)
           added == {Record("reflect", NewRow(i), ParentOf(a, i)) : i \in Written(a)}
<1>1. /\ stored' = stored \cup new
      /\ consolidated' = (consolidated \ (Pruned(s) \cup Replaced(a))) \cup new
      /\ closed' = closed \cup Pruned(s)
      /\ history' = history \cup added
      /\ counter' = Discharge(counter) /\ idle' = FALSE
      /\ reflected' = IF session[s].seen > reflected THEN session[s].seen ELSE reflected
      /\ session' = [session EXCEPT ![s] = NoSession]
      /\ UNCHANGED <<recent, older, remembered>>
  BY DEF Commit
<1>2. /\ Reflected' = Reflected \cup new /\ Forgotten' = Forgotten
      /\ \A r \in new : r \in RowId /\ r > lastRow /\ r <= lastRow'
      /\ lastRow' \in 0..MaxRows /\ lastRow' >= lastRow
  BY CommitRecords DEF IInv
<1>3. lastRow \in 0..MaxRows /\ Pruned(s) \subseteq consolidated
  BY DEF IInv, TypeOK, Pruned
<1>4. session[s] \in SessionState /\ Rooted(session[s])
  BY SessionsAreRooted DEF IInv, TypeOK
<1>5. \A h \in added : /\ h \in [op : {"reflect", "forget"}, id : RowId, parent : 0..MaxRows]
                        /\ h.id > lastRow
                        /\ h.parent \in Reflected \cup {Unknown}
  <2>1. SUFFICES ASSUME NEW i \in Written(a)
                 PROVE  LET h == Record("reflect", NewRow(i), ParentOf(a, i))
                        IN /\ h \in [op : {"reflect", "forget"}, id : RowId, parent : 0..MaxRows]
                           /\ h.id > lastRow
                           /\ h.parent \in Reflected \cup {Unknown}
    OBVIOUS
  <2>2. i \in DOMAIN a /\ a[i].id \in 0..MaxRows
    BY SessionAnswers DEF IInv, Written
  <2>3. a[i].id \in Reflected \cup {Unknown}
    BY <1>4, <2>2 DEF Rooted
  <2>4. NewRow(i) \in new
    BY DEF NewRows
  <2>5. QED
    BY <1>2, <2>2, <2>3, <2>4 DEF Record, ParentOf
<1>6. Discharge(counter) \in 0..MaxRemembered /\ Discharge(counter) <= remembered
  BY ConsolidationAssumption DEF Discharge, IInv, TypeOK, ConsolidationAssumption
<1> HIDE DEF a, new, added
<1>7. session' \in [Sessions -> SessionState]
  BY <1>1, NoSessionRooted DEF IInv, TypeOK
<1>8. TypeOK'
  <2>1. reflected' \in 0..MaxRemembered
    BY <1>1, <1>4 DEF IInv, TypeOK, SessionState
  <2>2. QED
    BY <1>1, <1>2, <1>3, <1>5, <1>6, <1>7, <2>1 DEF IInv, TypeOK
<1>9. HistoryExplainsTable'
  <2>1. new \cap Reflected = {}
    BY <1>2, <1>3 DEF IInv, IdsAreOld
  <2>2. stored' = Reflected' \ Forgotten' /\ Forgotten' \subseteq Reflected'
    BY <1>1, <1>2, <2>1 DEF IInv, HistoryExplainsTable
  <2>3. consolidated' \subseteq stored' /\ closed' \subseteq stored'
    BY <1>1, <1>3 DEF IInv, HistoryExplainsTable
  <2>4. consolidated' \cap closed' = {}
    BY <1>1, <1>3, <2>1 DEF IInv, HistoryExplainsTable
  <2>5. QED
    BY <2>2, <2>3, <2>4 DEF HistoryExplainsTable
<1>10. IdsAreOld'
  <2>1. SUFFICES ASSUME NEW r \in Reflected \cup new
                 PROVE  r \in 1..lastRow'
    BY <1>2 DEF IdsAreOld
  <2>2. QED
    BY <1>2, <1>3, <2>1 DEF IInv, IdsAreOld
<1>11. LineageRooted'
  <2>1. SUFFICES ASSUME NEW h \in history', h.op = "reflect", h.parent # Unknown
                 PROVE  h.parent \in Reflected' /\ h.parent < h.id
    BY DEF LineageRooted
  <2>2. CASE h \in history
    BY <1>2, <2>1, <2>2 DEF IInv, LineageRooted
  <2>3. CASE h \in added
    <3>1. h.parent \in Reflected /\ h.id > lastRow
      BY <1>5, <2>1, <2>3
    <3>2. h.parent <= lastRow
      BY <3>1 DEF IInv, IdsAreOld
    <3>3. h.parent \in Nat /\ h.id \in Nat
      BY <1>5, <2>3, ConsolidationAssumption DEF ConsolidationAssumption
    <3>4. QED
      BY <1>2, <1>3, <3>1, <3>2, <3>3
  <2>4. QED
    BY <1>1, <2>1, <2>2, <2>3
<1>12. \A u \in Sessions : session'[u] = IF u = s THEN NoSession ELSE session[u]
  BY <1>1 DEF IInv, TypeOK
<1>13. \A u \in Sessions : Rooted(session[u])
  BY SessionsAreRooted DEF IInv
<1>14. SessionsRooted'
  BY <1>2, <1>12, <1>13, NoSessionRooted DEF SessionsRooted, Rooted
<1>15. EmptyPruneFindsNothing'
  <2>1. SUFFICES ASSUME NEW u \in Sessions, u # s
                 PROVE  session[u].shown \cap consolidated = {}
                          => session[u].shown \cap consolidated' = {}
    BY <1>12, <1>13, NoSessionRooted DEF EmptyPruneFindsNothing, Rooted, NoSession
  <2>2. session[u].shown \subseteq Reflected
    BY <1>13 DEF Rooted
  <2>3. session[u].shown \cap new = {}
    BY <1>2, <1>3, <2>2 DEF IInv, IdsAreOld
  <2>4. QED
    BY <1>1, <2>3
<1>16. QED
  BY <1>1, <1>6, <1>8, <1>9, <1>10, <1>11, <1>14, <1>15 DEF IInv

\* Every step preserves the invariant.
LEMMA NextIInv == IInv /\ [Next]_vars => IInv'
<1> SUFFICES ASSUME IInv, [Next]_vars PROVE IInv'
  OBVIOUS
<1>1. CASE \E n \in 1..MaxBatch : \E k \in 0..n : Remember(n, k)
  BY <1>1, RememberIInv
<1>2. CASE Age \/ ForgetMemory \/ BecomeIdle
  BY <1>2, TimeIInv
<1>3. CASE \E r \in stored : Forget(r)
  BY <1>3, ForgetIInv
<1>4. ASSUME NEW s \in Sessions,
             Trigger(s) \/ ReturnEarly(s) \/ Read(s) \/ Answer(s) \/ SelectPrune(s)
               \/ Commit(s) \/ Fail(s)
      PROVE  IInv'
  BY <1>4, TriggerIInv, ReturnEarlyIInv, ReadIInv, AnswerIInv, SelectPruneIInv, CommitIInv, FailIInv
<1>5. CASE UNCHANGED vars
  <2>1. UNCHANGED <<rowVars, session>> /\ UNCHANGED agentVars
    BY <1>5 DEF vars, rowVars, agentVars
  <2>2. QED
    BY <2>1, AgentStep DEF IInv, TypeOK, agentVars
<1>6. QED
  BY <1>1, <1>2, <1>3, <1>4, <1>5 DEF Next

\* The invariant holds in every reachable state.
LEMMA Invariance == Spec => []IInv
  BY InitIInv, NextIInv, PTL DEF Spec

(***************************************************************************)
(* What the invariant says about the program.                              *)
(***************************************************************************)
\* Every variable keeps its type: in particular reflection_counter is never
\* negative, however many reflections discharge it at the same time.
THEOREM TypeCorrect == Spec => []TypeOK
  BY Invariance, PTL DEF IInv

\* memory_history explains the table: the rows stored are those with a
\* 'reflect' and without a 'forget' record.
THEOREM AuditTrail == Spec => []HistoryExplainsTable
  BY Invariance, PTL DEF IInv

\* Every parent_id that is not invented by the model is an older row of the
\* agent's audit trail.
THEOREM Lineage == Spec => []LineageRooted
  BY Invariance, PTL DEF IInv

\* An answer that keeps nothing never closes a row its prompt showed, with any
\* number of sessions between the guard and the prune.
THEOREM EmptyAnswerIsHarmless == Spec => EmptyAnswerSparesShown
<1> DEFINE Harmless ==
      \A s \in Sessions :
        Ends(s) /\ ActivePos(session[s].answer) = {}
          => NewlyClosed \cap session[s].shown = {}
<1>1. IInv /\ [Next]_vars => [Harmless]_vars
  <2> SUFFICES ASSUME IInv, Next, NEW s \in Sessions,
                      Ends(s), ActivePos(session[s].answer) = {}
               PROVE  NewlyClosed \cap session[s].shown = {}
    OBVIOUS
  <2>1. closed' \subseteq closed \/ \E u \in Sessions : Commit(u)
    BY DEF Next, Remember, Age, ForgetMemory, BecomeIdle, Forget, Trigger, ReturnEarly, Read,
           Answer, SelectPrune, Fail, rowVars
  <2>2. CASE closed' \subseteq closed
    BY <2>2 DEF NewlyClosed
  <2>3. ASSUME NEW u \in Sessions, Commit(u)
        PROVE  NewlyClosed \cap session[s].shown = {}
    <3>1. u = s
      BY <2>3 DEF Commit, Ends, IInv, TypeOK
    <3>2. NewlyClosed \subseteq session[s].targets \cap consolidated
      BY <2>3, <3>1 DEF Commit, NewlyClosed, Pruned
    <3>3. CASE session[s].prune
      BY <3>2, <3>3 DEF IInv, EmptyPruneFindsNothing
    <3>4. CASE ~session[s].prune
      BY <3>2, <3>4 DEF IInv, EmptyPruneFindsNothing, Ends
    <3>5. QED
      BY <3>3, <3>4
  <2>4. QED
    BY <2>1, <2>2, <2>3
<1>2. QED
  BY <1>1, Invariance, PTL DEF Spec, EmptyAnswerSparesShown

(***************************************************************************)
(* Consolidation implements RowLifecycle.                                  *)
(***************************************************************************)
\* A step that changes neither the tables nor the audit trail is a stutter.
LEMMA StatusUnchanged ==
  ASSUME UNCHANGED rowVars
  PROVE  RowStatus' = RowStatus
  BY DEF rowVars, RowStatus, Forgotten

\* forget is the Forget of RowLifecycle.
LEMMA ForgetRefines ==
  ASSUME IInv, NEW r \in stored, Forget(r)
  PROVE  Lifecycle!Forget(r)
<1>1. /\ stored' = stored \ {r} /\ consolidated' = consolidated \ {r}
      /\ closed' = closed \ {r} /\ Forgotten' = Forgotten \cup {r}
  BY ForgetRecords DEF Forget
<1>2. r \in RowId
  BY DEF IInv, TypeOK
<1>3. RowStatus[r] \in Lifecycle!Present
  BY <1>2 DEF RowStatus, Lifecycle!Present
<1>4. RowStatus' = [RowStatus EXCEPT ![r] = "forgotten"]
  BY <1>1, <1>2 DEF RowStatus
<1>5. QED
  BY <1>3, <1>4 DEF Lifecycle!Forget

\* The commit of a reflection is the Reflect of RowLifecycle.
LEMMA CommitRefines ==
  ASSUME IInv, NEW s \in Sessions, Commit(s)
  PROVE  Lifecycle!Reflect
<1> DEFINE a == session[s].answer
           new == NewRows(a)
<1>1. /\ stored' = stored \cup new
      /\ consolidated' = (consolidated \ (Pruned(s) \cup Replaced(a))) \cup new
      /\ closed' = closed \cup Pruned(s)
  BY DEF Commit
<1>2. Forgotten' = Forgotten /\ \A q \in new : q > lastRow
  BY CommitRecords DEF IInv
<1>3. Pruned(s) \subseteq consolidated
  BY DEF Pruned
<1> HIDE DEF a, new
<1>4. new \cap Reflected = {}
  BY <1>2 DEF IInv, IdsAreOld, TypeOK
<1>5. /\ stored = Reflected \ Forgotten /\ Forgotten \subseteq Reflected
      /\ consolidated \subseteq stored /\ closed \subseteq stored
      /\ consolidated \cap closed = {}
  BY DEF IInv, HistoryExplainsTable
<1>6. ASSUME NEW q \in RowId
      PROVE  RowStatus'[q] = RowStatus[q]
             \/ <<RowStatus[q], RowStatus'[q]>> \in Lifecycle!Consolidate
  <2>1. CASE q \in new
    <3>1. RowStatus[q] = "absent" /\ RowStatus'[q] = "current"
      BY <1>1, <1>4, <1>5, <2>1 DEF RowStatus
    <3>2. QED
      BY <3>1 DEF Lifecycle!Consolidate
  <2>2. CASE q \in consolidated /\ q \notin new
    <3>1. RowStatus[q] = "current" /\ RowStatus'[q] \in {"current", "pruned", "replaced"}
      BY <1>1, <1>5, <2>2 DEF RowStatus
    <3>2. QED
      BY <3>1 DEF Lifecycle!Consolidate
  <2>3. CASE q \notin consolidated /\ q \notin new
    <3>1. /\ q \notin consolidated' /\ (q \in closed' <=> q \in closed)
          /\ (q \in stored' <=> q \in stored)
      BY <1>1, <1>3, <2>3
    <3>2. QED
      BY <1>2, <2>3, <3>1 DEF RowStatus
  <2>4. QED
    BY <2>1, <2>2, <2>3
<1>7. RowStatus' \in [RowId -> Lifecycle!Status]
  BY DEF RowStatus, Lifecycle!Status
<1>8. QED
  BY <1>6, <1>7 DEF Lifecycle!Reflect

\* However many reflections overlap, every row lives the life RowLifecycle
\* states: retired at most once and never current again, and only forget
\* removes it.
THEOREM Refinement == Spec => LifecycleSpec
<1>1. Init => Lifecycle!Init
  BY DEF Init, RowStatus, Forgotten, Lifecycle!Init
<1>2. IInv /\ [Next]_vars => [Lifecycle!Next]_RowStatus
  <2> SUFFICES ASSUME IInv, [Next]_vars PROVE [Lifecycle!Next]_RowStatus
    OBVIOUS
  <2>1. ASSUME NEW r \in stored, Forget(r) PROVE Lifecycle!Next
    BY <2>1, ForgetRefines DEF Lifecycle!Next, IInv, TypeOK
  <2>2. ASSUME NEW s \in Sessions, Commit(s) PROVE Lifecycle!Next
    BY <2>2, CommitRefines DEF Lifecycle!Next
  <2>3. CASE \/ \E n \in 1..MaxBatch : \E k \in 0..n : Remember(n, k)
             \/ Age \/ ForgetMemory \/ BecomeIdle
             \/ \E s \in Sessions :
                  Trigger(s) \/ ReturnEarly(s) \/ Read(s) \/ Answer(s) \/ SelectPrune(s) \/ Fail(s)
             \/ UNCHANGED vars
    <3>1. UNCHANGED rowVars
      BY <2>3 DEF Remember, Age, ForgetMemory, BecomeIdle, Trigger, ReturnEarly, Read, Answer,
         SelectPrune, Fail, vars, rowVars
    <3>2. QED
      BY <3>1, StatusUnchanged
  <2>4. QED
    BY <2>1, <2>2, <2>3 DEF Next
<1>3. QED
  BY <1>1, <1>2, Invariance, PTL DEF Spec, LifecycleSpec, Lifecycle!Spec

(***************************************************************************)
(* One reflection: what it may prune, with any number of others under way, *)
(* and what it is accountable for when it is alone.                        *)
(***************************************************************************)

(***************************************************************************)
(* The 50% guard, with any number of sessions.                             *)
(***************************************************************************)
\* Of the rows its prompt showed, those that are still consolidated.
Left(t) == t.shown \cap consolidated

\* A session that may prune keeps half of what is left of the rows it was
\* shown, and it prunes no row that its answer keeps.
Guarded(t) ==
  /\ t.pc # "selected" => t.targets = {}
  /\ t.targets \cap ActiveIds(t.answer) = {}
  /\ t.prune => \/ Left(t) = {}
                \/ 2 * Cardinality(ActivePos(t.answer)) >= Cardinality(Left(t))

SessionsGuarded == \A s \in Sessions : Guarded(session[s])

\* The sets that are counted are finite.
LEMMA CountedSets ==
  ASSUME TypeOK
  PROVE  /\ IsFiniteSet(consolidated) /\ Cardinality(consolidated) \in Nat
         /\ \A t \in SessionState : /\ IsFiniteSet(ActivePos(t.answer))
                                    /\ Cardinality(ActivePos(t.answer)) \in Nat
<1>1. MaxRows \in Nat /\ MaxItems \in Nat
  BY ConsolidationAssumption DEF ConsolidationAssumption
<1>2. IsFiniteSet(consolidated) /\ Cardinality(consolidated) \in Nat
  <2>1. IsFiniteSet(1..MaxRows)
    BY <1>1, FS_Interval
  <2>2. consolidated \subseteq 1..MaxRows
    BY DEF TypeOK
  <2>3. QED
    BY <2>1, <2>2, FS_Subset, FS_CardinalityType
<1>3. ASSUME NEW a \in {NoAnswer} \cup Answers(RowId)
      PROVE  IsFiniteSet(ActivePos(a)) /\ Cardinality(ActivePos(a)) \in Nat
  <2>1. PICK n \in Nat : DOMAIN a \subseteq 1..n
    <3>1. CASE a = NoAnswer
      BY <3>1, NoAnswerShape
    <3>2. CASE a \in Answers(RowId)
      BY <1>1, <3>2 DEF Answers
    <3>3. QED
      BY <3>1, <3>2
  <2>2. ActivePos(a) \subseteq 1..n
    BY <2>1 DEF ActivePos
  <2>3. IsFiniteSet(1..n)
    BY FS_Interval
  <2>4. QED
    BY <2>2, <2>3, FS_Subset, FS_CardinalityType
<1>4. \A t \in SessionState : t.answer \in {NoAnswer} \cup Answers(RowId)
  BY DEF SessionState
<1>5. QED
  BY <1>2, <1>3, <1>4

\* What is left only shrinks: a row that a session was shown never comes back,
\* and new rows have new ids.
LEMMA LeftShrinks ==
  ASSUME IInv, Next, NEW s \in Sessions
  PROVE  session[s].shown \cap consolidated' \subseteq Left(session[s])
<1>1. CASE consolidated' \subseteq consolidated
  BY <1>1 DEF Left
<1>2. ASSUME NEW u \in Sessions, Commit(u)
      PROVE  session[s].shown \cap consolidated' \subseteq Left(session[s])
  <2>1. \A r \in NewRows(session[u].answer) : r > lastRow
    BY <1>2, CommitRecords DEF IInv
  <2>2. \A r \in session[s].shown : r \in 1..lastRow
    BY DEF IInv, SessionsRooted, IdsAreOld
  <2>3. consolidated' \subseteq consolidated \cup NewRows(session[u].answer)
    BY <1>2 DEF Commit
  <2>4. QED
    BY <2>1, <2>2, <2>3 DEF Left, IInv, TypeOK
<1>3. QED
  BY <1>1, <1>2 DEF Next, Remember, Age, ForgetMemory, BecomeIdle, Forget, Trigger, ReturnEarly,
     Read, Answer, SelectPrune, Fail, rowVars

\* A session that does not move stays guarded.
LEMMA GuardedStays ==
  ASSUME IInv, Next, NEW s \in Sessions, Guarded(session[s]), session'[s] = session[s]
  PROVE  Guarded(session[s])'
<1> DEFINE left == Left(session[s])
           rest == session[s].shown \cap consolidated'
           active == Cardinality(ActivePos(session[s].answer))
<1>1. rest \subseteq left /\ left \subseteq consolidated
  BY LeftShrinks DEF Left
<1>2. /\ Cardinality(rest) <= Cardinality(left)
      /\ Cardinality(rest) \in Nat /\ Cardinality(left) \in Nat /\ active \in Nat
  <2>1. IsFiniteSet(left) /\ active \in Nat
    BY <1>1, CountedSets, FS_Subset DEF IInv, TypeOK
  <2>2. QED
    BY <1>1, <2>1, FS_Subset, FS_CardinalityType
<1>3. Left(session[s])' = rest
  BY DEF Left
<1>4. session[s].prune => left = {} \/ 2 * active >= Cardinality(left)
  BY DEF Guarded
<1> HIDE DEF left, rest, active
<1>5. session[s].prune => rest = {} \/ 2 * active >= Cardinality(rest)
  BY <1>1, <1>2, <1>4
<1>6. QED
  BY <1>3, <1>5 DEF Guarded, active

\* The guard of reflect.py lets a prune through only when the answer keeps half
\* of the consolidated rows.
LEMMA AnswerGuarded ==
  ASSUME IInv, NEW s \in Sessions, Answer(s), Guarded(session[s])
  PROVE  Guarded(session[s])'
<1>1. PICK a \in Answers(session[s].shown) :
        session' = [session EXCEPT ![s].pc = "checked", ![s].answer = a,
                                   ![s].prune = session[s].shown # {} /\ PruneSafe(a)]
  BY DEF Answer
<1>2. session[s].pc = "asked" /\ session[s] \in SessionState /\ session \in [Sessions -> SessionState]
  BY DEF Answer, IInv, TypeOK
<1>3. /\ session'[s].pc = "checked" /\ session'[s].answer = a
      /\ session'[s].shown = session[s].shown /\ session'[s].targets = session[s].targets
      /\ session'[s].prune => PruneSafe(a)
  BY <1>1, <1>2 DEF SessionState
<1>4. consolidated' = consolidated /\ Countable = consolidated
  BY DEF Answer, rowVars, Countable, IInv, HistoryExplainsTable
<1> DEFINE left == session[s].shown \cap consolidated
           active == Cardinality(ActivePos(a))
<1>5. /\ Cardinality(left) <= Cardinality(consolidated) /\ Cardinality(left) \in Nat
      /\ Cardinality(consolidated) \in Nat /\ active \in Nat
  <2>1. /\ IsFiniteSet(left) /\ Cardinality(left) \in Nat /\ Cardinality(consolidated) \in Nat
        /\ Cardinality(left) <= Cardinality(consolidated)
    BY CountedSets, FS_Subset, FS_CardinalityType DEF IInv
  <2>2. [session[s] EXCEPT !.answer = a] \in SessionState
    <3>1. a \in Answers(RowId)
      BY <1>2, AnswerShape DEF SessionState
    <3>2. QED
      BY <1>2, <3>1 DEF SessionState
  <2>3. active \in Nat
    BY <1>2, <2>2, CountedSets DEF IInv, SessionState
  <2>4. QED
    BY <2>1, <2>3
<1>6. Left(session[s])' = left
  BY <1>3, <1>4 DEF Left
<1> HIDE DEF left
<1>7. session'[s].prune => left = {} \/ 2 * active >= Cardinality(left)
  <2>1. PruneSafe(a) => consolidated = {} \/ 2 * active >= Cardinality(consolidated)
    BY <1>4 DEF PruneSafe
  <2> HIDE DEF active
  <2>2. consolidated = {} => left = {}
    BY DEF left
  <2>3. QED
    BY <1>3, <1>5, <2>1, <2>2
<1>8. session'[s].targets = {}
  BY <1>2, <1>3 DEF Guarded
<1>9. QED
  BY <1>3, <1>6, <1>7, <1>8 DEF Guarded

\* The rows a session selects are not those its answer keeps.
LEMMA SelectGuarded ==
  ASSUME IInv, NEW s \in Sessions, SelectPrune(s), Guarded(session[s])
  PROVE  Guarded(session[s])'
<1>1. /\ session[s] \in SessionState /\ consolidated' = consolidated
      /\ session \in [Sessions -> SessionState]
  BY DEF SelectPrune, rowVars, IInv, TypeOK
<1>2. /\ session'[s].answer = session[s].answer /\ session'[s].shown = session[s].shown
      /\ session'[s].prune = session[s].prune /\ session'[s].pc = "selected"
      /\ session'[s].targets \subseteq Prunable(s)
  BY <1>1 DEF SelectPrune, SessionState
<1>3. Left(session[s])' = Left(session[s])
  BY <1>1, <1>2 DEF Left
<1>4. session'[s].targets \cap ActiveIds(session[s].answer) = {}
  BY <1>2 DEF Prunable
<1>5. QED
  BY <1>2, <1>3, <1>4 DEF Guarded

\* No session holds anything at first.
LEMMA GuardedInit == Init => SessionsGuarded
  BY NoAnswerShape DEF Init, SessionsGuarded, Guarded, NoSession

\* Every step preserves it.
LEMMA GuardedNext == IInv /\ SessionsGuarded /\ [Next]_vars => SessionsGuarded'
<1> SUFFICES ASSUME IInv, SessionsGuarded, [Next]_vars, NEW s \in Sessions
             PROVE  Guarded(session[s])'
  BY DEF SessionsGuarded
<1>1. Guarded(session[s]) /\ session \in [Sessions -> SessionState] /\ session[s] \in SessionState
  BY DEF SessionsGuarded, IInv, TypeOK
<1>2. CASE UNCHANGED vars
  BY <1>1, <1>2 DEF vars, Guarded, Left
<1>3. ASSUME Next, session'[s] = session[s] PROVE Guarded(session[s])'
  BY <1>1, <1>3, GuardedStays
<1>4. CASE session'[s] = NoSession
  BY <1>4 DEF NoSession, Guarded, ActivePos, ActiveIds, NoAnswer
<1>5. CASE Trigger(s) \/ Read(s)
  <2>1. session[s].answer = NoAnswer /\ ~session[s].prune
    BY <1>5 DEF Trigger, Read, IInv, SessionsRooted
  <2>2. /\ session'[s].answer = session[s].answer /\ session'[s].prune = session[s].prune
        /\ session'[s].targets = session[s].targets /\ session'[s].pc # "selected"
        /\ session[s].pc # "selected"
    BY <1>1, <1>5 DEF Trigger, Read, SessionState
  <2>3. QED
    BY <1>1, <2>1, <2>2 DEF Guarded
<1>6. CASE Answer(s)
  BY <1>1, <1>6, AnswerGuarded
<1>7. CASE SelectPrune(s)
  BY <1>1, <1>7, SelectGuarded
<1>8. ASSUME NEW u \in Sessions,
             Trigger(u) \/ ReturnEarly(u) \/ Read(u) \/ Answer(u) \/ SelectPrune(u)
               \/ Commit(u) \/ Fail(u)
      PROVE  u = s \/ session'[s] = session[s]
  BY <1>1, <1>8 DEF Trigger, ReturnEarly, Read, Answer, SelectPrune, Commit, Fail
<1>9. ReturnEarly(s) \/ Commit(s) \/ Fail(s) => session'[s] = NoSession
  BY <1>1 DEF ReturnEarly, Commit, Fail
<1>10. ASSUME \/ \E n \in 1..MaxBatch : \E k \in 0..n : Remember(n, k)
              \/ Age \/ ForgetMemory \/ BecomeIdle
              \/ \E r \in stored : Forget(r)
       PROVE  session'[s] = session[s]
  BY <1>10 DEF Remember, Age, ForgetMemory, BecomeIdle, Forget
<1>11. QED
  BY <1>2, <1>3, <1>4, <1>5, <1>6, <1>7, <1>8, <1>9, <1>10 DEF Next

\* It always holds.
LEMMA GuardedInvariance == Spec => []SessionsGuarded
  BY GuardedInit, GuardedNext, Invariance, PTL DEF Spec

\* The step that ends a write transaction closes only rows it had selected.
LEMMA EndStep ==
  ASSUME IInv, Next, NEW s \in Sessions, Ends(s)
  PROVE  NewlyClosed \subseteq session[s].targets \cap consolidated
<1>1. closed' \subseteq closed \/ \E u \in Sessions : Commit(u)
  BY DEF Next, Remember, Age, ForgetMemory, BecomeIdle, Forget, Trigger, ReturnEarly, Read,
           Answer, SelectPrune, Fail, rowVars
<1>2. CASE closed' \subseteq closed
  BY <1>2 DEF NewlyClosed
<1>3. ASSUME NEW u \in Sessions, Commit(u)
      PROVE  NewlyClosed \subseteq session[s].targets \cap consolidated
  <2>1. u = s
    BY <1>3 DEF Commit, Ends, IInv, TypeOK
  <2>2. QED
    BY <1>3, <2>1 DEF Commit, NewlyClosed, Pruned
<1>4. QED
  BY <1>1, <1>2, <1>3

\* When the answer names each row it keeps once, all of them are still
\* consolidated, and no row has been consolidated since the prompt, a prune
\* closes at most half of the consolidated rows: with any number of other
\* reflections and forgets in between.
THEOREM PruneKeepsHalf == Spec => HonestPruneKeepsHalf
<1> DEFINE KeepsHalf ==
      \A s \in Sessions :
        LET a == session[s].answer
        IN (/\ Ends(s)
            /\ ActiveIds(a) \subseteq consolidated
            /\ Cardinality(ActiveIds(a)) = Cardinality(ActivePos(a))
            /\ consolidated \subseteq session[s].shown)
           => 2 * Cardinality(NewlyClosed) <= Cardinality(consolidated)
<1>1. IInv /\ SessionsGuarded /\ [Next]_vars => [KeepsHalf]_vars
  <2> SUFFICES ASSUME IInv, SessionsGuarded, Next, NEW s \in Sessions,
                      Ends(s),
                      ActiveIds(session[s].answer) \subseteq consolidated,
                      Cardinality(ActiveIds(session[s].answer))
                        = Cardinality(ActivePos(session[s].answer)),
                      consolidated \subseteq session[s].shown
               PROVE  2 * Cardinality(NewlyClosed) <= Cardinality(consolidated)
    OBVIOUS
  <2> DEFINE C == consolidated
             A == ActiveIds(session[s].answer)
             N == NewlyClosed
  <2>1. /\ IsFiniteSet(C) /\ Cardinality(C) \in Nat
        /\ N \subseteq C /\ N \subseteq session[s].targets
    BY CountedSets, EndStep DEF IInv
  <2>2. N \cap A = {} /\ A \subseteq C /\ Guarded(session[s])
    BY <2>1 DEF SessionsGuarded, Guarded
  <2>3. Left(session[s]) = C
    BY DEF Left
  <2>4. N # {} => 2 * Cardinality(A) >= Cardinality(C)
    <3>1. SUFFICES ASSUME N # {} PROVE 2 * Cardinality(A) >= Cardinality(C)
      OBVIOUS
    <3>2. session[s].prune
      BY <2>1, <3>1 DEF IInv, EmptyPruneFindsNothing, Ends
    <3>3. QED
      BY <2>1, <2>2, <2>3, <3>1, <3>2 DEF Guarded
  <2> HIDE DEF C, A, N
  <2>5. /\ Cardinality(A) \in Nat /\ Cardinality(N) \in Nat
        /\ Cardinality(C \ A) = Cardinality(C) - Cardinality(A)
        /\ Cardinality(N) <= Cardinality(C \ A)
    <3>1. IsFiniteSet(A) /\ IsFiniteSet(N) /\ IsFiniteSet(C \ A)
      BY <2>1, <2>2, FS_Subset
    <3>2. C \cap A = A /\ N \subseteq C \ A
      BY <2>1, <2>2
    <3>3. Cardinality(C \ A) = Cardinality(C) - Cardinality(C \cap A)
      BY <2>1, FS_Difference
    <3>4. Cardinality(N) <= Cardinality(C \ A)
      BY <3>1, <3>2, FS_Subset
    <3>5. QED
      BY <3>1, <3>2, <3>3, <3>4, FS_CardinalityType
  <2>6. N = {} => Cardinality(N) = 0
    BY FS_EmptySet
  <2>7. 2 * Cardinality(N) <= Cardinality(C)
    BY <2>1, <2>4, <2>5, <2>6
  <2>8. QED
    BY <2>7 DEF C, N
<1>2. QED
  BY <1>1, Invariance, GuardedInvariance, PTL DEF Spec, HonestPruneKeepsHalf

(***************************************************************************)
(* A reflection that is alone.                                             *)
(***************************************************************************)
Alone == \A s, t \in Sessions : s = t

\* A session that is alone was shown all rows that are consolidated.
ShownIsAll ==
  \A s \in Sessions :
    session[s].pc \in {"asked", "checked", "selected"} => consolidated \subseteq session[s].shown

\* Every step preserves it.
LEMMA ShownIsAllNext ==
  ASSUME Alone
  PROVE  IInv /\ ShownIsAll /\ [Next]_vars => ShownIsAll'
<1> SUFFICES ASSUME IInv, ShownIsAll, [Next]_vars, NEW s \in Sessions,
                    session'[s].pc \in {"asked", "checked", "selected"}
             PROVE  consolidated' \subseteq session'[s].shown
  BY DEF ShownIsAll
<1>1. session \in [Sessions -> SessionState] /\ session[s] \in SessionState
  BY DEF IInv, TypeOK
<1>2. CASE session'[s] = session[s] /\ consolidated' \subseteq consolidated
  BY <1>2 DEF ShownIsAll
<1>3. CASE Trigger(s) \/ Read(s) \/ Answer(s) \/ SelectPrune(s)
  <2>1. consolidated' = consolidated
    BY <1>3 DEF Trigger, Read, Answer, SelectPrune, rowVars
  <2>2. CASE Trigger(s)
    BY <1>1, <2>2 DEF Trigger, SessionState
  <2>3. CASE Read(s)
    <3>1. session'[s].shown = consolidated
      BY <1>1, <2>3 DEF Read, Existing, SessionState
    <3>2. QED
      BY <2>1, <3>1
  <2>4. CASE Answer(s)
    <3>1. session'[s].shown = session[s].shown /\ session[s].pc = "asked"
      BY <1>1, <2>4 DEF Answer, SessionState
    <3>2. QED
      BY <2>1, <3>1 DEF ShownIsAll
  <2>5. CASE SelectPrune(s)
    <3>1. session'[s].shown = session[s].shown /\ session[s].pc = "checked"
      BY <1>1, <2>5 DEF SelectPrune, SessionState
    <3>2. QED
      BY <2>1, <3>1 DEF ShownIsAll
  <2>6. QED
    BY <1>3, <2>2, <2>3, <2>4, <2>5
<1>4. CASE ReturnEarly(s) \/ Commit(s) \/ Fail(s)
  BY <1>1, <1>4 DEF ReturnEarly, Commit, Fail, NoSession
<1>5. CASE \/ \E n \in 1..MaxBatch : \E k \in 0..n : Remember(n, k)
           \/ Age \/ ForgetMemory \/ BecomeIdle
           \/ \E r \in stored : Forget(r)
           \/ UNCHANGED vars
  BY <1>2, <1>5 DEF Remember, Age, ForgetMemory, BecomeIdle, Forget, vars, rowVars
<1>6. QED
  BY <1>3, <1>4, <1>5 DEF Next, Alone

\* When reflections of an agent never overlap, what a reflection prunes was in
\* its prompt ("Any existing ID NOT returned will be pruned").
THEOREM PruneIsShown ==
  ASSUME Alone
  PROVE  Spec => PruneOnlyShown
<1> DEFINE OnlyShown == \A s \in Sessions : Ends(s) => NewlyClosed \subseteq session[s].shown
<1>1. Init => ShownIsAll
  BY DEF Init, NoSession, ShownIsAll
<1>2. IInv /\ ShownIsAll /\ [Next]_vars => ShownIsAll'
  BY ShownIsAllNext
<1>3. IInv /\ ShownIsAll /\ [Next]_vars => [OnlyShown]_vars
  BY EndStep DEF ShownIsAll, Ends
<1>4. QED
  BY <1>1, <1>2, <1>3, Invariance, PTL DEF Spec, PruneOnlyShown

\* A session that is alone and was triggered holds a threshold's worth of the
\* counter, beyond the memories remembered since its read.
CounterCovers ==
  /\ LaterMemoriesAreCounted
  /\ \A s \in Sessions :
       /\ session[s].pc = "due" => counter >= Threshold
       /\ session[s].pc \in {"asked", "checked", "selected"}
            => remembered - session[s].seen + Threshold <= counter

\* Every step preserves it.
LEMMA CounterCoversNext ==
  ASSUME Alone, Background = Sessions
  PROVE  IInv /\ CounterCovers /\ [Next]_vars => CounterCovers'
<1> SUFFICES ASSUME IInv, CounterCovers, [Next]_vars PROVE CounterCovers'
  OBVIOUS
<1>1. /\ session \in [Sessions -> SessionState]
      /\ counter \in Nat /\ remembered \in Nat /\ reflected \in Nat
      /\ Threshold \in Nat \ {0} /\ MaxBatch \in Nat
      /\ \A s \in Sessions : session[s].seen \in Nat
  BY ConsolidationAssumption DEF IInv, TypeOK, ConsolidationAssumption, SessionState
<1>2. ASSUME NEW n \in 1..MaxBatch, NEW k \in 0..n, Remember(n, k) PROVE CounterCovers'
  BY <1>1, <1>2 DEF Remember, CounterCovers, LaterMemoriesAreCounted
<1>3. CASE Age \/ ForgetMemory \/ BecomeIdle \/ (\E r \in stored : Forget(r)) \/ UNCHANGED vars
  BY <1>3 DEF Age, ForgetMemory, BecomeIdle, Forget, vars, agentVars, CounterCovers, LaterMemoriesAreCounted
<1>4. ASSUME NEW s \in Sessions,
             Trigger(s) \/ ReturnEarly(s) \/ Read(s) \/ Answer(s) \/ SelectPrune(s)
               \/ Commit(s) \/ Fail(s)
      PROVE  CounterCovers'
  <2>1. \A t \in Sessions : t = s
    BY DEF Alone
  <2>2. CASE Trigger(s)
    BY <1>1, <2>1, <2>2 DEF Trigger, Due, agentVars, CounterCovers, LaterMemoriesAreCounted,
       SessionState
  <2>3. CASE Read(s)
    <3>1. /\ session'[s].pc = "asked" /\ session'[s].seen = remembered
          /\ session[s].pc = "due" /\ UNCHANGED <<counter, remembered, reflected>>
      BY <1>1, <2>3 DEF Read, agentVars, SessionState
    <3>2. counter >= Threshold /\ remembered - reflected <= counter
      BY <3>1 DEF CounterCovers, LaterMemoriesAreCounted
    <3>3. remembered' - session'[s].seen + Threshold <= counter'
      BY <1>1, <3>1, <3>2
    <3>4. \A u \in Sessions : /\ session'[u].pc = "asked"
                             /\ remembered' - session'[u].seen + Threshold <= counter'
      BY <2>1, <3>1, <3>3
    <3>5. remembered' - reflected' <= counter'
      BY <3>1, <3>2
    <3>6. QED
      BY <3>4, <3>5 DEF CounterCovers, LaterMemoriesAreCounted
  <2>4. CASE Answer(s) \/ SelectPrune(s)
    <3>1. /\ session[s].pc \in {"asked", "checked"} /\ session'[s].pc \in {"checked", "selected"}
          /\ session'[s].seen = session[s].seen /\ UNCHANGED <<counter, remembered, reflected>>
      <4>1. CASE Answer(s)
        BY <1>1, <4>1 DEF Answer, agentVars, SessionState
      <4>2. CASE SelectPrune(s)
        BY <1>1, <4>2 DEF SelectPrune, agentVars, SessionState
      <4>3. QED
        BY <2>4, <4>1, <4>2
    <3>2. QED
      BY <2>1, <3>1 DEF CounterCovers, LaterMemoriesAreCounted
  <2>5. CASE ReturnEarly(s) \/ Fail(s)
    BY <1>1, <2>1, <2>5 DEF ReturnEarly, Fail, NoSession, agentVars, CounterCovers, LaterMemoriesAreCounted
  <2>6. CASE Commit(s)
    <3>1. /\ remembered - session[s].seen + Threshold <= counter
          /\ remembered - reflected <= counter
      BY <2>6 DEF Commit, CounterCovers, LaterMemoriesAreCounted
    <3>2. /\ counter' = (IF counter > Threshold THEN counter - Threshold ELSE 0)
          /\ reflected' = (IF session[s].seen > reflected THEN session[s].seen ELSE reflected)
          /\ remembered' = remembered /\ session'[s].pc = "none"
      BY <1>1, <2>6 DEF Commit, Discharge, NoSession
    <3>3. remembered' - reflected' <= counter'
      BY <1>1, <3>1, <3>2
    <3>4. QED
      BY <2>1, <3>2, <3>3 DEF CounterCovers, LaterMemoriesAreCounted
  <2>7. QED
    BY <1>4, <2>2, <2>3, <2>4, <2>5, <2>6
<1>5. QED
  BY <1>2, <1>3, <1>4 DEF Next

\* When only the idle trigger starts reflections, one at a time, what was
\* remembered since the read of the last committed one is all in
\* reflection_counter: a discharge by the threshold never takes away memories
\* that came too late for the prompt, whatever is forgotten or gets old.
THEOREM CounterKeepsLaterMemories ==
  ASSUME Alone, Background = Sessions
  PROVE  Spec => []LaterMemoriesAreCounted
<1>1. Init => CounterCovers
  BY ConsolidationAssumption
     DEF Init, NoSession, CounterCovers, LaterMemoriesAreCounted, ConsolidationAssumption
<1>2. IInv /\ CounterCovers /\ [Next]_vars => CounterCovers'
  BY CounterCoversNext
<1>3. CounterCovers => LaterMemoriesAreCounted
  BY DEF CounterCovers
<1>4. QED
  BY <1>1, <1>2, <1>3, Invariance, PTL DEF Spec
=============================================================================
