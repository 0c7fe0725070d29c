--------------------------- MODULE Consolidation ---------------------------
(***************************************************************************)
(* One agent's private memory under remember, forget and reflection.       *)
(*                                                                         *)
(* A reflection (POST /v1/reflect, or _reflect_agent called by the idle    *)
(* trigger of any worker process) reads the agent's consolidated rows in   *)
(* one transaction, asks the language model with no transaction open, and  *)
(* writes the answer in another transaction at READ COMMITTED.  Nothing    *)
(* stops several reflections of one agent from overlapping, nor remember   *)
(* and forget from committing in between.                                  *)
(*                                                                         *)
(* The write transaction is three steps: the statement that counts the     *)
(* rows for the prune_safe guard, the statement that selects the rows to   *)
(* prune, and everything else, which takes effect at the commit (the rows  *)
(* it updates are locked until then, the rows it inserts are not visible). *)
(*                                                                         *)
(* A row is the mental_model or lesson a reflection inserted; contents     *)
(* matter only for being equal within one answer.  Of the memories the     *)
(* agent remembers, episodic and experiential ones, it matters how many    *)
(* are recent, that is found by the read of a reflection, and how many     *)
(* episodic ones have been counted and read.                               *)
(***************************************************************************)
EXTENDS Integers, FiniteSets

CONSTANTS
  Sessions,       \* reflections that may be under way at the same time
  Background,     \* those run by the idle trigger; the others are requests
  Threshold,      \* settings.reflection_threshold
  MaxItems,       \* bound: items in one answer of the language model
  MaxRows,        \* bound: ids of rows ever inserted
  MaxRemembered,  \* bound: episodic memories ever inserted
  MaxMemories,    \* bound: episodic and experiential memories in the table
  MaxBatch        \* bound: memories in one remember request

ASSUME ConsolidationAssumption ==
  /\ Background \subseteq Sessions
  /\ Threshold \in Nat \ {0}
  /\ MaxItems \in Nat \ {0}
  /\ MaxRows \in Nat
  /\ MaxRemembered \in Nat
  /\ MaxMemories \in Nat
  /\ MaxBatch \in Nat

VARIABLES
  stored,        \* rows in hindsight_memories
  consolidated,  \* rows with is_consolidated = true
  closed,        \* rows with valid_until set
  lastRow,       \* newest row id handed out
  history,       \* memory_history, the 'reflect' and 'forget' records
  counter,       \* qortia_agents.reflection_counter
  idle,          \* updated_at is older than idle_reflection_window_h
  recent,        \* how many memories the read of a reflection finds
  older,         \* how many others are in the table: too old, or expired
  remembered,    \* episodic memories inserted so far
  reflected,     \* how many there were at the read of a committed reflection
  session        \* the local variables of each reflection

rowVars == <<stored, consolidated, closed, lastRow, history>>
agentVars == <<counter, idle, recent, older, remembered, reflected>>
vars == <<stored, consolidated, closed, lastRow, history,
          counter, idle, recent, older, remembered, reflected, session>>

RowId == 1..MaxRows

\* An id the answer does not give, or one that is no row of this agent.
Unknown == 0

(***************************************************************************)
(* Answers that _call_litellm_reflect accepts: a non-empty list of items   *)
(* whose ids it does not compare with the rows in the prompt.  An id is    *)
(* one the prompt showed, any number of times, or an invented one; a       *)
(* CREATE may have an id too, which is then recorded as its parent.        *)
(***************************************************************************)
Item(ids) ==
  [action : {"CREATE"}, id : ids \cup {Unknown}, content : 1..MaxItems]
  \cup [action : {"UPDATE"}, id : ids \cup {Unknown}, content : 1..MaxItems]
  \cup [action : {"RETAIN"}, id : ids \cup {Unknown}, content : {0}]

\* Contents are told apart by the first item that has them.
Answers(ids) ==
  UNION { {a \in [1..n -> Item(ids)] : \A i \in 1..n : a[i].content <= i} : n \in 1..MaxItems }

NoAnswer == << >>

\* The positions of the UPDATE and RETAIN items: active_ids has one entry for
\* each, so an id given twice is in it twice.
ActivePos(a) == {i \in DOMAIN a : a[i].action # "CREATE"}
ActiveIds(a) == {a[i].id : i \in ActivePos(a)}

\* The items that are written: a CREATE or UPDATE whose content no earlier
\* CREATE or UPDATE of the same answer has (seen_hashes).
Written(a) ==
  {i \in DOMAIN a :
     /\ a[i].action # "RETAIN"
     /\ \A j \in DOMAIN a :
          j < i /\ a[j].action # "RETAIN" => a[j].content # a[i].content}

\* The rows a written UPDATE takes out of the consolidated set.
Replaced(a) == {a[i].id : i \in {j \in Written(a) : a[j].action = "UPDATE"}}

\* Item i of an answer gets row lastRow + i.
NewRow(i) == lastRow + i
NewRows(a) == {NewRow(i) : i \in Written(a)}

Record(op, id, parent) == [op |-> op, id |-> id, parent |-> parent]

\* The parent_id of the row item i inserts.  Mutant: the row itself.
ParentOf_Swapped(a, i) == NewRow(i)
ParentOf(a, i) == a[i].id

(***************************************************************************)
(* Initial state: an agent that has just been provisioned.                 *)
(***************************************************************************)
NoSession == [pc |-> "none", shown |-> {}, seen |-> 0, answer |-> NoAnswer,
              prune |-> FALSE, targets |-> {}]

Init ==
  /\ stored = {} /\ consolidated = {} /\ closed = {}
  /\ lastRow = 0
  /\ history = {}
  /\ counter = 0 /\ idle = FALSE
  /\ recent = 0 /\ older = 0
  /\ remembered = 0 /\ reflected = 0
  /\ session = [s \in Sessions |-> NoSession]

(***************************************************************************)
(* remember: n memories, k of them episodic, in one transaction.  Only the *)
(* episodic ones are counted and keep the agent from being idle.           *)
(***************************************************************************)
Remember(n, k) ==
  /\ recent + older + n <= MaxMemories
  /\ remembered + k <= MaxRemembered
  /\ recent' = recent + n
  /\ remembered' = remembered + k
  /\ counter' = counter + k
  /\ idle' = (idle /\ k = 0)
  /\ UNCHANGED <<rowVars, older, reflected, session>>

\* A memory gets older than the seven days of the read, or it expires.
Age ==
  /\ recent > 0
  /\ recent' = recent - 1
  /\ older' = older + 1
  /\ UNCHANGED <<rowVars, counter, idle, remembered, reflected, session>>

\* forget of a memory: the counter stays as it is.
ForgetMemory ==
  /\ \/ recent > 0 /\ recent' = recent - 1 /\ older' = older
     \/ older > 0 /\ older' = older - 1 /\ recent' = recent
  /\ UNCHANGED <<rowVars, counter, idle, remembered, reflected, session>>

\* Nothing updates the agent for idle_reflection_window_h hours.
BecomeIdle ==
  /\ ~idle
  /\ idle' = TRUE
  /\ UNCHANGED <<rowVars, counter, recent, older, remembered, reflected, session>>

\* Mutant: the row is deleted without its audit record.
Forget_NoAudit(r) ==
  /\ r \in stored
  /\ stored' = stored \ {r}
  /\ consolidated' = consolidated \ {r}
  /\ closed' = closed \ {r}
  /\ UNCHANGED <<lastRow, history, agentVars, session>>

\* forget of a mental_model or lesson of the agent.
Forget(r) ==
  /\ r \in stored
  /\ stored' = stored \ {r}
  /\ consolidated' = consolidated \ {r}
  /\ closed' = closed \ {r}
  /\ history' = history \cup {Record("forget", r, Unknown)}
  /\ UNCHANGED <<lastRow, agentVars, session>>

(***************************************************************************)
(* The steps of a reflection.                                              *)
(***************************************************************************)
\* The agents the trigger selects have rows in hindsight_memories, whatever
\* their age and type.  Mutant: strictly above the threshold.
HasRows == recent + older > 0 \/ stored # {}
Due_Strict == counter > Threshold /\ idle /\ HasRows
Due == counter >= Threshold /\ idle /\ HasRows

\* _trigger_idle_reflections selects the agent; _reflect_agent comes later,
\* after the other agents of the same scan.
Trigger(s) ==
  /\ s \in Background
  /\ session[s].pc = "none"
  /\ Due
  /\ session' = [session EXCEPT ![s].pc = "due"]
  /\ UNCHANGED <<rowVars, agentVars>>

\* The rows shown to the model.  Mutant: no more than two of them.
Existing_Limited == {r \in consolidated : Cardinality({q \in consolidated : q < r}) < 2}
Existing == consolidated

\* The read transaction.  It shows the model the newest 30 of the recent
\* memories, and which they are decides only the contents of the answer; how
\* many episodic memories there are by then is noted in `seen`.  The trigger
\* goes on only if there are any, a request in any case.
Read(s) ==
  /\ session[s].pc = IF s \in Background THEN "due" ELSE "none"
  /\ s \in Background => recent > 0
  /\ session' = [session EXCEPT ![s].pc = "asked",
                                ![s].shown = Existing,
                                ![s].seen = remembered]
  /\ UNCHANGED <<rowVars, agentVars>>

\* "nothing to reflect on": the trigger leaves the agent, and its counter, as
\* they are.
ReturnEarly(s) ==
  /\ s \in Background
  /\ session[s].pc = "due"
  /\ recent = 0
  /\ session' = [session EXCEPT ![s] = NoSession]
  /\ UNCHANGED <<rowVars, agentVars>>

\* The reflection ends without having written: the model unavailable or its
\* answer malformed, an id that is no UUID, an error or deadlock in a
\* transaction, or the death of the process.
Fail(s) ==
  /\ session[s].pc # "none"
  /\ session' = [session EXCEPT ![s] = NoSession]
  /\ UNCHANGED <<rowVars, agentVars>>

\* The rows the guard counts.  Mutant: those with valid_until set.
Countable_Closed == closed
Countable == consolidated \ closed

\* prune_safe: the guard lets the prune go on.  Mutant: whatever the coverage.
PruneSafe_NoCoverage(a) == Countable = {} \/ ActivePos(a) # {}
PruneSafe(a) ==
  \/ Countable = {}
  \/ /\ ActivePos(a) # {}
     /\ 2 * Cardinality(ActivePos(a)) >= Cardinality(Countable)

\* The language model answers, the answer passes the checks, and the write
\* transaction begins with the guard: nothing the other processes do matters
\* to a reflection between its answer and the guard.
Answer(s) ==
  /\ session[s].pc = "asked"
  /\ \E a \in Answers(session[s].shown) :
       /\ NewRows(a) \subseteq RowId
       /\ session' = [session EXCEPT ![s].pc = "checked",
                                     ![s].answer = a,
                                     ![s].prune = session[s].shown # {} /\ PruneSafe(a)]
  /\ UNCHANGED <<rowVars, agentVars>>

\* The rows the prune statement selects: every consolidated row of the agent
\* that is not active, whether the prompt showed it or not.
Prunable(s) == consolidated \ ActiveIds(session[s].answer)

SelectPrune(s) ==
  /\ session[s].pc = "checked"
  /\ session' = [session EXCEPT
       ![s].pc = "selected",
       ![s].targets = IF session[s].prune THEN Prunable(s) ELSE {}]
  /\ UNCHANGED <<rowVars, agentVars>>

\* Mutant: every selected row.
Pruned_NoRecheck(s) == session[s].targets

\* A selected row that another transaction has changed meanwhile is checked
\* again when its lock is obtained.
Pruned(s) == session[s].targets \cap consolidated

\* The counter after a reflection.  Mutants: GREATEST(..., 0) dropped; reset.
Discharge_NoFloor(c) == c - Threshold
Discharge_Reset(c) == 0
Discharge(c) == IF c > Threshold THEN c - Threshold ELSE 0

\* The write transaction commits.
Commit(s) ==
  LET a == session[s].answer
      new == NewRows(a)
  IN /\ session[s].pc = "selected"
     /\ new \subseteq RowId
     /\ \E last \in new \cup {lastRow} :
          lastRow' = last /\ \A r \in new : r <= last
     /\ stored' = stored \cup new
     /\ consolidated' = (consolidated \ (Pruned(s) \cup Replaced(a))) \cup new
     /\ closed' = closed \cup Pruned(s)
     /\ history' = history \cup {Record("reflect", NewRow(i), ParentOf(a, i)) : i \in Written(a)}
     /\ counter' = Discharge(counter)
     /\ idle' = FALSE
     /\ reflected' = IF session[s].seen > reflected THEN session[s].seen ELSE reflected
     /\ session' = [session EXCEPT ![s] = NoSession]
     /\ UNCHANGED <<recent, older, remembered>>

Next ==
  \/ \E n \in 1..MaxBatch : \E k \in 0..n : Remember(n, k)
  \/ Age \/ ForgetMemory \/ BecomeIdle
  \/ \E r \in stored : Forget(r)
  \/ \E s \in Sessions :
       \/ Trigger(s) \/ ReturnEarly(s) \/ Read(s) \/ Answer(s)
       \/ SelectPrune(s) \/ Commit(s) \/ Fail(s)

Spec == Init /\ [][Next]_vars

(***************************************************************************)
(* Fairness: time passes, the worker process keeps running and its scans   *)
(* reach the agent (LIMIT 50 does not leave it out for ever), and what is  *)
(* tried again and again succeeds in the end: the model answers some time, *)
(* a transaction commits some time.  Nothing makes an agent that has       *)
(* nothing recent get past ReturnEarly.                                    *)
(***************************************************************************)
Fairness ==
  /\ WF_vars(BecomeIdle)
  /\ \A s \in Background :
       /\ WF_vars(Trigger(s)) /\ WF_vars(ReturnEarly(s))
       /\ SF_vars(Read(s)) /\ SF_vars(Answer(s))
       /\ SF_vars(SelectPrune(s)) /\ SF_vars(Commit(s))

FairSpec == Spec /\ Fairness

(***************************************************************************)
(* Properties.                                                             *)
(***************************************************************************)
Pc == {"none", "due", "asked", "checked", "selected"}

SessionState ==
  [pc : Pc, shown : SUBSET RowId, seen : 0..MaxRemembered,
   answer : {NoAnswer} \cup Answers(RowId),
   prune : BOOLEAN, targets : SUBSET RowId]

\* The type of every variable.
TypeOK ==
  /\ stored \subseteq RowId /\ consolidated \subseteq RowId /\ closed \subseteq RowId
  /\ lastRow \in 0..MaxRows
  /\ history \subseteq [op : {"reflect", "forget"}, id : RowId, parent : 0..MaxRows]
  /\ counter \in 0..MaxRemembered
  /\ idle \in BOOLEAN
  /\ recent \in 0..MaxMemories /\ older \in 0..MaxMemories
  /\ remembered \in 0..MaxRemembered /\ reflected \in 0..MaxRemembered
  /\ session \in [Sessions -> SessionState]

Reflected == {h.id : h \in {g \in history : g.op = "reflect"}}
Forgotten == {h.id : h \in {g \in history : g.op = "forget"}}

\* The audit trail explains the table (reflect.py writes one 'reflect' record
\* per inserted row, forget one 'forget' record per deleted row): the rows
\* stored are those reflected and not forgotten, and a row is current or
\* closed, never both.
HistoryExplainsTable ==
  /\ stored = Reflected \ Forgotten
  /\ Forgotten \subseteq Reflected
  /\ consolidated \subseteq stored
  /\ closed \subseteq stored
  /\ consolidated \cap closed = {}

\* A parent_id the audit trail records, unless the model invented it, is an
\* older row with a 'reflect' record of its own, although the row may have
\* been pruned, replaced or forgotten since the session was shown it.
LineageRooted ==
  \A h \in history :
    h.op = "reflect" /\ h.parent # Unknown => h.parent \in Reflected /\ h.parent < h.id

RowStatus ==
  [r \in RowId |->
     IF r \in consolidated THEN "current"
     ELSE IF r \in closed THEN "pruned"
     ELSE IF r \in stored THEN "replaced"
     ELSE IF r \in Forgotten THEN "forgotten"
     ELSE "absent"]

Lifecycle == INSTANCE RowLifecycle WITH Row <- RowId, status <- RowStatus

\* However reflections, forget and remember interleave, every row goes through
\* the life RowLifecycle states: retired once, never current again.
LifecycleSpec == Lifecycle!Spec

\* The step with which session s ends its write transaction.
Ends(s) == session[s].pc = "selected" /\ session'[s].pc = "none"
NewlyClosed == closed' \ closed

\* The guard against wiping (prune_safe, "LLM returned no active IDs"): an
\* answer that keeps nothing never closes a row its prompt showed, although
\* other sessions write between the guard and the prune.
EmptyAnswerSparesShown ==
  [][\A s \in Sessions :
       Ends(s) /\ ActivePos(session[s].answer) = {}
         => NewlyClosed \cap session[s].shown = {}]_vars

\* The 50% guard does what it is for when the answer is honest and not stale:
\* it names each kept row once, all of them are still consolidated, and no
\* row has been consolidated since the prompt.  Then at most half of the
\* consolidated rows are pruned, whatever forget does during the reflection.
HonestPruneKeepsHalf ==
  [][\A s \in Sessions :
       LET a == session[s].answer
       IN (/\ Ends(s)
           /\ ActiveIds(a) \subseteq consolidated
           /\ Cardinality(ActiveIds(a)) = Cardinality(ActivePos(a))
           /\ consolidated \subseteq session[s].shown)
          => 2 * Cardinality(NewlyClosed) <= Cardinality(consolidated)]_vars

\* A reflection prunes only what its prompt showed ("Any existing ID NOT
\* returned will be pruned"): true of reflections that do not overlap.
PruneOnlyShown ==
  [][\A s \in Sessions : Ends(s) => NewlyClosed \subseteq session[s].shown]_vars

\* The episodic memories remembered since the read of the last committed
\* reflection are still counted: a discharge by the threshold while others
\* are being remembered takes away none that came too late for the prompt.
\* It is true when every reflection is started by the idle trigger and none
\* overlap.  Older memories that no prompt showed, because they were outside
\* the seven days or beyond the newest 30, are discharged with the others.
LaterMemoriesAreCounted == remembered - reflected <= counter

\* The idle trigger reflects an agent with a threshold's worth of memories
\* until fewer are left, unless there is a time when none of its memories is
\* recent: forgotten and old ones stay counted, and while there are no others
\* the trigger selects the agent and returns each time.
DueIsReflected == counter >= Threshold ~> counter < Threshold \/ recent = 0

(***************************************************************************)
(* What the repository says and the code does not do (see README.md).      *)
(***************************************************************************)
\* "valid_until is set atomically with is_consolidated = false": a stored row
\* that is no longer consolidated is closed, and recall excludes it.
RetiredIsClosed == stored = consolidated \cup closed
=============================================================================
