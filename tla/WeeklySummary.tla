--------------------------- MODULE WeeklySummary ---------------------------
(***************************************************************************)
(* The weekly summary of one tenant's handoffs, written by whichever       *)
(* worker process holds an advisory lock.                                  *)
(*                                                                         *)
(* Time is counted in ticks.  A worker sleeps for a day first and between  *)
(* its cycles; it wakes and goes through its cycle within Delay ticks, so  *)
(* that its hour drifts from day to day.                                   *)
(* The advisory lock belongs to a connection: when that drops, the lock is *)
(* free although the cycle goes on; the unlock at its end then raises,     *)
(* which nothing catches, and the process ends with all of its loops.      *)
(***************************************************************************)
EXTENDS Integers, FiniteSets

CONSTANTS
  Workers,      \* the worker processes
  NoWorker,     \* holder of a lock nobody holds
  TicksPerDay,
  DaysPerWeek,  \* 7
  DayOffset,    \* the weekday the tenant's id hashes to
  MinHandoffs,  \* 3
  Delay,        \* the ticks a worker may take to wake and for its cycle
  Horizon,      \* the last tick of the model
  MaxHandoffs,  \* bound on handoffs
  MaxFaults     \* bound on crashes and dropped connections

Day == TicksPerDay
Week == DaysPerWeek * TicksPerDay

ASSUME WeeklyAssumption ==
  /\ TicksPerDay \in Nat \ {0} /\ DaysPerWeek \in Nat \ {0}
  /\ DayOffset \in 0..DaysPerWeek - 1
  /\ MinHandoffs \in Nat \ {0} /\ Delay \in Nat /\ Horizon \in Nat
  /\ MaxHandoffs \in Nat /\ MaxFaults \in Nat
  /\ NoWorker \notin Workers

VARIABLES
  now,        \* the clock
  handoffs,   \* the created_at of each handoff stored; one a tick
  writing,    \* the created_at of handoffs whose transaction is open
  late,       \* those committed in a later tick than they began in
  lastRun,    \* weekly_summary_last_run_at, or Never
  summaries,  \* the weekly summaries stored
  leader,     \* the worker whose connection holds the advisory lock
  locker,     \* the worker whose transaction has locked the tenant
  worker,     \* each worker's place in its loop
  faults      \* crashes and dropped connections so far

vars == <<now, handoffs, writing, late, lastRun, summaries, leader, locker, worker, faults>>

Never == -1

\* run_weekly_summary_task sleeps before its first cycle.
Sleeping(since) == [pc |-> "asleep", wake |-> since + Day, seen |-> Never]

\* A process that has ended keeps nothing.
Dead == [pc |-> "dead", wake |-> Day, seen |-> Never]

Init ==
  /\ now = 0
  /\ handoffs = {} /\ writing = {} /\ late = {}
  /\ lastRun = Never
  /\ summaries = {}
  /\ leader = NoWorker /\ locker = NoWorker
  /\ worker \in [Workers -> {Sleeping(since) : since \in 1 - Day..0}]
  /\ faults = 0

(***************************************************************************)
(* The world around the workers.                                           *)
(***************************************************************************)
\* Time passes when no worker is overdue, and not in the few statements of
\* _summarise_tenant.
Tick ==
  /\ now < Horizon
  /\ \A w \in Workers :
       \/ worker[w].pc = "dead"
       \/ worker[w].pc # "locked" /\ now < worker[w].wake + Delay
  /\ now' = now + 1
  /\ UNCHANGED <<handoffs, writing, late, lastRun, summaries, leader, locker, worker, faults>>

\* A handoff is stored under the time its transaction began.  The row refers
\* to the tenant, so its insert takes a key-share lock of the tenant's row
\* and waits for a worker that has the row locked.
WriteHandoff ==
  /\ Cardinality(handoffs \cup writing) < MaxHandoffs
  /\ now \notin handoffs \cup writing
  /\ writing' = writing \cup {now}
  /\ UNCHANGED <<now, handoffs, late, lastRun, summaries, leader, locker, worker, faults>>

CommitHandoff(at) ==
  /\ locker = NoWorker
  /\ writing' = writing \ {at}
  /\ handoffs' = handoffs \cup {at}
  /\ late' = IF at < now THEN late \cup {at} ELSE late
  /\ UNCHANGED <<now, lastRun, summaries, leader, locker, worker, faults>>

(***************************************************************************)
(* A worker.                                                               *)
(***************************************************************************)
\* try_acquire_leader: the lock is taken, or the cycle left out.
Wake(w) ==
  /\ worker[w].pc = "asleep" /\ worker[w].wake <= now
  /\ IF leader = NoWorker
     THEN /\ leader' = w
          /\ worker' = [worker EXCEPT ![w].pc = "leading"]
     ELSE /\ worker' = [worker EXCEPT ![w] = Sleeping(now)]
          /\ UNCHANGED leader
  /\ UNCHANGED <<now, handoffs, writing, late, lastRun, summaries, locker, faults>>

\* _run_weekly_summary_cycle reads the tenants, and goes on with those whose
\* day it is.
ReadTenants(w) ==
  /\ worker[w].pc = "leading"
  /\ worker' = [worker EXCEPT
       ![w].seen = lastRun,
       ![w].pc = IF (now \div Day) % DaysPerWeek = DayOffset THEN "due" ELSE "done"]
  /\ UNCHANGED <<now, handoffs, writing, late, lastRun, summaries, leader, locker, faults>>

\* Mutant: a week is over only after seven full days and one more.
RanThisWeek_Late(seen) == seen # Never /\ (now - seen) \div Day <= DaysPerWeek
RanThisWeek(seen) == seen # Never /\ (now - seen) \div Day < DaysPerWeek

\* _summarise_tenant: FOR UPDATE SKIP LOCKED skips the tenant when another
\* worker has its row locked, and whenever a transaction is open that has
\* inserted any row that refers to the tenant, a handoff or another.
SkipTenant(w) ==
  /\ worker[w].pc = "due"
  /\ worker' = [worker EXCEPT ![w].pc = "done"]
  /\ UNCHANGED <<now, handoffs, writing, late, lastRun, summaries, leader, locker, faults>>

\* The tenant is locked, and the time of the last run, as it was read before
\* the lock, decides.
LockTenant(w) ==
  /\ worker[w].pc = "due"
  /\ locker = NoWorker
  /\ IF RanThisWeek(worker[w].seen)
     THEN /\ worker' = [worker EXCEPT ![w].pc = "done"]
          /\ UNCHANGED locker
     ELSE /\ locker' = w
          /\ worker' = [worker EXCEPT ![w].pc = "locked"]
  /\ UNCHANGED <<now, handoffs, writing, late, lastRun, summaries, leader, faults>>

\* Mutant: all handoffs are summarised again.
Recent_All == handoffs
Recent == {at \in handoffs : at > now - Week}

\* The rest of the transaction: too few handoffs, or the summary.
Summarise(w) ==
  /\ worker[w].pc = "locked"
  /\ locker' = NoWorker
  /\ worker' = [worker EXCEPT ![w].pc = "done"]
  /\ IF Cardinality(Recent) < MinHandoffs THEN UNCHANGED <<lastRun, summaries>>
     ELSE /\ lastRun' = now
          /\ summaries' = summaries \cup
               {[at |-> now, by |-> w, of |-> Recent, led |-> leader = w]}
  /\ UNCHANGED <<now, handoffs, writing, late, leader, faults>>

\* The end of the cycle: the lock is given back, and the next sleep begins;
\* the unlock fails on a dropped connection.
EndCycle(w) ==
  /\ worker[w].pc = "done"
  /\ IF leader = w
     THEN leader' = NoWorker /\ worker' = [worker EXCEPT ![w] = Sleeping(now)]
     ELSE worker' = [worker EXCEPT ![w] = Dead] /\ UNCHANGED leader
  /\ UNCHANGED <<now, handoffs, writing, late, lastRun, summaries, locker, faults>>

DropConnection(w) ==
  /\ faults < MaxFaults
  /\ leader = w
  /\ leader' = NoWorker
  /\ faults' = faults + 1
  /\ UNCHANGED <<now, handoffs, writing, late, lastRun, summaries, locker, worker>>

\* The process ends; an open transaction is rolled back.
Crash(w) ==
  /\ faults < MaxFaults
  /\ worker[w].pc # "dead"
  /\ worker' = [worker EXCEPT ![w] = Dead]
  /\ leader' = IF leader = w THEN NoWorker ELSE leader
  /\ locker' = IF locker = w THEN NoWorker ELSE locker
  /\ faults' = faults + 1
  /\ UNCHANGED <<now, handoffs, writing, late, lastRun, summaries>>

\* It is started again, and sleeps for a day.
\* Mutant: it does not sleep first.
Restart_NoSleep(w) ==
  /\ worker[w].pc = "dead"
  /\ worker' = [worker EXCEPT ![w] = Sleeping(now - Day)]
  /\ UNCHANGED <<now, handoffs, writing, late, lastRun, summaries, leader, locker, faults>>
Restart(w) ==
  /\ worker[w].pc = "dead"
  /\ worker' = [worker EXCEPT ![w] = Sleeping(now)]
  /\ UNCHANGED <<now, handoffs, writing, late, lastRun, summaries, leader, locker, faults>>

Next ==
  \/ Tick
  \/ WriteHandoff
  \/ \E at \in writing : CommitHandoff(at)
  \/ \E w \in Workers :
       \/ Wake(w) \/ ReadTenants(w) \/ SkipTenant(w) \/ LockTenant(w)
       \/ Summarise(w) \/ EndCycle(w)
       \/ DropConnection(w) \/ Crash(w) \/ Restart(w)

Spec == Init /\ [][Next]_vars

(***************************************************************************)
(* Properties.                                                             *)
(***************************************************************************)
\* The type of every variable.
TypeOK ==
  /\ now \in 0..Horizon
  /\ handoffs \cup writing \subseteq 0..now /\ late \subseteq handoffs
  /\ lastRun \in {Never} \cup 0..now
  /\ summaries \subseteq
       [at : 0..now, by : Workers, of : SUBSET handoffs, led : BOOLEAN]
  /\ leader \in Workers \cup {NoWorker} /\ locker \in Workers \cup {NoWorker}
  /\ worker \in [Workers ->
       [pc : {"asleep", "leading", "due", "locked", "done", "dead"},
        wake : 1..Horizon + Day, seen : {Never} \cup 0..now]]
  /\ faults \in 0..MaxFaults

\* Of the summaries written by workers that were still the leader, two are a
\* week apart and share no handoff, although each compares with a last run it
\* read before it locked the tenant, and although workers crash between the
\* steps of a cycle.
SummariesDoNotOverlap ==
  \A s, t \in summaries :
    s.led /\ t.led /\ s # t =>
      /\ s.at - t.at >= Week \/ t.at - s.at >= Week
      /\ s.of \cap t.of = {}

\* A worker that has the tenant to itself leaves it, with a summary or because
\* one is less than a week old.
LeavesTenant(w) == Summarise(w) \/ (LockTenant(w) /\ RanThisWeek(worker[w].seen))

\* The handoffs of a week that were committed in time.
InTime == {at \in handoffs \ late : now - Week < at /\ at < now}

\* Between two summaries no handoff is left out that a worker could have taken:
\* when one has had the tenant to itself within a week of the handoff, a week
\* or more after every summary older than it, and there were enough of them,
\* then the handoff is in a summary.  The window of a summary and the wait for
\* the next one fit, whoever writes, however the hours drift, and although the
\* last run the worker compares with may be out of date.
NoHandoffIsLost ==
  [][\A w \in Workers :
       LeavesTenant(w) /\ Cardinality(InTime) >= MinHandoffs =>
         \A at \in InTime :
           (\A s \in summaries : s.at <= at => s.at + Week <= now)
             => \E s \in summaries' : at \in s.of]_vars
=============================================================================
