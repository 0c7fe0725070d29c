------------------------ MODULE WeeklySummaryProofs ------------------------
(***************************************************************************)
(* Theorems about WeeklySummary, for any number of worker processes, any   *)
(* length of day and week, any delay and any number of failures.           *)
(***************************************************************************)
EXTENDS WeeklySummary, FiniteSetTheorems, TLAPS

(***************************************************************************)
(* The inductive invariant.                                                *)
(***************************************************************************)
WorkerState ==
  [pc : {"asleep", "leading", "due", "locked", "done", "dead"},
   wake : 1..Horizon + Day, seen : {Never} \cup 0..now]

\* The last run is that of the newest summary, and a summary holds no handoff
\* of its future.
RunsAreOrdered ==
  \A s \in summaries : /\ lastRun # Never /\ s.at <= lastRun
                       /\ \A at \in s.of : at <= s.at

\* What a worker read of the last run is out of date once another one, which
\* has lost the lock but goes on, writes a summary; but while it leads it has
\* seen every summary that was written by a leader.
LeaderHasSeen ==
  \A w \in Workers :
    leader = w /\ worker[w].pc \in {"due", "locked"} =>
      \A s \in summaries : s.led => worker[w].seen # Never /\ s.at <= worker[w].seen

\* The week a worker compared with is over as long as it holds the tenant: no
\* time passes in its transaction.
WeekIsOver == \A w \in Workers : worker[w].pc = "locked" => ~RanThisWeek(worker[w].seen)

IInv ==
  /\ TypeOK
  /\ RunsAreOrdered
  /\ LeaderHasSeen
  /\ WeekIsOver
  /\ SummariesDoNotOverlap

(***************************************************************************)
(* Lemmas about time.                                                      *)
(***************************************************************************)
\* Days and weeks are positive numbers of ticks.
LEMMA Durations ==
  /\ Day \in Nat \ {0} /\ DaysPerWeek \in Nat \ {0} /\ Week \in Int
  /\ Week = DaysPerWeek * Day /\ Week > 0
  /\ Horizon \in Nat /\ MaxFaults \in Nat /\ NoWorker \notin Workers /\ Never = -1
  BY WeeklyAssumption DEF WeeklyAssumption, Day, Week, Never

\* A whole number of days is at most the time that has passed.
LEMMA WholeDays ==
  ASSUME NEW d \in Nat \ {0}, NEW k \in Nat, NEW x \in Nat, x \div d >= k
  PROVE  x >= k * d
<1> DEFINE q == x \div d
           m == x % d
<1>1. q \in Int /\ m \in 0..d - 1 /\ x = d * q + m
  OBVIOUS
<1>2. q >= k
  OBVIOUS
<1> HIDE DEF q, m
<1>3. \E n \in Nat : q = k + n
  <2>1. q - k \in Nat /\ q = k + (q - k)
    BY <1>1, <1>2
  <2>2. QED
    BY <2>1
<1>4. PICK n \in Nat : q = k + n
  BY <1>3
<1>5. d * q = k * d + d * n /\ d * n \in Nat /\ k * d \in Nat
  BY <1>4
<1>6. QED
  BY <1>1, <1>5

\* When the comparison with the last run says that the week is over, the next
\* summary is a week after the last.
LEMMA AWeekLater ==
  ASSUME NEW seen \in Nat, now \in Nat, seen <= now, ~RanThisWeek(seen)
  PROVE  now - seen >= Week
<1>1. (now - seen) \div Day >= DaysPerWeek
  BY Durations DEF RanThisWeek
<1>2. now - seen \in Nat
  OBVIOUS
<1>3. now - seen >= DaysPerWeek * Day
  BY <1>1, <1>2, Durations, WholeDays
<1>4. QED
  BY <1>3, Durations

\* Workers are well formed, and so is one that begins to sleep.
LEMMA WorkerType ==
  ASSUME TypeOK
  PROVE  /\ worker \in [Workers -> WorkerState]
         /\ now \in Nat /\ now <= Horizon
         /\ Sleeping(now) \in WorkerState /\ Dead \in WorkerState
  BY Durations DEF TypeOK, WorkerState, Sleeping, Dead

(***************************************************************************)
(* Every step preserves the invariant.                                     *)
(***************************************************************************)
LEMMA InitIInv == Init => IInv
<1> SUFFICES ASSUME Init PROVE IInv
  OBVIOUS
<1>1. \A since \in 1 - Day..0 : since + Day \in 1..Horizon + Day
  BY Durations
<1>2. \A w \in Workers : worker[w] \in [pc : {"asleep"}, wake : 1..Horizon + Day, seen : {Never}]
  BY <1>1 DEF Init, Sleeping
<1>3. worker \in [Workers -> WorkerState]
  BY <1>2 DEF Init, WorkerState
<1>4. TypeOK
  BY <1>3, Durations DEF Init, TypeOK, WorkerState
<1>5. QED
  BY <1>2, <1>4 DEF Init, IInv, RunsAreOrdered, LeaderHasSeen, WeekIsOver, SummariesDoNotOverlap

\* A step in which no time passes and no summary is written: what matters is
\* that a worker that comes to hold the tenant while it leads has seen the
\* summaries, and that its week is over.
LEMMA QuietStep ==
  ASSUME IInv, TypeOK', UNCHANGED <<now, lastRun, summaries>>,
         \A w \in Workers :
           leader' = w /\ worker'[w].pc \in {"due", "locked"} =>
             \/ leader = w /\ worker[w].pc \in {"due", "locked"} /\ worker'[w].seen = worker[w].seen
             \/ worker'[w].seen = lastRun,
         \A w \in Workers :
           worker'[w].pc = "locked" => ~RanThisWeek(worker'[w].seen)
  PROVE  IInv'
<1>1. RunsAreOrdered' /\ SummariesDoNotOverlap'
  BY DEF IInv, RunsAreOrdered, SummariesDoNotOverlap
<1>2. LeaderHasSeen'
  BY DEF IInv, LeaderHasSeen, RunsAreOrdered
<1>3. WeekIsOver'
  BY DEF WeekIsOver, RanThisWeek
<1>4. QED
  BY <1>1, <1>2, <1>3 DEF IInv

\* Time passes when no worker holds the tenant: to a worker that has read the
\* last run, the same summaries are there.
LEMMA TickIInv == IInv /\ Tick => IInv'
<1> SUFFICES ASSUME IInv, Tick PROVE IInv'
  OBVIOUS
<1>1. TypeOK'
  BY Durations DEF Tick, IInv, TypeOK
<1>2. \A w \in Workers : worker'[w].pc # "locked"
  BY DEF Tick
<1>3. QED
  BY <1>1, <1>2
     DEF Tick, IInv, RunsAreOrdered, LeaderHasSeen, WeekIsOver, SummariesDoNotOverlap

LEMMA HandoffIInv ==
  ASSUME IInv, WriteHandoff \/ \E at \in writing : CommitHandoff(at)
  PROVE  IInv'
<1>1. TypeOK'
  BY DEF WriteHandoff, CommitHandoff, IInv, TypeOK
<1>2. UNCHANGED <<now, lastRun, summaries, leader, worker>>
  BY DEF WriteHandoff, CommitHandoff
<1>3. QED
  BY <1>1, <1>2, QuietStep DEF IInv, WeekIsOver

\* A worker's step in which no summary is written.
LEMMA WorkerIInv ==
  ASSUME IInv, NEW w \in Workers,
         \/ Wake(w) \/ ReadTenants(w) \/ SkipTenant(w) \/ LockTenant(w) \/ EndCycle(w)
         \/ DropConnection(w) \/ Crash(w) \/ Restart(w)
  PROVE  IInv'
<1>1. /\ worker \in [Workers -> WorkerState] /\ worker[w] \in WorkerState
      /\ Sleeping(now) \in WorkerState /\ Dead \in WorkerState /\ now \in Nat
  BY WorkerType DEF IInv
<1> DEFINE x == worker'[w]
<1>2. /\ UNCHANGED <<now, handoffs, writing, late, lastRun, summaries>>
      /\ worker' = [worker EXCEPT ![w] = x] /\ x \in WorkerState
      /\ leader' \in Workers \cup {NoWorker} /\ locker' \in Workers \cup {NoWorker}
      /\ faults' \in 0..MaxFaults
  <2>1. CASE Wake(w)
    BY <1>1, <2>1 DEF Wake, IInv, TypeOK, WorkerState
  <2>2. CASE ReadTenants(w)
    BY <1>1, <2>2 DEF ReadTenants, IInv, TypeOK, WorkerState
  <2>3. CASE SkipTenant(w) \/ LockTenant(w)
    BY <1>1, <2>3 DEF SkipTenant, LockTenant, IInv, TypeOK, WorkerState
  <2>4. CASE EndCycle(w)
    BY <1>1, <2>4 DEF EndCycle, IInv, TypeOK, WorkerState
  <2>5. CASE DropConnection(w)
    BY <1>1, <2>5, Durations DEF DropConnection, IInv, TypeOK, WorkerState
  <2>6. CASE Crash(w)
    BY <1>1, <2>6, Durations DEF Crash, IInv, TypeOK, WorkerState
  <2>7. CASE Restart(w)
    BY <1>1, <2>7 DEF Restart, IInv, TypeOK, WorkerState
  <2>8. QED
    BY <2>1, <2>2, <2>3, <2>4, <2>5, <2>6, <2>7
<1>3. /\ leader' = w /\ x.pc \in {"due", "locked"} =>
           \/ leader = w /\ worker[w].pc \in {"due", "locked"} /\ x.seen = worker[w].seen
           \/ x.seen = lastRun
      /\ x.pc = "locked" => ~RanThisWeek(x.seen)
      /\ \A v \in Workers \ {w} : leader' = v => leader = v
  <2>1. CASE Wake(w) \/ EndCycle(w) \/ Crash(w) \/ Restart(w)
    BY <1>1, <2>1, Durations DEF Wake, EndCycle, Crash, Restart, Sleeping, Dead, WorkerState
  <2>2. CASE ReadTenants(w)
    BY <1>1, <2>2 DEF ReadTenants, WorkerState
  <2>3. CASE SkipTenant(w) \/ LockTenant(w)
    BY <1>1, <2>3 DEF SkipTenant, LockTenant, WorkerState
  <2>4. CASE DropConnection(w)
    BY <1>1, <2>4, Durations DEF DropConnection, IInv, WeekIsOver
  <2>5. QED
    BY <2>1, <2>2, <2>3, <2>4
<1>4. \A v \in Workers : worker'[v] = IF v = w THEN x ELSE worker[v]
  BY <1>1, <1>2
<1> HIDE DEF x
<1>5. TypeOK'
  <2>1. worker' \in [Workers -> WorkerState]
    BY <1>1, <1>2
  <2>2. QED
    BY <1>2, <2>1 DEF IInv, TypeOK, WorkerState
<1>6. QED
  BY <1>2, <1>3, <1>4, <1>5, QuietStep DEF IInv, WeekIsOver

\* The summary a leader writes is a week after all that leaders have written.
LEMMA SummariseIInv ==
  ASSUME IInv, NEW w \in Workers, Summarise(w)
  PROVE  IInv'
<1>1. /\ worker \in [Workers -> WorkerState] /\ worker[w] \in WorkerState /\ now \in Nat
      /\ worker[w].pc = "locked" /\ handoffs \subseteq 0..now
      /\ UNCHANGED <<now, handoffs, writing, late, leader, faults>> /\ locker' = NoWorker
      /\ worker' = [worker EXCEPT ![w].pc = "done"]
  BY WorkerType DEF Summarise, IInv, TypeOK
<1>2. /\ \A v \in Workers \ {w} : worker'[v] = worker[v]
      /\ worker'[w].pc = "done" /\ worker' \in [Workers -> WorkerState]
  BY <1>1 DEF WorkerState
<1>3. CASE UNCHANGED <<lastRun, summaries>>
  <2>1. TypeOK'
    BY <1>1, <1>2, <1>3 DEF IInv, TypeOK, WorkerState
  <2>2. QED
    BY <1>1, <1>2, <1>3, <2>1, QuietStep DEF IInv, WeekIsOver
<1>4. ASSUME lastRun' = now,
             summaries' = summaries \cup
               {[at |-> now, by |-> w, of |-> Recent, led |-> leader = w]}
      PROVE  IInv'
  <2> DEFINE new == [at |-> now, by |-> w, of |-> Recent, led |-> leader = w]
  <2>1. /\ summaries' = summaries \cup {new}
        /\ new.at = now /\ new.by = w /\ new.of = Recent /\ (new.led <=> leader = w)
        /\ new \in [at : 0..now, by : Workers, of : SUBSET handoffs, led : BOOLEAN]
    <3>1. summaries' = summaries \cup {new} /\ new.at = now /\ new.by = w /\ new.of = Recent
      BY <1>4
    <3>2. new.led = (leader = w)
      OBVIOUS
    <3>3. (leader = w) \in BOOLEAN
      OBVIOUS
    <3>4. now \in 0..now /\ Recent \in SUBSET handoffs
      BY <1>1 DEF Recent
    <3>5. new \in [at : 0..now, by : Workers, of : SUBSET handoffs, led : BOOLEAN]
      BY <3>3, <3>4, Zenon
    <3>6. QED
      BY <3>1, <3>2, <3>5
  <2>2. \A at \in Recent : at \in 0..now /\ at > now - Week
    BY <1>1 DEF Recent
  <2> HIDE DEF new
  <2>3. TypeOK'
    BY <1>1, <1>2, <1>4, <2>1 DEF IInv, TypeOK, WorkerState
  <2>4. \A s \in summaries : s.at \in Int /\ s.at <= now
    BY <1>1 DEF IInv, TypeOK
  <2>5. RunsAreOrdered'
    BY <1>1, <1>4, <2>1, <2>2, <2>4, Durations DEF IInv, RunsAreOrdered
  <2>6. LeaderHasSeen'
    <3>1. SUFFICES ASSUME NEW v \in Workers, leader = v, v # w,
                          worker[v].pc \in {"due", "locked"},
                          NEW s \in summaries', s.led
                   PROVE  worker[v].seen # Never /\ s.at <= worker[v].seen
      BY <1>1, <1>2 DEF LeaderHasSeen
    <3>2. s \in summaries
      BY <2>1, <3>1
    <3>3. QED
      BY <3>1, <3>2 DEF IInv, LeaderHasSeen
  <2>7. WeekIsOver'
    BY <1>1, <1>2 DEF IInv, WeekIsOver, RanThisWeek
  <2>8. ASSUME NEW s \in summaries, s.led, new.led
        PROVE  now - s.at >= Week /\ s.of \cap new.of = {}
    <3>1. worker[w].seen # Never /\ s.at <= worker[w].seen
      BY <1>1, <2>1, <2>8 DEF IInv, LeaderHasSeen
    <3>2. worker[w].seen \in Nat /\ worker[w].seen <= now
      BY <1>1, <3>1 DEF WorkerState
    <3>3. now - worker[w].seen >= Week
      BY <1>1, <3>2, AWeekLater DEF IInv, WeekIsOver
    <3>4. now - s.at >= Week
      BY <1>1, <2>4, <3>1, <3>2, <3>3, Durations
    <3>5. \A at \in s.of : at \in Int /\ at <= s.at
      BY <1>1, <2>8 DEF IInv, RunsAreOrdered, TypeOK
    <3>6. QED
      BY <1>1, <2>1, <2>2, <2>4, <3>4, <3>5, Durations
  <2>9. SummariesDoNotOverlap'
    BY <2>1, <2>8 DEF IInv, SummariesDoNotOverlap
  <2>10. QED
    BY <2>3, <2>5, <2>6, <2>7, <2>9 DEF IInv
<1>5. QED
  BY <1>3, <1>4 DEF Summarise

LEMMA NextIInv == IInv /\ [Next]_vars => IInv'
<1> SUFFICES ASSUME IInv, [Next]_vars PROVE IInv'
  OBVIOUS
<1>1. CASE Tick
  BY <1>1, TickIInv
<1>2. CASE WriteHandoff \/ \E at \in writing : CommitHandoff(at)
  BY <1>2, HandoffIInv
<1>3. ASSUME NEW w \in Workers,
             \/ Wake(w) \/ ReadTenants(w) \/ SkipTenant(w) \/ LockTenant(w) \/ EndCycle(w)
             \/ DropConnection(w) \/ Crash(w) \/ Restart(w)
      PROVE  IInv'
  BY <1>3, WorkerIInv
<1>4. ASSUME NEW w \in Workers, Summarise(w) PROVE IInv'
  BY <1>4, SummariseIInv
<1>5. CASE UNCHANGED vars
  <2>1. TypeOK'
    BY <1>5 DEF vars, IInv, TypeOK
  <2>2. QED
    BY <1>5, <2>1, QuietStep DEF vars, IInv, WeekIsOver
<1>6. QED
  BY <1>1, <1>2, <1>3, <1>4, <1>5 DEF Next

LEMMA Invariance == Spec => []IInv
  BY InitIInv, NextIInv, PTL DEF Spec

(***************************************************************************)
(* The theorems.                                                           *)
(***************************************************************************)
\* Every variable keeps its type.
THEOREM TypeCorrect == Spec => []TypeOK
<1>1. IInv => TypeOK
  BY DEF IInv
<1>2. QED
  BY <1>1, Invariance, PTL

\* Two summaries that _summarise_tenant wrote under try_acquire_leader are a
\* week apart and share no handoff, although the time of the last run is read
\* before the tenant is locked, and although processes crash, restart and
\* lose the advisory lock in the middle of a cycle.
THEOREM SummariesAreAWeekApart == Spec => []SummariesDoNotOverlap
<1>1. IInv => SummariesDoNotOverlap
  BY DEF IInv
<1>2. QED
  BY <1>1, Invariance, PTL

(***************************************************************************)
(* No handoff is left out between two summaries.                           *)
(***************************************************************************)
\* A summary has every handoff of its week that was committed in time, and the
\* last run, also as a worker has read it, is the time of a summary.
SummariesAreComplete ==
  /\ \A s \in summaries : \A at \in handoffs \ late :
       s.at - Week < at /\ at < s.at => at \in s.of
  /\ lastRun # Never => \E s \in summaries : s.at = lastRun
  /\ \A w \in Workers :
       worker[w].pc \in {"due", "locked"} /\ worker[w].seen # Never
         => \E s \in summaries : s.at = worker[w].seen

\* A time within a number of whole days is less than they are long.
LEMMA WithinDays ==
  ASSUME NEW d \in Nat \ {0}, NEW k \in Nat, NEW x \in Nat, x \div d < k
  PROVE  x < k * d
<1> DEFINE q == x \div d
           m == x % d
<1>1. q \in Int /\ m \in 0..d - 1 /\ x = d * q + m
  OBVIOUS
<1>2. q + 1 <= k
  BY <1>1
<1> HIDE DEF q, m
<1>3. PICK n \in Nat : k = q + 1 + n
  <2>1. k - (q + 1) \in Nat /\ k = q + 1 + (k - (q + 1))
    BY <1>1, <1>2
  <2>2. QED
    BY <2>1
<1>4. k * d = q * d + d + n * d /\ n * d \in Nat /\ q * d \in Int /\ q * d = d * q
  BY <1>1, <1>3
<1>5. QED
  BY <1>1, <1>4

\* The types that the proofs below need.
LEMMA Values ==
  ASSUME TypeOK
  PROVE  /\ now \in Nat /\ Week \in Nat \ {0} /\ Day \in Nat \ {0}
         /\ handoffs \subseteq 0..now /\ writing \subseteq 0..now
         /\ \A s \in summaries : s.at \in 0..now
         /\ \A w \in Workers : worker[w].seen \in {Never} \cup 0..now
  BY Durations DEF TypeOK

\* A step that writes no summary and commits no handoff of the past.
LEMMA CompleteStays ==
  ASSUME TypeOK, SummariesAreComplete, UNCHANGED <<lastRun, summaries>>,
         handoffs' \ late' \subseteq (handoffs \ late) \cup {now},
         \A w \in Workers :
           worker'[w].pc \in {"due", "locked"} =>
             \/ worker[w].pc \in {"due", "locked"} /\ worker'[w].seen = worker[w].seen
             \/ worker'[w].seen = lastRun
  PROVE  SummariesAreComplete'
<1>1. ASSUME NEW s \in summaries, NEW at \in handoffs' \ late', s.at - Week < at, at < s.at
      PROVE  at \in s.of
  <2>1. s.at \in 0..now /\ now \in Nat
    BY Values
  <2>2. at # now
    BY <1>1, <2>1
  <2>3. QED
    BY <1>1, <2>2 DEF SummariesAreComplete
<1>2. QED
  BY <1>1 DEF SummariesAreComplete

\* The summary a worker writes has all handoffs of its week.
LEMMA CompleteSummarise ==
  ASSUME TypeOK, SummariesAreComplete, NEW w \in Workers, Summarise(w)
  PROVE  SummariesAreComplete'
<1>1. /\ UNCHANGED <<now, handoffs, late>> /\ summaries \subseteq summaries'
      /\ worker' = [worker EXCEPT ![w].pc = "done"]
      /\ worker \in [Workers -> WorkerState]
  BY WorkerType DEF Summarise
<1>2. \A v \in Workers : worker'[v].pc \in {"due", "locked"} => worker'[v] = worker[v]
  BY <1>1 DEF WorkerState
<1>3. CASE UNCHANGED <<lastRun, summaries>>
  BY <1>1, <1>2, <1>3, CompleteStays
<1>4. ASSUME lastRun' = now, NEW new, summaries' = summaries \cup {new},
             new.at = now, new.of = Recent
      PROVE  SummariesAreComplete'
  <2>1. \A at \in handoffs : now - Week < at => at \in Recent
    BY Values DEF Recent
  <2>2. \A s \in summaries' : \A at \in handoffs \ late :
          s.at - Week < at /\ at < s.at => at \in s.of
    BY <1>4, <2>1 DEF SummariesAreComplete
  <2>3. \E s \in summaries' : s.at = lastRun'
    BY <1>4
  <2>4. \A v \in Workers :
          worker'[v].pc \in {"due", "locked"} /\ worker'[v].seen # Never
            => \E s \in summaries' : s.at = worker'[v].seen
    BY <1>1, <1>2 DEF SummariesAreComplete
  <2>5. QED
    BY <1>1, <2>2, <2>3, <2>4 DEF SummariesAreComplete
<1> DEFINE written == [at |-> now, by |-> w, of |-> Recent, led |-> leader = w]
<1>5. written.at = now /\ written.of = Recent
  OBVIOUS
<1>6. \/ UNCHANGED <<lastRun, summaries>>
      \/ lastRun' = now /\ summaries' = summaries \cup {written}
  BY DEF Summarise
<1> HIDE DEF written
<1>7. QED
  BY <1>3, <1>4, <1>5, <1>6

\* Every step keeps the summaries complete.
LEMMA CompleteNext == IInv /\ SummariesAreComplete /\ [Next]_vars => SummariesAreComplete'
<1> SUFFICES ASSUME IInv, SummariesAreComplete, [Next]_vars PROVE SummariesAreComplete'
  OBVIOUS
<1>1. TypeOK /\ worker \in [Workers -> WorkerState]
  BY WorkerType DEF IInv
<1>2. CASE Tick \/ WriteHandoff \/ (\E at \in writing : CommitHandoff(at)) \/ UNCHANGED vars
  <2>1. UNCHANGED <<lastRun, summaries, worker>>
    BY <1>2 DEF Tick, WriteHandoff, CommitHandoff, vars
  <2>2. handoffs' \ late' \subseteq (handoffs \ late) \cup {now}
    <3>1. CASE Tick \/ WriteHandoff \/ UNCHANGED vars
      BY <3>1 DEF Tick, WriteHandoff, vars
    <3>2. ASSUME NEW at \in writing, CommitHandoff(at)
          PROVE  handoffs' \ late' \subseteq (handoffs \ late) \cup {now}
      <4>1. at \in 0..now /\ now \in Nat
        BY <1>1, Values
      <4>2. QED
        BY <3>2, <4>1 DEF CommitHandoff
    <3>3. QED
      BY <1>2, <3>1, <3>2
  <2>3. QED
    BY <1>1, <2>1, <2>2, CompleteStays
<1>3. ASSUME NEW w \in Workers, Summarise(w) PROVE SummariesAreComplete'
  BY <1>1, <1>3, CompleteSummarise
<1>4. ASSUME NEW w \in Workers,
             \/ Wake(w) \/ ReadTenants(w) \/ SkipTenant(w) \/ LockTenant(w) \/ EndCycle(w)
             \/ DropConnection(w) \/ Crash(w) \/ Restart(w)
      PROVE  SummariesAreComplete'
  <2>1. UNCHANGED <<lastRun, summaries, handoffs, late>>
    BY <1>4 DEF Wake, ReadTenants, SkipTenant, LockTenant, EndCycle, DropConnection, Crash, Restart
  <2>2. \A v \in Workers \ {w} : worker'[v] = worker[v]
    BY <1>1, <1>4 DEF Wake, ReadTenants, SkipTenant, LockTenant, EndCycle, DropConnection, Crash,
       Restart
  <2>3. worker'[w].pc \in {"due", "locked"} =>
          \/ worker[w].pc \in {"due", "locked"} /\ worker'[w].seen = worker[w].seen
          \/ worker'[w].seen = lastRun
    <3>1. CASE Wake(w) \/ EndCycle(w) \/ Crash(w) \/ Restart(w)
      BY <1>1, <3>1 DEF Wake, EndCycle, Crash, Restart, Sleeping, Dead, WorkerState
    <3>2. CASE ReadTenants(w)
      BY <1>1, <3>2 DEF ReadTenants, WorkerState
    <3>3. CASE SkipTenant(w) \/ LockTenant(w)
      BY <1>1, <3>3 DEF SkipTenant, LockTenant, WorkerState
    <3>4. CASE DropConnection(w)
      BY <3>4 DEF DropConnection
    <3>5. QED
      BY <1>4, <3>1, <3>2, <3>3, <3>4
  <2>4. QED
    BY <1>1, <2>1, <2>2, <2>3, CompleteStays
<1>5. QED
  BY <1>2, <1>3, <1>4 DEF Next

\* When _summarise_tenant has locked the tenant, every handoff of the past week
\* that was committed in time is in a summary afterwards, unless there are too
\* few or a summary older than the handoff is less than a week old: whichever
\* process runs it, however late and after whatever crashes.  Nothing is
\* assumed of the hours of the processes, nor that a week has such a turn:
\* SKIP LOCKED may skip the tenant at every cycle.
THEOREM HandoffsAreSummarised == Spec => NoHandoffIsLost
<1> DEFINE Kept ==
      \A w \in Workers :
        LeavesTenant(w) /\ Cardinality(InTime) >= MinHandoffs =>
          \A at \in InTime :
            (\A s \in summaries : s.at <= at => s.at + Week <= now)
              => \E s \in summaries' : at \in s.of
<1>1. Init => SummariesAreComplete
  BY DEF Init, Sleeping, SummariesAreComplete
<1>2. IInv /\ SummariesAreComplete /\ [Next]_vars => [Kept]_vars
  <2> SUFFICES ASSUME IInv, SummariesAreComplete, NEW w \in Workers, LeavesTenant(w),
                      Cardinality(InTime) >= MinHandoffs, NEW at \in InTime,
                      \A s \in summaries : s.at <= at => s.at + Week <= now
               PROVE  \E s \in summaries' : at \in s.of
    OBVIOUS
  <2>1. /\ now \in Nat /\ Week \in Nat \ {0} /\ handoffs \subseteq 0..now
        /\ \A s \in summaries : s.at \in 0..now
        /\ worker[w].seen \in {Never} \cup 0..now
    BY Values DEF IInv
  <2>2. at \in handoffs \ late /\ now - Week < at /\ at < now /\ at \in Nat
    BY <2>1 DEF InTime
  <2>3. CASE Summarise(w)
    <3>1. InTime \subseteq Recent /\ Recent \subseteq 0..now
      BY <2>1 DEF InTime, Recent
    <3>2. IsFiniteSet(Recent)
      <4> SUFFICES IsFiniteSet(0..now)
        BY <3>1, FS_Subset
      <4>1. 0 \in Int /\ now \in Int
        BY <2>1
      <4>2. QED
        BY ONLY <4>1, FS_Interval
    <3>3. /\ Cardinality(InTime) <= Cardinality(Recent)
          /\ Cardinality(InTime) \in Nat /\ Cardinality(Recent) \in Nat
      BY <3>1, <3>2, FS_Subset, FS_CardinalityType
    <3>4. ~(Cardinality(Recent) < MinHandoffs)
      BY <3>3, WeeklyAssumption DEF WeeklyAssumption
    <3> DEFINE new == [at |-> now, by |-> w, of |-> Recent, led |-> leader = w]
    <3>5. new \in summaries' /\ new.of = Recent
      BY <2>3, <3>4 DEF Summarise
    <3>6. at \in Recent
      BY <3>1
    <3>7. QED
      BY <3>5, <3>6
  <2>4. CASE LockTenant(w) /\ RanThisWeek(worker[w].seen)
    <3>1. /\ summaries' = summaries /\ worker[w].pc = "due" /\ worker[w].seen # Never
          /\ (now - worker[w].seen) \div Day < DaysPerWeek
      BY <2>4 DEF LockTenant, RanThisWeek
    <3>2. PICK s \in summaries : s.at = worker[w].seen
      BY <3>1 DEF SummariesAreComplete
    <3>3. s.at \in Nat /\ s.at <= now /\ now - s.at \in Nat
      BY <2>1, <3>2
    <3>4. now - s.at < Week
      BY <3>1, <3>2, <3>3, Durations, WithinDays
    <3>5. at < s.at
      BY <2>1, <2>2, <3>3, <3>4
    <3>6. s.at - Week < at
      BY <2>1, <2>2, <3>3
    <3>7. at \in s.of
      BY <2>2, <3>5, <3>6 DEF SummariesAreComplete
    <3>8. QED
      BY <3>1, <3>7
  <2>5. QED
    BY <2>3, <2>4 DEF LeavesTenant
<1>3. QED
  BY <1>1, <1>2, CompleteNext, Invariance, PTL DEF Spec, NoHandoffIsLost
=============================================================================
