-------------------------- MODULE MCWeeklySummary --------------------------
(***************************************************************************)
(* An instance of WeeklySummary for TLC: weeks of two days of two ticks,   *)
(* and two worker processes that are alike.                                *)
(***************************************************************************)
EXTENDS WeeklySummary, TLC

CONSTANTS worker1, worker2

TwoWorkers == {worker1, worker2}
WorkerSymmetry == Permutations(TwoWorkers)
=============================================================================
