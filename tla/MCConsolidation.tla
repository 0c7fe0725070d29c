-------------------------- MODULE MCConsolidation --------------------------
(***************************************************************************)
(* Instances of Consolidation for TLC.  Sessions are model values; the     *)
(* sessions of one kind are interchangeable.                               *)
(***************************************************************************)
EXTENDS Consolidation, TLC

CONSTANTS request, request2, worker

OneRequest == {request}
OneWorker == {worker}
TwoRequests == {request, request2}
RequestSymmetry == Permutations(TwoRequests)
NoWorker == {}
=============================================================================
