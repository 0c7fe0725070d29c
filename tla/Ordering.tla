------------------------------ MODULE Ordering ------------------------------
(***************************************************************************)
(* sorted, list comprehensions with a condition, and ORDER BY, as the code *)
(* uses them: an order and a selection defined by how many elements come   *)
(* before an element.  (SortSeq and SelectSeq say the same, but the proof  *)
(* system does not know their definitions.)                                *)
(***************************************************************************)
EXTENDS Integers, SequencesExt

\* The elements of S, the one that nothing comes before first.
Sorted(S, Before(_, _)) ==
  [n \in 1..Cardinality(S) |->
     CHOOSE x \in S : Cardinality({y \in S : Before(y, x)}) = n - 1]

\* The elements of a sequence at some of its places, in their order.
At(seq, places) ==
  LET place == Sorted(places, <) IN [n \in DOMAIN place |-> seq[place[n]]]
=============================================================================
