--------------------------- MODULE MCEntityGraph ---------------------------
(***************************************************************************)
(* An instance of EntityGraph for TLC.  Rows 1 and 2 are private and share *)
(* an entity; in Circles2 they share two, in different orders.  Row 3 is   *)
(* an org row.                                                             *)
(***************************************************************************)
EXTENDS EntityGraph, TLC

CONSTANTS w1, w2, alice, acme, team

WorkerSymmetry == Permutations({w1, w2})

Lists3 == << {<<alice, acme>>}, {<<acme>>}, {<<team>>, <<>>} >>

Circles2 == << {<<alice, acme>>}, {<<acme, alice>>} >>
=============================================================================
