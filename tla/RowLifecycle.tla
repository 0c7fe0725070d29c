---------------------------- MODULE RowLifecycle ----------------------------
(***************************************************************************)
(* What the store promises about one agent's mental_model and lesson rows: *)
(* the life of a row in hindsight_memories, whoever writes it.  A row is   *)
(* born current, is retired at most once, either replaced by an UPDATE or  *)
(* pruned by a reflection that did not return it, and never comes back.    *)
(* Reflections change any number of rows at once but never delete one;     *)
(* forget deletes exactly one row and touches no other.                    *)
(***************************************************************************)
CONSTANT Row

VARIABLE status

Status == {"absent", "current", "replaced", "pruned", "forgotten"}

Present == {"current", "replaced", "pruned"}

\* What one reflection may do to one row.
Consolidate == { <<"absent", "current">>,
                 <<"current", "replaced">>, <<"current", "pruned">> }

Init == status = [r \in Row |-> "absent"]

\* A reflection commits: every row stays as it is or moves along one edge.
Reflect ==
  /\ status' \in [Row -> Status]
  /\ \A r \in Row : status'[r] = status[r] \/ <<status[r], status'[r]>> \in Consolidate

\* An agent forgets one row.
Forget(r) ==
  /\ status[r] \in Present
  /\ status' = [status EXCEPT ![r] = "forgotten"]

Next == Reflect \/ \E r \in Row : Forget(r)

Spec == Init /\ [][Next]_status
=============================================================================
