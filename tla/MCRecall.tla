------------------------------ MODULE MCRecall ------------------------------
(***************************************************************************)
(* Instances of Recall for TLC.                                            *)
(***************************************************************************)
EXTENDS Recall

CONSTANTS model, lesson, episode, scratch, note, chunk, order1, order2, call1

\* A request without a work order that asks for the current rows, all of them.
Request(kind, type, scope) ==
  [kind |-> kind, type |-> type, scope |-> scope, asOf |-> FALSE,
   rerank |-> FALSE, maxChars |-> 0, order |-> NoOrder]

FourRows == {model, lesson, episode, scratch}
TypeOf == model :> "mental_model" @@ lesson :> "lesson"
            @@ episode :> "episodic" @@ scratch :> "short_term"
WeightOf == model :> 1 @@ lesson :> 2 @@ episode :> 2 @@ scratch :> 1
              @@ note :> 1 @@ chunk :> 1
LengthOf == model :> 3 @@ lesson :> 1 @@ episode :> 1 @@ scratch :> 1
              @@ note :> 1 @@ chunk :> 2
LinkPairs == {<<model, lesson>>, <<lesson, model>>, <<model, episode>>}

Mixed ==
  {[Request("recall", "mental_model", "all") EXCEPT !.maxChars = Unset],
   [Request("recall", "any", "private") EXCEPT !.asOf = TRUE, !.rerank = TRUE],
   [Request("recall", "any", "private") EXCEPT !.asOf = TRUE, !.order = order1],
   Request("recall", "short_term", "all"),
   Request("recall", "short_term", "archive"),
   Request("recall", "any", "archive"),
   [Request("context", "any", "private") EXCEPT !.maxChars = 2]}
OneOfMixed == [n \in {call1} |-> Mixed]

\* The model has been recalled before, under another order, and is about to
\* reach the largest count; the note has reached it.
Counted == model :> 1 @@ note :> 2
             @@ lesson :> 0 @@ episode :> 0 @@ scratch :> 0 @@ chunk :> 0
ReadBefore == {<<order2, model>>}

AskForChunks == [n \in {call1} |-> {Request("recall", "any", "knowledge")}]
=============================================================================
