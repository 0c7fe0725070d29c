---------------------------- MODULE MCKnowledge ----------------------------
(***************************************************************************)
(* Instances of Knowledge for TLC.  A chunk needs two words and holds four *)
(* at most; a paragraph is long enough, or short, or oversized by itself.  *)
(***************************************************************************)
EXTENDS Knowledge, TLC

CONSTANTS q1, q2, readme, notes

Paragraphs == [long |-> 2, other |-> 3, short |-> 1, little |-> 1, huge |-> 5]

\* An introduction and a first section that are too short, then a section
\* that has to be split and a short one to be merged; a text without headings
\* whose short first paragraph is lost before a huge one; one too short to be
\* kept; and for the second source a section of the first.
Mixed ==
  [intro |-> <<"short">>,
   sections |-> << <<"short">>, <<"short", "huge">>, <<"short">> >>]
Flat == [intro |-> <<"little", "huge">>, sections |-> <<>>]
Stub == [intro |-> <<"short">>, sections |-> <<>>]
Note == [intro |-> <<"huge">>, sections |-> <<>>]

TwoSources == readme :> {Mixed, Flat, Stub} @@ notes :> {Note}

\* A text before and after its second section is rewritten.
Draft == [intro |-> <<>>, sections |-> << <<"long">>, <<"other">> >>]
Revised == [intro |-> <<>>, sections |-> << <<"long">>, <<"huge">> >>]

OneSource == readme :> {Draft, Revised}
=============================================================================
