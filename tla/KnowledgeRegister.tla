------------------------- MODULE KnowledgeRegister -------------------------
(***************************************************************************)
(* What org_knowledge promises about a source: a register that holds what  *)
(* is kept of one document, written as a whole by an ingest and emptied by *)
(* a delete.                                                               *)
(*                                                                         *)
(* A document is an introduction and a sequence of headed sections, each a *)
(* sequence of paragraphs.  Paragraphs have a size in words.               *)
(***************************************************************************)
EXTENDS Ordering

CONSTANTS
  Sources,    \* the values of source_path
  Documents,  \* the documents that may be ingested for each source
  Size,       \* the words of each paragraph
  MinSize,    \* the words that make 50 tokens
  MaxSize     \* the words that make 2000 tokens

VARIABLE text  \* the paragraphs held for each source

Words(paragraphs) == FoldLeft(LAMBDA n, p : n + Size[p], 0, paragraphs)

\* Of a document with headings everything is kept from its first part that
\* is long enough; of one without, all but some short paragraphs.
Kept(doc) ==
  LET parts == <<doc.intro>> \o doc.sections
      long == {i \in DOMAIN parts : Words(parts[i]) >= MinSize}
  IN IF doc.sections = <<>>
     THEN {At(doc.intro, S) :
             S \in {T \in SUBSET DOMAIN doc.intro :
                      \A i \in DOMAIN doc.intro \ T : Size[doc.intro[i]] < MinSize}}
     ELSE IF long = {} THEN {<<>>}
     ELSE {FlattenSeq(SubSeq(parts, Min(long), Len(parts)))}

RegisterInit == text = [s \in Sources |-> <<>>]

Write(s) ==
  \E doc \in Documents[s] : \E kept \in Kept(doc) : text' = [text EXCEPT ![s] = kept]
Clear(s) == text' = [text EXCEPT ![s] = <<>>]

RegisterSpec == RegisterInit /\ [][\E s \in Sources : Write(s) \/ Clear(s)]_text
=============================================================================
