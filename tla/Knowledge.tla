----------------------------- MODULE Knowledge -----------------------------
(***************************************************************************)
(* Ingests and deletes of knowledge sources by requests that overlap, with *)
(* the embedding worker at work on the chunks.                             *)
(*                                                                         *)
(* A request is one transaction at READ COMMITTED.  Each of its statements *)
(* sees what was committed when the statement began and what the           *)
(* transaction did itself; it waits for a row another transaction is       *)
(* deleting, or for the unique index (source_path, chunk_index) while      *)
(* another transaction holds the key.  The index keeps two committed rows  *)
(* from having one place, so a row is known by its place until it is       *)
(* deleted.  The text of a chunk stands for its content hash.  Requests    *)
(* refused by the role check touch nothing and are left out.               *)
(***************************************************************************)
EXTENDS Ordering

CONSTANTS
  Requests,   \* requests that may be under way at the same time
  Sources,    \* the values of source_path
  Documents,  \* the documents that may be ingested for each source
  Size,       \* the words of each paragraph
  MinSize,    \* the words that make 50 tokens
  MaxSize     \* the words that make 2000 tokens

\* A document is an introduction and a sequence of headed sections, each a
\* sequence of paragraphs.
ASSUME KnowledgeAssumption ==
  /\ MinSize \in Nat \ {0} /\ MaxSize \in Nat /\ MinSize < MaxSize
  /\ \A p \in DOMAIN Size : Size[p] \in Nat
  /\ \A s \in Sources : \A doc \in Documents[s] :
       doc.intro \in Seq(DOMAIN Size) /\ doc.sections \in Seq(Seq(DOMAIN Size))

VARIABLES
  chunks,   \* the committed rows of org_knowledge
  request,  \* the transaction of each request
  held      \* the row the embedding worker has claimed, as it was read

vars == <<chunks, request, held>>

(***************************************************************************)
(* split_into_sections.                                                    *)
(***************************************************************************)
\* estimate_tokens
Words(paragraphs) == FoldLeft(LAMBDA n, p : n + Size[p], 0, paragraphs)

\* _paragraph_split: a paragraph that does not fit opens the next chunk.
SplitParagraphs(paragraphs) ==
  LET Add(split, p) ==
        IF split # <<>> /\ Words(Last(split)) + Size[p] <= MaxSize
        THEN [split EXCEPT ![Len(split)] = Append(@, p)]
        ELSE Append(split, <<p>>)
  IN FoldLeft(Add, <<>>, paragraphs)

\* A headed section: split when long, merged into the last one when short.
\* What a section without paragraphs adds is a separator, and no paragraph.
\* Mutant: a short section is dropped.
AddSection_Drop(sections, paragraphs) ==
  IF Words(paragraphs) > MaxSize THEN sections \o SplitParagraphs(paragraphs)
  ELSE IF Words(paragraphs) >= MinSize THEN Append(sections, paragraphs)
  ELSE sections
AddSection(sections, paragraphs) ==
  IF Words(paragraphs) > MaxSize THEN sections \o SplitParagraphs(paragraphs)
  ELSE IF Words(paragraphs) >= MinSize THEN Append(sections, paragraphs)
  ELSE IF sections # <<>> THEN [sections EXCEPT ![Len(sections)] = @ \o paragraphs]
  ELSE sections

Sections(doc) ==
  IF doc.sections = <<>>
  THEN LET split == SplitParagraphs(doc.intro)
       IN At(split, {i \in DOMAIN split : Words(split[i]) >= MinSize})
  ELSE FoldLeft(AddSection,
                IF Words(doc.intro) >= MinSize THEN <<doc.intro>> ELSE <<>>,
                doc.sections)

(***************************************************************************)
(* Rows and transactions.                                                  *)
(***************************************************************************)
NoEmbedding == <<>>  \* an embedding is that of a text, written as the text
NoClaim == [place |-> <<>>, text |-> <<>>, there |-> FALSE]

\* A request that is not under way.
NoRequest ==
  [pc |-> "none", source |-> CHOOSE s \in Sources : TRUE, sections |-> <<>>,
   snapshot |-> {}, deleted |-> {}, added |-> {}, embedding |-> NoEmbedding]

Init ==
  /\ chunks = {}
  /\ request = [q \in Requests |-> NoRequest]
  /\ held = NoClaim

Of(rows, s) == {c \in rows : c.source = s}
Place(c) == <<c.source, c.index>>
Places(rows) == {Place(c) : c \in rows}
InOrder(rows) == Sorted(rows, LAMBDA a, b : a.index < b.index)
Texts(rows) == LET row == InOrder(rows) IN [i \in DOMAIN row |-> row[i].text]

\* What a statement of request q sees.
Visible(q) == {c \in chunks : Place(c) \notin request[q].deleted} \cup request[q].added

Others(q) == Requests \ {q}
LockedByOthers(q) == UNION {request[o].deleted : o \in Others(q)}
AddedByOthers(q) == UNION {request[o].added : o \in Others(q)}

\* The end of a request that leaves nothing.
Drop(q) ==
  /\ request' = [request EXCEPT ![q] = NoRequest]
  /\ UNCHANGED <<chunks, held>>

\* The commit of a request that deletes the rows at places.  Nobody else has
\* these rows any more: they leave the snapshots of the others.
Commit(q, places) ==
  /\ chunks' = {c \in chunks : Place(c) \notin places} \cup request[q].added
  /\ request' = [o \in Requests |->
       IF o = q THEN NoRequest ELSE [request[o] EXCEPT !.snapshot = @ \ places]]
  /\ held' = [held EXCEPT !.there = @ /\ held.place \notin places]

(***************************************************************************)
(* The requests.                                                           *)
(***************************************************************************)
\* ingest_knowledge up to the first SELECT.  When the hashes are equal the
\* request ends here and changes nothing.  The DELETE that follows is skipped
\* when there is no row.
Ingest(q, s, doc) ==
  LET existing == Of(chunks, s)
  IN /\ request[q].pc = "none"
     /\ Texts(existing) # Sections(doc)
     /\ request' = [request EXCEPT
          ![q] = [NoRequest EXCEPT !.pc = IF existing # {} THEN "delete" ELSE "select",
                                   !.source = s, !.sections = Sections(doc)]]
     /\ UNCHANGED <<chunks, held>>

\* delete_knowledge: its DELETE comes first.
Delete(q, s) ==
  /\ request[q].pc = "none"
  /\ request' = [request EXCEPT
       ![q] = [NoRequest EXCEPT !.pc = "clear", !.source = s, !.snapshot = Places(Of(chunks, s))]]
  /\ UNCHANGED <<chunks, held>>

\* The DELETE of an ingest takes its snapshot.
BeginDelete(q) ==
  /\ request[q].pc = "delete"
  /\ request' = [request EXCEPT ![q].pc = "deleting",
                                ![q].snapshot = Places(Of(chunks, request[q].source))]
  /\ UNCHANGED <<chunks, held>>

\* The DELETE waits while others are deleting rows of its snapshot.
\* Mutant: it does not wait.
Obtainable_NoWait(q) == TRUE
Obtainable(q) == request[q].snapshot \cap LockedByOthers(q) = {}

EndDelete(q) ==
  /\ request[q].pc = "deleting"
  /\ Obtainable(q)
  /\ request' = [request EXCEPT ![q].pc = "select", ![q].snapshot = {},
                                ![q].deleted = request[q].snapshot]
  /\ UNCHANGED <<chunks, held>>

\* The chunk a request has come to.
Index(q) == Cardinality(request[q].added)
Section(q) == request[q].sections[Index(q) + 1]

\* SELECT embedding ... LIMIT 1 of any visible row with the same content.
SelectEmbedding(q) ==
  /\ request[q].pc = "select"
  /\ Index(q) < Len(request[q].sections)
  /\ LET same == {c \in Visible(q) : c.text = Section(q)}
     IN \E e \in IF same = {} THEN {NoEmbedding} ELSE {c.embedding : c \in same} :
          request' = [request EXCEPT ![q].pc = "insert", ![q].embedding = e]
  /\ UNCHANGED <<chunks, held>>

HasKey(c, q) == c.source = request[q].source /\ c.index = Index(q)

\* Another transaction that has not ended inserted or deleted the key.
\* Mutant: a committed key is waited for as well.
KeyPending_Committed(q) == \E c \in AddedByOthers(q) \cup Visible(q) : HasKey(c, q)
KeyPending(q) ==
  \/ \E c \in AddedByOthers(q) : HasKey(c, q)
  \/ \E c \in Visible(q) : HasKey(c, q) /\ Place(c) \in LockedByOthers(q)

\* A committed row has the key: the INSERT raises.
KeyTaken(q) == \E c \in Visible(q) : HasKey(c, q)

InsertChunk(q) ==
  /\ request[q].pc = "insert"
  /\ ~KeyPending(q) /\ ~KeyTaken(q)
  /\ LET row == [source |-> request[q].source, index |-> Index(q),
                 text |-> Section(q), embedding |-> request[q].embedding]
     IN request' = [request EXCEPT ![q].pc = "select", ![q].embedding = NoEmbedding,
                                   ![q].added = @ \cup {row}]
  /\ UNCHANGED <<chunks, held>>

\* The unique index refuses the row: the request fails and leaves nothing.
Collide(q) ==
  /\ request[q].pc = "insert"
  /\ ~KeyPending(q) /\ KeyTaken(q)
  /\ Drop(q)

\* Every chunk is in; the history record is written with the rest.
CommitIngest(q) ==
  /\ request[q].pc = "select"
  /\ Index(q) = Len(request[q].sections)
  /\ Commit(q, request[q].deleted)

CommitDelete(q) ==
  /\ request[q].pc = "clear"
  /\ Obtainable(q)
  /\ Commit(q, request[q].snapshot)

\* The connection or the process dies: the transaction is rolled back.
Abort(q) ==
  /\ request[q].pc # "none"
  /\ Drop(q)

(***************************************************************************)
(* The embedding worker over org_knowledge, a row at a time.               *)
(***************************************************************************)
\* A row without an embedding is claimed, and its text read, in a
\* transaction that ends before the embedding is asked for.
ClaimChunk ==
  /\ held = NoClaim
  /\ \E c \in chunks :
       /\ c.embedding = NoEmbedding
       /\ \A q \in Requests : Place(c) \notin request[q].deleted
       /\ held' = [place |-> Place(c), text |-> c.text, there |-> TRUE]
  /\ UNCHANGED <<chunks, request>>

\* UPDATE ... SET embedding WHERE id: nothing when the row is gone.  Mutant:
\* the row is found by its place in the source.
Claimed_ByPlace(c) == Place(c) = held.place
Claimed(c) == held.there /\ Place(c) = held.place

StoreEmbedding ==
  /\ held # NoClaim
  /\ held.there => \A q \in Requests : held.place \notin request[q].deleted
  /\ chunks' = {IF Claimed(c) THEN [c EXCEPT !.embedding = held.text] ELSE c : c \in chunks}
  /\ held' = NoClaim
  /\ UNCHANGED request

\* The embedding call fails, or the worker dies.
DropClaim ==
  /\ held # NoClaim
  /\ held' = NoClaim
  /\ UNCHANGED <<chunks, request>>

Next ==
  \/ \E q \in Requests :
       \/ \E s \in Sources : Delete(q, s) \/ \E doc \in Documents[s] : Ingest(q, s, doc)
       \/ BeginDelete(q) \/ EndDelete(q)
       \/ SelectEmbedding(q) \/ InsertChunk(q) \/ Collide(q)
       \/ CommitIngest(q) \/ CommitDelete(q) \/ Abort(q)
  \/ ClaimChunk \/ StoreEmbedding \/ DropClaim

Spec == Init /\ [][Next]_vars

(***************************************************************************)
(* Fairness: the database goes on with a transaction that waits for        *)
(* nothing, and one that waits gets its turn when others end.  Nothing is  *)
(* assumed about new requests or about failures.                           *)
(***************************************************************************)
Proceed(q) ==
  \/ BeginDelete(q) \/ EndDelete(q)
  \/ SelectEmbedding(q) \/ InsertChunk(q) \/ Collide(q)
  \/ CommitIngest(q) \/ CommitDelete(q)

FairSpec == Spec /\ \A q \in Requests : SF_vars(Proceed(q))

(***************************************************************************)
(* Properties.                                                             *)
(***************************************************************************)
\* Rows, transactions and the worker's claim are well formed.
TypeOK ==
  /\ \A c \in chunks \cup UNION {request[q].added : q \in Requests} :
       c.source \in Sources /\ c.index \in Nat /\ c.text # <<>>
  /\ \A q \in Requests :
       /\ request[q].pc \in {"none", "delete", "deleting", "clear", "select", "insert"}
       /\ request[q].snapshot \cup request[q].deleted \subseteq Places(chunks)
  /\ held.there => held.place \in Places(chunks)

\* The rows of a source are the sections of one document, each of them once:
\* no interleaving of ingests and deletes, whose statements each see another
\* snapshot, leaves a chunk of another version, doubles one or loses one.
SourcesAreWhole ==
  \A s \in Sources :
    LET rows == Of(chunks, s)
    IN rows # {} =>
         \E doc \in Documents[s] :
           /\ {c.index : c \in rows} = 0..Len(Sections(doc)) - 1
           /\ \A c \in rows : c.text = Sections(doc)[c.index + 1]
           /\ \A c, d \in rows : c.index = d.index => c = d

\* The chunks of a source, read in order, are one document as it is kept:
\* overlapping ingests and deletes never leave a mixture of two versions,
\* and splitting loses nothing that is long enough.
Register == INSTANCE KnowledgeRegister WITH
  text <- [s \in Sources |-> FlattenSeq(Texts(Of(chunks, s)))]

ImplementsRegister == Register!RegisterSpec

\* A chunk has the embedding of its own text or none, whatever row the
\* embedding was copied from and whatever replaced the row while the worker
\* was waiting for the embedding.
EmbeddingIsOfText == \A c \in chunks : c.embedding \in {NoEmbedding, c.text}

\* Requests never wait for each other in a circle: every one ends.
RequestsEnd == \A q \in Requests : request[q].pc # "none" ~> request[q].pc = "none"

(***************************************************************************)
(* What the repository says and the code does not do (see README.md).      *)
(***************************************************************************)
\* "For partially changed documents, the per-section dedup (embedding copy on
\* hash match) still applies": a section that keeps its text keeps its
\* embedding when its source is ingested again.
ReingestKeepsEmbeddings ==
  [][\A q \in Requests : CommitIngest(q) =>
       \A c \in chunks, d \in chunks' :
         /\ c.source = d.source /\ c.text = d.text /\ c.embedding # NoEmbedding
         => d.embedding # NoEmbedding]_vars
=============================================================================
