------------------------------ MODULE Ranking ------------------------------
(***************************************************************************)
(* The pure part of recall: what recall_helpers, recall_rerank and         *)
(* _budget_memories compute from the rows the searches found.              *)
(*                                                                         *)
(* A hit is a row as one search saw it: its dynamic importance at that     *)
(* moment, whether MMR knows an embedding for it, and the row it was       *)
(* reached from when it was not searched for but linked.  Importance is in *)
(* units fine enough for the instances; what matters of it is the order.   *)
(***************************************************************************)
EXTENDS Ordering

CONSTANTS
  NoRow,   \* what a hit that was searched for is linked via
  Weight,  \* the stored importance of each row
  Length,  \* the characters of its content
  TopImportance,  \* where dynamic_importance caps the sum
  RrfK,    \* recall_rrf_k
  MaxDiverse  \* k of _mmr

ASSUME RankingAssumption ==
  /\ RrfK \in Nat /\ MaxDiverse \in Nat \ {0} /\ TopImportance \in Nat
  /\ \A row \in DOMAIN Length : Length[row] \in Nat \ {0}

RowsOf(hits) == {hits[i].row : i \in DOMAIN hits}
Places(hits, row) == {i \in DOMAIN hits : hits[i].row = row}

\* dynamic_importance: every recall adds to the importance, up to a cap, and
\* the confidence multiplies the sum.
DynamicImportance(weight, count, confidence) ==
  Min({TopImportance, weight + count}) * confidence

\* sorted(..., reverse=True): the largest key first, ties in their order.
StableSort(hits, key) ==
  LET Before(i, j) == key[i] > key[j] \/ (key[i] = key[j] /\ i < j)
      order == Sorted(DOMAIN hits, Before)
  IN [i \in DOMAIN hits |-> hits[order[i]]]

\* _sort_by_importance
SortByImportance(hits) == StableSort(hits, [i \in DOMAIN hits |-> hits[i].importance])

\* _rrf_fuse.  The score of a row that occurs n times is the sum over its
\* occurrences of 1/(k+1), 1/(k+2), ...; a row occurs in two lists at most,
\* so the scores are given here times (k+1)(k+2).
OccurrenceScore(n) == IF n = 1 THEN RrfK + 2 ELSE 2 * RrfK + 3

\* Of the hits of one row the first gives the place and the last the values.
\* Mutant: ties go to the row found last.
Fuse_LastFirst(hits, boosted) ==
  LET first == {i \in DOMAIN hits : i = Min(Places(hits, hits[i].row))}
      place == Sorted(first, >)
      merged == [i \in DOMAIN place |->
                   hits[Max(Places(hits, hits[place[i]].row))]]
      Score(hit) == OccurrenceScore(Cardinality(Places(hits, hit.row)))
                      * hit.importance
                      * (IF hit.row \in boosted THEN 3 ELSE 2)
  IN StableSort(merged, [i \in DOMAIN merged |-> Score(merged[i])])
Fuse(hits, boosted) ==
  LET first == {i \in DOMAIN hits : i = Min(Places(hits, hits[i].row))}
      place == Sorted(first, <)
      merged == [i \in DOMAIN place |->
                   hits[Max(Places(hits, hits[place[i]].row))]]
      Score(hit) == OccurrenceScore(Cardinality(Places(hits, hit.row)))
                      * hit.importance
                      * (IF hit.row \in boosted THEN 3 ELSE 2)
  IN StableSort(merged, [i \in DOMAIN merged |-> Score(merged[i])])

\* _mmr, on the candidates that pass min_score.  An embedding that a
\* candidate carries is the embedding of the query: the relevance of all such
\* candidates is the same, and each is redundant once another is selected.
\* Candidates without one are never selected but as the first.
Diversify(candidates) ==
  LET Redundant(hit, selected) ==
        hit.embedded /\ \E i \in DOMAIN selected : selected[i].embedded
      Take(selected, hit) ==
        IF selected = <<>> THEN <<hit>>
        ELSE IF /\ hit.embedded /\ ~Redundant(hit, selected)
                /\ Len(selected) < MaxDiverse
             THEN Append(selected, hit)
        ELSE selected
  IN FoldLeft(Take, <<>>, candidates)

\* _llm_rerank: the places the model names, those out of range dropped and
\* repeated ones kept, then the rows it did not name.
\* Mutant: the rows it did not name are lost.
Rerank_NamedOnly(hits, order) ==
  LET named == At(order, {i \in DOMAIN order : order[i] \in DOMAIN hits})
  IN [i \in DOMAIN named |-> hits[named[i]]]
Rerank(hits, order) ==
  LET named == At(order, {i \in DOMAIN order : order[i] \in DOMAIN hits})
      reranked == [i \in DOMAIN named |-> hits[named[i]]]
  IN reranked \o At(hits, {i \in DOMAIN hits : hits[i].row \notin RowsOf(reranked)})

AsRows(hits) == [i \in DOMAIN hits |-> hits[i].row]

\* The characters of some rows, and of the first n hits.
Total(rows) == FoldLeft(LAMBDA sum, r : sum + Length[r], 0, rows)
Used(hits, n) == Total(AsRows(SubSeq(hits, 1, n)))

\* The longest prefix each hit of which passes a test on what was used before
\* it and with it.
Prefix(hits, Passes(_, _, _)) ==
  LET kept == {n \in 0..Len(hits) :
                 \A i \in 1..n : Passes(i, Used(hits, i - 1), Used(hits, i))}
  IN SubSeq(hits, 1, Max(kept))

\* _apply_char_budget
ApplyCharBudget(hits, max) ==
  Prefix(hits, LAMBDA i, before, after :
                 before < max /\ (i = 1 \/ after <= max))

\* _budget_memories, on the buckets one after the other: one pool sorted by
\* importance is cut, and what survives goes back to its bucket's order.
\* Mutant: the pool is cut in the order of the buckets.
BudgetMemories_Unsorted(entries, budget) ==
  Prefix(entries, LAMBDA i, before, after : after <= budget \/ before = 0)
BudgetMemories(entries, budget) ==
  LET pool == StableSort(entries, [i \in DOMAIN entries |-> Weight[entries[i].row]])
      kept == Prefix(pool, LAMBDA i, before, after :
                             after <= budget \/ before = 0)
  IN At(entries, {i \in DOMAIN entries : entries[i].row \in RowsOf(kept)})
=============================================================================
