-------------------------- MODULE ContextSelection --------------------------
(***************************************************************************)
(* select_context (llmasm/runtime/context.py): the memory items a model    *)
(* node is shown, and retrieve_workspace_context of the storage backends,  *)
(* one of its two sources.                                                 *)
(*                                                                         *)
(* A memory item is [id, kind, tokens, words]: kind "summary" and "chunk"  *)
(* are source passages, "note" is any other allowed kind; tokens is what   *)
(* the tokenizer counts and words the number of words, at least 1 each.    *)
(* A candidate is [item, score, tokens].                                   *)
(***************************************************************************)
EXTENDS Naturals, FiniteSets, SequencesExt

CONSTANTS
  MinScore,       \* context_min_score
  SummaryReserve, \* _SUMMARY_RESERVE_TOKENS
  BatchSize       \* _MAX_CANDIDATES_FOR_LLM

ASSUME SelectionAssumption == SummaryReserve \in Nat /\ BatchSize \in Nat

Least(a, b) == IF a <= b THEN a ELSE b

Cost(candidates) == FoldLeft(LAMBDA sum, c : sum + c.tokens, 0, candidates)

(* The candidates that are in a set, in their order.                       *)
Among(candidates, set) ==
  FoldLeft(LAMBDA kept, c : IF c \in set THEN Append(kept, c) ELSE kept, <<>>, candidates)

Before(a, b, shortFirst) ==
  \/ a.score > b.score
  \/ shortFirst /\ a.score = b.score /\ a.tokens < b.tokens

(* sorted(..., reverse=True), which is stable: a candidate stays behind    *)
(* the earlier ones that it is not before.                                 *)
Sorted(candidates, shortFirst) ==
  LET insert(sorted, c) ==
        LET n == Cardinality({k \in DOMAIN sorted : ~Before(c, sorted[k], shortFirst)})
        IN SubSeq(sorted, 1, n) \o <<c>> \o SubSeq(sorted, n + 1, Len(sorted))
  IN FoldLeft(insert, <<>>, candidates)

ByScore(candidates) == Sorted(candidates, FALSE)
ByRank(candidates) == Sorted(candidates, TRUE)

(* Seeded fault: the candidate itself is not counted.                      *)
TrimFault(candidates, budget) ==
  FoldLeft(LAMBDA kept, c : IF Cost(kept) >= budget THEN kept ELSE Append(kept, c),
           <<>>, candidates)

(* Seeded fault: the first candidate that does not fit ends it.            *)
TrimFault2(candidates, budget) ==
  LET fitting == {n \in DOMAIN candidates : Cost(SubSeq(candidates, 1, n)) <= budget}
  IN SubSeq(candidates, 1, Cardinality(fitting))

(* _trim: what does not fit is left out, what follows may still fit.       *)
Trim(candidates, budget) ==
  FoldLeft(LAMBDA kept, c : IF Cost(kept) + c.tokens > budget THEN kept ELSE Append(kept, c),
           <<>>, candidates)

Matching(candidates) == Among(candidates, {c \in Range(candidates) : c.score > 0})

(* retrieve_workspace_context: the items whose text overlaps with the      *)
(* query, trimmed to the same budget, but counted in words.                *)
TextMatches(items, overlap, budget) ==
  LET scored == [n \in DOMAIN items |-> [item |-> items[n], score |-> overlap[items[n].id],
                                         tokens |-> items[n].words]]
  IN Trim(Matching(ByScore(scored)), budget)

(* search_similar with its items' tokens; similarity 0 is not among the    *)
(* first twenty.                                                           *)
VectorMatches(items, similarity) ==
  LET scored == [n \in DOMAIN items |-> [item |-> items[n], score |-> similarity[items[n].id],
                                         tokens |-> items[n].tokens]]
  IN Matching(ByScore(scored))

(* by_id: one candidate for every item, in the order they were found, with *)
(* the higher score.                                                       *)
Merged(found) ==
  LET put(merged, c) ==
        IF \A n \in DOMAIN merged : merged[n].item # c.item THEN Append(merged, c)
        ELSE [n \in DOMAIN merged |->
                IF merged[n].item = c.item /\ c.score > merged[n].score THEN c ELSE merged[n]]
  IN FoldLeft(put, <<>>, found)

OfItems(candidates, kind) == Among(candidates, {c \in Range(candidates) : c.item.kind = kind})
Relevant(candidates) == Among(candidates, {c \in Range(candidates) : c.score >= MinScore})

(* Seeded fault: the summaries come last.                                  *)
RankedFault(candidates, budget) ==
  ByRank(Relevant(OfItems(candidates, "chunk")))
    \o ByRank(Relevant(OfItems(candidates, "note")))
    \o Trim(OfItems(candidates, "summary"), Least(SummaryReserve, budget))

(* Summaries first, as far as the reserve goes.                            *)
Ranked(candidates, budget) ==
  Trim(OfItems(candidates, "summary"), Least(SummaryReserve, budget))
    \o ByRank(Relevant(OfItems(candidates, "chunk")))
    \o ByRank(Relevant(OfItems(candidates, "note")))

(* filter_context_with_llm: of the first batch only what the model keeps.  *)
Filtered(candidates, dropped) ==
  LET batch == SubSeq(candidates, 1, Least(BatchSize, Len(candidates)))
  IN Among(batch, {c \in Range(batch) : c.item.id \notin dropped})
       \o SubSeq(candidates, BatchSize + 1, Len(candidates))

Offered(items, similarity, overlap, dropped, budget) ==
  Filtered(Ranked(Merged(VectorMatches(items, similarity) \o TextMatches(items, overlap, budget)),
                  budget), dropped)

Selected(items, similarity, overlap, dropped, budget) ==
  Trim(Offered(items, similarity, overlap, dropped, budget), budget)
=============================================================================
