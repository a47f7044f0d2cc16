----------------------------- MODULE Documents ------------------------------
(***************************************************************************)
(* A long document from its text to the prompts of later questions: it is  *)
(* chunked (Chunking), its chunks and its summary become memory items, and *)
(* each model node that runs later is shown a selection of them            *)
(* (ContextSelection).                                                     *)
(***************************************************************************)
EXTENDS Chunking, ContextSelection

CONSTANTS
  Budgets,        \* values of max_input_tokens
  SummaryTokens,  \* lengths of the summary the model writes
  Scores,         \* pairs of similarity and word overlap an item can have
  MaxAsked        \* questions are asked about texts of at most so many sentences

ASSUME DocumentsAssumption == Budgets \subseteq Nat /\ SummaryTokens \subseteq Nat

VARIABLE shown    \* what the last question was shown, and what of

vars == <<chunkVars, shown>>

Nothing == [budget |-> 0, items |-> <<>>, overlap |-> <<>>, dropped |-> {},
            offered |-> <<>>, kept |-> <<>>]

(* SimpleTokenizer counts 1.35 tokens for a word: the words of n tokens.   *)
Words(n) == (n * 20) \div 27
Positive(n) == IF n = 0 THEN 1 ELSE n
Item(kind, k, n) == [id |-> <<kind, k>>, kind |-> kind, tokens |-> Positive(n), words |-> Positive(Words(n))]

(* The workspace: the chunks as they were stored, then the summary, and a  *)
(* system note. A chunk counts as many tokens as it can at most.           *)
Memory(summary) ==
  [k \in DOMAIN chunks |-> Item("chunk", k, chunks[k].tokens)]
    \o <<Item("summary", 1, summary), Item("note", 1, 1)>>

IdsOf(items) == {items[n].id : n \in DOMAIN items}

Init == ChunkInit /\ shown = Nothing

(* A model node runs. (With prefer_run_context, one whose direct inputs    *)
(* are long enough is shown nothing.)                                      *)
Ask(budget, summary, scores, dropped) ==
  LET items      == Memory(summary)
      similarity == [id \in IdsOf(items) |-> scores[id][1]]
      overlap    == [id \in IdsOf(items) |-> scores[id][2]]
  IN shown' = [budget  |-> budget,
               items   |-> items,
               overlap |-> overlap,
               dropped |-> dropped,
               offered |-> Offered(items, similarity, overlap, dropped, budget),
               kept    |-> Selected(items, similarity, overlap, dropped, budget)]

Question ==
  /\ at = "done" /\ Len(text) <= MaxAsked
  /\ shown = Nothing
  /\ \E budget \in Budgets, summary \in SummaryTokens :
       LET ids == IdsOf(Memory(summary)) IN
       \E scores \in [ids -> Scores], dropped \in {{}} \cup {{id} : id \in ids} :
         Ask(budget, summary, scores, dropped)
  /\ UNCHANGED chunkVars

Advance == ChunkNext /\ UNCHANGED shown

Next == Advance \/ Question

Spec == Init /\ [][Next]_vars

-----------------------------------------------------------------------------
(* The running count a chunk was cut by is the sum over its own sentences, *)
(* overlap included, and no two neighbours share more than the overlap     *)
(* allows (the loops of SentenceTextChunker.chunk).                        *)
FirstTokens(t, n) ==
  LET sum[k \in 0..n] == IF k = 0 THEN 0 ELSE sum[k-1] + t[k]
  IN sum[n]

Tokens(i, j) == FirstTokens(text, j) - FirstTokens(text, i - 1)

CountsAreTrue ==
  /\ \A k \in DOMAIN chunks : chunks[k].tokens = Tokens(chunks[k].first, chunks[k].last)
  /\ \A k \in 1..Len(chunks) - 1 : Tokens(chunks[k+1].first, chunks[k].last) <= Overlap

(* What select_context shows a node is worth its budget, wherever it was   *)
(* found and whatever the reserve for summaries was used for: it fits, no  *)
(* offered item that would still fit is left out, and a summary that was   *)
(* offered comes first, never displaced by chunks with better scores.      *)
BudgetIsWellSpent ==
  /\ Cost(shown.kept) <= shown.budget
  /\ \A c \in Range(shown.offered) \ Range(shown.kept) :
       Cost(shown.kept) + c.tokens > shown.budget
  /\ \A n \in DOMAIN shown.offered :
       shown.offered[n].item.kind = "summary" =>
         n \in DOMAIN shown.kept /\ shown.kept[n] = shown.offered[n]
=============================================================================
