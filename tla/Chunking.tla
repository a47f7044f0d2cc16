------------------------------ MODULE Chunking ------------------------------
(***************************************************************************)
(* SentenceTextChunker.chunk (llmasm/chunking.py): a text is cut into      *)
(* chunks of whole sentences, each one beginning with the last sentences   *)
(* of the one before.                                                      *)
(*                                                                         *)
(* A sentence is its number of tokens. The sentences of a chunk, and       *)
(* current_sentences, always follow each other in the text, so both are    *)
(* the interval from their first to their last sentence. One step is one   *)
(* iteration of the loop over the sentences, or of the loop that collects  *)
(* the overlap.                                                            *)
(*                                                                         *)
(* The tokens of a chunk are current_tokens when it was appended. Its      *)
(* token_count is counted again from the joined text; SimpleTokenizer      *)
(* rounds up, so that it is never more than the sum over the sentences.    *)
(***************************************************************************)
EXTENDS Naturals, Sequences

CONSTANTS
  Texts,      \* the texts: sequences of sentence lengths, as _split_sentences returns them
  Target,     \* target_tokens
  Overlap     \* overlap_tokens

(* SentenceTextChunker.__init__ raises for other values.                   *)
ASSUME ChunkerAssumption ==
  /\ Texts \subseteq Seq(Nat)
  /\ Target \in Nat /\ Overlap \in Nat
  /\ Overlap < Target

VARIABLES
  text,       \* the sentences
  next,       \* the sentence the loop is at
  first,      \* current_sentences are first .. next-1
  tokens,     \* current_tokens, and overlap_tokens while the overlap is collected
  tail,       \* overlap_sentences are tail .. next-1
  chunks,     \* what has been appended to the result
  at          \* "sentence", "overlap" or "done"

chunkVars == <<text, next, first, tokens, tail, chunks, at>>

Chunk == [first : Nat \ {0}, last : Nat \ {0}, tokens : Nat]

ChunkInit ==
  /\ text \in Texts
  /\ next = 1 /\ first = 1 /\ tokens = 0 /\ tail = 1
  /\ chunks = <<>>
  /\ at = IF text = <<>> THEN "done" ELSE "sentence"

(* Seeded fault: the sentence itself is not counted.                       *)
OverflowsFault == tokens > Target

(* The sentence does not fit behind the ones that wait.                    *)
Overflows == tokens > 0 /\ tokens + text[next] > Target

TakeSentence ==
  /\ at = "sentence" /\ next \in DOMAIN text
  /\ ~Overflows
  /\ tokens' = tokens + text[next]
  /\ next' = next + 1
  /\ UNCHANGED <<text, first, tail, chunks, at>>

EmitChunk ==
  /\ at = "sentence" /\ next \in DOMAIN text
  /\ Overflows
  /\ chunks' = Append(chunks, [first |-> first, last |-> next - 1, tokens |-> tokens])
  /\ tail' = next
  /\ tokens' = 0
  /\ at' = "overlap"
  /\ UNCHANGED <<text, next, first>>

(* The sentence before the ones collected so far still fits the overlap.   *)
Fits == tail > first /\ tokens + text[tail - 1] <= Overlap

GrowOverlap ==
  /\ at = "overlap"
  /\ Fits
  /\ tail' = tail - 1
  /\ tokens' = tokens + text[tail - 1]
  /\ UNCHANGED <<text, next, first, chunks, at>>

(* Seeded fault: the tokens of the overlap are forgotten.                  *)
StopOverlapFault ==
  /\ at = "overlap"
  /\ ~Fits
  /\ first' = tail
  /\ tokens' = text[next]
  /\ next' = next + 1
  /\ at' = "sentence"
  /\ UNCHANGED <<text, tail, chunks>>

(* current_sentences = overlap_sentences + [sentence].                     *)
StopOverlap ==
  /\ at = "overlap"
  /\ ~Fits
  /\ first' = tail
  /\ tokens' = tokens + text[next]
  /\ next' = next + 1
  /\ at' = "sentence"
  /\ UNCHANGED <<text, tail, chunks>>

(* Seeded fault: one sentence that is left is taken for the overlap.       *)
EmitRestFault ==
  /\ at = "sentence" /\ next \notin DOMAIN text
  /\ chunks' = IF first + 1 < next
                 THEN Append(chunks, [first |-> first, last |-> next - 1, tokens |-> tokens])
                 ELSE chunks
  /\ at' = "done"
  /\ UNCHANGED <<text, next, first, tokens, tail>>

(* What is left is the last chunk.                                         *)
EmitRest ==
  /\ at = "sentence" /\ next \notin DOMAIN text
  /\ chunks' = IF first < next
                 THEN Append(chunks, [first |-> first, last |-> next - 1, tokens |-> tokens])
                 ELSE chunks
  /\ at' = "done"
  /\ UNCHANGED <<text, next, first, tokens, tail>>

ChunkNext == TakeSentence \/ EmitChunk \/ GrowOverlap \/ StopOverlap \/ EmitRest

ChunkSpec == ChunkInit /\ [][ChunkNext]_chunkVars

-----------------------------------------------------------------------------
ChunkTypeOK ==
  /\ text \in Seq(Nat)
  /\ next \in Nat /\ first \in Nat /\ tail \in Nat
  /\ tokens \in Nat
  /\ chunks \in Seq(Chunk)
  /\ at \in {"sentence", "overlap", "done"}

(* The chunks go through the text from its first to its last sentence      *)
(* without a gap, and every chunk goes further than the one before: no     *)
(* sentence is lost between two chunks, and no chunk repeats another.      *)
NoSentenceLost ==
  /\ chunks # <<>> => chunks[1].first = 1
  /\ \A k \in 1..Len(chunks) - 1 :
       /\ chunks[k].first <= chunks[k+1].first
       /\ chunks[k+1].first <= chunks[k].last + 1
       /\ chunks[k].last < chunks[k+1].last
  /\ at = "done" /\ text # <<>> => chunks # <<>> /\ chunks[Len(chunks)].last = Len(text)

(* A chunk keeps to the target, or is one sentence behind an overlap that  *)
(* keeps to its own limit: nothing is ever added to a chunk that is full.  *)
ChunksFit ==
  \A k \in DOMAIN chunks :
    \/ chunks[k].tokens <= Target
    \/ chunks[k].tokens <= Overlap + text[chunks[k].last]
=============================================================================
