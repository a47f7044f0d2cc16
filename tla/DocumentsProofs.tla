-------------------------- MODULE DocumentsProofs ---------------------------
(***************************************************************************)
(* The chunker keeps every sentence and its limits, and what a model node  *)
(* is shown is worth its budget: for every text, target and overlap, every *)
(* memory made of the text and every answer of search and filter.          *)
(*                                                                         *)
(* The chunker's invariant says where its loops stand (Place) and how full *)
(* the sentences at hand are (Fullness). The lists of ContextSelection are *)
(* folds over candidates: Induction gives the values a fold goes through,  *)
(* and each lemma about a list is an induction over them                   *)
(* (IntervalInduction).                                                    *)
(***************************************************************************)
EXTENDS Documents, Induction, FiniteSetTheorems, TLAPS

LastChunk == chunks[Len(chunks)]

(* Where the loops stand, and how that joins the last chunk.               *)
Place ==
  /\ next \in 1..Len(text) + 1 /\ first \in 1..next
  /\ text = <<>> => at = "done"
  /\ at = "sentence" =>
       /\ next > 1 => first < next
       /\ chunks = <<>> => first = 1
       /\ chunks # <<>> => /\ LastChunk.first <= first
                           /\ first <= LastChunk.last + 1
                           /\ LastChunk.last + 1 < next
  /\ at = "overlap" =>
       /\ next <= Len(text) /\ tail \in first..next
       /\ chunks # <<>> /\ LastChunk.first = first /\ LastChunk.last = next - 1

(* How full the sentences at hand are.                                     *)
Fullness ==
  /\ at = "sentence" => \/ tokens <= Target
                        \/ next > 1 /\ tokens <= Overlap + text[next - 1]
  /\ at = "sentence" /\ next = 1 => tokens = 0
  /\ at = "overlap" => tokens <= Overlap

CInv == ChunkTypeOK /\ Place /\ Fullness /\ NoSentenceLost /\ ChunksFit

LEMMA ChunkInitInv == ChunkInit => CInv
<1> SUFFICES ASSUME ChunkInit PROVE CInv
  OBVIOUS
<1>1. text \in Seq(Nat) /\ chunks = <<>> /\ Len(text) \in Nat
  BY ChunkerAssumption DEF ChunkInit
<1>2. text # <<>> => Len(text) > 0
  BY <1>1
<1>3. ChunkTypeOK /\ NoSentenceLost /\ ChunksFit
  BY <1>1 DEF ChunkInit, ChunkTypeOK, NoSentenceLost, ChunksFit
<1>4. Place /\ Fullness
  BY <1>1, <1>2, ChunkerAssumption DEF ChunkInit, Place, Fullness
<1>5. QED
  BY <1>3, <1>4 DEF CInv

(* Appending a chunk that goes on where the last one ended keeps the       *)
(* chunks in order.                                                        *)
LEMMA Extended ==
  ASSUME NEW cs \in Seq(Chunk), NEW c \in Chunk,
         cs = <<>> => c.first = 1,
         cs # <<>> => /\ cs[1].first = 1
                      /\ cs[Len(cs)].first <= c.first
                      /\ c.first <= cs[Len(cs)].last + 1
                      /\ cs[Len(cs)].last < c.last,
         \A k \in 1..Len(cs) - 1 : /\ cs[k].first <= cs[k+1].first
                                   /\ cs[k+1].first <= cs[k].last + 1
                                   /\ cs[k].last < cs[k+1].last
  PROVE  LET ds == Append(cs, c) IN
         /\ ds \in Seq(Chunk) /\ ds # <<>> /\ Len(ds) = Len(cs) + 1
         /\ ds[Len(ds)] = c
         /\ ds[1].first = 1
         /\ \A k \in 1..Len(ds) - 1 : /\ ds[k].first <= ds[k+1].first
                                      /\ ds[k+1].first <= ds[k].last + 1
                                      /\ ds[k].last < ds[k+1].last
<1> DEFINE ds == Append(cs, c)
<1>1. /\ ds \in Seq(Chunk) /\ Len(ds) = Len(cs) + 1 /\ Len(cs) \in Nat
      /\ ds[Len(cs) + 1] = c
      /\ \A k \in 1..Len(cs) : ds[k] = cs[k]
  OBVIOUS
<1>2. cs = <<>> <=> Len(cs) = 0
  OBVIOUS
<1>3. ds[1].first = 1
  BY <1>1, <1>2
<1>4. ASSUME NEW k \in 1..Len(ds) - 1
      PROVE  ds[k].first <= ds[k+1].first /\ ds[k+1].first <= ds[k].last + 1 /\ ds[k].last < ds[k+1].last
  <2>1. CASE k < Len(cs)
    <3>1. ds[k] = cs[k] /\ ds[k+1] = cs[k+1] /\ k \in 1..Len(cs) - 1
      BY <1>1, <2>1
    <3>2. QED
      BY <3>1
  <2>2. CASE k = Len(cs)
    BY <1>1, <1>2, <2>2
  <2>3. QED
    BY <1>1, <2>1, <2>2
<1> HIDE DEF ds
<1>5. ds # <<>> /\ ds[Len(ds)] = c
  <2>1. Len(ds) # 0
    BY <1>1
  <2>2. QED
    BY <1>1, <2>1
<1> USE DEF ds
<1>6. QED
  BY <1>1, <1>3, <1>4, <1>5

LEMMA ChunkStepInv ==
  ASSUME CInv, [ChunkNext]_chunkVars
  PROVE  CInv'
<1> USE ChunkerAssumption DEF CInv
<1>0. text \in Seq(Nat) /\ Len(text) \in Nat /\ DOMAIN text = 1..Len(text)
  BY DEF ChunkTypeOK
<1>1. CASE TakeSentence
  <2>1. next \in 1..Len(text) /\ text[next] \in Nat
    BY <1>0, <1>1 DEF TakeSentence
  <2>2. ChunkTypeOK'
    BY <1>1, <2>1 DEF TakeSentence, ChunkTypeOK
  <2>3. Place'
    <3>1. chunks # <<>> => LastChunk \in Chunk
      BY DEF LastChunk, ChunkTypeOK
    <3>2. UNCHANGED <<text, first, chunks, at>> /\ next' = next + 1 /\ at = "sentence"
      BY <1>1 DEF TakeSentence
    <3>3. first \in 1..next
      BY DEF Place
    <3>4. chunks # <<>> => LastChunk.last + 1 < next + 1
      BY <2>1, <3>1, <3>2 DEF Place, Chunk
    <3>5. text # <<>> /\ first < next + 1
      BY <1>0, <2>1, <3>3
    <3>6. QED
      BY <1>0, <2>1, <3>2, <3>3, <3>4, <3>5 DEF Place, LastChunk
  <2>4. Fullness'
    BY <1>1, <2>1 DEF TakeSentence, ChunkTypeOK, Fullness, Overflows
  <2>5. NoSentenceLost' /\ ChunksFit'
    BY <1>1 DEF TakeSentence, NoSentenceLost, ChunksFit
  <2>6. QED
    BY <2>2, <2>3, <2>4, <2>5
<1>2. ASSUME at = "sentence", first < next, next > 1,
             \/ EmitChunk
             \/ EmitRest /\ chunks' = Append(chunks, [first |-> first, last |-> next - 1, tokens |-> tokens])
      PROVE  /\ chunks' \in Seq(Chunk) /\ chunks' # <<>>
             /\ chunks'[Len(chunks')] = [first |-> first, last |-> next - 1, tokens |-> tokens]
             /\ chunks'[1].first = 1
             /\ \A k \in 1..Len(chunks') - 1 : /\ chunks'[k].first <= chunks'[k+1].first
                                               /\ chunks'[k+1].first <= chunks'[k].last + 1
                                               /\ chunks'[k].last < chunks'[k+1].last
             /\ ChunksFit'
  <2> DEFINE c == [first |-> first, last |-> next - 1, tokens |-> tokens]
  <2>1. chunks' = Append(chunks, c) /\ UNCHANGED text
    BY <1>2 DEF EmitChunk, EmitRest
  <2>2. c \in Chunk /\ chunks \in Seq(Chunk)
    BY <1>2, <1>0 DEF Chunk, ChunkTypeOK, Place
  <2>3. chunks # <<>> => LastChunk \in Chunk
    BY <2>2 DEF LastChunk
  <2>4. /\ chunks = <<>> => c.first = 1
        /\ chunks # <<>> => /\ chunks[1].first = 1
                            /\ LastChunk.first <= c.first
                            /\ c.first <= LastChunk.last + 1
                            /\ LastChunk.last < c.last
    BY <1>2, <2>2, <2>3, <1>0 DEF Place, NoSentenceLost, Chunk
  <2>5. c.tokens <= Target \/ c.tokens <= Overlap + text[c.last]
    BY <1>2 DEF Fullness
  <2>6. ChunksFit'
    <3>1. ASSUME NEW k \in DOMAIN chunks'
          PROVE  chunks'[k].tokens <= Target \/ chunks'[k].tokens <= Overlap + text[chunks'[k].last]
      <4>1. CASE k \in DOMAIN chunks
        BY <2>1, <2>2, <4>1 DEF ChunksFit
      <4>2. CASE k \notin DOMAIN chunks
        BY <2>1, <2>2, <2>5, <3>1, <4>2
      <4>3. QED
        BY <4>1, <4>2
    <3>2. QED
      BY <2>1, <3>1 DEF ChunksFit
  <2>7. \A k \in 1..Len(chunks) - 1 : /\ chunks[k].first <= chunks[k+1].first
                                      /\ chunks[k+1].first <= chunks[k].last + 1
                                      /\ chunks[k].last < chunks[k+1].last
    BY DEF NoSentenceLost
  <2> HIDE DEF c
  <2>8. QED
    BY <2>1, <2>2, <2>4, <2>6, <2>7, Extended DEF LastChunk, c
<1>3. CASE EmitChunk
  <2>1. at = "sentence" /\ next \in 1..Len(text) /\ next > 1 /\ first < next
    BY <1>0, <1>3 DEF EmitChunk, Overflows, Fullness, Place
  <2>2. ChunkTypeOK'
    BY <1>2, <1>3, <2>1 DEF EmitChunk, ChunkTypeOK
  <2>3. Place'
    <3>1. LastChunk' = [first |-> first, last |-> next - 1, tokens |-> tokens] /\ chunks' # <<>>
      BY <1>2, <1>3, <2>1 DEF LastChunk
    <3>2. UNCHANGED <<text, next, first>> /\ tail' = next /\ at' = "overlap" /\ text # <<>>
      BY <1>0, <1>3, <2>1 DEF EmitChunk
    <3>3. QED
      BY <1>0, <2>1, <3>1, <3>2 DEF Place
  <2>4. Fullness'
    BY <1>3 DEF EmitChunk, Fullness
  <2>5. NoSentenceLost' /\ ChunksFit'
    BY <1>2, <1>3, <2>1 DEF EmitChunk, NoSentenceLost
  <2>6. QED
    BY <2>2, <2>3, <2>4, <2>5
<1>4. CASE GrowOverlap
  <2>1. tail > first /\ tail \in first..next /\ next \in 1..Len(text) /\ first \in 1..next
    BY <1>0, <1>4 DEF GrowOverlap, Fits, Place
  <2>2. text[tail - 1] \in Nat
    BY <1>0, <2>1
  <2>3. ChunkTypeOK'
    BY <1>4, <2>1, <2>2 DEF GrowOverlap, ChunkTypeOK
  <2>4. Place'
    BY <1>4, <2>1 DEF GrowOverlap, Place, LastChunk
  <2>5. Fullness'
    BY <1>4 DEF GrowOverlap, Fits, Fullness
  <2>6. NoSentenceLost' /\ ChunksFit'
    BY <1>4 DEF GrowOverlap, NoSentenceLost, ChunksFit
  <2>7. QED
    BY <2>3, <2>4, <2>5, <2>6
<1>5. CASE StopOverlap
  <2>1. next \in 1..Len(text) /\ text[next] \in Nat /\ tail \in first..next /\ first \in 1..next
    BY <1>0, <1>5 DEF StopOverlap, Place
  <2>2. ChunkTypeOK'
    BY <1>5, <2>1 DEF StopOverlap, ChunkTypeOK
  <2>3. Place'
    <3>1. chunks # <<>> /\ LastChunk.first = first /\ LastChunk.last = next - 1
      BY <1>5 DEF StopOverlap, Place
    <3>2. chunks' = chunks /\ text' = text /\ first' = tail /\ next' = next + 1 /\ at' = "sentence"
      BY <1>5 DEF StopOverlap
    <3>3. QED
      BY <1>0, <2>1, <3>1, <3>2 DEF Place, LastChunk
  <2>4. Fullness'
    BY <1>5, <2>1 DEF StopOverlap, Fullness, ChunkTypeOK
  <2>5. NoSentenceLost' /\ ChunksFit'
    BY <1>5 DEF StopOverlap, NoSentenceLost, ChunksFit
  <2>6. QED
    BY <2>2, <2>3, <2>4, <2>5
<1>6. CASE EmitRest
  <2>1. at = "sentence" /\ next = Len(text) + 1 /\ next > 1 /\ first < next
    BY <1>0, <1>6 DEF EmitRest, Place
  <2>2. chunks' = Append(chunks, [first |-> first, last |-> next - 1, tokens |-> tokens])
    BY <1>6, <2>1 DEF EmitRest
  <2>3. ChunkTypeOK'
    BY <1>2, <1>6, <2>1, <2>2 DEF EmitRest, ChunkTypeOK
  <2>4. Place' /\ Fullness'
    BY <1>6 DEF EmitRest, Place, Fullness
  <2>5. chunks'[Len(chunks')].last = Len(text)
    BY <1>0, <1>2, <1>6, <2>1, <2>2
  <2>6. NoSentenceLost' /\ ChunksFit'
    BY <1>2, <1>6, <2>1, <2>2, <2>5 DEF EmitRest, NoSentenceLost
  <2>7. QED
    BY <2>3, <2>4, <2>6
<1>7. CASE UNCHANGED chunkVars
  BY <1>7 DEF chunkVars, ChunkTypeOK, Place, Fullness, NoSentenceLost, ChunksFit, LastChunk
<1>8. QED
  BY <1>1, <1>3, <1>4, <1>5, <1>6, <1>7 DEF ChunkNext

(* Reading the memory changes nothing of it.                               *)
LEMMA ChunkedFirst == Spec => ChunkSpec
<1>1. Init => ChunkInit
  BY DEF Init
<1>2. [Next]_vars => [ChunkNext]_chunkVars
  BY DEF Next, Advance, Question, vars
<1>3. QED
  BY <1>1, <1>2, PTL DEF Spec, ChunkSpec

LEMMA ChunkInductive == Spec => []CInv
BY ChunkInitInv, ChunkStepInv, ChunkedFirst, PTL DEF ChunkSpec

(* The chunker's variables stay well typed: it never reads beyond the text *)
(* and never emits an empty chunk.                                         *)
THEOREM ChunkTypeCorrect == Spec => []ChunkTypeOK
BY ChunkInductive, PTL DEF CInv

(* For every text, target and overlap, no sentence is lost between chunks  *)
(* and every chunk goes further than the one before.                       *)
THEOREM SentencesKept == Spec => []NoSentenceLost
BY ChunkInductive, PTL DEF CInv

(* No chunk ever exceeds both the target and the overlap with one sentence *)
(* behind it.                                                              *)
THEOREM ChunksKeepTarget == Spec => []ChunksFit
BY ChunkInductive, PTL DEF CInv

-----------------------------------------------------------------------------
(* CountsAreTrue: the count a chunk was cut by is the sum over its         *)
(* sentences.                                                              *)

(* f is the function FirstTokens defines by recursion: there is one such   *)
(* function, and no other. (The loops reach one sentence after another, so *)
(* this is an invariant.)                                                  *)
Adds(f, t, n) == f = [k \in 0..n |-> IF k = 0 THEN 0 ELSE f[k-1] + t[k]]

OneSum(t, n) == \E f : Adds(f, t, n) /\ \A h : Adds(h, t, n) => h = f

LEMMA FirstIsTheSum ==
  ASSUME NEW t, NEW n, NEW f, Adds(f, t, n), \A h : Adds(h, t, n) => h = f
  PROVE  FirstTokens(t, n) = f[n]
<1> DEFINE sum == CHOOSE h : Adds(h, t, n)
<1>1. FirstTokens(t, n) = sum[n]
  BY DEF FirstTokens, Adds
<1>2. sum = f
  OBVIOUS
<1> QED  BY <1>1, <1>2

LEMMA SumOfNone ==
  ASSUME NEW t
  PROVE  OneSum(t, 0) /\ FirstTokens(t, 0) = 0
<1> DEFINE f == [k \in 0..0 |-> 0]
<1>1. \A h : Adds(h, t, 0) <=> h = f
  <2> SUFFICES ASSUME NEW h PROVE Adds(h, t, 0) <=> h = f
    OBVIOUS
  <2>1. Adds(h, t, 0) <=> h = [k \in 0..0 |-> IF k = 0 THEN 0 ELSE h[k-1] + t[k]]
    BY DEF Adds
  <2>2. [k \in 0..0 |-> IF k = 0 THEN 0 ELSE h[k-1] + t[k]] = f
    OBVIOUS
  <2> QED  BY <2>1, <2>2
<1>2. f[0] = 0
  OBVIOUS
<1> HIDE DEF f
<1>3. Adds(f, t, 0)
  BY <1>1
<1> QED  BY <1>1, <1>2, <1>3, FirstIsTheSum DEF OneSum

LEMMA SumGrows ==
  ASSUME NEW t, NEW N \in Nat, OneSum(t, N)
  PROVE  OneSum(t, N + 1) /\ FirstTokens(t, N + 1) = FirstTokens(t, N) + t[N + 1]
<1>1. PICK f : Adds(f, t, N) /\ \A h : Adds(h, t, N) => h = f
  BY DEF OneSum
<1> DEFINE e == [k \in 0..N+1 |-> IF k = N+1 THEN f[N] + t[N+1] ELSE f[k]]
<1>2. f[0] = 0 /\ \A k \in 1..N : f[k] = f[k-1] + t[k]
  BY <1>1 DEF Adds
<1>3. Adds(e, t, N+1)
  <2> DEFINE body(k) == IF k = 0 THEN 0 ELSE e[k-1] + t[k]
  <2>1. ASSUME NEW k \in 0..N+1 PROVE e[k] = body(k)
    <3>1. CASE k = 0
      BY <1>2, <3>1
    <3>2. CASE k \in 1..N
      <4>1. e[k] = f[k] /\ e[k-1] = f[k-1]
        BY <3>2
      <4> QED  BY <1>2, <3>2, <4>1
    <3>3. CASE k = N + 1
      <4>1. e[k] = f[N] + t[N+1] /\ e[k-1] = f[N]
        BY <3>3
      <4> QED  BY <3>3, <4>1
    <3> QED  BY <3>1, <3>2, <3>3
  <2>2. e = [k \in 0..N+1 |-> e[k]]
    OBVIOUS
  <2> HIDE DEF e
  <2>3. e = [k \in 0..N+1 |-> body(k)]
    BY <2>1, <2>2
  <2> QED  BY <2>3 DEF Adds
<1>4. ASSUME NEW h, Adds(h, t, N+1) PROVE h = e
  <2>1. h = [k \in 0..N+1 |-> IF k = 0 THEN 0 ELSE h[k-1] + t[k]]
    BY <1>4 DEF Adds
  <2> DEFINE g == [k \in 0..N |-> h[k]]
  <2>2. Adds(g, t, N)
    <3>1. ASSUME NEW k \in 0..N PROVE g[k] = IF k = 0 THEN 0 ELSE g[k-1] + t[k]
      <4>1. CASE k = 0
        BY <2>1, <4>1
      <4>2. CASE k # 0
        <5>1. k - 1 \in 0..N /\ k \in 0..N+1
          BY <4>2
        <5>2. h[k] = h[k-1] + t[k]
          BY <2>1, <5>1, <4>2
        <5> QED  BY <4>2, <5>1, <5>2
      <4> QED  BY <4>1, <4>2
    <3>2. g = [k \in 0..N |-> g[k]]
      OBVIOUS
    <3> HIDE DEF g
    <3> QED  BY <3>1, <3>2 DEF Adds
  <2>3. g = f
    BY <1>1, <2>2
  <2>4. ASSUME NEW k \in 0..N+1 PROVE h[k] = e[k]
    <3>1. CASE k \in 0..N
      BY <2>3, <3>1
    <3>2. CASE k = N + 1
      <4>1. h[k] = h[N] + t[N+1]
        BY <2>1, <3>2
      <4>2. h[N] = f[N]
        BY <2>3
      <4> QED  BY <3>2, <4>1, <4>2
    <3> QED  BY <3>1, <3>2
  <2>5. h = [k \in 0..N+1 |-> h[k]]
    BY <2>1
  <2> HIDE DEF e
  <2>6. e = [k \in 0..N+1 |-> e[k]]
    BY DEF e
  <2> QED  BY <2>4, <2>5, <2>6
<1>5. e[N+1] = f[N] + t[N+1]
  OBVIOUS
<1> HIDE DEF e
<1> QED  BY <1>1, <1>3, <1>4, <1>5, FirstIsTheSum DEF OneSum

(* The counts of the loops are sums, and what the sentences at hand share  *)
(* with the last chunk keeps to the overlap.                               *)
Counted ==
  /\ \A n \in 0..next - 1 : FirstTokens(text, n) \in Nat
  /\ \A n \in 1..next - 1 : FirstTokens(text, n) = FirstTokens(text, n - 1) + text[n]
  /\ at = "sentence" => tokens = Tokens(first, next - 1)
  /\ at = "overlap" => tokens = Tokens(tail, next - 1)
  /\ at = "sentence" /\ chunks # <<>> => Tokens(first, LastChunk.last) <= Overlap

SInv == CInv /\ OneSum(text, next - 1) /\ Counted /\ CountsAreTrue

(* Going on to the next sentence.                                          *)
LEMMA SumReaches ==
  ASSUME SInv, next \in 1..Len(text), text' = text, next' = next + 1
  PROVE  /\ OneSum(text, next - 1)'
         /\ \A n \in 0..next : FirstTokens(text, n) \in Nat
         /\ \A n \in 1..next : FirstTokens(text, n) = FirstTokens(text, n - 1) + text[n]
<1>1. next - 1 \in Nat /\ next - 1 + 1 = next /\ next' - 1 = next /\ text[next] \in Nat
  BY DEF SInv, CInv, ChunkTypeOK
<1>2. OneSum(text, next) /\ FirstTokens(text, next) = FirstTokens(text, next - 1) + text[next]
  BY <1>1, SumGrows DEF SInv
<1>3. FirstTokens(text, next - 1) \in Nat
  BY <1>1 DEF SInv, Counted
<1>4. FirstTokens(text, next) \in Nat
  BY <1>1, <1>2, <1>3
<1> QED  BY <1>1, <1>2, <1>4 DEF SInv, Counted

(* A chunk that is appended with a true count and a small overlap keeps    *)
(* the counts true.                                                        *)
LEMMA CountsExtended ==
  ASSUME SInv, text' = text, NEW c \in Chunk, chunks' = Append(chunks, c),
         c.tokens = Tokens(c.first, c.last),
         chunks # <<>> => Tokens(c.first, LastChunk.last) <= Overlap
  PROVE  CountsAreTrue'
<1>1. /\ Len(chunks) \in Nat /\ DOMAIN chunks = 1..Len(chunks)
      /\ Len(chunks') = Len(chunks) + 1 /\ DOMAIN chunks' = 1..Len(chunks) + 1
      /\ chunks'[Len(chunks) + 1] = c /\ \A k \in 1..Len(chunks) : chunks'[k] = chunks[k]
      /\ Len(chunks) # 0 => chunks # <<>>
  BY DEF SInv, CInv, ChunkTypeOK
<1>2. \A i, j : Tokens(i, j)' = Tokens(i, j)
  BY DEF Tokens
<1>3. ASSUME NEW k \in DOMAIN chunks'
      PROVE  chunks'[k].tokens = Tokens(chunks'[k].first, chunks'[k].last)
  <2>1. CASE k \in DOMAIN chunks
    BY <1>1, <2>1 DEF SInv, CountsAreTrue
  <2>2. CASE k = Len(chunks) + 1
    BY <1>1, <2>2
  <2> QED  BY <1>1, <1>3, <2>1, <2>2
<1>4. ASSUME NEW k \in 1..Len(chunks') - 1
      PROVE  Tokens(chunks'[k+1].first, chunks'[k].last) <= Overlap
  <2>1. CASE k \in 1..Len(chunks) - 1
    <3>1. chunks'[k] = chunks[k] /\ chunks'[k+1] = chunks[k+1]
      BY <1>1, <2>1
    <3> QED  BY <2>1, <3>1 DEF SInv, CountsAreTrue
  <2>2. CASE k = Len(chunks)
    <3>1. chunks'[k] = LastChunk /\ chunks'[k+1] = c /\ chunks # <<>>
      BY <1>1, <1>4, <2>2 DEF LastChunk
    <3> QED  BY <3>1
  <2>3. k \in 1..Len(chunks) - 1 \/ k = Len(chunks)
    <3>1. \A n \in Nat : \A m : m = n + 1 => 1..m - 1 = 1..n
      OBVIOUS
    <3>2. \A n \in Nat : \A i \in 1..n : i \in 1..n - 1 \/ i = n
      OBVIOUS
    <3>3. k \in 1..Len(chunks)
      BY <1>1, <3>1
    <3> QED  BY <1>1, <3>2, <3>3
  <2> QED  BY <2>1, <2>2, <2>3
<1>5. \A k \in DOMAIN chunks' : chunks'[k].tokens = Tokens(chunks[k].first, chunks[k].last)'
  BY <1>3 DEF Tokens
<1>6. \A k \in 1..Len(chunks') - 1 : Tokens(chunks[k+1].first, chunks[k].last)' <= Overlap
  BY <1>4 DEF Tokens
<1> QED  BY <1>5, <1>6 DEF CountsAreTrue

LEMMA SumStep ==
  ASSUME SInv, [ChunkNext]_chunkVars
  PROVE  (OneSum(text, next - 1) /\ Counted /\ CountsAreTrue)'
<1> DEFINE Goal == (OneSum(text, next - 1) /\ Counted /\ CountsAreTrue)'
<1> USE ChunkerAssumption DEF SInv, CInv
<1>0. text \in Seq(Nat) /\ Len(text) \in Nat /\ DOMAIN text = 1..Len(text)
  BY DEF ChunkTypeOK
<1>1. CASE TakeSentence
  <2>1. /\ next \in 1..Len(text) /\ text[next] \in Nat /\ at = "sentence" /\ first \in 1..next
        /\ tokens' = tokens + text[next] /\ next' = next + 1
        /\ UNCHANGED <<text, first, tail, chunks, at>>
    BY <1>0, <1>1 DEF TakeSentence, Place
  <2>2. /\ OneSum(text, next - 1)'
        /\ \A n \in 0..next : FirstTokens(text, n) \in Nat
        /\ \A n \in 1..next : FirstTokens(text, n) = FirstTokens(text, n - 1) + text[n]
    BY <2>1, SumReaches
  <2>3. next' - 1 = next /\ tokens' = Tokens(first, next)
    <3>1. tokens = FirstTokens(text, next - 1) - FirstTokens(text, first - 1)
      BY <2>1 DEF Counted, Tokens
    <3>2. FirstTokens(text, next) = FirstTokens(text, next - 1) + text[next]
      BY <2>1, <2>2
    <3>3. FirstTokens(text, next - 1) \in Nat /\ FirstTokens(text, first - 1) \in Nat
      BY <2>1, <2>2
    <3> QED  BY <2>1, <3>1, <3>2, <3>3 DEF Tokens
  <2>4. Counted'
    BY <2>1, <2>2, <2>3 DEF Counted, Tokens, LastChunk
  <2>5. CountsAreTrue'
    BY <2>1 DEF CountsAreTrue, Tokens
  <2> QED  BY <2>2, <2>4, <2>5
<1>2. CASE EmitChunk
  <2> DEFINE c == [first |-> first, last |-> next - 1, tokens |-> tokens]
  <2>1. /\ next \in 1..Len(text) /\ at = "sentence" /\ next > 1 /\ first < next /\ first \in 1..next
        /\ tail' = next /\ tokens' = 0 /\ at' = "overlap" /\ chunks' = Append(chunks, c)
        /\ UNCHANGED <<text, next, first>>
    BY <1>0, <1>2 DEF EmitChunk, Overflows, Fullness, Place
  <2>2. c \in Chunk
    BY <2>1 DEF Chunk, ChunkTypeOK
  <2>3. c.tokens = Tokens(c.first, c.last) /\ (chunks # <<>> => Tokens(c.first, LastChunk.last) <= Overlap)
    BY <2>1 DEF Counted
  <2> HIDE DEF c
  <2>4. CountsAreTrue'
    BY <2>1, <2>2, <2>3, CountsExtended
  <2>5. Tokens(next, next - 1) = 0
    <3>1. FirstTokens(text, next - 1) \in Nat
      BY <2>1 DEF Counted
    <3> QED  BY <3>1 DEF Tokens
  <2>6. Counted'
    BY <2>1, <2>5 DEF Counted, Tokens
  <2> QED  BY <2>1, <2>4, <2>6
<1>3. CASE GrowOverlap
  <2>1. /\ tail > first /\ tail \in first..next /\ next \in 1..Len(text) /\ first \in 1..next
        /\ at = "overlap" /\ tail' = tail - 1 /\ tokens' = tokens + text[tail - 1]
        /\ UNCHANGED <<text, next, first, chunks, at>>
    BY <1>0, <1>3 DEF GrowOverlap, Fits, Place
  <2>2. tail - 1 \in 1..next - 1 /\ text[tail - 1] \in Nat
    BY <1>0, <2>1
  <2>3. tokens' = Tokens(tail - 1, next - 1)
    <3>1. FirstTokens(text, tail - 1) = FirstTokens(text, tail - 1 - 1) + text[tail - 1]
      BY <2>2 DEF Counted
    <3>2. /\ FirstTokens(text, tail - 1) \in Nat /\ FirstTokens(text, tail - 1 - 1) \in Nat
          /\ FirstTokens(text, next - 1) \in Nat
      BY <2>1, <2>2 DEF Counted
    <3>3. tokens = FirstTokens(text, next - 1) - FirstTokens(text, tail - 1)
      BY <2>1 DEF Counted, Tokens
    <3> QED  BY <2>1, <2>2, <3>1, <3>2, <3>3 DEF Tokens
  <2>4. Counted'
    BY <2>1, <2>3 DEF Counted, Tokens
  <2>5. CountsAreTrue'
    BY <2>1 DEF CountsAreTrue, Tokens
  <2> QED  BY <2>1, <2>4, <2>5
<1>4. CASE StopOverlap
  <2>1. /\ next \in 1..Len(text) /\ text[next] \in Nat /\ tail \in first..next /\ first \in 1..next
        /\ chunks # <<>> /\ LastChunk.last = next - 1 /\ at = "overlap" /\ at' = "sentence"
        /\ first' = tail /\ tokens' = tokens + text[next] /\ next' = next + 1
        /\ UNCHANGED <<text, tail, chunks>>
    BY <1>0, <1>4 DEF StopOverlap, Place
  <2>2. /\ OneSum(text, next - 1)'
        /\ \A n \in 0..next : FirstTokens(text, n) \in Nat
        /\ \A n \in 1..next : FirstTokens(text, n) = FirstTokens(text, n - 1) + text[n]
    BY <2>1, SumReaches
  <2>3. next' - 1 = next /\ tokens' = Tokens(tail, next)
    <3>1. tokens = FirstTokens(text, next - 1) - FirstTokens(text, tail - 1)
      BY <2>1 DEF Counted, Tokens
    <3>2. FirstTokens(text, next) = FirstTokens(text, next - 1) + text[next]
      BY <2>1, <2>2
    <3>3. FirstTokens(text, next - 1) \in Nat /\ FirstTokens(text, tail - 1) \in Nat
      BY <2>1, <2>2
    <3> QED  BY <2>1, <3>1, <3>2, <3>3 DEF Tokens
  <2>4. Tokens(tail, LastChunk.last) <= Overlap
    BY <2>1 DEF Counted, Fullness
  <2>5. Counted'
    BY <2>1, <2>2, <2>3, <2>4 DEF Counted, Tokens, LastChunk
  <2>6. CountsAreTrue'
    BY <2>1 DEF CountsAreTrue, Tokens
  <2> QED  BY <2>2, <2>5, <2>6
<1>5. CASE EmitRest
  <2> DEFINE c == [first |-> first, last |-> next - 1, tokens |-> tokens]
  <2>1. /\ at = "sentence" /\ next = Len(text) + 1 /\ next > 1 /\ first < next /\ first \in 1..next
        /\ chunks' = Append(chunks, c) /\ at' = "done" /\ UNCHANGED <<text, next, first, tokens, tail>>
    BY <1>0, <1>5 DEF EmitRest, Place
  <2>2. c \in Chunk
    BY <2>1 DEF Chunk, ChunkTypeOK
  <2>3. c.tokens = Tokens(c.first, c.last) /\ (chunks # <<>> => Tokens(c.first, LastChunk.last) <= Overlap)
    BY <2>1 DEF Counted
  <2> HIDE DEF c
  <2>4. CountsAreTrue'
    BY <2>1, <2>2, <2>3, CountsExtended
  <2>5. Counted'
    BY <2>1 DEF Counted
  <2> QED  BY <2>1, <2>4, <2>5
<1>6. CASE UNCHANGED chunkVars
  BY <1>6 DEF chunkVars, Counted, CountsAreTrue, Tokens, LastChunk
<1> QED  BY <1>1, <1>2, <1>3, <1>4, <1>5, <1>6 DEF ChunkNext

(* The count a chunk was cut by is the sum over its own sentences, and     *)
(* neighbours share no more than the overlap, for every text.              *)
THEOREM CountsAreSums == Spec => []CountsAreTrue
<1>1. ChunkInit => OneSum(text, next - 1) /\ Counted /\ CountsAreTrue
  <2> SUFFICES ASSUME ChunkInit PROVE OneSum(text, next - 1) /\ Counted /\ CountsAreTrue
    OBVIOUS
  <2>1. OneSum(text, 0) /\ FirstTokens(text, 0) = 0 /\ next - 1 = 0 /\ first = 1
    BY SumOfNone DEF ChunkInit
  <2>2. chunks = <<>> /\ Len(chunks) = 0 /\ tokens = 0 /\ at # "overlap"
    BY DEF ChunkInit
  <2>3. Counted
    BY <2>1, <2>2 DEF Counted, Tokens
  <2>4. CountsAreTrue
    BY <2>2 DEF CountsAreTrue
  <2> QED  BY <2>1, <2>3, <2>4
<1>2. SInv /\ [ChunkNext]_chunkVars => SInv'
  BY ChunkStepInv, SumStep DEF SInv
<1>3. SInv => CountsAreTrue
  BY DEF SInv
<1> QED  BY <1>1, <1>2, <1>3, ChunkInitInv, ChunkedFirst, PTL DEF ChunkSpec, SInv

-----------------------------------------------------------------------------
(* The steps of the folds of ContextSelection.                             *)
WithinTrim(kept, c, budget) ==
  IF Cost(kept) + c.tokens > budget THEN kept ELSE Append(kept, c)

IfAmong(kept, c, set) == IF c \in set THEN Append(kept, c) ELSE kept

Inserted(sorted, c, shortFirst) ==
  LET n == Cardinality({k \in DOMAIN sorted : ~Before(c, sorted[k], shortFirst)})
  IN SubSeq(sorted, 1, n) \o <<c>> \o SubSeq(sorted, n + 1, Len(sorted))

MergedWith(merged, c) ==
  IF \A n \in DOMAIN merged : merged[n].item # c.item THEN Append(merged, c)
  ELSE [n \in DOMAIN merged |->
          IF merged[n].item = c.item /\ c.score > merged[n].score THEN c ELSE merged[n]]

(* The sums a cost is made of.                                             *)
LEMMA CostSteps ==
  ASSUME NEW C, \A c \in C : c.tokens \in Nat, NEW cs \in Seq(C)
  PROVE  \E v \in [0..Len(cs) -> Nat] :
           /\ v[0] = 0
           /\ \A k \in 1..Len(cs) : v[k] = v[k-1] + cs[k].tokens
           /\ Cost(cs) = v[Len(cs)]
<1> DEFINE n == Len(cs)
           S == Nat
           step == [c \in C |-> [x \in S |-> x + c.tokens]]
<1>1. n \in Nat /\ cs \in [1..n -> C] /\ DOMAIN cs = 1..n /\ n \in 0..n
  OBVIOUS
<1>2. 0 \in S
  OBVIOUS
<1>3. ASSUME NEW c \in C, NEW x \in S
      PROVE  x + c.tokens \in S
  OBVIOUS
<1>4. step \in [C -> [S -> S]]
  BY <1>3
<1>5. PICK iter : Folds(iter, S, step, 0, cs, n)
  <2> HIDE DEF step, S, n
  <2>1. QED
    BY <1>1, <1>2, <1>4, FoldExists
<1>6. \A s \in SUBSET (1..n) : s # {} => cs[Max(s)] \in C /\ s \ {Max(s)} \in SUBSET (1..n)
  BY <1>1, MaxOfNumbers
<1> DEFINE It(it) == it = [s \in SUBSET (1..n) |->
                            IF s = {} THEN 0 ELSE it[s \ {Max(s)}] + cs[Max(s)].tokens]
<1>7. It(iter)
  <2>1. iter = [s \in SUBSET (1..n) |-> IF s = {} THEN 0 ELSE step[cs[Max(s)]][iter[s \ {Max(s)}]]]
    BY <1>5 DEF Folds
  <2>2. iter \in [SUBSET (1..n) -> S]
    BY <1>5 DEF Folds
  <2>3. ASSUME NEW s \in SUBSET (1..n), s # {}
        PROVE  step[cs[Max(s)]][iter[s \ {Max(s)}]] = iter[s \ {Max(s)}] + cs[Max(s)].tokens
    BY <1>6, <2>2, <2>3
  <2>4. QED
    BY <2>1, <2>3
<1>8. Cost(cs) = (CHOOSE it : It(it))[1..n]
  BY <1>1 DEF Cost, FoldLeft, MapThenFoldSet
<1>9. PICK it : It(it) /\ Cost(cs) = it[1..n]
  <2> HIDE DEF It
  <2>1. QED
    BY <1>7, <1>8
<1> DEFINE v == [k \in 0..n |-> it[1..k]]
<1>10. v[0] = 0
  BY <1>1, <1>9
<1>11. ASSUME NEW k \in 1..n
       PROVE  v[k] = v[k-1] + cs[k].tokens
  <2>1. Max(1..k) = k /\ (1..k) \ {k} = 1..(k-1) /\ 1..k \in SUBSET (1..n) /\ 1..k # {}
    BY <1>1, LastOfInterval
  <2>2. it[1..k] = it[1..(k-1)] + cs[k].tokens
    BY <1>9, <2>1
  <2>3. QED
    BY <1>1, <2>2
<1>12. v \in [0..n -> S]
  <2> DEFINE T == {k \in 0..n : v[k] \in S}
  <2> HIDE DEF v, S
  <2>1. 0 \in T
    BY <1>1, <1>2, <1>10
  <2>2. \A k \in 1..n : k - 1 \in T => k \in T
    <3> SUFFICES ASSUME NEW k \in 1..n, v[k-1] \in S PROVE v[k] \in S
      BY <1>1
    <3>1. QED
      BY <1>1, <1>3, <1>11
  <2>3. 0..n \subseteq T
    <3> HIDE DEF T, n
    <3>1. QED
      BY <1>1, <2>1, <2>2, IntervalInduction
  <2>4. QED
    BY <2>3 DEF v
<1>13. QED
  <2> HIDE DEF v
  <2>1. v[n] = Cost(cs)
    BY <1>1, <1>9 DEF v
  <2>2. QED
    BY <1>10, <1>11, <1>12, <2>1

(* What is kept after each candidate.                                      *)
LEMMA TrimSteps ==
  ASSUME NEW C, \A c \in C : c.tokens \in Nat, NEW cs \in Seq(C), NEW budget
  PROVE  \E v \in [0..Len(cs) -> Seq(C)] :
           /\ v[0] = <<>>
           /\ \A k \in 1..Len(cs) : v[k] = WithinTrim(v[k-1], cs[k], budget)
           /\ Trim(cs, budget) = v[Len(cs)]
<1> DEFINE n == Len(cs)
           S == Seq(C)
           step == [c \in C |-> [x \in S |-> WithinTrim(x, c, budget)]]
<1>1. n \in Nat /\ cs \in [1..n -> C] /\ DOMAIN cs = 1..n /\ n \in 0..n
  OBVIOUS
<1>2. <<>> \in S
  OBVIOUS
<1>3. ASSUME NEW c \in C, NEW x \in S
      PROVE  WithinTrim(x, c, budget) \in S
  <2>1. CASE Cost(x) + c.tokens > budget
    BY <2>1 DEF WithinTrim
  <2>2. CASE ~ (Cost(x) + c.tokens > budget)
    BY <2>2 DEF WithinTrim
  <2>3. QED
    BY <2>1, <2>2
<1>4. step \in [C -> [S -> S]]
  BY <1>3
<1>5. PICK iter : Folds(iter, S, step, <<>>, cs, n)
  <2> HIDE DEF step, S, n
  <2>1. QED
    BY <1>1, <1>2, <1>4, FoldExists
<1>6. \A s \in SUBSET (1..n) : s # {} => cs[Max(s)] \in C /\ s \ {Max(s)} \in SUBSET (1..n)
  BY <1>1, MaxOfNumbers
<1> DEFINE It(it) == it = [s \in SUBSET (1..n) |->
                            IF s = {} THEN <<>> ELSE WithinTrim(it[s \ {Max(s)}], cs[Max(s)], budget)]
<1>7. It(iter)
  <2>1. iter = [s \in SUBSET (1..n) |-> IF s = {} THEN <<>> ELSE step[cs[Max(s)]][iter[s \ {Max(s)}]]]
    BY <1>5 DEF Folds
  <2>2. iter \in [SUBSET (1..n) -> S]
    BY <1>5 DEF Folds
  <2>3. ASSUME NEW s \in SUBSET (1..n), s # {}
        PROVE  step[cs[Max(s)]][iter[s \ {Max(s)}]] = WithinTrim(iter[s \ {Max(s)}], cs[Max(s)], budget)
    BY <1>6, <2>2, <2>3
  <2>4. QED
    BY <2>1, <2>3
<1>8. Trim(cs, budget) = (CHOOSE it : It(it))[1..n]
  BY <1>1 DEF Trim, WithinTrim, FoldLeft, MapThenFoldSet
<1>9. PICK it : It(it) /\ Trim(cs, budget) = it[1..n]
  <2> HIDE DEF It
  <2>1. QED
    BY <1>7, <1>8
<1> DEFINE v == [k \in 0..n |-> it[1..k]]
<1>10. v[0] = <<>>
  BY <1>1, <1>9
<1>11. ASSUME NEW k \in 1..n
       PROVE  v[k] = WithinTrim(v[k-1], cs[k], budget)
  <2>1. Max(1..k) = k /\ (1..k) \ {k} = 1..(k-1) /\ 1..k \in SUBSET (1..n) /\ 1..k # {}
    BY <1>1, LastOfInterval
  <2>2. it[1..k] = WithinTrim(it[1..(k-1)], cs[k], budget)
    BY <1>9, <2>1
  <2>3. QED
    BY <1>1, <2>2
<1>12. v \in [0..n -> S]
  <2> DEFINE T == {k \in 0..n : v[k] \in S}
  <2> HIDE DEF v, S
  <2>1. 0 \in T
    BY <1>1, <1>2, <1>10
  <2>2. \A k \in 1..n : k - 1 \in T => k \in T
    <3> SUFFICES ASSUME NEW k \in 1..n, v[k-1] \in S PROVE v[k] \in S
      BY <1>1
    <3>1. QED
      BY <1>1, <1>3, <1>11
  <2>3. 0..n \subseteq T
    <3> HIDE DEF T, n
    <3>1. QED
      BY <1>1, <2>1, <2>2, IntervalInduction
  <2>4. QED
    BY <2>3 DEF v
<1>13. QED
  <2> HIDE DEF v
  <2>1. v[n] = Trim(cs, budget)
    BY <1>1, <1>9 DEF v
  <2>2. QED
    BY <1>10, <1>11, <1>12, <2>1

(* What is among the set after each candidate.                             *)
LEMMA AmongSteps ==
  ASSUME NEW C, \A c \in C : c.tokens \in Nat, NEW cs \in Seq(C), NEW set
  PROVE  \E v \in [0..Len(cs) -> Seq(C \cap set)] :
           /\ v[0] = <<>>
           /\ \A k \in 1..Len(cs) : v[k] = IfAmong(v[k-1], cs[k], set)
           /\ Among(cs, set) = v[Len(cs)]
<1> DEFINE n == Len(cs)
           S == Seq(C \cap set)
           step == [c \in C |-> [x \in S |-> IfAmong(x, c, set)]]
<1>1. n \in Nat /\ cs \in [1..n -> C] /\ DOMAIN cs = 1..n /\ n \in 0..n
  OBVIOUS
<1>2. <<>> \in S
  OBVIOUS
<1>3. ASSUME NEW c \in C, NEW x \in S
      PROVE  IfAmong(x, c, set) \in S
  <2>1. CASE c \in set
    BY <2>1 DEF IfAmong
  <2>2. CASE ~ (c \in set)
    BY <2>2 DEF IfAmong
  <2>3. QED
    BY <2>1, <2>2
<1>4. step \in [C -> [S -> S]]
  BY <1>3
<1>5. PICK iter : Folds(iter, S, step, <<>>, cs, n)
  <2> HIDE DEF step, S, n
  <2>1. QED
    BY <1>1, <1>2, <1>4, FoldExists
<1>6. \A s \in SUBSET (1..n) : s # {} => cs[Max(s)] \in C /\ s \ {Max(s)} \in SUBSET (1..n)
  BY <1>1, MaxOfNumbers
<1> DEFINE It(it) == it = [s \in SUBSET (1..n) |->
                            IF s = {} THEN <<>> ELSE IfAmong(it[s \ {Max(s)}], cs[Max(s)], set)]
<1>7. It(iter)
  <2>1. iter = [s \in SUBSET (1..n) |-> IF s = {} THEN <<>> ELSE step[cs[Max(s)]][iter[s \ {Max(s)}]]]
    BY <1>5 DEF Folds
  <2>2. iter \in [SUBSET (1..n) -> S]
    BY <1>5 DEF Folds
  <2>3. ASSUME NEW s \in SUBSET (1..n), s # {}
        PROVE  step[cs[Max(s)]][iter[s \ {Max(s)}]] = IfAmong(iter[s \ {Max(s)}], cs[Max(s)], set)
    BY <1>6, <2>2, <2>3
  <2>4. QED
    BY <2>1, <2>3
<1>8. Among(cs, set) = (CHOOSE it : It(it))[1..n]
  BY <1>1 DEF Among, IfAmong, FoldLeft, MapThenFoldSet
<1>9. PICK it : It(it) /\ Among(cs, set) = it[1..n]
  <2> HIDE DEF It
  <2>1. QED
    BY <1>7, <1>8
<1> DEFINE v == [k \in 0..n |-> it[1..k]]
<1>10. v[0] = <<>>
  BY <1>1, <1>9
<1>11. ASSUME NEW k \in 1..n
       PROVE  v[k] = IfAmong(v[k-1], cs[k], set)
  <2>1. Max(1..k) = k /\ (1..k) \ {k} = 1..(k-1) /\ 1..k \in SUBSET (1..n) /\ 1..k # {}
    BY <1>1, LastOfInterval
  <2>2. it[1..k] = IfAmong(it[1..(k-1)], cs[k], set)
    BY <1>9, <2>1
  <2>3. QED
    BY <1>1, <2>2
<1>12. v \in [0..n -> S]
  <2> DEFINE T == {k \in 0..n : v[k] \in S}
  <2> HIDE DEF v, S
  <2>1. 0 \in T
    BY <1>1, <1>2, <1>10
  <2>2. \A k \in 1..n : k - 1 \in T => k \in T
    <3> SUFFICES ASSUME NEW k \in 1..n, v[k-1] \in S PROVE v[k] \in S
      BY <1>1
    <3>1. QED
      BY <1>1, <1>3, <1>11
  <2>3. 0..n \subseteq T
    <3> HIDE DEF T, n
    <3>1. QED
      BY <1>1, <2>1, <2>2, IntervalInduction
  <2>4. QED
    BY <2>3 DEF v
<1>13. QED
  <2> HIDE DEF v
  <2>1. v[n] = Among(cs, set)
    BY <1>1, <1>9 DEF v
  <2>2. QED
    BY <1>10, <1>11, <1>12, <2>1

(* What is sorted after each candidate.                                    *)
LEMMA SortedSteps ==
  ASSUME NEW C, \A c \in C : c.tokens \in Nat, NEW cs \in Seq(C), NEW shortFirst
  PROVE  \E v \in [0..Len(cs) -> Seq(C)] :
           /\ v[0] = <<>>
           /\ \A k \in 1..Len(cs) : v[k] = Inserted(v[k-1], cs[k], shortFirst)
           /\ Sorted(cs, shortFirst) = v[Len(cs)]
<1> DEFINE n == Len(cs)
           S == Seq(C)
           step == [c \in C |-> [x \in S |-> Inserted(x, c, shortFirst)]]
<1>1. n \in Nat /\ cs \in [1..n -> C] /\ DOMAIN cs = 1..n /\ n \in 0..n
  OBVIOUS
<1>2. <<>> \in S
  OBVIOUS
<1>3. ASSUME NEW c \in C, NEW x \in S
      PROVE  Inserted(x, c, shortFirst) \in S
  <2> DEFINE ahead == {k \in DOMAIN x : ~Before(c, x[k], shortFirst)}
  <2>1. DOMAIN x = 1..Len(x) /\ Len(x) \in Nat
    OBVIOUS
  <2>2. IsFiniteSet(1..Len(x)) /\ Cardinality(1..Len(x)) = Len(x)
    <3>1. 1 \in Int /\ Len(x) \in Int /\ Len(x) - 1 + 1 = Len(x) /\ (1 > Len(x) => Len(x) = 0)
      BY <2>1
    <3>2. QED
      BY <3>1, FS_Interval
  <2>3. IsFiniteSet(ahead) /\ Cardinality(ahead) <= Len(x) /\ Cardinality(ahead) \in Nat
    BY <2>1, <2>2, FS_Subset, FS_CardinalityType
  <2> HIDE DEF ahead
  <2>4. Cardinality(ahead) \in 0..Len(x)
    BY <2>1, <2>3
  <2>5. PICK m \in 0..Len(x) : m = Cardinality(ahead)
    BY <2>4
  <2>6. SubSeq(x, 1, m) \in Seq(C) /\ SubSeq(x, m + 1, Len(x)) \in Seq(C) /\ <<c>> \in Seq(C)
    BY <2>1
  <2>7. (SubSeq(x, 1, m) \o <<c>>) \o SubSeq(x, m + 1, Len(x)) \in Seq(C)
    BY <2>6
  <2>8. QED
    BY <2>5, <2>7 DEF Inserted, ahead
<1>4. step \in [C -> [S -> S]]
  BY <1>3
<1>5. PICK iter : Folds(iter, S, step, <<>>, cs, n)
  <2> HIDE DEF step, S, n
  <2>1. QED
    BY <1>1, <1>2, <1>4, FoldExists
<1>6. \A s \in SUBSET (1..n) : s # {} => cs[Max(s)] \in C /\ s \ {Max(s)} \in SUBSET (1..n)
  BY <1>1, MaxOfNumbers
<1> DEFINE It(it) == it = [s \in SUBSET (1..n) |->
                            IF s = {} THEN <<>> ELSE Inserted(it[s \ {Max(s)}], cs[Max(s)], shortFirst)]
<1>7. It(iter)
  <2>1. iter = [s \in SUBSET (1..n) |-> IF s = {} THEN <<>> ELSE step[cs[Max(s)]][iter[s \ {Max(s)}]]]
    BY <1>5 DEF Folds
  <2>2. iter \in [SUBSET (1..n) -> S]
    BY <1>5 DEF Folds
  <2>3. ASSUME NEW s \in SUBSET (1..n), s # {}
        PROVE  step[cs[Max(s)]][iter[s \ {Max(s)}]] = Inserted(iter[s \ {Max(s)}], cs[Max(s)], shortFirst)
    BY <1>6, <2>2, <2>3
  <2>4. QED
    BY <2>1, <2>3
<1>8. Sorted(cs, shortFirst) = (CHOOSE it : It(it))[1..n]
  BY <1>1 DEF Sorted, Inserted, FoldLeft, MapThenFoldSet
<1>9. PICK it : It(it) /\ Sorted(cs, shortFirst) = it[1..n]
  <2> HIDE DEF It
  <2>1. QED
    BY <1>7, <1>8
<1> DEFINE v == [k \in 0..n |-> it[1..k]]
<1>10. v[0] = <<>>
  BY <1>1, <1>9
<1>11. ASSUME NEW k \in 1..n
       PROVE  v[k] = Inserted(v[k-1], cs[k], shortFirst)
  <2>1. Max(1..k) = k /\ (1..k) \ {k} = 1..(k-1) /\ 1..k \in SUBSET (1..n) /\ 1..k # {}
    BY <1>1, LastOfInterval
  <2>2. it[1..k] = Inserted(it[1..(k-1)], cs[k], shortFirst)
    BY <1>9, <2>1
  <2>3. QED
    BY <1>1, <2>2
<1>12. v \in [0..n -> S]
  <2> DEFINE T == {k \in 0..n : v[k] \in S}
  <2> HIDE DEF v, S
  <2>1. 0 \in T
    BY <1>1, <1>2, <1>10
  <2>2. \A k \in 1..n : k - 1 \in T => k \in T
    <3> SUFFICES ASSUME NEW k \in 1..n, v[k-1] \in S PROVE v[k] \in S
      BY <1>1
    <3>1. QED
      BY <1>1, <1>3, <1>11
  <2>3. 0..n \subseteq T
    <3> HIDE DEF T, n
    <3>1. QED
      BY <1>1, <2>1, <2>2, IntervalInduction
  <2>4. QED
    BY <2>3 DEF v
<1>13. QED
  <2> HIDE DEF v
  <2>1. v[n] = Sorted(cs, shortFirst)
    BY <1>1, <1>9 DEF v
  <2>2. QED
    BY <1>10, <1>11, <1>12, <2>1

(* What is merged after each candidate.                                    *)
LEMMA MergedSteps ==
  ASSUME NEW C, \A c \in C : c.tokens \in Nat, NEW cs \in Seq(C)
  PROVE  \E v \in [0..Len(cs) -> Seq(C)] :
           /\ v[0] = <<>>
           /\ \A k \in 1..Len(cs) : v[k] = MergedWith(v[k-1], cs[k])
           /\ Merged(cs) = v[Len(cs)]
<1> DEFINE n == Len(cs)
           S == Seq(C)
           step == [c \in C |-> [x \in S |-> MergedWith(x, c)]]
<1>1. n \in Nat /\ cs \in [1..n -> C] /\ DOMAIN cs = 1..n /\ n \in 0..n
  OBVIOUS
<1>2. <<>> \in S
  OBVIOUS
<1>3. ASSUME NEW c \in C, NEW x \in S
      PROVE  MergedWith(x, c) \in S
  <2>1. CASE \A k \in DOMAIN x : x[k].item # c.item
    BY <2>1 DEF MergedWith
  <2>2. CASE ~ \A k \in DOMAIN x : x[k].item # c.item
    <3>1. MergedWith(x, c) = [k \in 1..Len(x) |-> IF x[k].item = c.item /\ c.score > x[k].score THEN c ELSE x[k]]
      BY <2>2 DEF MergedWith
    <3>2. QED
      BY <3>1
  <2>3. QED
    BY <2>1, <2>2
<1>4. step \in [C -> [S -> S]]
  BY <1>3
<1>5. PICK iter : Folds(iter, S, step, <<>>, cs, n)
  <2> HIDE DEF step, S, n
  <2>1. QED
    BY <1>1, <1>2, <1>4, FoldExists
<1>6. \A s \in SUBSET (1..n) : s # {} => cs[Max(s)] \in C /\ s \ {Max(s)} \in SUBSET (1..n)
  BY <1>1, MaxOfNumbers
<1> DEFINE It(it) == it = [s \in SUBSET (1..n) |->
                            IF s = {} THEN <<>> ELSE MergedWith(it[s \ {Max(s)}], cs[Max(s)])]
<1>7. It(iter)
  <2>1. iter = [s \in SUBSET (1..n) |-> IF s = {} THEN <<>> ELSE step[cs[Max(s)]][iter[s \ {Max(s)}]]]
    BY <1>5 DEF Folds
  <2>2. iter \in [SUBSET (1..n) -> S]
    BY <1>5 DEF Folds
  <2>3. ASSUME NEW s \in SUBSET (1..n), s # {}
        PROVE  step[cs[Max(s)]][iter[s \ {Max(s)}]] = MergedWith(iter[s \ {Max(s)}], cs[Max(s)])
    BY <1>6, <2>2, <2>3
  <2>4. QED
    BY <2>1, <2>3
<1>8. Merged(cs) = (CHOOSE it : It(it))[1..n]
  BY <1>1 DEF Merged, MergedWith, FoldLeft, MapThenFoldSet
<1>9. PICK it : It(it) /\ Merged(cs) = it[1..n]
  <2> HIDE DEF It
  <2>1. QED
    BY <1>7, <1>8
<1> DEFINE v == [k \in 0..n |-> it[1..k]]
<1>10. v[0] = <<>>
  BY <1>1, <1>9
<1>11. ASSUME NEW k \in 1..n
       PROVE  v[k] = MergedWith(v[k-1], cs[k])
  <2>1. Max(1..k) = k /\ (1..k) \ {k} = 1..(k-1) /\ 1..k \in SUBSET (1..n) /\ 1..k # {}
    BY <1>1, LastOfInterval
  <2>2. it[1..k] = MergedWith(it[1..(k-1)], cs[k])
    BY <1>9, <2>1
  <2>3. QED
    BY <1>1, <2>2
<1>12. v \in [0..n -> S]
  <2> DEFINE T == {k \in 0..n : v[k] \in S}
  <2> HIDE DEF v, S
  <2>1. 0 \in T
    BY <1>1, <1>2, <1>10
  <2>2. \A k \in 1..n : k - 1 \in T => k \in T
    <3> SUFFICES ASSUME NEW k \in 1..n, v[k-1] \in S PROVE v[k] \in S
      BY <1>1
    <3>1. QED
      BY <1>1, <1>3, <1>11
  <2>3. 0..n \subseteq T
    <3> HIDE DEF T, n
    <3>1. QED
      BY <1>1, <2>1, <2>2, IntervalInduction
  <2>4. QED
    BY <2>3 DEF v
<1>13. QED
  <2> HIDE DEF v
  <2>1. v[n] = Merged(cs)
    BY <1>1, <1>9 DEF v
  <2>2. QED
    BY <1>10, <1>11, <1>12, <2>1

(* The value after the last candidate is of the type of the values.        *)
LEMMA SelectionTypes ==
  ASSUME NEW C, \A c \in C : c.tokens \in Nat, NEW cs \in Seq(C)
  PROVE  /\ Cost(cs) \in Nat
         /\ \A budget : Trim(cs, budget) \in Seq(C)
         /\ \A set : Among(cs, set) \in Seq(C \cap set)
         /\ \A shortFirst : Sorted(cs, shortFirst) \in Seq(C)
         /\ Merged(cs) \in Seq(C)
<1>1. Len(cs) \in 0..Len(cs)
  OBVIOUS
<1>2. Cost(cs) \in Nat
  BY <1>1, CostSteps
<1>3. ASSUME NEW budget PROVE Trim(cs, budget) \in Seq(C)
  BY <1>1, TrimSteps
<1>4. ASSUME NEW set PROVE Among(cs, set) \in Seq(C \cap set)
  BY <1>1, AmongSteps
<1>5. ASSUME NEW shortFirst PROVE Sorted(cs, shortFirst) \in Seq(C)
  BY <1>1, SortedSteps
<1>6. Merged(cs) \in Seq(C)
  BY <1>1, MergedSteps
<1>7. QED
  BY <1>2, <1>3, <1>4, <1>5, <1>6

-----------------------------------------------------------------------------
(* Two sequences of the same length with the same values are one.          *)
LEMMA SameSequence ==
  ASSUME NEW S, NEW s \in Seq(S), NEW t \in Seq(S), Len(s) = Len(t),
         \A i \in 1..Len(s) : s[i] = t[i]
  PROVE  s = t
OBVIOUS

(* The cost of two lists one behind the other.                             *)
LEMMA CostOfConcat ==
  ASSUME NEW C, \A c \in C : c.tokens \in Nat, NEW a \in Seq(C), NEW b \in Seq(C)
  PROVE  Cost(a \o b) = Cost(a) + Cost(b)
<1> DEFINE p == Len(a)
           q == Len(b)
           ab == a \o b
<1>1. /\ p \in Nat /\ q \in Nat /\ ab \in Seq(C) /\ Len(ab) = p + q
      /\ \A i \in 1..p : ab[i] = a[i]
      /\ \A i \in 1..q : ab[p + i] = b[i]
      /\ \A i \in 1..p : a[i].tokens \in Nat
      /\ \A i \in 1..q : b[i].tokens \in Nat
  OBVIOUS
<1>2. PICK u \in [0..p -> Nat] :
        u[0] = 0 /\ (\A k \in 1..p : u[k] = u[k-1] + a[k].tokens) /\ Cost(a) = u[p]
  BY CostSteps
<1>3. PICK v \in [0..q -> Nat] :
        v[0] = 0 /\ (\A k \in 1..q : v[k] = v[k-1] + b[k].tokens) /\ Cost(b) = v[q]
  BY CostSteps
<1>4. PICK w \in [0..p+q -> Nat] :
        w[0] = 0 /\ (\A k \in 1..p+q : w[k] = w[k-1] + ab[k].tokens) /\ Cost(ab) = w[p+q]
  <2> HIDE DEF ab, p, q
  <2>1. QED
    BY <1>1, CostSteps, ZenonT(60)
<1> HIDE DEF ab, p, q
<1>5. p \in {k \in 0..p : w[k] = u[k]}
  <2> DEFINE T == {k \in 0..p : w[k] = u[k]}
  <2>1. 0 \in T
    BY <1>1, <1>2, <1>4
  <2>2. ASSUME NEW k \in 1..p, k - 1 \in T
        PROVE  k \in T
    <3>1. k \in 0..p /\ k \in 1..p+q /\ ab[k] = a[k]
      BY <1>1
    <3>2. w[k] = w[k-1] + a[k].tokens /\ u[k] = u[k-1] + a[k].tokens
      BY <1>2, <1>4, <3>1
    <3>3. QED
      BY <2>2, <3>1, <3>2
  <2>3. 0..p \subseteq T
    <3> HIDE DEF T
    <3>1. QED
      BY <1>1, <2>1, <2>2, IntervalInduction
  <2>4. QED
    BY <1>1, <2>3
<1>6. q \in {k \in 0..q : w[p+k] = u[p] + v[k]}
  <2> DEFINE T == {k \in 0..q : w[p+k] = u[p] + v[k]}
  <2>1. 0 \in T
    BY <1>1, <1>2, <1>3, <1>5
  <2>2. ASSUME NEW k \in 1..q, k - 1 \in T
        PROVE  k \in T
    <3>1. p + k \in 1..p+q /\ (p + k) - 1 = p + (k - 1) /\ k - 1 \in 0..q /\ k \in 0..q /\ p \in 0..p
      BY <1>1
    <3>2. w[p+k] = w[p+(k-1)] + b[k].tokens
      BY <1>1, <1>4, <3>1
    <3>3. w[p+(k-1)] = u[p] + v[k-1] /\ v[k] = v[k-1] + b[k].tokens
      BY <1>3, <2>2
    <3>4. u[p] \in Nat /\ v[k-1] \in Nat /\ b[k].tokens \in Nat
      BY <1>1, <1>2, <1>3, <3>1
    <3>5. QED
      BY <3>1, <3>2, <3>3, <3>4, SMTT(60)
  <2>3. 0..q \subseteq T
    <3> HIDE DEF T
    <3>1. QED
      BY <1>1, <2>1, <2>2, IntervalInduction
  <2>4. q \in 0..q
    BY <1>1
  <2>5. QED
    BY <2>3, <2>4
<1>7. QED
  BY <1>2, <1>3, <1>4, <1>6 DEF ab

(* The cost of one candidate more.                                         *)
LEMMA CostOfAppend ==
  ASSUME NEW C, \A c \in C : c.tokens \in Nat, NEW a \in Seq(C), NEW c \in C
  PROVE  Cost(Append(a, c)) = Cost(a) + c.tokens
<1>1. <<c>> \in Seq(C) /\ Len(<<c>>) = 1 /\ <<c>>[1] = c
  OBVIOUS
<1>2. Append(a, c) = a \o <<c>>
  OBVIOUS
<1>3. Cost(<<c>>) = c.tokens
  <2>1. PICK v \in [0..1 -> Nat] :
          v[0] = 0 /\ (\A k \in 1..1 : v[k] = v[k-1] + <<c>>[k].tokens) /\ Cost(<<c>>) = v[1]
    BY <1>1, CostSteps
  <2>2. v[1] = v[1-1] + c.tokens /\ 1 - 1 = 0
    BY <1>1, <2>1
  <2>3. QED
    BY <2>1, <2>2
<1>4. QED
  BY <1>1, <1>2, <1>3, CostOfConcat

(* Nothing costs nothing.                                                  *)
LEMMA CostOfNone == Cost(<<>>) = 0
<1> DEFINE C == {[tokens |-> 0]}
<1>1. <<>> \in Seq(C) /\ Len(<<>>) = 0 /\ \A c \in C : c.tokens \in Nat
  OBVIOUS
<1> HIDE DEF C
<1>2. \E v \in [0..0 -> Nat] : v[0] = 0 /\ Cost(<<>>) = v[0]
  BY <1>1, CostSteps
<1>3. QED
  BY <1>2

(* A candidate goes behind both lists or behind neither.                   *)
Alike(s, t, c, set) == IfAmong(s \o t, c, set) = s \o IfAmong(t, c, set)

LEMMA IfAmongConcat ==
  ASSUME NEW S, NEW s \in Seq(S), NEW t \in Seq(S), NEW c, NEW set, c \in set => c \in S
  PROVE  Alike(s, t, c, set)
<1>1. CASE c \in set
  <2>1. c \in S
    BY <1>1
  <2>2. Append(s \o t, c) = s \o Append(t, c)
    BY <2>1
  <2>3. QED
    BY <1>1, <2>2, Zenon DEF Alike, IfAmong
<1>2. CASE c \notin set
  BY <1>2 DEF Alike, IfAmong
<1>3. QED
  BY <1>1, <1>2

(* Among goes through two lists one after the other.                       *)
AmongBoth(a, b, set) == Among(a \o b, set) = Among(a, set) \o Among(b, set)

LEMMA AmongConcat ==
  ASSUME NEW C, \A c \in C : c.tokens \in Nat, NEW a \in Seq(C), NEW b \in Seq(C), NEW set
  PROVE  AmongBoth(a, b, set)
<1> DEFINE p == Len(a)
           q == Len(b)
           ab == a \o b
           D == C \cap set
<1>1. /\ p \in Nat /\ q \in Nat /\ ab \in Seq(C) /\ Len(ab) = p + q
      /\ \A i \in 1..p : ab[i] = a[i]
      /\ \A i \in 1..q : ab[p + i] = b[i]
      /\ \A i \in 1..q : b[i] \in C
  OBVIOUS
<1>2. PICK u \in [0..p -> Seq(D)] :
        u[0] = <<>> /\ (\A k \in 1..p : u[k] = IfAmong(u[k-1], a[k], set)) /\ Among(a, set) = u[p]
  BY AmongSteps, ZenonT(60)
<1>3. PICK v \in [0..q -> Seq(D)] :
        v[0] = <<>> /\ (\A k \in 1..q : v[k] = IfAmong(v[k-1], b[k], set)) /\ Among(b, set) = v[q]
  BY AmongSteps
<1>4. PICK w \in [0..p+q -> Seq(D)] :
        w[0] = <<>> /\ (\A k \in 1..p+q : w[k] = IfAmong(w[k-1], ab[k], set)) /\ Among(ab, set) = w[p+q]
  <2> HIDE DEF ab, p, q
  <2>1. \E w \in [0..Len(ab) -> Seq(D)] :
          /\ w[0] = <<>>
          /\ \A k \in 1..Len(ab) : w[k] = IfAmong(w[k-1], ab[k], set)
          /\ Among(ab, set) = w[Len(ab)]
    BY <1>1, AmongSteps
  <2>2. QED
    BY <1>1, <2>1
<1> HIDE DEF ab, p, q, D
<1>5. p \in {k \in 0..p : w[k] = u[k]}
  <2> DEFINE T == {k \in 0..p : w[k] = u[k]}
  <2>1. 0 \in T
    BY <1>1, <1>2, <1>4
  <2>2. ASSUME NEW k \in 1..p, k - 1 \in T
        PROVE  k \in T
    <3>1. k \in 0..p /\ k \in 1..p+q /\ ab[k] = a[k]
      BY <1>1
    <3>2. w[k] = IfAmong(w[k-1], a[k], set) /\ u[k] = IfAmong(u[k-1], a[k], set)
      BY <1>2, <1>4, <3>1
    <3>3. QED
      BY <2>2, <3>1, <3>2
  <2>3. 0..p \subseteq T
    <3> HIDE DEF T
    <3>1. QED
      BY <1>1, <2>1, <2>2, IntervalInduction
  <2>4. QED
    BY <1>1, <2>3
<1>6. q \in {k \in 0..q : w[p+k] = u[p] \o v[k]}
  <2> DEFINE T == {k \in 0..q : w[p+k] = u[p] \o v[k]}
  <2>1. 0 \in T
    <3>1. u[p] \in Seq(D) /\ p + 0 = p
      BY <1>1, <1>2
    <3>2. u[p] \o <<>> = u[p]
      BY <3>1
    <3>3. w[p + 0] = u[p] \o v[0]
      BY <1>3, <1>5, <3>1, <3>2
    <3>4. QED
      BY <1>1, <3>3
  <2>2. ASSUME NEW k \in 1..q, k - 1 \in T
        PROVE  k \in T
    <3>1. p + k \in 1..p+q /\ (p + k) - 1 = p + (k - 1) /\ k - 1 \in 0..q /\ k \in 0..q /\ p \in 0..p
      BY <1>1
    <3>2. w[p+k] = IfAmong(u[p] \o v[k-1], b[k], set)
      BY <1>1, <1>4, <2>2, <3>1
    <3>3. v[k] = IfAmong(v[k-1], b[k], set)
      BY <1>3
    <3>4. u[p] \in Seq(D) /\ v[k-1] \in Seq(D) /\ b[k] \in C
      BY <1>1, <1>2, <1>3, <3>1
    <3>5. IfAmong(u[p] \o v[k-1], b[k], set) = u[p] \o IfAmong(v[k-1], b[k], set)
      <4>1. b[k] \in set => b[k] \in D
        BY <3>4 DEF D
      <4>2. Alike(u[p], v[k-1], b[k], set)
        BY <3>4, <4>1, IfAmongConcat
      <4>3. QED
        BY <4>2 DEF Alike
    <3>6. w[p+k] = u[p] \o v[k]
      BY <3>2, <3>3, <3>5, Zenon
    <3>7. QED
      BY <3>1, <3>6
  <2>3. 0..q \subseteq T
    <3> HIDE DEF T
    <3>1. QED
      BY <1>1, <2>1, <2>2, IntervalInduction
  <2>4. q \in 0..q
    BY <1>1
  <2>5. QED
    BY <2>3, <2>4
<1>7. QED
  BY <1>2, <1>3, <1>4, <1>6 DEF ab, AmongBoth

(* What is left of a list costs no more.                                   *)
LEMMA CostOfAmong ==
  ASSUME NEW C, \A c \in C : c.tokens \in Nat, NEW cs \in Seq(C), NEW set
  PROVE  Cost(Among(cs, set)) <= Cost(cs)
<1> DEFINE n == Len(cs)
           D == C \cap set
<1>1. n \in Nat /\ \A k \in 1..n : cs[k] \in C /\ cs[k].tokens \in Nat
  OBVIOUS
<1>2. PICK u \in [0..n -> Nat] :
        u[0] = 0 /\ (\A k \in 1..n : u[k] = u[k-1] + cs[k].tokens) /\ Cost(cs) = u[n]
  BY CostSteps
<1>3. PICK v \in [0..n -> Seq(D)] :
        v[0] = <<>> /\ (\A k \in 1..n : v[k] = IfAmong(v[k-1], cs[k], set)) /\ Among(cs, set) = v[n]
  BY AmongSteps
<1>4. \A d \in D : d.tokens \in Nat
  OBVIOUS
<1> DEFINE T == {k \in 0..n : Cost(v[k]) <= u[k]}
<1> HIDE DEF n, D
<1>5. 0 \in T
  BY <1>1, <1>2, <1>3, CostOfNone
<1>6. ASSUME NEW k \in 1..n, k - 1 \in T
      PROVE  k \in T
  <2>1. k - 1 \in 0..n /\ k \in 0..n
    BY <1>1
  <2>2. v[k-1] \in Seq(D) /\ u[k-1] \in Nat /\ Cost(v[k-1]) \in Nat /\ cs[k].tokens \in Nat
    BY <1>1, <1>2, <1>3, <1>4, <2>1, SelectionTypes
  <2>3. CASE cs[k] \in set
    <3>1. cs[k] \in D
      BY <1>1, <2>3 DEF D
    <3>2. Cost(Append(v[k-1], cs[k])) = Cost(v[k-1]) + cs[k].tokens
      BY <1>4, <2>2, <3>1, CostOfAppend
    <3>3. QED
      BY <1>2, <1>3, <1>6, <2>1, <2>2, <2>3, <3>2 DEF IfAmong
  <2>4. CASE cs[k] \notin set
    BY <1>2, <1>3, <1>6, <2>1, <2>2, <2>4 DEF IfAmong
  <2>5. QED
    BY <2>3, <2>4
<1>7. n \in T
  <2> HIDE DEF T
  <2>1. 0..n \subseteq T
    BY <1>1, <1>5, <1>6, IntervalInduction
  <2>2. QED
    BY <1>1, <2>1
<1>8. QED
  BY <1>2, <1>3, <1>7

-----------------------------------------------------------------------------
(* An append loses nothing.                                                *)
LEMMA AppendedRange ==
  ASSUME NEW S, NEW s \in Seq(S), NEW x \in S
  PROVE  Range(s) \subseteq Range(Append(s, x)) /\ x \in Range(Append(s, x))
<1>1. /\ Len(s) + 1 \in DOMAIN Append(s, x) /\ Append(s, x)[Len(s) + 1] = x
      /\ \A n \in DOMAIN s : n \in DOMAIN Append(s, x) /\ Append(s, x)[n] = s[n]
  BY Appended
<1>2. QED
  BY <1>1 DEF Range

(* _trim never keeps more than the budget.                                 *)
LEMMA TrimKeepsBudget ==
  ASSUME NEW C, \A c \in C : c.tokens \in Nat, NEW cs \in Seq(C), NEW budget \in Nat
  PROVE  Cost(Trim(cs, budget)) <= budget
<1> DEFINE n == Len(cs)
<1>1. n \in Nat /\ \A k \in 1..n : cs[k] \in C
  OBVIOUS
<1>2. PICK v \in [0..n -> Seq(C)] :
        v[0] = <<>> /\ (\A k \in 1..n : v[k] = WithinTrim(v[k-1], cs[k], budget)) /\ Trim(cs, budget) = v[n]
  <2>1. \E v \in [0..Len(cs) -> Seq(C)] :
          /\ v[0] = <<>>
          /\ \A k \in 1..Len(cs) : v[k] = WithinTrim(v[k-1], cs[k], budget)
          /\ Trim(cs, budget) = v[Len(cs)]
    BY TrimSteps, ZenonT(60)
  <2>2. QED
    BY <2>1
<1> DEFINE T == {k \in 0..n : Cost(v[k]) <= budget}
<1> HIDE DEF n
<1>3. 0 \in T
  BY <1>1, <1>2, CostOfNone
<1>4. ASSUME NEW k \in 1..n, k - 1 \in T
      PROVE  k \in T
  <2>1. k - 1 \in 0..n /\ k \in 0..n /\ cs[k] \in C
    BY <1>1
  <2>2. v[k-1] \in Seq(C) /\ v[k] = WithinTrim(v[k-1], cs[k], budget)
    BY <1>2, <2>1
  <2>3. CASE Cost(v[k-1]) + cs[k].tokens > budget
    BY <1>4, <2>1, <2>2, <2>3 DEF WithinTrim
  <2>4. CASE ~ (Cost(v[k-1]) + cs[k].tokens > budget)
    <3>1. v[k] = Append(v[k-1], cs[k])
      BY <2>2, <2>4 DEF WithinTrim
    <3>2. Cost(v[k]) = Cost(v[k-1]) + cs[k].tokens
      BY <2>1, <2>2, <3>1, CostOfAppend
    <3>3. Cost(v[k-1]) \in Nat /\ cs[k].tokens \in Nat
      BY <2>1, <2>2, SelectionTypes
    <3>4. QED
      BY <2>1, <2>4, <3>2, <3>3
  <2>5. QED
    BY <2>3, <2>4
<1>5. n \in T
  <2> HIDE DEF T
  <2>1. 0..n \subseteq T
    BY <1>1, <1>3, <1>4, IntervalInduction
  <2>2. QED
    BY <1>1, <2>1
<1>6. QED
  BY <1>2, <1>5

(* What _trim leaves out does not fit any more.                            *)
LEMMA TrimLeavesNoRoom ==
  ASSUME NEW C, \A c \in C : c.tokens \in Nat, NEW cs \in Seq(C), NEW budget \in Nat,
         NEW c \in Range(cs) \ Range(Trim(cs, budget))
  PROVE  Cost(Trim(cs, budget)) + c.tokens > budget
<1> DEFINE n == Len(cs)
<1>1. n \in Nat /\ \A k \in 1..n : cs[k] \in C
  OBVIOUS
<1>2. PICK v \in [0..n -> Seq(C)] :
        v[0] = <<>> /\ (\A k \in 1..n : v[k] = WithinTrim(v[k-1], cs[k], budget)) /\ Trim(cs, budget) = v[n]
  BY TrimSteps
<1>3. PICK i \in 1..n : cs[i] = c
  BY DEF Range
<1> DEFINE T == {k \in 0..n : \A j \in 1..k : cs[j] \in Range(v[k]) \/ Cost(v[k]) + cs[j].tokens > budget}
<1> HIDE DEF n
<1>4. 0 \in T
  BY <1>1
<1>5. ASSUME NEW k \in 1..n, k - 1 \in T
      PROVE  k \in T
  <2>1. k - 1 \in 0..n /\ k \in 0..n /\ cs[k] \in C /\ \A j \in 1..k : j = k \/ j \in 1..(k-1)
    BY <1>1
  <2>2. v[k-1] \in Seq(C) /\ v[k] \in Seq(C) /\ v[k] = WithinTrim(v[k-1], cs[k], budget)
    BY <1>2, <2>1
  <2>3. Cost(v[k-1]) \in Nat /\ cs[k].tokens \in Nat /\ \A j \in 1..k : cs[j].tokens \in Nat
    <3>1. \A j \in 1..k : j \in 1..n
      BY <1>1
    <3>2. QED
      BY <1>1, <2>1, <2>2, <3>1, SelectionTypes
  <2>4. CASE Cost(v[k-1]) + cs[k].tokens > budget
    <3>1. v[k] = v[k-1]
      BY <2>2, <2>4 DEF WithinTrim
    <3>2. QED
      BY <1>5, <2>1, <2>4, <3>1
  <2>5. CASE ~ (Cost(v[k-1]) + cs[k].tokens > budget)
    <3>1. v[k] = Append(v[k-1], cs[k])
      BY <2>2, <2>5 DEF WithinTrim
    <3>2. Cost(v[k]) = Cost(v[k-1]) + cs[k].tokens
      BY <2>1, <2>2, <3>1, CostOfAppend
    <3>3. Range(v[k-1]) \subseteq Range(v[k]) /\ cs[k] \in Range(v[k])
      BY <2>1, <2>2, <3>1, AppendedRange
    <3>4. ASSUME NEW j \in 1..k
          PROVE  cs[j] \in Range(v[k]) \/ Cost(v[k]) + cs[j].tokens > budget
      <4>1. CASE j = k
        BY <3>3, <4>1
      <4>2. CASE j \in 1..(k-1)
        <5>1. cs[j] \in Range(v[k-1]) \/ Cost(v[k-1]) + cs[j].tokens > budget
          BY <1>5, <4>2
        <5>2. QED
          BY <2>3, <3>2, <3>3, <5>1
      <4>3. QED
        BY <2>1, <4>1, <4>2
    <3>5. QED
      BY <2>1, <3>4
  <2>6. QED
    BY <2>4, <2>5
<1>6. n \in T
  <2> HIDE DEF T
  <2>1. 0..n \subseteq T
    BY <1>1, <1>4, <1>5, IntervalInduction
  <2>2. QED
    BY <1>1, <2>1
<1>7. QED
  BY <1>2, <1>3, <1>6

(* What is within the budget at the head is kept, in its place.            *)
LEMMA TrimKeepsHead ==
  ASSUME NEW C, \A c \in C : c.tokens \in Nat, NEW a \in Seq(C), NEW b \in Seq(C),
         NEW budget \in Nat, Cost(a) <= budget
  PROVE  \A i \in 1..Len(a) : /\ i \in DOMAIN Trim(a \o b, budget)
                              /\ Trim(a \o b, budget)[i] = a[i]
<1> DEFINE p == Len(a)
           cs == a \o b
           n == Len(cs)
<1>1. /\ n \in Nat /\ p \in 0..n /\ p \in Nat /\ cs \in Seq(C)
      /\ \A k \in 1..n : cs[k] \in C
      /\ \A k \in 1..p : cs[k] = a[k] /\ a[k].tokens \in Nat
  OBVIOUS
<1>2. PICK w \in [0..p -> Nat] :
        w[0] = 0 /\ (\A k \in 1..p : w[k] = w[k-1] + a[k].tokens) /\ Cost(a) = w[p]
  BY CostSteps
<1>3. PICK v \in [0..n -> Seq(C)] :
        v[0] = <<>> /\ (\A k \in 1..n : v[k] = WithinTrim(v[k-1], cs[k], budget)) /\ Trim(cs, budget) = v[n]
  <2> HIDE DEF cs
  <2>1. QED
    BY <1>1, TrimSteps
<1> HIDE DEF n, p, cs
<1>4. \A k \in 0..p : w[k] <= budget
  <2> DEFINE T == {k \in 0..p : \A j \in 0..k : w[j] <= w[k]}
  <2>1. 0 \in T
    BY <1>1, <1>2
  <2>2. ASSUME NEW k \in 1..p, k - 1 \in T
        PROVE  k \in T
    <3>1. k - 1 \in 0..p /\ k \in 0..p /\ \A j \in 0..k : j \in 0..p /\ (j = k \/ j \in 0..(k-1))
      BY <1>1
    <3>2. w[k] = w[k-1] + a[k].tokens /\ a[k].tokens \in Nat
      BY <1>1, <1>2
    <3>3. \A j \in 0..p : w[j] \in Nat
      BY <1>2
    <3>4. ASSUME NEW j \in 0..k PROVE w[j] <= w[k]
      <4>1. CASE j = k
        BY <3>1, <3>3, <4>1
      <4>2. CASE j \in 0..(k-1)
        <5>1. w[j] <= w[k-1]
          BY <2>2, <4>2
        <5>2. w[j] \in Nat /\ w[k-1] \in Nat
          BY <3>1, <3>3
        <5>3. QED
          BY <3>2, <5>1, <5>2
      <4>3. QED
        BY <3>1, <4>1, <4>2
    <3>5. QED
      BY <3>1, <3>4
  <2>3. p \in T
    <3> HIDE DEF T
    <3>1. 0..p \subseteq T
      BY <1>1, <2>1, <2>2, IntervalInduction
    <3>2. QED
      BY <1>1, <3>1
  <2>4. \A j \in 0..p : w[j] \in Nat
    BY <1>2
  <2>5. QED
    BY <1>1, <1>2, <2>3, <2>4
<1> DEFINE Heads(k, m) == Len(v[k]) >= m /\ \A i \in 1..m : v[k][i] = a[i]
<1>5. p \in {k \in 0..p : Len(v[k]) = k /\ Cost(v[k]) = w[k] /\ \A i \in 1..k : v[k][i] = a[i]}
  <2> DEFINE T == {k \in 0..p : Len(v[k]) = k /\ Cost(v[k]) = w[k] /\ \A i \in 1..k : v[k][i] = a[i]}
  <2>1. 0 \in T
    BY <1>1, <1>2, <1>3, CostOfNone
  <2>2. ASSUME NEW k \in 1..p, k - 1 \in T
        PROVE  k \in T
    <3>1. /\ k - 1 \in 0..n /\ k - 1 \in 0..p /\ k \in 1..n /\ k \in 0..n /\ k \in 0..p
          /\ cs[k] = a[k] /\ cs[k] \in C /\ cs[k].tokens \in Nat
      BY <1>1, SMTT(60)
    <3>2. /\ v[k-1] \in Seq(C) /\ v[k] = WithinTrim(v[k-1], a[k], budget)
      BY <1>3, <3>1
    <3>3. w[k-1] \in Nat /\ w[k] = w[k-1] + a[k].tokens /\ w[k] <= budget
      BY <1>2, <1>4, <3>1
    <3>4. v[k] = Append(v[k-1], a[k])
      BY <2>2, <3>1, <3>2, <3>3 DEF WithinTrim
    <3>5. Cost(v[k]) = w[k]
      <4>1. Cost(v[k]) = Cost(v[k-1]) + a[k].tokens
        BY <3>1, <3>2, <3>4, CostOfAppend
      <4>2. QED
        BY <2>2, <3>3, <4>1
    <3>6. Len(v[k-1]) = k - 1 /\ \A i \in 1..k-1 : v[k-1][i] = a[i]
      BY <2>2
    <3>7. Len(v[k]) = k /\ \A i \in 1..k : v[k][i] = a[i]
      BY <3>1, <3>2, <3>4, <3>6
    <3>8. QED
      BY <3>1, <3>5, <3>7
  <2>3. p \in T
    <3> HIDE DEF T
    <3>1. 0..p \subseteq T
      BY <1>1, <2>1, <2>2, IntervalInduction
    <3>2. QED
      BY <1>1, <3>1
  <2>4. QED
    BY <2>3
<1>6. n \in {k \in 0..n : k >= p => Heads(k, p)}
  <2> DEFINE T == {k \in 0..n : k >= p => Heads(k, p)}
  <2>1. 0 \in T
    BY <1>1, <1>3, <1>5
  <2>2. ASSUME NEW k \in 1..n, k - 1 \in T
        PROVE  k \in T
    <3>1. k - 1 \in 0..n /\ k \in 0..n /\ cs[k] \in C
      BY <1>1
    <3>2. CASE k <= p
      <4>1. k >= p => k = p
        BY <1>1, <3>2
      <4>2. QED
        BY <1>1, <1>5, <3>1, <4>1
    <3>3. CASE k > p
      <4>1. k - 1 >= p
        BY <1>1, <3>3
      <4>2. Heads(k - 1, p)
        BY <2>2, <4>1
      <4>3. v[k-1] \in Seq(C) /\ v[k] \in Seq(C) /\ v[k] = WithinTrim(v[k-1], cs[k], budget)
        BY <1>3, <3>1
      <4>4. v[k] = v[k-1] \/ v[k] = Append(v[k-1], cs[k])
        BY <4>3 DEF WithinTrim
      <4>5. CASE v[k] = v[k-1]
        BY <3>1, <4>2, <4>5
      <4>6. CASE v[k] = Append(v[k-1], cs[k])
        <5>1. Len(v[k]) = Len(v[k-1]) + 1 /\ \A i \in 1..Len(v[k-1]) : v[k][i] = v[k-1][i]
          BY <3>1, <4>3, <4>6
        <5>2. Len(v[k-1]) \in Nat /\ \A i \in 1..p : i \in 1..Len(v[k-1])
          BY <1>1, <4>2, <4>3
        <5>3. QED
          BY <1>1, <3>1, <4>2, <5>1, <5>2
      <4>7. QED
        BY <4>4, <4>5, <4>6
    <3>4. QED
      BY <1>1, <3>2, <3>3
  <2>3. n \in T
    <3> HIDE DEF T
    <3>1. 0..n \subseteq T
      BY <1>1, <2>1, <2>2, IntervalInduction
    <3>2. QED
      BY <1>1, <3>1
  <2>4. QED
    BY <2>3
<1>7. v[n] \in Seq(C) /\ Len(v[n]) >= p /\ \A i \in 1..p : v[n][i] = a[i]
  BY <1>1, <1>3, <1>6
<1>8. \A i \in 1..p : i \in DOMAIN v[n] /\ v[n][i] = a[i]
  BY <1>1, <1>7
<1>9. QED
  BY <1>3, <1>8 DEF cs, p

-----------------------------------------------------------------------------
(* A sequence over fewer values is one over more.                          *)
LEMMA WiderType ==
  ASSUME NEW A, NEW B, A \subseteq B, NEW s \in Seq(A)
  PROVE  s \in Seq(B)
OBVIOUS

(* The order in which three lists are joined does not matter.              *)
LEMMA ConcatAssociates ==
  ASSUME NEW S, NEW s \in Seq(S), NEW t \in Seq(S), NEW r \in Seq(S)
  PROVE  (s \o t) \o r = s \o (t \o r)
OBVIOUS

(* What a part of a list is made of.                                       *)
LEMMA PartsOf ==
  ASSUME NEW S, NEW a \in Seq(S), NEW m \in Nat, NEW n \in Nat, m <= n, n <= Len(a)
  PROVE  /\ SubSeq(a, m + 1, n) \in Seq(S)
         /\ Len(SubSeq(a, m + 1, n)) = n - m
         /\ \A i \in 1..(n - m) : SubSeq(a, m + 1, n)[i] = a[m + i]
OBVIOUS

(* What two joined lists are made of.                                      *)
LEMMA ConcatOf ==
  ASSUME NEW S, NEW a \in Seq(S), NEW b \in Seq(S)
  PROVE  /\ a \o b \in Seq(S)
         /\ Len(a) \in Nat /\ Len(b) \in Nat
         /\ Len(a \o b) = Len(a) + Len(b)
         /\ \A i \in 1..Len(a) : (a \o b)[i] = a[i]
         /\ \A i \in 1..Len(b) : (a \o b)[Len(a) + i] = b[i]
OBVIOUS

(* The two parts of a \o b that is cut behind m candidates.                *)
CutAt(m, S, a, b) ==
  /\ SubSeq(a, 1, m) \in Seq(S) /\ SubSeq(a, m + 1, Len(a)) \in Seq(S)
  /\ SubSeq(a, 1, m) \o SubSeq(a, m + 1, Len(a)) = a
  /\ SubSeq(a \o b, 1, m) = SubSeq(a, 1, m)
  /\ SubSeq(a \o b, m + 1, Len(a \o b)) = SubSeq(a, m + 1, Len(a)) \o b

CutBehind(m, D, a, b) ==
  \E b1 \in Seq(D), b2 \in Seq(D) :
    /\ SubSeq(a \o b, 1, Least(m, Len(a \o b))) = a \o b1
    /\ SubSeq(a \o b, m + 1, Len(a \o b)) = b2

(* A cut in the first of two lists.                                        *)
LEMMA CutInHead ==
  ASSUME NEW S, NEW a \in Seq(S), NEW b \in Seq(S), NEW m \in Nat, m <= Len(a)
  PROVE  CutAt(m, S, a, b)
<1> DEFINE p == Len(a)
           q == Len(b)
<1>1. PICK l, r, ab : l = SubSeq(a, 1, m) /\ r = SubSeq(a, m + 1, p) /\ ab = a \o b
  OBVIOUS
<1>2. /\ p \in Nat /\ q \in Nat
      /\ ab \in Seq(S) /\ Len(ab) = p + q
      /\ \A i \in 1..p : ab[i] = a[i]
      /\ \A i \in 1..q : ab[p + i] = b[i]
  BY <1>1, ConcatOf
<1>3. /\ l \in Seq(S) /\ Len(l) = m
      /\ \A i \in 1..m : l[i] = a[i]
  BY <1>1
<1>4. /\ r \in Seq(S) /\ Len(r) = p - m
      /\ \A i \in 1..(p - m) : r[i] = a[m + i]
  BY <1>1, <1>2, PartsOf
<1>5. l \o r = a
  <2>1. PICK s : s = l \o r
    OBVIOUS
  <2>2. /\ s \in Seq(S) /\ Len(s) = p
        /\ \A i \in 1..m : s[i] = l[i]
        /\ \A i \in 1..(p - m) : s[m + i] = r[i]
    BY <1>2, <1>3, <1>4, <2>1, ConcatOf
  <2>3. ASSUME NEW i \in 1..p PROVE s[i] = a[i]
    <3>1. CASE i <= m
      BY <1>2, <1>3, <2>2, <3>1
    <3>2. CASE i > m
      <4>1. i - m \in 1..(p - m) /\ m + (i - m) = i
        BY <1>2, <3>2
      <4>2. QED
        BY <1>4, <2>2, <4>1
    <3>3. QED
      BY <1>2, <3>1, <3>2
  <2>4. s = a
    BY <2>2, <2>3, SameSequence
  <2>5. QED
    BY <2>1, <2>4
<1>6. SubSeq(ab, 1, m) = l
  <2>1. PICK s : s = SubSeq(ab, 1, m)
    OBVIOUS
  <2>2. s \in Seq(S) /\ Len(s) = m /\ \A i \in 1..m : s[i] = ab[i]
    BY <1>2, <2>1
  <2>3. ASSUME NEW i \in 1..m PROVE s[i] = l[i]
    <3>1. i \in 1..p
      BY <1>2
    <3>2. QED
      BY <1>2, <1>3, <2>2, <3>1
  <2>4. s = l
    BY <1>3, <2>2, <2>3, SameSequence
  <2>5. QED
    BY <2>1, <2>4
<1>7. SubSeq(ab, m + 1, p + q) = r \o b
  <2>1. PICK s, t : s = SubSeq(ab, m + 1, p + q) /\ t = r \o b
    OBVIOUS
  <2>2. /\ s \in Seq(S) /\ Len(s) = (p + q) - m
        /\ \A i \in 1..((p + q) - m) : s[i] = ab[m + i]
    BY <1>2, <2>1, PartsOf
  <2>3. /\ t \in Seq(S) /\ Len(t) = (p + q) - m
        /\ \A i \in 1..(p - m) : t[i] = r[i]
        /\ \A i \in 1..q : t[(p - m) + i] = b[i]
    <3>1. /\ t \in Seq(S) /\ Len(t) = Len(r) + q
          /\ \A i \in 1..Len(r) : t[i] = r[i]
          /\ \A i \in 1..q : t[Len(r) + i] = b[i]
      <4> HIDE DEF p
      <4>1. QED
        BY <1>4, <2>1, ConcatOf
    <3>2. (p - m) + q = (p + q) - m
      BY <1>2
    <3>3. QED
      BY <1>4, <3>1, <3>2
  <2>4. ASSUME NEW i \in 1..((p + q) - m) PROVE s[i] = t[i]
    <3>1. CASE i <= p - m
      <4>1. i \in 1..(p - m) /\ m + i \in 1..p
        BY <1>2, <3>1
      <4>2. QED
        BY <1>2, <1>4, <2>2, <2>3, <4>1
    <3>2. CASE i > p - m
      <4>1. i - (p - m) \in 1..q /\ (p - m) + (i - (p - m)) = i /\ p + (i - (p - m)) = m + i
        BY <1>2, <3>2
      <4>2. ab[p + (i - (p - m))] = b[i - (p - m)] /\ t[(p - m) + (i - (p - m))] = b[i - (p - m)]
        BY <1>2, <2>3, <4>1
      <4>3. QED
        BY <2>2, <4>1, <4>2
    <3>3. QED
      BY <1>2, <3>1, <3>2
  <2>5. s = t
    BY <2>2, <2>3, <2>4, SameSequence
  <2>6. QED
    BY <2>1, <2>5
<1>8. QED
  BY <1>1, <1>2, <1>3, <1>4, <1>5, <1>6, <1>7 DEF CutAt

(* A cut behind the first of two lists.                                    *)
LEMMA CutInTail ==
  ASSUME NEW S, NEW D, NEW a \in Seq(S), NEW b \in Seq(D), D \subseteq S, NEW m \in Nat, m >= Len(a)
  PROVE  CutBehind(m, D, a, b)
<1> DEFINE p == Len(a)
           q == Len(b)
<1>1. b \in Seq(S) /\ p \in Nat /\ q \in Nat /\ a \o b \in Seq(S) /\ Len(a \o b) = p + q
  BY WiderType
<1>2. CASE m <= p + q
  <2>1. Least(m, p + q) = m
    BY <1>2 DEF Least
  <2>2. SubSeq(b, 1, m - p) \in Seq(D) /\ SubSeq(b, m - p + 1, q) \in Seq(D)
    BY <1>2
  <2>3. SubSeq(a \o b, 1, m) = a \o SubSeq(b, 1, m - p)
    BY <1>1, <1>2
  <2>4. SubSeq(a \o b, m + 1, p + q) = SubSeq(b, m - p + 1, q)
    BY <1>1, <1>2
  <2>5. QED
    BY <1>1, <2>1, <2>2, <2>3, <2>4 DEF CutBehind
<1>3. CASE m > p + q
  <2>1. Least(m, p + q) = p + q
    BY <1>1, <1>3 DEF Least
  <2>2. SubSeq(a \o b, 1, p + q) = a \o b
    BY <1>1
  <2>3. SubSeq(a \o b, m + 1, p + q) = <<>> /\ <<>> \in Seq(D)
    BY <1>1, <1>3
  <2>4. QED
    BY <1>1, <2>1, <2>2, <2>3 DEF CutBehind
<1>4. m <= p + q \/ m > p + q
  BY <1>1
<1>5. QED
  BY <1>2, <1>3, <1>4

(* Some candidates within the budget, and then none but others.            *)
Headed(cs, C, others, budget) ==
  \E a \in Seq(C), b \in Seq(others) : cs = a \o b /\ Cost(a) <= budget

Others(C) == {c \in C : c.item.kind # "summary"}

(* The summaries are trimmed to the reserve, and only others follow.       *)
LEMMA RankedIsHeaded ==
  ASSUME NEW C, \A c \in C : c.tokens \in Nat, NEW cs \in Seq(C), NEW budget \in Nat
  PROVE  Headed(Ranked(cs, budget), C, Others(C), budget)
<1> DEFINE reserve == Least(SummaryReserve, budget)
           a == Trim(OfItems(cs, "summary"), reserve)
           chunks1 == ByRank(Relevant(OfItems(cs, "chunk")))
           notes == ByRank(Relevant(OfItems(cs, "note")))
<1>1. reserve \in Nat /\ reserve <= budget
  BY SelectionAssumption DEF Least
<1>2. \A kind : OfItems(cs, kind) \in Seq(C \cap {c \in Range(cs) : c.item.kind = kind})
  BY SelectionTypes DEF OfItems
<1>3. a \in Seq(C) /\ Cost(a) <= reserve
  <2>1. OfItems(cs, "summary") \in Seq(C)
    BY <1>2, WiderType
  <2>2. QED
    BY <1>1, <2>1, SelectionTypes, TrimKeepsBudget
<1>4. ASSUME NEW kind, kind # "summary"
      PROVE  ByRank(Relevant(OfItems(cs, kind))) \in Seq(Others(C))
  <2> DEFINE o == OfItems(cs, kind)
  <2>1. o \in Seq(Others(C))
    <3>1. C \cap {c \in Range(cs) : c.item.kind = kind} \subseteq Others(C)
      BY <1>4 DEF Others
    <3>2. o \in Seq(C \cap {c \in Range(cs) : c.item.kind = kind})
      BY <1>2
    <3> HIDE DEF o
    <3>3. QED
      BY <3>1, <3>2, WiderType
  <2>2. \A c \in Others(C) : c.tokens \in Nat
    BY DEF Others
  <2> HIDE DEF o
  <2>3. Relevant(o) \in Seq(Others(C))
    <3>1. Relevant(o) \in Seq(Others(C) \cap {c \in Range(o) : c.score >= MinScore})
      BY <2>1, <2>2, SelectionTypes DEF Relevant
    <3>2. QED
      BY <3>1, WiderType
  <2>4. ByRank(Relevant(o)) \in Seq(Others(C))
    BY <2>2, <2>3, SelectionTypes DEF ByRank
  <2>5. QED
    BY <2>4 DEF o
<1>5. chunks1 \in Seq(Others(C)) /\ notes \in Seq(Others(C))
  BY <1>4
<1>6. Ranked(cs, budget) = (a \o chunks1) \o notes
  BY DEF Ranked
<1> HIDE DEF a, chunks1, notes, reserve
<1>7. chunks1 \in Seq(C) /\ notes \in Seq(C)
  <2>1. Others(C) \subseteq C
    BY DEF Others
  <2>2. QED
    BY <1>5, <2>1, WiderType
<1>8. (a \o chunks1) \o notes = a \o (chunks1 \o notes)
  BY <1>3, <1>7, ConcatAssociates, SMTT(60)
<1>9. chunks1 \o notes \in Seq(Others(C))
  BY <1>5, ConcatOf
<1>10. Cost(a) <= budget
  <2>1. Cost(a) \in Nat
    BY <1>3, SelectionTypes
  <2>2. QED
    BY <1>1, <1>3, <2>1
<1>11. QED
  BY <1>3, <1>6, <1>8, <1>9, <1>10 DEF Headed

(* Wherever the batch ends, the filter leaves the summaries in front.      *)
LEMMA FilteredIsHeaded ==
  ASSUME NEW C, \A c \in C : c.tokens \in Nat, NEW cs, NEW dropped, NEW budget \in Nat,
         Headed(cs, C, Others(C), budget)
  PROVE  Headed(Filtered(cs, dropped), C, Others(C), budget)
<1> DEFINE D == Others(C)
<1>1. PICK a \in Seq(C), b \in Seq(D) : cs = a \o b /\ Cost(a) <= budget
  BY DEF Headed
<1>2. D \subseteq C /\ \A c \in D : c.tokens \in Nat
  BY DEF Others
<1>3. /\ b \in Seq(C) /\ cs \in Seq(C)
      /\ Len(a) \in Nat /\ Len(b) \in Nat /\ Len(cs) = Len(a) + Len(b)
  BY <1>1, <1>2, WiderType, ConcatOf
<1> DEFINE batch == SubSeq(cs, 1, Least(BatchSize, Len(cs)))
           rest == SubSeq(cs, BatchSize + 1, Len(cs))
           set == {c \in Range(batch) : c.item.id \notin dropped}
<1>4. Filtered(cs, dropped) = Among(batch, set) \o rest
  BY DEF Filtered
<1> HIDE DEF D, set
<1>5. ASSUME NEW s \in Seq(C) PROVE Among(s, set) \in Seq(C)
  <2>1. Among(s, set) \in Seq(C \cap set)
    BY SelectionTypes
  <2>2. QED
    BY <2>1, WiderType
<1>6. ASSUME NEW s \in Seq(D) PROVE Among(s, set) \in Seq(D)
  <2>1. Among(s, set) \in Seq(D \cap set)
    BY <1>2, SelectionTypes
  <2>2. QED
    BY <2>1, WiderType
<1>7. ASSUME BatchSize <= Len(a)
      PROVE  Headed(Filtered(cs, dropped), C, D, budget)
  <2>1. Least(BatchSize, Len(cs)) = BatchSize /\ BatchSize \in Nat
    BY <1>3, <1>7, SelectionAssumption DEF Least
  <2>2. PICK l, r : l = SubSeq(a, 1, BatchSize) /\ r = SubSeq(a, BatchSize + 1, Len(a))
    OBVIOUS
  <2>3. /\ l \in Seq(C) /\ r \in Seq(C) /\ l \o r = a
        /\ batch = l /\ rest = r \o b
    <3>1. /\ batch = SubSeq(a \o b, 1, BatchSize)
          /\ rest = SubSeq(a \o b, BatchSize + 1, Len(a \o b))
      BY <1>1, <2>1
    <3>2. CutAt(BatchSize, C, a, b)
      BY <1>3, <1>7, <2>1, CutInHead
    <3> HIDE DEF batch, rest
    <3>3. QED
      BY <2>2, <3>1, <3>2, Zenon DEF CutAt
  <2>4. PICK k \in Seq(C) : k = Among(l, set)
    BY <1>5, <2>3
  <2> HIDE DEF batch, rest
  <2>5. Filtered(cs, dropped) = (k \o r) \o b
    <3>1. (k \o r) \o b = k \o (r \o b)
      <4>1. r \in Seq(C) /\ b \in Seq(C)
        BY <1>3, <2>3
      <4>2. QED
        BY <4>1, ConcatAssociates, SMTT(60)
    <3>2. QED
      BY <1>4, <2>3, <2>4, <3>1
  <2>6. Cost(k \o r) <= budget
    <3>1. Cost(k \o r) = Cost(k) + Cost(r) /\ Cost(a) = Cost(l) + Cost(r)
      BY <2>3, CostOfConcat
    <3>2. Cost(k) <= Cost(l)
      BY <2>3, <2>4, CostOfAmong
    <3>3. Cost(k) \in Nat /\ Cost(l) \in Nat /\ Cost(r) \in Nat
      BY <2>3, SelectionTypes
    <3>4. QED
      BY <1>1, <3>1, <3>2, <3>3
  <2>7. k \o r \in Seq(C)
    BY <2>3, ConcatOf
  <2>8. QED
    BY <2>5, <2>6, <2>7 DEF Headed
<1>8. ASSUME BatchSize > Len(a)
      PROVE  Headed(Filtered(cs, dropped), C, D, budget)
  <2>1. BatchSize \in Nat /\ BatchSize >= Len(a)
    BY <1>3, <1>8, SelectionAssumption
  <2>2. PICK b1 \in Seq(D), b2 \in Seq(D) : batch = a \o b1 /\ rest = b2
    <3>1. CutBehind(BatchSize, D, a, b)
      BY <1>2, <2>1, CutInTail
    <3>2. QED
      BY <1>1, <3>1, Zenon DEF CutBehind
  <2> HIDE DEF batch, rest
  <2>3. b1 \in Seq(C) /\ b2 \in Seq(C)
    BY <1>2, WiderType
  <2>4. PICK k \in Seq(C) : k = Among(a, set)
    BY <1>5
  <2>5. PICK j \in Seq(D) : j = Among(b1, set)
    BY <1>6
  <2>6. Among(batch, set) = k \o j
    <3>1. AmongBoth(a, b1, set)
      BY <2>3, AmongConcat
    <3>2. QED
      BY <2>2, <2>4, <2>5, <3>1, Zenon DEF AmongBoth
  <2>7. j \in Seq(C) /\ j \o b2 \in Seq(D)
    BY <1>2, WiderType, ConcatOf
  <2>8. Filtered(cs, dropped) = k \o (j \o b2)
    <3>1. (k \o j) \o b2 = k \o (j \o b2)
      BY <2>3, <2>7, ConcatAssociates, SMTT(60)
    <3>2. QED
      BY <1>4, <2>2, <2>6, <3>1
  <2>9. Cost(k) <= budget
    <3>1. Cost(k) <= Cost(a)
      BY <2>4, CostOfAmong
    <3>2. Cost(k) \in Nat /\ Cost(a) \in Nat
      BY SelectionTypes
    <3>3. QED
      BY <1>1, <3>1, <3>2
  <2>10. QED
    BY <2>7, <2>8, <2>9 DEF Headed
<1>9. BatchSize <= Len(a) \/ BatchSize > Len(a)
  BY <1>3, SelectionAssumption
<1>10. QED
  BY <1>7, <1>8, <1>9 DEF D

(* All of it for what search has found.                                    *)
LEMMA OfferedIsHeaded ==
  ASSUME NEW I, \A i \in I : i.tokens \in Nat /\ i.words \in Nat, NEW items \in Seq(I),
         NEW similarity, NEW overlap, NEW dropped, NEW budget \in Nat
  PROVE  \E C : /\ \A c \in C : c.tokens \in Nat
                /\ Headed(Offered(items, similarity, overlap, dropped, budget), C, Others(C), budget)
<1> DEFINE Value == {similarity[items[n].id] : n \in DOMAIN items} \cup {overlap[items[n].id] : n \in DOMAIN items}
           C == [item : I, score : Value, tokens : Nat]
           byText == [n \in DOMAIN items |-> [item |-> items[n], score |-> overlap[items[n].id],
                                              tokens |-> items[n].words]]
           byVector == [n \in DOMAIN items |-> [item |-> items[n], score |-> similarity[items[n].id],
                                                tokens |-> items[n].tokens]]
<1>1. \A c \in C : c.tokens \in Nat
  OBVIOUS
<1>2. DOMAIN items = 1..Len(items) /\ Len(items) \in Nat /\ \A n \in DOMAIN items : items[n] \in I
  OBVIOUS
<1>3. byText \in Seq(C) /\ byVector \in Seq(C)
  <2> DEFINE n == Len(items)
  <2>1. \A k \in DOMAIN items : byText[k] \in C /\ byVector[k] \in C
    BY <1>2
  <2> HIDE DEF C
  <2>2. byText \in [1..n -> C] /\ byVector \in [1..n -> C]
    BY <1>2, <2>1
  <2>3. QED
    BY <1>2, <2>2
<1> HIDE DEF C, byText, byVector
<1>4. ASSUME NEW s \in Seq(C) PROVE Matching(ByScore(s)) \in Seq(C)
  <2>1. PICK t \in Seq(C) : t = ByScore(s)
    BY <1>1, SelectionTypes DEF ByScore
  <2>2. Matching(t) \in Seq(C \cap {c \in Range(t) : c.score > 0})
    BY <1>1, SelectionTypes DEF Matching
  <2>3. Matching(t) \in Seq(C)
    BY <2>2, WiderType
  <2>4. QED
    BY <2>1, <2>3
<1>5. VectorMatches(items, similarity) \in Seq(C)
  BY <1>3, <1>4 DEF VectorMatches, byVector
<1>6. TextMatches(items, overlap, budget) \in Seq(C)
  <2>1. Matching(ByScore(byText)) \in Seq(C)
    BY <1>3, <1>4
  <2>2. Trim(Matching(ByScore(byText)), budget) \in Seq(C)
    BY <1>1, <2>1, SelectionTypes
  <2>3. QED
    BY <2>2 DEF TextMatches, byText
<1>7. PICK found \in Seq(C) : found = VectorMatches(items, similarity) \o TextMatches(items, overlap, budget)
  BY <1>5, <1>6, ConcatOf
<1>8. Headed(Ranked(Merged(found), budget), C, Others(C), budget)
  <2>1. Merged(found) \in Seq(C)
    BY <1>1, SelectionTypes
  <2>2. QED
    BY <1>1, <2>1, RankedIsHeaded
<1>9. Headed(Filtered(Ranked(Merged(found), budget), dropped), C, Others(C), budget)
  BY <1>1, <1>8, FilteredIsHeaded
<1>10. QED
  BY <1>1, <1>7, <1>9, Zenon DEF Offered

(* The three parts of BudgetIsWellSpent for one selection.                 *)
LEMMA SelectionSpendsWell ==
  ASSUME NEW I, \A i \in I : i.tokens \in Nat /\ i.words \in Nat, NEW items \in Seq(I),
         NEW similarity, NEW overlap, NEW dropped, NEW budget \in Nat,
         NEW offered, offered = Offered(items, similarity, overlap, dropped, budget),
         NEW kept, kept = Selected(items, similarity, overlap, dropped, budget)
  PROVE  /\ Cost(kept) <= budget
         /\ \A c \in Range(offered) \ Range(kept) : Cost(kept) + c.tokens > budget
         /\ \A n \in DOMAIN offered :
              offered[n].item.kind = "summary" => n \in DOMAIN kept /\ kept[n] = offered[n]
<1>1. kept = Trim(offered, budget)
  BY DEF Selected
<1>2. PICK C : (\A c \in C : c.tokens \in Nat) /\ Headed(offered, C, Others(C), budget)
  BY OfferedIsHeaded
<1>3. PICK a \in Seq(C), b \in Seq(Others(C)) : offered = a \o b /\ Cost(a) <= budget
  BY <1>2 DEF Headed
<1>4. b \in Seq(C)
  <2>1. Others(C) \subseteq C
    BY DEF Others
  <2>2. QED
    BY <2>1, WiderType
<1>5. /\ offered \in Seq(C)
      /\ Len(a) \in Nat /\ Len(b) \in Nat /\ Len(offered) = Len(a) + Len(b)
      /\ \A n \in 1..Len(a) : offered[n] = a[n]
      /\ \A n \in 1..Len(b) : offered[Len(a) + n] = b[n]
  BY <1>3, <1>4, ConcatOf
<1>6. Cost(kept) <= budget
  BY <1>1, <1>2, <1>5, TrimKeepsBudget
<1>7. \A c \in Range(offered) \ Range(kept) : Cost(kept) + c.tokens > budget
  BY <1>1, <1>2, <1>5, TrimLeavesNoRoom
<1>8. ASSUME NEW n \in DOMAIN offered, offered[n].item.kind = "summary"
      PROVE  n \in DOMAIN kept /\ kept[n] = offered[n]
  <2>1. n \in 1..Len(offered)
    BY <1>5
  <2>2. CASE n <= Len(a)
    <3>1. n \in 1..Len(a)
      BY <1>5, <2>1, <2>2
    <3>2. \A i \in 1..Len(a) : i \in DOMAIN Trim(a \o b, budget) /\ Trim(a \o b, budget)[i] = a[i]
      BY <1>2, <1>3, <1>4, TrimKeepsHead
    <3>3. QED
      BY <1>1, <1>3, <1>5, <3>1, <3>2
  <2>3. CASE n > Len(a)
    <3>1. n - Len(a) \in 1..Len(b) /\ Len(a) + (n - Len(a)) = n
      BY <1>5, <2>1, <2>3
    <3>2. offered[n] = b[n - Len(a)] /\ b[n - Len(a)] \in Others(C)
      BY <1>5, <3>1
    <3>3. QED
      BY <1>8, <3>2 DEF Others
  <2>4. QED
    BY <1>5, <2>1, <2>2, <2>3
<1>9. QED
  BY <1>6, <1>7, <1>8

-----------------------------------------------------------------------------
(* The tokens and words of every memory item are numbers.                  *)
LEMMA MemoryIsTyped ==
  ASSUME ChunkTypeOK, NEW summary \in Nat
  PROVE  \E I : (\A i \in I : i.tokens \in Nat /\ i.words \in Nat) /\ Memory(summary) \in Seq(I)
<1> DEFINE I == {Item("chunk", k, chunks[k].tokens) : k \in DOMAIN chunks}
                  \cup {Item("summary", 1, summary), Item("note", 1, 1)}
           stored == [k \in DOMAIN chunks |-> Item("chunk", k, chunks[k].tokens)]
           new == <<Item("summary", 1, summary), Item("note", 1, 1)>>
<1>1. /\ Len(chunks) \in Nat /\ DOMAIN chunks = 1..Len(chunks)
      /\ \A k \in DOMAIN chunks : chunks[k].tokens \in Nat
  <2>1. chunks \in Seq(Chunk) /\ \A c \in Chunk : c.tokens \in Nat
    BY DEF ChunkTypeOK, Chunk
  <2>2. \A k \in DOMAIN chunks : chunks[k] \in Chunk
    BY <2>1
  <2>3. QED
    BY <2>1, <2>2
<1>2. ASSUME NEW kind, NEW k, NEW n \in Nat
      PROVE  Item(kind, k, n).tokens \in Nat /\ Item(kind, k, n).words \in Nat
  BY DEF Item, Positive, Words
<1>3. \A i \in I : i.tokens \in Nat /\ i.words \in Nat
  BY <1>1, <1>2
<1>4. stored \in Seq(I)
  <2> DEFINE m == Len(chunks)
  <2>1. stored \in [1..m -> I]
    BY <1>1
  <2> HIDE DEF stored, I
  <2>2. QED
    BY <1>1, <2>1
<1>5. new \in Seq(I)
  <2>1. Item("summary", 1, summary) \in I /\ Item("note", 1, 1) \in I
    OBVIOUS
  <2> HIDE DEF I
  <2>2. QED
    BY <2>1
<1>6. Memory(summary) = stored \o new
  BY DEF Memory
<1>7. Memory(summary) \in Seq(I)
  <2> HIDE DEF I, stored, new
  <2>1. QED
    BY <1>4, <1>5, <1>6, ConcatOf
<1>8. QED
  BY <1>3, <1>7

(* What a question writes.                                                 *)
LEMMA AskSpendsWell ==
  ASSUME ChunkTypeOK, NEW budget \in Nat, NEW summary \in Nat, NEW scores, NEW dropped,
         Ask(budget, summary, scores, dropped)
  PROVE  BudgetIsWellSpent'
<1> DEFINE items == Memory(summary)
           similarity == [id \in IdsOf(items) |-> scores[id][1]]
           overlap == [id \in IdsOf(items) |-> scores[id][2]]
<1>1. PICK I : (\A i \in I : i.tokens \in Nat /\ i.words \in Nat) /\ items \in Seq(I)
  BY MemoryIsTyped
<1>2. /\ shown'.budget = budget
      /\ shown'.offered = Offered(items, similarity, overlap, dropped, budget)
      /\ shown'.kept = Selected(items, similarity, overlap, dropped, budget)
  BY DEF Ask
<1> HIDE DEF items, similarity, overlap
<1>3. PICK offered, kept : offered = shown'.offered /\ kept = shown'.kept
  OBVIOUS
<1>4. /\ Cost(kept) <= budget
      /\ \A c \in Range(offered) \ Range(kept) : Cost(kept) + c.tokens > budget
      /\ \A n \in DOMAIN offered :
           offered[n].item.kind = "summary" => n \in DOMAIN kept /\ kept[n] = offered[n]
  BY <1>1, <1>2, <1>3, SelectionSpendsWell
<1>5. QED
  BY <1>2, <1>3, <1>4 DEF BudgetIsWellSpent

(* A question writes what is well spent, and nothing else writes it.       *)
LEMMA SpendingStep ==
  ASSUME CInv, BudgetIsWellSpent, [Next]_vars
  PROVE  BudgetIsWellSpent'
<1>1. CASE UNCHANGED shown
  BY <1>1 DEF BudgetIsWellSpent
<1>2. CASE Question
  <2>1. PICK budget \in Budgets, summary \in SummaryTokens :
          LET ids == IdsOf(Memory(summary)) IN
          \E scores \in [ids -> Scores], dropped \in {{}} \cup {{id} : id \in ids} :
            Ask(budget, summary, scores, dropped)
    BY <1>2 DEF Question
  <2>2. PICK scores, dropped : Ask(budget, summary, scores, dropped)
    BY <2>1
  <2>3. budget \in Nat /\ summary \in Nat /\ ChunkTypeOK
    BY DocumentsAssumption DEF CInv
  <2>4. QED
    BY <2>2, <2>3, AskSpendsWell
<1>3. QED
  BY <1>1, <1>2 DEF Next, Advance, vars

(* What select_context shows a node keeps to its budget, leaves out        *)
(* nothing that would still fit, and shows the summaries first, for every  *)
(* memory, every score and whatever the filter drops.                      *)
THEOREM BudgetsAreSpent == Spec => []BudgetIsWellSpent
<1>1. Init => BudgetIsWellSpent
  <2> SUFFICES ASSUME Init PROVE BudgetIsWellSpent
    OBVIOUS
  <2>1. shown.kept = <<>> /\ shown.offered = <<>> /\ shown.budget = 0
    BY DEF Init, Nothing
  <2>2. Range(shown.offered) = {} /\ DOMAIN shown.offered = {}
    BY <2>1 DEF Range
  <2>3. Cost(shown.kept) <= shown.budget
    BY <2>1, CostOfNone
  <2>4. QED
    BY <2>2, <2>3 DEF BudgetIsWellSpent
<1>2. CInv /\ BudgetIsWellSpent /\ [Next]_vars => BudgetIsWellSpent'
  BY SpendingStep
<1>3. QED
  BY <1>1, <1>2, ChunkInductive, PTL DEF Spec
=============================================================================
