------------------------- MODULE ConversationProofs -------------------------
(***************************************************************************)
(* Proofs about Conversation: whatever the number of turns and of answers, *)
(* and however they overlap, raise or die, a turn that ends well leaves    *)
(* what it promised, an instruction is not written without sources while   *)
(* there are some, a summary it shows is that of a whole document, and the *)
(* questions it shows stand with their own answers.                        *)
(***************************************************************************)
EXTENDS Conversation, Induction, FiniteSetTheorems, TLAPS

Item == [kind : {"passage", "summary", "note", "question", "answer"},
         turn : Turn,
         text : Turn \cup Answer \cup {None}]

Stages == {"new", "passage", "chunks", "summarising", "summary", "note", "question", "followup",
           "gathering", "recalling", "answering", "answer", "done", "raised", "dead"}

TypeOK ==
  /\ rag \in BOOLEAN
  /\ memory \in Seq(Item)
  /\ step \in [Turn -> Stages \cup {"embedding"}]
  /\ then \in [Turn -> Stages]
  /\ parts \in [Turn -> Nat]
  /\ told = [t \in Turn |-> told[t]]
  /\ \A t \in Turn : told[t].seen \in 0..Len(memory)
  /\ answer \in [Turn -> Answer \cup {None}]

(* Where a turn is, or will be once its item is embedded.                  *)
At(t) == IF step[t] = "embedding" THEN then[t] ELSE step[t]

Complete(t) ==
  /\ Cardinality(Written(t, "passage")) = parts[t]
  /\ parts[t] = 0 => \/ Mine(t) = Written(t, "note") /\ Cardinality(Mine(t)) = 1
                     \/ \E q, a \in Mine(t) : /\ Mine(t) = {q, a} /\ q < a
                                              /\ memory[q].kind = "question"
                                              /\ memory[a].kind = "answer"
                                              /\ memory[a].text = answer[t]

(* What a turn has stored when it gets to a stage.                         *)
Stored(t) ==
  /\ At(t) \in {"new", "passage", "note", "question", "followup"} => Mine(t) = {}
  /\ At(t) \in {"note", "question", "followup", "gathering", "recalling", "answering", "answer"}
       => parts[t] = 0
  /\ At(t) = "passage" => parts[t] = 1
  /\ At(t) \in {"chunks", "summarising", "summary"} => Mine(t) = Written(t, "passage")
  /\ At(t) = "chunks" => Cardinality(Mine(t)) < parts[t]
  /\ At(t) \in {"summarising", "summary"} => Cardinality(Mine(t)) = parts[t] /\ parts[t] # 0
  /\ At(t) \in {"gathering", "recalling", "answering", "answer"} =>
       \E q \in Places("question") : Mine(t) = {q}
  /\ At(t) = "done" => Complete(t)

(* With rag everything a turn has stored is embedded, but for the newest   *)
(* item while the turn is at its embedding.                                *)
Searchable(t) ==
  /\ step[t] = "embedding" =>
       \E m \in Mine(t) : /\ \A i \in Mine(t) : i <= m
                          /\ rag => Mine(t) \ {m} \subseteq embedded
  /\ rag /\ step[t] \notin {"embedding", "raised", "dead"} => Mine(t) \subseteq embedded

Asked(t) == \A a \in Written(t, "answer") : \E q \in Written(t, "question") : q < a

(* An instruction that says nothing has seen no passage, and one that      *)
(* shows a summary shows one of the memory's and the passages before it.   *)
Sourced(t) == told[t].passages = {} => \A i \in Places("passage") : i > told[t].seen

Shown(t) == told[t].summary # 0 =>
  /\ told[t].summary \in Places("summary")
  /\ ~rag => \A i \in Places("passage") : i < told[t].summary => i \in told[t].passages

Story(t) == Stored(t) /\ Searchable(t) /\ Asked(t) /\ Sourced(t) /\ Shown(t)

(* A stored summary is that of a whole document, found by search.          *)
Grounded(s) ==
  LET u == memory[s].turn
      passages == {i \in Written(u, "passage") : i < s} IN
  /\ step[u] # "new"
  /\ Cardinality(passages) = parts[u]
  /\ rag => passages \subseteq embedded

Summaries == \A s \in Places("summary") : Grounded(s)

(* There is a newest summary, if there is one at all.                      *)
Newest == \E m \in Places("summary") \cup {0} : \A s \in Places("summary") \cup {0} : m >= s

CInv == TypeOK /\ (\A t \in Turn : Story(t)) /\ Summaries /\ Newest

-----------------------------------------------------------------------------
(* A step is that of one turn: what the others know of themselves stays,   *)
(* and the memory and what search finds only grow.                         *)
Stores(t, item) ==
  /\ item.turn = t
  /\ item.kind = "summary" => step[t] = "summary"
  /\ memory' = Append(memory, item)

Moves(t) ==
  /\ rag' = rag
  /\ embedded \subseteq embedded'
  /\ memory' = memory \/ \E item \in Item : Stores(t, item)
  /\ \A u \in Turn \ {t} : /\ step'[u] = step[u] /\ then'[u] = then[u] /\ parts'[u] = parts[u]
                           /\ told'[u] = told[u] /\ answer'[u] = answer[u]
  /\ parts'[t] # parts[t] => step[t] = "new"
  /\ step'[t] # "new"

-----------------------------------------------------------------------------
LEMMA MaxIs ==
  ASSUME NEW S \in SUBSET Nat, NEW m \in S, \A i \in S : i <= m
  PROVE  Max(S) = m
<1>1. \A x \in S : (\A y \in S : x >= y) => x = m
  OBVIOUS
<1>2. \A y \in S : m >= y
  OBVIOUS
<1> QED  BY <1>1, <1>2 DEF Max

(* Whatever is written of the memory is a finite set of places.            *)
LEMMA PlacesAreFinite ==
  ASSUME memory \in Seq(Item), NEW S \in SUBSET DOMAIN memory
  PROVE  IsFiniteSet(S) /\ Cardinality(S) \in Nat /\ S \subseteq Nat
<1>1. DOMAIN memory = 1..Len(memory) /\ Len(memory) \in Nat
  OBVIOUS
<1>2. IsFiniteSet(1..Len(memory))
  BY <1>1, FS_Interval
<1>3. IsFiniteSet(S)
  BY <1>1, <1>2, FS_Subset
<1> QED  BY <1>1, <1>3, FS_CardinalityType

(* What an append does to the places.                                      *)
LEMMA AppendedPlace ==
  ASSUME memory \in Seq(Item), NEW item \in Item, memory' = Append(memory, item)
  PROVE  LET new == Len(memory) + 1 IN
         /\ memory' \in Seq(Item)
         /\ Len(memory) \in Nat /\ Len(memory') = new /\ new \notin DOMAIN memory
         /\ DOMAIN memory = 1..Len(memory)
         /\ DOMAIN memory' = DOMAIN memory \cup {new}
         /\ memory'[new] = item
         /\ \A i \in DOMAIN memory : memory'[i] = memory[i] /\ i < new
         /\ \A u : Mine(u)' = IF u = item.turn THEN Mine(u) \cup {new} ELSE Mine(u)
         /\ \A kind : Places(kind)' = IF kind = item.kind THEN Places(kind) \cup {new} ELSE Places(kind)
<1> DEFINE new == Len(memory) + 1
<1>1. /\ memory' \in Seq(Item)
      /\ Len(memory) \in Nat /\ Len(memory') = new /\ new \notin DOMAIN memory
      /\ DOMAIN memory = 1..Len(memory)
      /\ DOMAIN memory' = DOMAIN memory \cup {new}
      /\ memory'[new] = item
      /\ \A i \in DOMAIN memory : memory'[i] = memory[i] /\ i < new
  OBVIOUS
<1> HIDE DEF new
<1>2. ASSUME NEW u PROVE Mine(u)' = IF u = item.turn THEN Mine(u) \cup {new} ELSE Mine(u)
  BY <1>1 DEF Mine
<1>3. ASSUME NEW kind
      PROVE  Places(kind)' = IF kind = item.kind THEN Places(kind) \cup {new} ELSE Places(kind)
  BY <1>1 DEF Places
<1> QED  BY <1>1, <1>2, <1>3 DEF new

(* The places of other turns and the older places keep their items.        *)
LEMMA MemoryStays ==
  ASSUME memory \in Seq(Item), NEW t, Moves(t)
  PROVE  /\ memory' \in Seq(Item) /\ Len(memory) \in Nat /\ Len(memory') \in Nat
         /\ Len(memory) <= Len(memory')
         /\ DOMAIN memory = 1..Len(memory) /\ DOMAIN memory' = 1..Len(memory')
         /\ \A i \in DOMAIN memory : i \in DOMAIN memory' /\ memory'[i] = memory[i]
         /\ \A i \in DOMAIN memory' \ DOMAIN memory : i > Len(memory) /\ memory'[i].turn = t
         /\ \A u : u # t => Mine(u)' = Mine(u)
         /\ \A u, kind : u # t => Written(u, kind)' = Written(u, kind)
         /\ \A u, kind : \A i \in DOMAIN memory : i \in Written(u, kind)' <=> i \in Written(u, kind)
         /\ \A kind : \A i \in DOMAIN memory : i \in Places(kind)' <=> i \in Places(kind)
<1>1. CASE memory' = memory
  BY <1>1 DEF Mine, Written, Places
<1>2. CASE memory' # memory
  <2>1. PICK item \in Item : item.turn = t /\ memory' = Append(memory, item)
    BY <1>2 DEF Moves, Stores
  <2>2. /\ memory' \in Seq(Item) /\ Len(memory) \in Nat /\ Len(memory') = Len(memory) + 1
        /\ DOMAIN memory = 1..Len(memory) /\ DOMAIN memory' = DOMAIN memory \cup {Len(memory) + 1}
        /\ \A i \in DOMAIN memory : i \in DOMAIN memory' /\ memory'[i] = memory[i]
        /\ memory'[Len(memory) + 1] = item
    BY <2>1, AppendedPlace
  <2>3. \A i \in DOMAIN memory' \ DOMAIN memory : i > Len(memory) /\ memory'[i].turn = t
    BY <2>1, <2>2
  <2>4. \A u : u # t => Mine(u)' = Mine(u)
    BY <2>1, <2>2 DEF Mine
  <2>5. \A kind : \A i \in DOMAIN memory : i \in Places(kind)' <=> i \in Places(kind)
    BY <2>2 DEF Places
  <2>6. \A u : \A i \in DOMAIN memory : i \in Mine(u)' <=> i \in Mine(u)
    BY <2>2 DEF Mine
  <2>7. \A u, kind : \A i \in DOMAIN memory : i \in Written(u, kind)' <=> i \in Written(u, kind)
    BY <2>5, <2>6 DEF Written
  <2>8. ASSUME NEW u, NEW kind, u # t PROVE Written(u, kind)' = Written(u, kind)
    <3>1. Mine(u) \subseteq DOMAIN memory
      BY DEF Mine
    <3> QED  BY <2>4, <2>5, <2>8, <3>1 DEF Written
  <2>9. DOMAIN memory' = 1..Len(memory')
    BY <2>2
  <2> QED  BY <2>2, <2>3, <2>4, <2>5, <2>7, <2>8, <2>9
<1> QED  BY <1>1, <1>2

(* The other turns' stories go on as they were.                            *)
LEMMA OthersStay ==
  ASSUME CInv, NEW t \in Turn, Moves(t), NEW u \in Turn \ {t}
  PROVE  Story(u)'
<1>1. /\ \A i \in DOMAIN memory : i \in DOMAIN memory' /\ memory'[i] = memory[i]
      /\ Mine(u)' = Mine(u)
      /\ \A kind : Written(u, kind)' = Written(u, kind)
      /\ \A kind : \A i \in DOMAIN memory : i \in Places(kind)' <=> i \in Places(kind)
      /\ \A i \in DOMAIN memory' \ DOMAIN memory : i > Len(memory)
      /\ DOMAIN memory = 1..Len(memory) /\ Len(memory) \in Nat /\ Len(memory') \in Nat
      /\ DOMAIN memory' = 1..Len(memory')
  BY MemoryStays DEF CInv, TypeOK
<1>2. Mine(u) \subseteq DOMAIN memory
  BY DEF Mine
<1>3. /\ step'[u] = step[u] /\ then'[u] = then[u] /\ parts'[u] = parts[u]
      /\ told'[u] = told[u] /\ answer'[u] = answer[u]
      /\ rag' = rag /\ embedded \subseteq embedded'
  BY DEF Moves
<1>4. Story(u)
  BY DEF CInv
<1>5. At(u)' = At(u)
  BY <1>3 DEF At
<1>6. Complete(u) => Complete(u)'
  BY <1>1, <1>2, <1>3 DEF Complete
<1>7. \A q \in Places("question") : q \in DOMAIN memory /\ q \in Places("question")'
  BY <1>1 DEF Places
<1>8. Stored(u)'
  BY <1>1, <1>3, <1>4, <1>5, <1>6, <1>7 DEF Story, Stored
<1>9. Searchable(u)'
  BY <1>1, <1>3, <1>4 DEF Story, Searchable
<1>10. Asked(u)'
  BY <1>1, <1>4 DEF Story, Asked
<1>11. told[u].seen \in 0..Len(memory)
  BY DEF CInv, TypeOK
<1>12. \A kind : Places(kind)' \subseteq DOMAIN memory'
  BY DEF Places
<1>13. Sourced(u)'
  BY <1>1, <1>3, <1>4, <1>11, <1>12 DEF Story, Sourced
<1>14. Shown(u)'
  <2>1. told[u].summary \in Places("summary") => told[u].summary \in 1..Len(memory)
    BY <1>1 DEF Places
  <2> QED  BY <1>1, <1>3, <1>4, <1>12, <2>1 DEF Story, Shown, Places
<1> QED  BY <1>8, <1>9, <1>10, <1>13, <1>14 DEF Story
(* A summary stays that of a whole document, and the turn that stores one  *)
(* has a whole document in the memory.                                     *)
LEMMA SummariesStay ==
  ASSUME CInv, NEW t \in Turn, Moves(t)
  PROVE  Summaries'
<1> SUFFICES ASSUME NEW s \in Places("summary")' PROVE Grounded(s)'
  BY DEF Summaries
<1>1. /\ \A i \in DOMAIN memory : i \in DOMAIN memory' /\ memory'[i] = memory[i]
      /\ \A i \in DOMAIN memory' \ DOMAIN memory : i > Len(memory) /\ memory'[i].turn = t
      /\ \A u, kind : \A i \in DOMAIN memory : i \in Written(u, kind)' <=> i \in Written(u, kind)
      /\ \A kind : \A i \in DOMAIN memory : i \in Places(kind)' <=> i \in Places(kind)
      /\ DOMAIN memory = 1..Len(memory) /\ Len(memory) \in Nat /\ Len(memory') \in Nat
      /\ DOMAIN memory' = 1..Len(memory') /\ memory' \in Seq(Item)
  BY MemoryStays DEF CInv, TypeOK
<1>2. /\ rag' = rag /\ embedded \subseteq embedded'
      /\ \A u \in Turn \ {t} : step'[u] = step[u] /\ parts'[u] = parts[u]
      /\ parts'[t] # parts[t] => step[t] = "new"
      /\ step'[t] # "new"
  BY DEF Moves
<1>3. \A u, kind : Written(u, kind) \subseteq DOMAIN memory /\ Written(u, kind)' \subseteq DOMAIN memory'
  BY DEF Written, Places
<1>4. s \in DOMAIN memory' /\ memory'[s].turn \in Turn
  <2>1. s \in DOMAIN memory'
    BY DEF Places
  <2>2. memory'[s] \in Item
    BY <1>1, <2>1
  <2> QED  BY <2>1, <2>2 DEF Item
<1>5. CASE s \in DOMAIN memory
  <2> DEFINE u == memory[s].turn
  <2>1. Grounded(s) /\ memory'[s] = memory[s] /\ u \in Turn
    BY <1>1, <1>4, <1>5 DEF CInv, Summaries
  <2>2. {i \in Written(u, "passage") : i < s}' = {i \in Written(u, "passage") : i < s}
    <3>1. \A i \in Written(u, "passage")' : i < s => i \in DOMAIN memory
      BY <1>1, <1>3, <1>5, <2>1
    <3> QED  BY <1>1, <1>3, <2>1, <3>1
  <2>3. step'[u] # "new" /\ parts'[u] = parts[u]
    BY <1>2, <2>1 DEF Grounded
  <2> QED  BY <1>2, <2>1, <2>2, <2>3 DEF Grounded
<1>6. CASE s \notin DOMAIN memory
  <2>1. PICK item \in Item : Stores(t, item)
    BY <1>4, <1>6 DEF Moves
  <2>2. s = Len(memory) + 1 /\ memory'[s] = item /\ item.turn = t /\ item.kind = "summary"
    BY <1>4, <1>6, <2>1, AppendedPlace DEF CInv, TypeOK, Stores, Places
  <2>3. step[t] = "summary" /\ parts'[t] = parts[t]
    BY <1>2, <2>1, <2>2 DEF Stores
  <2>4. /\ Mine(t) = Written(t, "passage") /\ Cardinality(Mine(t)) = parts[t]
        /\ rag => Mine(t) \subseteq embedded
    BY <2>3 DEF CInv, Story, Stored, Searchable, At
  <2>5. \A i \in Written(t, "passage")' : i < s <=> i \in Written(t, "passage")
    <3>1. \A i \in DOMAIN memory : i < s
      BY <1>1, <2>2
    <3>2. \A i \in DOMAIN memory' : i < s => i \in DOMAIN memory
      BY <1>1, <2>2
    <3> QED  BY <1>1, <1>3, <3>1, <3>2
  <2>6. {i \in Written(t, "passage") : i < s}' = Written(t, "passage")
    BY <1>1, <1>3, <2>5
  <2> QED  BY <1>2, <2>2, <2>3, <2>4, <2>6 DEF Grounded
<1> QED  BY <1>5, <1>6

LEMMA NewestStays ==
  ASSUME CInv, NEW t \in Turn, Moves(t)
  PROVE  Newest'
<1>1. PICK m \in Places("summary") \cup {0} : \A s \in Places("summary") \cup {0} : m >= s
  BY DEF CInv, Newest
<1>2. /\ \A i \in DOMAIN memory : i \in Places("summary")' <=> i \in Places("summary")
      /\ DOMAIN memory = 1..Len(memory) /\ Len(memory) \in Nat
      /\ Places("summary") \subseteq DOMAIN memory /\ Places("summary")' \subseteq DOMAIN memory'
  BY MemoryStays DEF CInv, TypeOK, Places
<1>3. CASE memory' = memory
  BY <1>1, <1>3 DEF Newest, Places
<1>4. CASE memory' # memory
  <2>1. PICK item \in Item : memory' = Append(memory, item)
    BY <1>4 DEF Moves, Stores
  <2>2. DOMAIN memory' = DOMAIN memory \cup {Len(memory) + 1}
    BY <2>1, AppendedPlace DEF CInv, TypeOK
  <2>3. CASE Len(memory) + 1 \in Places("summary")'
    <3>1. \A s \in Places("summary")' \cup {0} : Len(memory) + 1 >= s
      BY <1>2, <2>2
    <3> QED  BY <2>3, <3>1 DEF Newest
  <2>4. CASE Len(memory) + 1 \notin Places("summary")'
    <3>1. Places("summary")' = Places("summary")
      BY <1>2, <2>2, <2>4
    <3> QED  BY <1>1, <3>1 DEF Newest
  <2> QED  BY <2>3, <2>4
<1> QED  BY <1>3, <1>4

(* What holds when a turn stores an item, but for what it has stored.      *)
LEMMA WriteStep ==
  ASSUME CInv, NEW t \in Turn, NEW kind, NEW text, NEW next \in Stages \ {"new"},
         [kind |-> kind, turn |-> t, text |-> text] \in Item,
         step[t] \in Stages \ {"new", "raised", "dead"},
         kind = "summary" => step[t] = "summary",
         kind = "answer" => Written(t, "question") # {},
         Write(t, kind, text, next),
         UNCHANGED <<rag, embedded, parts, told, answer>>
  PROVE  /\ TypeOK' /\ Moves(t) /\ At(t)' = next
         /\ Searchable(t)' /\ Asked(t)' /\ Sourced(t)' /\ Shown(t)'
<1> DEFINE item == [kind |-> kind, turn |-> t, text |-> text]
           new == Len(memory) + 1
<1>1. /\ memory' = Append(memory, item) /\ item \in Item /\ item.turn = t /\ item.kind = kind
      /\ step' = [step EXCEPT ![t] = IF rag THEN "embedding" ELSE next]
      /\ then' = [then EXCEPT ![t] = next]
  BY DEF Write, GoTo
<1>2. TypeOK
  BY DEF CInv
<1> HIDE DEF item
<1>3. /\ memory' \in Seq(Item) /\ Len(memory) \in Nat /\ Len(memory') = new
      /\ new \notin DOMAIN memory /\ DOMAIN memory = 1..Len(memory)
      /\ DOMAIN memory' = DOMAIN memory \cup {new} /\ memory'[new] = item
      /\ \A i \in DOMAIN memory : memory'[i] = memory[i] /\ i < new
      /\ Mine(t)' = Mine(t) \cup {new}
      /\ \A k : Places(k)' = IF k = kind THEN Places(k) \cup {new} ELSE Places(k)
  BY <1>1, <1>2, AppendedPlace DEF TypeOK
<1>4. TypeOK'
  BY <1>1, <1>2, <1>3 DEF TypeOK
<1>5. \A u \in Turn \ {t} : step'[u] = step[u] /\ then'[u] = then[u]
  BY <1>1, <1>2 DEF TypeOK
<1>6. step'[t] = (IF rag THEN "embedding" ELSE next) /\ then'[t] = next
  BY <1>1, <1>2 DEF TypeOK
<1>7. Moves(t)
  BY <1>1, <1>5, <1>6 DEF Moves, Stores
<1>8. At(t)' = next
  BY <1>6, <1>2 DEF At, TypeOK
<1>9. Story(t) /\ Mine(t) \subseteq DOMAIN memory
  BY DEF CInv, Mine
<1>10. rag => Mine(t) \subseteq embedded
  BY <1>9 DEF Story, Searchable, Stages
<1>11. Searchable(t)'
  <2>1. \A i \in Mine(t)' : i <= new
    BY <1>3, <1>9
  <2>2. rag => Mine(t)' \ {new} \subseteq embedded
    BY <1>3, <1>10
  <2>3. new \in Mine(t)'
    BY <1>3
  <2>4. step'[t] = "embedding" =>
          \E m \in Mine(t)' : (\A i \in Mine(t)' : i <= m) /\ (rag => Mine(t)' \ {m} \subseteq embedded)
    BY <2>1, <2>2, <2>3
  <2>5. ~(rag /\ step'[t] \notin {"embedding", "raised", "dead"})
    BY <1>6
  <2> QED  BY <2>4, <2>5 DEF Searchable
<1>12. /\ Written(t, "question") \subseteq Written(t, "question")'
       /\ \A a \in Written(t, "answer")' : a \in Written(t, "answer") \/ (a = new /\ kind = "answer")
  <2>1. \A k : Places(k) \subseteq DOMAIN memory
    BY DEF Places
  <2> QED  BY <1>3, <1>9, <2>1 DEF Written
<1>13. \A q \in Written(t, "question") : q < new
  BY <1>3, <1>9 DEF Written
<1>14. Asked(t)'
  BY <1>9, <1>12, <1>13 DEF Story, Asked
<1>15. told[t].seen \in 0..Len(memory)
  BY <1>2 DEF TypeOK
<1>16. Sourced(t)'
  BY <1>3, <1>9, <1>15 DEF Story, Sourced
<1>17. Shown(t)'
  <2>1. \A s \in Places("summary") : s < new
    BY <1>3 DEF Places
  <2>2. \A s \in Places("summary") : s \in Nat /\ ~(new < s)
    BY <1>3, <2>1 DEF Places
  <2> QED  BY <1>3, <1>9, <2>2 DEF Story, Shown
<1> QED  BY <1>4, <1>7, <1>8, <1>11, <1>14, <1>16, <1>17
(* What holds when a turn goes on and stores nothing.                      *)
LEMMA QuietStep ==
  ASSUME CInv, NEW t \in Turn, NEW s \in Stages \ {"new"}, NEW n \in Nat,
         NEW x, x.seen \in 0..Len(memory), NEW y \in Answer \cup {None},
         UNCHANGED <<rag, memory, then>>, embedded \subseteq embedded',
         GoTo(t, s),
         parts' = [parts EXCEPT ![t] = n], step[t] = "new" \/ n = parts[t],
         told' = [told EXCEPT ![t] = x],
         answer' = [answer EXCEPT ![t] = y],
         s \in {"raised", "dead"} \/ (rag => Mine(t) \subseteq embedded')
  PROVE  /\ TypeOK' /\ Moves(t)
         /\ At(t)' = s /\ parts'[t] = n /\ told'[t] = x /\ answer'[t] = y
         /\ \A u, kind : Written(u, kind)' = Written(u, kind)
         /\ \A kind : Places(kind)' = Places(kind)
         /\ Mine(t)' = Mine(t)
         /\ Searchable(t)' /\ Asked(t)'
<1>1. /\ TypeOK /\ step' = [step EXCEPT ![t] = s] /\ s # "embedding"
      /\ rag' = rag /\ memory' = memory /\ then' = then
  BY DEF CInv, GoTo, Stages
<1>2. /\ step'[t] = s /\ parts'[t] = n /\ told'[t] = x /\ answer'[t] = y
      /\ \A u \in Turn \ {t} : /\ step'[u] = step[u] /\ parts'[u] = parts[u]
                               /\ told'[u] = told[u] /\ answer'[u] = answer[u]
  BY <1>1 DEF TypeOK
<1>3. TypeOK'
  <2>1. told' = [u \in Turn |-> told'[u]]
    BY <1>1 DEF TypeOK
  <2>2. \A u \in Turn : told'[u].seen \in 0..Len(memory)
    BY <1>1, <1>2 DEF TypeOK
  <2> QED  BY <1>1, <2>1, <2>2 DEF TypeOK
<1>4. Moves(t)
  BY <1>1, <1>2 DEF Moves
<1>5. /\ \A u, kind : Written(u, kind)' = Written(u, kind)
      /\ \A kind : Places(kind)' = Places(kind)
      /\ Mine(t)' = Mine(t)
  BY <1>1 DEF Written, Places, Mine
<1>6. At(t)' = s
  BY <1>1, <1>2 DEF At
<1>7. Searchable(t)'
  BY <1>1, <1>2, <1>5 DEF Searchable
<1>8. Asked(t)'
  BY <1>5 DEF CInv, Story, Asked
<1> QED  BY <1>2, <1>3, <1>4, <1>5, <1>6, <1>7, <1>8

(* The same for the steps that leave the instruction and the answer alone. *)
LEMMA SilentStep ==
  ASSUME CInv, NEW t \in Turn, NEW s \in Stages \ {"new"}, NEW n \in Nat,
         UNCHANGED <<rag, memory, then, told, answer>>, embedded \subseteq embedded',
         GoTo(t, s),
         parts' = [parts EXCEPT ![t] = n], step[t] = "new" \/ n = parts[t],
         s \in {"raised", "dead"} \/ (rag => Mine(t) \subseteq embedded')
  PROVE  /\ TypeOK' /\ Moves(t)
         /\ At(t)' = s /\ parts'[t] = n /\ answer'[t] = answer[t]
         /\ \A u, kind : Written(u, kind)' = Written(u, kind)
         /\ \A kind : Places(kind)' = Places(kind)
         /\ Mine(t)' = Mine(t)
         /\ Searchable(t)' /\ Asked(t)' /\ Sourced(t)' /\ Shown(t)'
<1>1. /\ told[t].seen \in 0..Len(memory) /\ answer[t] \in Answer \cup {None}
      /\ told' = [told EXCEPT ![t] = told[t]] /\ answer' = [answer EXCEPT ![t] = answer[t]]
      /\ UNCHANGED <<rag, memory, then>>
  BY DEF CInv, TypeOK
<1>2. PICK x : x = told[t]
  OBVIOUS
<1>3. PICK y : y = answer[t]
  OBVIOUS
<1>4. /\ x.seen \in 0..Len(memory) /\ y \in Answer \cup {None}
      /\ told' = [told EXCEPT ![t] = x] /\ answer' = [answer EXCEPT ![t] = y]
  BY <1>1, <1>2, <1>3
<1>5. /\ TypeOK' /\ Moves(t)
      /\ At(t)' = s /\ parts'[t] = n /\ told'[t] = x /\ answer'[t] = y
      /\ \A u, kind : Written(u, kind)' = Written(u, kind)
      /\ \A kind : Places(kind)' = Places(kind)
      /\ Mine(t)' = Mine(t)
      /\ Searchable(t)' /\ Asked(t)'
  BY <1>1, <1>4, QuietStep
<1>6. /\ TypeOK' /\ Moves(t)
      /\ At(t)' = s /\ parts'[t] = n /\ answer'[t] = answer[t]
      /\ \A u, kind : Written(u, kind)' = Written(u, kind)
      /\ \A kind : Places(kind)' = Places(kind)
      /\ Mine(t)' = Mine(t)
      /\ Searchable(t)' /\ Asked(t)'
  BY <1>3, <1>5
<1>7. Sourced(t)' /\ Shown(t)'
  BY <1>6 DEF CInv, Story, Sourced, Shown
<1> QED  BY <1>6, <1>7

-----------------------------------------------------------------------------
(* The steps, one by one: each leaves a true story of its own turn.        *)
LEMMA Classified ==
  ASSUME CInv, NEW t \in Turn, NEW chunks \in Nat \ {0},
         NEW type \in {"source", "document", "instruction", "followup", "question"},
         Classify(t, type, chunks)
  PROVE  TypeOK' /\ Moves(t) /\ Story(t)'
<1> DEFINE n == CASE type = "source" -> 1 [] type = "document" -> chunks [] OTHER -> 0
           s == CASE type = "source" -> "passage"
                  [] type = "document" -> "chunks"
                  [] type = "instruction" -> "note"
                  [] type = "followup" -> "followup"
                  [] OTHER -> "question"
<1>1. /\ step[t] = "new" /\ GoTo(t, s) /\ parts' = [parts EXCEPT ![t] = n]
      /\ UNCHANGED <<rag, memory, embedded, then, told, answer>>
  BY DEF Classify
<1>2. n \in Nat /\ s \in Stages \ {"new"}
  BY DEF Stages
<1>3. /\ s = "passage" => n = 1
      /\ s = "chunks" => n \in Nat \ {0}
      /\ s \in {"note", "question", "followup"} => n = 0
      /\ s \in {"passage", "chunks", "note", "question", "followup"}
  OBVIOUS
<1> HIDE DEF n, s
<1>4. Mine(t) = {} /\ Written(t, "passage") = {}
  BY <1>1 DEF CInv, Story, Stored, At, Written
<1>5. /\ TypeOK' /\ Moves(t)
      /\ At(t)' = s /\ parts'[t] = n
      /\ Written(t, "passage")' = Written(t, "passage")
      /\ Mine(t)' = Mine(t)
      /\ Searchable(t)' /\ Asked(t)' /\ Sourced(t)' /\ Shown(t)'
  BY <1>1, <1>2, <1>4, SilentStep
<1>6. Stored(t)'
  BY <1>2, <1>3, <1>4, <1>5, FS_EmptySet DEF Stored
<1> QED  BY <1>5, <1>6 DEF Story

LEMMA PassageStored ==
  ASSUME CInv, NEW t \in Turn, StorePassage(t)
  PROVE  TypeOK' /\ Moves(t) /\ Story(t)'
<1> DEFINE stored == Cardinality(Written(t, "passage")) + 1
           next == CASE step[t] = "passage" -> "done"
                     [] stored < parts[t] -> "chunks"
                     [] OTHER -> "summarising"
<1>1. /\ step[t] \in {"passage", "chunks"} /\ Write(t, "passage", t, next)
      /\ UNCHANGED <<rag, embedded, parts, told, answer>>
  BY DEF StorePassage
<1>2. /\ next \in {"done", "chunks", "summarising"} /\ next \in Stages \ {"new"}
      /\ [kind |-> "passage", turn |-> t, text |-> t] \in Item
      /\ step[t] \in Stages \ {"new", "raised", "dead"}
  BY <1>1 DEF Stages, Item
<1>3. /\ TypeOK' /\ Moves(t) /\ At(t)' = next
      /\ Searchable(t)' /\ Asked(t)' /\ Sourced(t)' /\ Shown(t)'
  BY <1>1, <1>2, WriteStep
<1>4. /\ At(t) = step[t] /\ Stored(t) /\ memory \in Seq(Item) /\ parts[t] \in Nat
      /\ parts'[t] = parts[t]
  BY <1>1 DEF At, CInv, Story, TypeOK
<1>5. Mine(t) = Written(t, "passage")
  BY <1>1, <1>4 DEF Stored, Written
<1> DEFINE new == Len(memory) + 1
           item == [kind |-> "passage", turn |-> t, text |-> t]
<1>6. memory' = Append(memory, item) /\ item \in Item /\ item.kind = "passage" /\ item.turn = t
  BY <1>1, <1>2 DEF Write
<1> HIDE DEF item
<1>7. /\ Mine(t)' = Mine(t) \cup {new} /\ Places("passage")' = Places("passage") \cup {new}
      /\ new \notin DOMAIN memory
  BY <1>4, <1>6, AppendedPlace
<1>8. Written(t, "passage")' = Mine(t)'
  BY <1>5, <1>7 DEF Written
<1>9. Mine(t) \subseteq DOMAIN memory
  BY DEF Mine
<1>10. IsFiniteSet(Mine(t)) /\ Cardinality(Mine(t)) \in Nat
  BY <1>4, <1>9, PlacesAreFinite
<1>11. Cardinality(Mine(t)') = Cardinality(Mine(t)) + 1
  BY <1>7, <1>9, <1>10, FS_AddElement
<1>12. CASE step[t] = "passage"
  <2>1. Cardinality(Mine(t)') = 1 /\ parts'[t] = 1 /\ next = "done"
    <3>1. Cardinality(Mine(t)) = 0 /\ parts[t] = 1
      BY <1>4, <1>12, FS_EmptySet DEF Stored
    <3>2. ~(stored < parts[t])
      BY <1>5, <3>1
    <3>3. next = "done"
      BY <1>12, <3>2
    <3> HIDE DEF next
    <3> QED  BY <1>4, <1>11, <3>1, <3>3
  <2> QED  BY <1>3, <1>8, <2>1 DEF Stored, Complete, Story
<1>13. CASE step[t] = "chunks"
  <2>1. Cardinality(Mine(t)) < parts[t]
    BY <1>4, <1>13 DEF Stored
  <2>2. CASE next = "chunks"
    <3>1. Cardinality(Mine(t)') < parts'[t]
      BY <1>4, <1>5, <1>10, <1>11, <1>13, <2>2
    <3> QED  BY <1>3, <1>8, <2>2, <3>1 DEF Stored, Story
  <2>3. CASE next = "summarising"
    <3>1. Cardinality(Mine(t)') = parts'[t] /\ parts'[t] # 0
      BY <1>4, <1>5, <1>10, <1>11, <1>13, <2>1, <2>3
    <3> QED  BY <1>3, <1>8, <2>3, <3>1 DEF Stored, Story
  <2> QED  BY <1>13, <2>2, <2>3
<1> QED  BY <1>1, <1>12, <1>13

LEMMA SummaryStored ==
  ASSUME CInv, NEW t \in Turn, StoreSummary(t)
  PROVE  TypeOK' /\ Moves(t) /\ Story(t)'
<1>1. /\ step[t] = "summary" /\ Write(t, "summary", t, "done")
      /\ UNCHANGED <<rag, embedded, parts, told, answer>>
  BY DEF StoreSummary
<1>2. /\ [kind |-> "summary", turn |-> t, text |-> t] \in Item
      /\ step[t] \in Stages \ {"new", "raised", "dead"} /\ "done" \in Stages \ {"new"}
  BY <1>1 DEF Stages, Item
<1>3. /\ TypeOK' /\ Moves(t) /\ At(t)' = "done"
      /\ Searchable(t)' /\ Asked(t)' /\ Sourced(t)' /\ Shown(t)'
  BY <1>1, <1>2, WriteStep
<1>4. /\ Mine(t) = Written(t, "passage") /\ Cardinality(Mine(t)) = parts[t] /\ parts[t] # 0
      /\ memory \in Seq(Item) /\ parts'[t] = parts[t]
  BY <1>1 DEF At, CInv, Story, Stored, TypeOK
<1> DEFINE item == [kind |-> "summary", turn |-> t, text |-> t]
<1>5. memory' = Append(memory, item) /\ item \in Item /\ item.kind = "summary" /\ item.turn = t
  BY <1>1, <1>2 DEF Write
<1> HIDE DEF item
<1>6. /\ Mine(t)' = Mine(t) \cup {Len(memory) + 1} /\ Places("passage")' = Places("passage")
      /\ Len(memory) + 1 \notin DOMAIN memory
  BY <1>4, <1>5, AppendedPlace
<1>7. Written(t, "passage")' = Written(t, "passage")
  BY <1>6 DEF Written, Places
<1> QED  BY <1>3, <1>4, <1>7 DEF Story, Stored, Complete
LEMMA NoteStored ==
  ASSUME CInv, NEW t \in Turn, StoreNote(t)
  PROVE  TypeOK' /\ Moves(t) /\ Story(t)'
<1>1. /\ step[t] = "note" /\ Write(t, "note", t, "done")
      /\ UNCHANGED <<rag, embedded, parts, told, answer>>
  BY DEF StoreNote
<1>2. /\ [kind |-> "note", turn |-> t, text |-> t] \in Item
      /\ step[t] \in Stages \ {"new", "raised", "dead"} /\ "done" \in Stages \ {"new"}
  BY <1>1 DEF Stages, Item
<1>3. /\ TypeOK' /\ Moves(t) /\ At(t)' = "done"
      /\ Searchable(t)' /\ Asked(t)' /\ Sourced(t)' /\ Shown(t)'
  BY <1>1, <1>2, WriteStep
<1>4. Mine(t) = {} /\ memory \in Seq(Item) /\ parts[t] = 0 /\ parts'[t] = parts[t]
  BY <1>1 DEF At, CInv, Story, Stored, TypeOK
<1> DEFINE item == [kind |-> "note", turn |-> t, text |-> t]
<1>5. memory' = Append(memory, item) /\ item \in Item /\ item.kind = "note" /\ item.turn = t
  BY <1>1, <1>2 DEF Write
<1> HIDE DEF item
<1>6. /\ Mine(t)' = {Len(memory) + 1}
      /\ Places("note")' = Places("note") \cup {Len(memory) + 1}
      /\ Places("passage")' = Places("passage") /\ Len(memory) + 1 \notin DOMAIN memory
  BY <1>4, <1>5, AppendedPlace
<1>7. Mine(t)' = Written(t, "note")' /\ Written(t, "passage")' = {}
  BY <1>6 DEF Written, Places
<1>8. Cardinality(Mine(t)') = 1 /\ Cardinality(Written(t, "passage")') = 0
  BY <1>6, <1>7, FS_Singleton, FS_EmptySet
<1> QED  BY <1>3, <1>4, <1>7, <1>8 DEF Story, Stored, Complete

LEMMA QuestionStored ==
  ASSUME CInv, NEW t \in Turn, StoreQuestion(t)
  PROVE  TypeOK' /\ Moves(t) /\ Story(t)'
<1> DEFINE next == IF step[t] = "followup" THEN "recalling" ELSE "gathering"
<1>1. /\ step[t] \in {"question", "followup"} /\ Write(t, "question", t, next)
      /\ UNCHANGED <<rag, embedded, parts, told, answer>>
  BY DEF StoreQuestion
<1>2. /\ [kind |-> "question", turn |-> t, text |-> t] \in Item
      /\ step[t] \in Stages \ {"new", "raised", "dead"}
      /\ next \in {"recalling", "gathering"} /\ next \in Stages \ {"new"}
  BY <1>1 DEF Stages, Item
<1> HIDE DEF next
<1>3. /\ TypeOK' /\ Moves(t) /\ At(t)' = next
      /\ Searchable(t)' /\ Asked(t)' /\ Sourced(t)' /\ Shown(t)'
  BY <1>1, <1>2, WriteStep
<1>4. Mine(t) = {} /\ memory \in Seq(Item) /\ parts[t] = 0 /\ parts'[t] = parts[t]
  BY <1>1 DEF At, CInv, Story, Stored, TypeOK
<1> DEFINE item == [kind |-> "question", turn |-> t, text |-> t]
<1>5. memory' = Append(memory, item) /\ item \in Item /\ item.kind = "question" /\ item.turn = t
  BY <1>1, <1>2 DEF Write
<1> HIDE DEF item
<1>6. /\ Mine(t)' = {Len(memory) + 1}
      /\ Places("question")' = Places("question") \cup {Len(memory) + 1}
  BY <1>4, <1>5, AppendedPlace
<1>7. \E q \in Places("question")' : Mine(t)' = {q}
  BY <1>6
<1> QED  BY <1>2, <1>3, <1>4, <1>7 DEF Story, Stored

LEMMA AnswerStored ==
  ASSUME CInv, NEW t \in Turn, StoreAnswer(t)
  PROVE  TypeOK' /\ Moves(t) /\ Story(t)'
<1>1. /\ step[t] = "answer" /\ Write(t, "answer", answer[t], "done")
      /\ UNCHANGED <<rag, embedded, parts, told, answer>>
  BY DEF StoreAnswer
<1>2. /\ parts[t] = 0 /\ parts'[t] = parts[t] /\ answer'[t] = answer[t]
      /\ answer[t] \in Answer \cup {None} /\ memory \in Seq(Item)
  BY <1>1 DEF At, CInv, Story, Stored, TypeOK
<1>3. PICK q \in Places("question") : Mine(t) = {q}
  BY <1>1 DEF At, CInv, Story, Stored
<1>4. /\ [kind |-> "answer", turn |-> t, text |-> answer[t]] \in Item
      /\ step[t] \in Stages \ {"new", "raised", "dead"} /\ "done" \in Stages \ {"new"}
  BY <1>1, <1>2 DEF Stages, Item
<1>5. Written(t, "question") # {}
  BY <1>3 DEF Written
<1>6. /\ TypeOK' /\ Moves(t) /\ At(t)' = "done"
      /\ Searchable(t)' /\ Asked(t)' /\ Sourced(t)' /\ Shown(t)'
  BY <1>1, <1>4, <1>5, WriteStep
<1> DEFINE new == Len(memory) + 1
           item == [kind |-> "answer", turn |-> t, text |-> answer[t]]
<1>7. /\ memory' = Append(memory, item) /\ item \in Item
      /\ item.kind = "answer" /\ item.turn = t /\ item.text = answer[t]
  BY <1>1, <1>4 DEF Write
<1> HIDE DEF item
<1>8. /\ Mine(t)' = {q, new} /\ q < new /\ Places("passage")' = Places("passage")
      /\ memory'[new] = item /\ memory'[q].kind = "question" /\ new \notin DOMAIN memory
  BY <1>2, <1>3, <1>7, AppendedPlace DEF Places
<1>9. Written(t, "passage")' = {}
  BY <1>3, <1>8 DEF Written, Places
<1>10. Cardinality(Written(t, "passage")') = parts'[t]
  BY <1>2, <1>9, FS_EmptySet
<1>11. \E p, a \in Mine(t)' : /\ Mine(t)' = {p, a} /\ p < a
                              /\ memory'[p].kind = "question"
                              /\ memory'[a].kind = "answer"
                              /\ memory'[a].text = answer'[t]
  BY <1>2, <1>7, <1>8
<1> QED  BY <1>6, <1>10, <1>11 DEF Story, Stored, Complete

LEMMA Summarised ==
  ASSUME CInv, NEW t \in Turn, Summarise(t)
  PROVE  TypeOK' /\ Moves(t) /\ Story(t)'
<1>1. PICK s \in {"summary", "done"} : GoTo(t, s)
  BY DEF Summarise
<1>2. step[t] = "summarising" /\ UNCHANGED <<rag, memory, embedded, then, parts, told, answer>>
  BY DEF Summarise, locals
<1>3. /\ Mine(t) = Written(t, "passage") /\ Cardinality(Mine(t)) = parts[t] /\ parts[t] # 0
      /\ rag => Mine(t) \subseteq embedded'
      /\ parts[t] \in Nat /\ parts' = [parts EXCEPT ![t] = parts[t]]
  BY <1>2 DEF At, CInv, Story, Stored, Searchable, TypeOK
<1>4. s \in Stages \ {"new"} /\ embedded \subseteq embedded'
      /\ UNCHANGED <<rag, memory, then, told, answer>>
  BY <1>2 DEF Stages
<1>5. /\ TypeOK' /\ Moves(t)
      /\ At(t)' = s /\ parts'[t] = parts[t]
      /\ \A u, kind : Written(u, kind)' = Written(u, kind)
      /\ Mine(t)' = Mine(t)
      /\ Searchable(t)' /\ Asked(t)' /\ Sourced(t)' /\ Shown(t)'
  BY <1>1, <1>3, <1>4, SilentStep
<1> QED  BY <1>3, <1>5 DEF Story, Stored, Complete

LEMMA Embedded ==
  ASSUME CInv, NEW t \in Turn, Embed(t)
  PROVE  TypeOK' /\ Moves(t) /\ Story(t)'
<1>1. /\ step[t] = "embedding" /\ GoTo(t, then[t]) /\ embedded' = embedded \cup {Max(Mine(t))}
      /\ UNCHANGED <<rag, memory, then, parts, told, answer>>
  BY DEF Embed, locals
<1>2. PICK m \in Mine(t) : (\A i \in Mine(t) : i <= m) /\ (rag => Mine(t) \ {m} \subseteq embedded)
  BY <1>1 DEF CInv, Story, Searchable
<1>3. Mine(t) \in SUBSET Nat
  <2>1. Mine(t) \subseteq DOMAIN memory
    BY DEF Mine
  <2> QED  BY <2>1, PlacesAreFinite DEF CInv, TypeOK
<1>4. Max(Mine(t)) = m
  BY <1>2, <1>3, MaxIs
<1>5. At(t) = then[t] /\ Stored(t)
  BY <1>1 DEF At, CInv, Story
<1>6. then[t] \in Stages \ {"new"}
  BY <1>2, <1>5 DEF CInv, TypeOK, Stored
<1>7. /\ UNCHANGED <<rag, memory, then, told, answer>> /\ embedded \subseteq embedded'
      /\ rag => Mine(t) \subseteq embedded'
      /\ parts[t] \in Nat /\ parts' = [parts EXCEPT ![t] = parts[t]]
  BY <1>1, <1>2, <1>4 DEF CInv, TypeOK
<1>8. /\ TypeOK' /\ Moves(t)
      /\ At(t)' = then[t] /\ parts'[t] = parts[t] /\ answer'[t] = answer[t]
      /\ \A u, kind : Written(u, kind)' = Written(u, kind)
      /\ \A kind : Places(kind)' = Places(kind)
      /\ Mine(t)' = Mine(t)
      /\ Searchable(t)' /\ Asked(t)' /\ Sourced(t)' /\ Shown(t)'
  BY <1>1, <1>6, <1>7, SilentStep
<1>9. Complete(t) => Complete(t)'
  BY <1>1, <1>8 DEF Complete
<1>10. Stored(t)'
  BY <1>5, <1>8, <1>9 DEF Stored
<1> QED  BY <1>8, <1>10 DEF Story

(* A turn that raises or dies.                                             *)
LEMMA Left ==
  ASSUME CInv, NEW t \in Turn, Raise(t) \/ Crash(t)
  PROVE  TypeOK' /\ Moves(t) /\ Story(t)'
<1>1. PICK s \in {"raised", "dead"} : GoTo(t, s)
  BY DEF Raise, Crash
<1>2. UNCHANGED <<rag, memory, embedded, then, parts, told, answer>>
  BY DEF Raise, Crash, locals
<1>3. /\ UNCHANGED <<rag, memory, then, told, answer>> /\ embedded \subseteq embedded'
      /\ parts[t] \in Nat /\ parts' = [parts EXCEPT ![t] = parts[t]]
      /\ s \in Stages \ {"new"}
  BY <1>2 DEF CInv, TypeOK, Stages
<1>4. /\ TypeOK' /\ Moves(t) /\ At(t)' = s
      /\ Searchable(t)' /\ Asked(t)' /\ Sourced(t)' /\ Shown(t)'
  BY <1>1, <1>3, SilentStep
<1> QED  BY <1>4 DEF Story, Stored
(* The newest summary is one of the memory's, or there is none.            *)
LEMMA NewestIsStored ==
  ASSUME CInv
  PROVE  NewestSummary \in Places("summary") \cup {0}
<1>1. PICK m \in Places("summary") \cup {0} : \A s \in Places("summary") \cup {0} : m >= s
  BY DEF CInv, Newest
<1>2. Places("summary") \subseteq Nat
  <2>1. Places("summary") \subseteq DOMAIN memory
    BY DEF Places
  <2> QED  BY <2>1, PlacesAreFinite DEF CInv, TypeOK
<1>3. Places("summary") \cup {0} \in SUBSET Nat
  BY <1>2
<1>4. \A s \in Places("summary") \cup {0} : s <= m
  BY <1>1, <1>3
<1> QED  BY <1>3, <1>4, MaxIs DEF NewestSummary

(* The instruction x tells the model of passages, unless there is none,    *)
(* and of a summary that is in the memory.                                 *)
Instructs(t, x) ==
  /\ step[t] \in {"gathering", "recalling"} /\ GoTo(t, "answering")
  /\ told' = [told EXCEPT ![t] = x]
  /\ UNCHANGED <<rag, memory, embedded, then, parts, answer>>
  /\ x.seen = Len(memory)
  /\ x.passages = {} => Places("passage") = {}
  /\ x.summary \in Places("summary") \cup {0}
  /\ ~rag => x.passages = Places("passage")

(* Recall and Retrieve write such an instruction, and its story is true.   *)
LEMMA Instructed ==
  ASSUME CInv, NEW t \in Turn, NEW x, Instructs(t, x)
  PROVE  TypeOK' /\ Moves(t) /\ Story(t)'
<1> USE DEF Instructs
<1>1. /\ "answering" \in Stages \ {"new"} /\ embedded \subseteq embedded'
      /\ parts[t] \in Nat /\ parts' = [parts EXCEPT ![t] = parts[t]]
      /\ UNCHANGED <<rag, memory, then>>
  BY DEF CInv, TypeOK, Stages
<1>2. x.seen \in 0..Len(memory)
  BY DEF CInv, TypeOK
<1>3. PICK y \in Answer \cup {None} : y = answer[t]
  BY DEF CInv, TypeOK
<1>4. answer' = [answer EXCEPT ![t] = y]
  BY <1>3 DEF CInv, TypeOK
<1>5. rag => Mine(t) \subseteq embedded'
  BY DEF CInv, Story, Searchable
<1>6. /\ TypeOK' /\ Moves(t)
      /\ At(t)' = "answering" /\ parts'[t] = parts[t] /\ told'[t] = x /\ answer'[t] = y
      /\ \A u, kind : Written(u, kind)' = Written(u, kind)
      /\ \A kind : Places(kind)' = Places(kind)
      /\ Mine(t)' = Mine(t)
      /\ Searchable(t)' /\ Asked(t)'
  BY <1>1, <1>2, <1>4, <1>5, QuietStep
<1>7. parts[t] = 0 /\ \E q \in Places("question") : Mine(t) = {q}
  BY DEF CInv, Story, Stored, At
<1>8. Stored(t)'
  BY <1>6, <1>7 DEF Stored
<1>9. Sourced(t)' /\ Shown(t)'
  BY <1>6 DEF Sourced, Shown
<1> QED  BY <1>6, <1>8, <1>9 DEF Story

LEMMA Recalled ==
  ASSUME CInv, NEW t \in Turn, Recall(t)
  PROVE  TypeOK' /\ Moves(t) /\ Story(t)'
<1>1. PICK x : x = [passages |-> Places("passage"), summary |-> NewestSummary,
                    pairs |-> IF step[t] = "recalling" THEN RecentPairs(3) ELSE <<>>,
                    seen |-> Len(memory)]
  OBVIOUS
<1>2. /\ step[t] \in {"gathering", "recalling"} /\ GoTo(t, "answering")
      /\ told' = [told EXCEPT ![t] = x]
      /\ UNCHANGED <<rag, memory, embedded, then, parts, answer>>
  BY <1>1 DEF Recall
<1>3. /\ x.seen = Len(memory) /\ x.summary \in Places("summary") \cup {0}
      /\ x.passages = {} => Places("passage") = {}
      /\ ~rag => x.passages = Places("passage")
  BY <1>1, NewestIsStored
<1>4. Instructs(t, x)
  BY <1>2, <1>3 DEF Instructs
<1> QED  BY <1>4, Instructed

LEMMA Retrieved ==
  ASSUME CInv, NEW t \in Turn, NEW matches, NEW questions,
         NEW best \in Places("summary") \cup {0}, Retrieve(t, matches, questions, best)
  PROVE  TypeOK' /\ Moves(t) /\ Story(t)'
<1> DEFINE passages == matches \cap Places("passage")
<1>1. PICK x : x = [passages |-> IF passages = {} THEN Places("passage") ELSE passages,
                    summary |-> IF passages = {} THEN NewestSummary ELSE best,
                    pairs |-> RetrievedPairs(questions),
                    seen |-> Len(memory)]
  OBVIOUS
<1>2. /\ step[t] \in {"gathering", "recalling"} /\ GoTo(t, "answering")
      /\ told' = [told EXCEPT ![t] = x] /\ rag
      /\ UNCHANGED <<rag, memory, embedded, then, parts, answer>>
  BY <1>1 DEF Retrieve
<1>3. /\ x.seen = Len(memory) /\ x.summary \in Places("summary") \cup {0}
      /\ x.passages = {} => Places("passage") = {}
      /\ ~rag => x.passages = Places("passage")
  BY <1>1, <1>2, NewestIsStored
<1>4. Instructs(t, x)
  BY <1>2, <1>3 DEF Instructs
<1> QED  BY <1>4, Instructed

LEMMA Executed ==
  ASSUME CInv, NEW t \in Turn, NEW text \in Answer, Execute(t, text)
  PROVE  TypeOK' /\ Moves(t) /\ Story(t)'
<1>1. PICK x : x = Untold
  OBVIOUS
<1>2. x.seen = 0 /\ x.summary = 0
  BY <1>1 DEF Untold
<1>3. /\ step[t] = "answering" /\ GoTo(t, "answer")
      /\ answer' = [answer EXCEPT ![t] = text] /\ told' = [told EXCEPT ![t] = x]
      /\ UNCHANGED <<rag, memory, then>> /\ embedded \subseteq embedded'
      /\ text \in Answer \cup {None} /\ "answer" \in Stages \ {"new"}
  BY <1>1 DEF Execute, Stages
<1>4. /\ parts[t] \in Nat /\ parts' = [parts EXCEPT ![t] = parts[t]]
      /\ rag => Mine(t) \subseteq embedded'
      /\ x.seen \in 0..Len(memory)
  <2>1. parts \in [Turn -> Nat] /\ memory \in Seq(Item)
    BY DEF CInv, TypeOK
  <2>2. parts[t] \in Nat /\ parts' = [parts EXCEPT ![t] = parts[t]]
    BY <2>1 DEF Execute
  <2>3. 0 \in 0..Len(memory)
    BY <2>1
  <2>4. rag => Mine(t) \subseteq embedded'
    BY <1>3 DEF CInv, Story, Searchable, Execute
  <2> QED  BY <1>2, <2>2, <2>3, <2>4
<1>5. /\ TypeOK' /\ Moves(t)
      /\ At(t)' = "answer" /\ parts'[t] = parts[t] /\ told'[t] = x /\ answer'[t] = text
      /\ \A kind : Places(kind)' = Places(kind)
      /\ Mine(t)' = Mine(t)
      /\ Searchable(t)' /\ Asked(t)'
  BY <1>3, <1>4, QuietStep
<1>6. parts[t] = 0 /\ \E q \in Places("question") : Mine(t) = {q}
  BY <1>3 DEF CInv, Story, Stored, At
<1>7. Stored(t)'
  BY <1>5, <1>6 DEF Stored
<1>8. \A i \in Places("passage") : i > 0
  BY DEF Places, CInv, TypeOK
<1>9. Sourced(t)' /\ Shown(t)'
  BY <1>2, <1>5, <1>8 DEF Sourced, Shown
<1> QED  BY <1>5, <1>7, <1>9 DEF Story

-----------------------------------------------------------------------------
LEMMA InitHolds == Init => CInv
<1> SUFFICES ASSUME Init PROVE CInv
  OBVIOUS
<1>1. /\ memory = <<>> /\ \A t \in Turn : step[t] = "new" /\ told[t] = Untold
      /\ DOMAIN memory = {}
  BY DEF Init
<1>2. TypeOK
  BY <1>1 DEF Init, TypeOK, Stages, Untold
<1>3. \A t : Mine(t) = {} /\ \A kind : Places(kind) = {} /\ Written(t, kind) = {}
  BY <1>1 DEF Mine, Places, Written
<1>4. \A t \in Turn : Story(t)
  BY <1>1, <1>3 DEF Story, Stored, Searchable, Asked, Sourced, Shown, Untold, At
<1>5. Summaries /\ Newest
  BY <1>3 DEF Summaries, Newest
<1> QED  BY <1>2, <1>4, <1>5 DEF CInv

(* A step is one of a turn's.                                              *)
Acts(t) ==
  \/ \E type \in {"source", "instruction", "followup", "question"} : Classify(t, type, 1)
  \/ \E chunks \in 1..MaxParts : Classify(t, "document", chunks)
  \/ StorePassage(t) \/ Summarise(t) \/ StoreSummary(t) \/ StoreNote(t)
  \/ StoreQuestion(t) \/ Embed(t) \/ Raise(t) \/ Recall(t) \/ Search(t)
  \/ \E text \in Answer : Execute(t, text)
  \/ StoreAnswer(t) \/ Crash(t)

LEMMA TurnMoves ==
  ASSUME CInv, Next
  PROVE  \E t \in Turn : Acts(t) /\ TypeOK' /\ Moves(t) /\ Story(t)'
<1>1. PICK t \in Turn : Acts(t)
  BY DEF Next, Acts
<1>2. ASSUME NEW type \in {"source", "instruction", "followup", "question"}, Classify(t, type, 1)
      PROVE  TypeOK' /\ Moves(t) /\ Story(t)'
  BY <1>2, Classified
<1>3. ASSUME NEW chunks \in 1..MaxParts, Classify(t, "document", chunks)
      PROVE  TypeOK' /\ Moves(t) /\ Story(t)'
  <2>1. chunks \in Nat \ {0}
    BY ConversationAssumption
  <2>2. QED
    BY <1>3, <2>1, Classified
<1>4. ASSUME Search(t)
      PROVE  TypeOK' /\ Moves(t) /\ Story(t)'
  <2>1. PICK matches \in Matches :
          \E questions \in SetToSeqs(matches \cap Places("question")),
             best \in IF matches \cap Places("summary") = {} THEN {0}
                      ELSE matches \cap Places("summary") :
            Retrieve(t, matches, questions, best)
    BY <1>4 DEF Search
  <2>2. PICK best \in Places("summary") \cup {0} :
          \E questions : Retrieve(t, matches, questions, best)
    BY <2>1
  <2>3. QED
    BY <2>2, Retrieved
<1>5. TypeOK' /\ Moves(t) /\ Story(t)'
  BY <1>1, <1>2, <1>3, <1>4, PassageStored, Summarised, SummaryStored, NoteStored, QuestionStored,
     Embedded, Left, Recalled, Executed, AnswerStored DEF Acts
<1>6. QED
  BY <1>1, <1>5

LEMMA StepHolds == CInv /\ [Next]_vars => CInv'
<1> SUFFICES ASSUME CInv, [Next]_vars PROVE CInv'
  OBVIOUS
<1>1. CASE UNCHANGED vars
  <2>1. /\ rag' = rag /\ memory' = memory /\ embedded' = embedded /\ step' = step
        /\ then' = then /\ parts' = parts /\ told' = told /\ answer' = answer
    BY <1>1 DEF vars, locals
  <2>2. /\ \A t : Mine(t)' = Mine(t) /\ At(t)' = At(t)
        /\ \A kind : Places(kind)' = Places(kind)
        /\ \A t, kind : Written(t, kind)' = Written(t, kind)
    BY <2>1 DEF Mine, At, Places, Written
  <2>3. TypeOK'
    BY <2>1 DEF CInv, TypeOK
  <2>4. ASSUME NEW t \in Turn PROVE Story(t)'
    <3>1. Stored(t)'
      BY <2>1, <2>2 DEF CInv, Story, Stored, Complete
    <3>2. Searchable(t)' /\ Asked(t)' /\ Sourced(t)' /\ Shown(t)'
      BY <2>1, <2>2 DEF CInv, Story, Searchable, Asked, Sourced, Shown
    <3> QED  BY <3>1, <3>2 DEF Story
  <2>5. Summaries' /\ Newest'
    BY <2>1, <2>2 DEF CInv, Summaries, Grounded, Newest
  <2> QED  BY <2>3, <2>4, <2>5 DEF CInv
<1>2. CASE Next
  <2>1. PICK t \in Turn : TypeOK' /\ Moves(t) /\ Story(t)'
    BY <1>2, TurnMoves
  <2>2. \A u \in Turn : Story(u)'
    BY <2>1, OthersStay
  <2> QED  BY <2>1, <2>2, SummariesStay, NewestStays DEF CInv
<1> QED  BY <1>1, <1>2

(* The inductive invariant of the chat turns.                              *)
THEOREM StoriesHold == Spec => []CInv
  BY InitHolds, StepHolds, PTL DEF Spec

(* chat_turn never asks the model without sources while the workspace had  *)
(* some when it looked.                                                    *)
THEOREM QuestionsHaveSources == Spec => []SourcesAreUsed
<1>1. CInv => SourcesAreUsed
  BY DEF CInv, Story, Sourced, SourcesAreUsed
<1> QED  BY <1>1, StoriesHold, PTL

(* A turn that ended well left all it promised, and an answer is never     *)
(* stored without its question.                                            *)
THEOREM FinishedTurnsAreWhole == Spec => []TurnsAreWhole
<1>1. CInv => TurnsAreWhole
  <2> SUFFICES ASSUME CInv, NEW t \in Turn
               PROVE  /\ step[t] = "done" => Complete(t) /\ (rag => Mine(t) \subseteq embedded)
                      /\ Asked(t)
    BY DEF TurnsAreWhole, Complete, Asked
  <2>1. Stored(t) /\ Searchable(t) /\ Asked(t)
    BY DEF CInv, Story
  <2> QED  BY <2>1 DEF Stored, Searchable, At
<1> QED  BY <1>1, StoriesHold, PTL

(* A summary in an instruction is that of a whole document, whose passages *)
(* are shown with it or found by search.                                   *)
THEOREM ShownSummariesAreGrounded == Spec => []SummaryIsGrounded
<1>1. CInv => SummaryIsGrounded
  <2> SUFFICES ASSUME CInv, NEW t \in Turn, told[t].summary # 0,
                      NEW passages,
                      passages = {i \in Written(memory[told[t].summary].turn, "passage") :
                                    i < told[t].summary}
               PROVE  /\ Cardinality(passages) = parts[memory[told[t].summary].turn]
                      /\ passages \subseteq IF rag THEN embedded ELSE told[t].passages
    BY DEF SummaryIsGrounded
  <2>1. Shown(t) /\ told[t].summary \in Places("summary") /\ rag \in BOOLEAN
    BY DEF CInv, Story, Shown, TypeOK
  <2>2. Grounded(told[t].summary)
    BY <2>1 DEF CInv, Summaries
  <2>3. \A i \in passages : i \in Places("passage") /\ i < told[t].summary
    BY DEF Written
  <2> QED  BY <2>1, <2>2, <2>3 DEF Grounded, Shown
<1> QED  BY <1>1, StoriesHold, PTL

-----------------------------------------------------------------------------
(* The folds of the pairs: RecentPairs and RetrievedPairs take the         *)
(* questions one by one, and each adds a pair or none.                     *)
Pairs == Seq(Places("question") \X Places("answer"))

Free(found, q) == {a \in Places("answer") : a > q /\ \A n \in DOMAIN found : found[n][2] # a}

WithRecent(found, q, limit) ==
  IF memory[q].kind # "question" \/ Len(found) = limit \/ Free(found, q) = {} THEN found
  ELSE Append(found, <<q, Max(Free(found, q))>>)

LEMMA FreeIsBounded ==
  ASSUME memory \in Seq(Item), NEW found, NEW q
  PROVE  /\ Free(found, q) \in SUBSET (1..Len(memory))
         /\ Free(found, q) # {} => /\ Max(Free(found, q)) \in Free(found, q)
                                   /\ \A b \in Free(found, q) : b <= Max(Free(found, q))
<1>1. Free(found, q) \in SUBSET (1..Len(memory)) /\ Len(memory) \in Nat
  BY DEF Free, Places
<1>2. QED
  BY <1>1, MaxOfNumbers

(* The pairs found after each of the newest places.                        *)
LEMMA RecentPairsFold ==
  ASSUME memory \in Seq(Item), NEW limit
  PROVE  \E v \in [0..Len(memory) -> Pairs] :
           /\ v[0] = <<>>
           /\ \A k \in 1..Len(memory) : v[k] = WithRecent(v[k-1], Len(memory) + 1 - k, limit)
           /\ RecentPairs(limit) = v[Len(memory)]
<1> DEFINE L == Len(memory)
           A == 1..L
           pair == [q \in A |-> [found \in Pairs |-> WithRecent(found, q, limit)]]
<1>1. L \in Nat /\ DOMAIN memory = 1..L
  OBVIOUS
<1>2. NewestFirst \in [1..L -> A] /\ Len(NewestFirst) = L /\ \A k \in 1..L : NewestFirst[k] = L + 1 - k
  <2>1. NewestFirst = [k \in 1..L |-> L + 1 - k]
    BY <1>1 DEF NewestFirst
  <2>2. \A k \in 1..L : L + 1 - k \in A
    BY <1>1
  <2>3. NewestFirst \in Seq(A)
    BY <1>1, <2>1, <2>2
  <2>4. QED
    BY <1>1, <2>1, <2>2, <2>3
<1>3. <<>> \in Pairs
  BY DEF Pairs
<1>4. ASSUME NEW q \in A, NEW found \in Pairs
      PROVE  WithRecent(found, q, limit) \in Pairs
  <2>1. CASE memory[q].kind # "question" \/ Len(found) = limit \/ Free(found, q) = {}
    BY <2>1 DEF WithRecent
  <2>2. CASE ~ (memory[q].kind # "question" \/ Len(found) = limit \/ Free(found, q) = {})
    <3>1. Max(Free(found, q)) \in Places("answer")
      BY <2>2, FreeIsBounded DEF Free
    <3>2. q \in Places("question")
      BY <1>1, <2>2 DEF Places
    <3>3. QED
      BY <2>2, <3>1, <3>2 DEF WithRecent, Pairs
  <2>3. QED
    BY <2>1, <2>2
<1>5. pair \in [A -> [Pairs -> Pairs]]
  BY <1>4
<1>6. PICK iter : Folds(iter, Pairs, pair, <<>>, NewestFirst, L)
  <2> HIDE DEF pair, L
  <2>1. QED
    BY <1>1, <1>2, <1>3, <1>5, FoldExists
<1>7. \A s \in SUBSET (1..L) : s # {} => Max(s) \in 1..L /\ NewestFirst[Max(s)] \in A /\ s \ {Max(s)} \in SUBSET (1..L)
  BY <1>1, <1>2, MaxOfNumbers
<1> DEFINE It(it) == it = [s \in SUBSET (1..L) |->
               IF s = {} THEN <<>> ELSE WithRecent(it[s \ {Max(s)}], NewestFirst[Max(s)], limit)]
<1>8. It(iter) /\ iter \in [SUBSET (1..L) -> Pairs]
  <2>1. iter = [s \in SUBSET (1..L) |-> IF s = {} THEN <<>> ELSE pair[NewestFirst[Max(s)]][iter[s \ {Max(s)}]]]
    BY <1>6 DEF Folds
  <2>2. iter \in [SUBSET (1..L) -> Pairs]
    BY <1>6 DEF Folds
  <2>3. ASSUME NEW s \in SUBSET (1..L), s # {}
        PROVE pair[NewestFirst[Max(s)]][iter[s \ {Max(s)}]] = WithRecent(iter[s \ {Max(s)}], NewestFirst[Max(s)], limit)
    BY <1>7, <2>2, <2>3
  <2>4. QED
    BY <2>1, <2>2, <2>3
<1>9. RecentPairs(limit) = (CHOOSE it : It(it))[1..L]
  BY <1>2 DEF RecentPairs, FoldLeft, MapThenFoldSet, WithRecent, Free
<1>10. PICK it : It(it) /\ RecentPairs(limit) = it[1..L]
  <2> HIDE DEF It
  <2>1. QED
    BY <1>8, <1>9
<1> DEFINE v == [k \in 0..L |-> it[1..k]]
<1>11. v[0] = <<>>
  BY <1>1, <1>10
<1>12. ASSUME NEW k \in 1..L
       PROVE  v[k] = WithRecent(v[k-1], L + 1 - k, limit)
  <2>1. Max(1..k) = k /\ (1..k) \ {k} = 1..(k-1) /\ 1..k \in SUBSET (1..L) /\ 1..k # {}
    BY <1>1, LastOfInterval
  <2>3. it[1..k] = WithRecent(it[1..(k-1)], NewestFirst[k], limit)
    BY <1>10, <2>1
  <2>4. QED
    BY <1>1, <1>2, <2>3
<1>13. v \in [0..L -> Pairs]
  <2> DEFINE T == {k \in 0..L : v[k] \in Pairs}
  <2> HIDE DEF v
  <2>1. 0 \in T
    BY <1>1, <1>3, <1>11
  <2>2. \A k \in 1..L : k - 1 \in T => k \in T
    <3> SUFFICES ASSUME NEW k \in 1..L, v[k-1] \in Pairs PROVE v[k] \in Pairs
      BY <1>1
    <3>1. L + 1 - k \in A
      BY <1>1
    <3>2. QED
      BY <1>4, <1>12, <3>1
  <2>3. 0..L \subseteq T
    <3> HIDE DEF T, L
    <3>1. QED
      BY <1>1, <2>1, <2>2, IntervalInduction
  <2>4. QED
    BY <2>3 DEF v
<1>14. QED
  <2> HIDE DEF v
  <2>1. v[L] = RecentPairs(limit)
    BY <1>1, <1>10 DEF v
  <2>2. QED
    BY <1>11, <1>12, <1>13, <2>1

FreeText(found, q) == {a \in Places("answer") :
                         a > q /\ \A n \in DOMAIN found : memory[found[n][2]].text # memory[a].text}

WithRetrieved(found, q) ==
  IF Len(found) = 3 \/ FreeText(found, q) = {} THEN found
  ELSE Append(found, <<q, Min(FreeText(found, q))>>)

LEMMA FreeTextIsBounded ==
  ASSUME memory \in Seq(Item), NEW found, NEW q, FreeText(found, q) # {}
  PROVE  /\ Min(FreeText(found, q)) \in FreeText(found, q)
         /\ \A b \in FreeText(found, q) : Min(FreeText(found, q)) <= b
<1>1. FreeText(found, q) \subseteq Nat
  BY DEF FreeText, Places
<1>2. QED
  BY <1>1, MinOfNumbers

(* The pairs found after each of the questions that matched.               *)
LEMMA RetrievedPairsFold ==
  ASSUME memory \in Seq(Item), NEW n \in Nat, NEW questions \in [1..n -> Places("question")]
  PROVE  \E v \in [0..n -> Pairs] :
           /\ v[0] = <<>>
           /\ \A k \in 1..n : v[k] = WithRetrieved(v[k-1], questions[k])
           /\ RetrievedPairs(questions) = v[n]
<1> DEFINE A == Places("question")
           pair == [q \in A |-> [found \in Pairs |-> WithRetrieved(found, q)]]
<1>1. DOMAIN questions = 1..n /\ Len(questions) = n
  OBVIOUS
<1>2. <<>> \in Pairs
  BY DEF Pairs
<1>3. ASSUME NEW q \in A, NEW found \in Pairs
      PROVE  WithRetrieved(found, q) \in Pairs
  <2>1. CASE Len(found) = 3 \/ FreeText(found, q) = {}
    BY <2>1 DEF WithRetrieved
  <2>2. CASE ~ (Len(found) = 3 \/ FreeText(found, q) = {})
    <3>1. Min(FreeText(found, q)) \in Places("answer")
      BY <2>2, FreeTextIsBounded, ZenonT(60) DEF FreeText
    <3>2. QED
      BY <2>2, <3>1 DEF WithRetrieved, Pairs
  <2>3. QED
    BY <2>1, <2>2
<1>4. pair \in [A -> [Pairs -> Pairs]]
  BY <1>3
<1>5. PICK iter : Folds(iter, Pairs, pair, <<>>, questions, n)
  <2> HIDE DEF pair
  <2>1. QED
    BY <1>2, <1>4, FoldExists
<1>6. \A s \in SUBSET (1..n) : s # {} => questions[Max(s)] \in A /\ s \ {Max(s)} \in SUBSET (1..n)
  BY MaxOfNumbers
<1> DEFINE It(it) == it = [s \in SUBSET (1..n) |->
               IF s = {} THEN <<>> ELSE WithRetrieved(it[s \ {Max(s)}], questions[Max(s)])]
<1>7. It(iter)
  <2>1. iter = [s \in SUBSET (1..n) |-> IF s = {} THEN <<>> ELSE pair[questions[Max(s)]][iter[s \ {Max(s)}]]]
    BY <1>5 DEF Folds
  <2>2. iter \in [SUBSET (1..n) -> Pairs]
    BY <1>5 DEF Folds
  <2>3. ASSUME NEW s \in SUBSET (1..n), s # {}
        PROVE pair[questions[Max(s)]][iter[s \ {Max(s)}]] = WithRetrieved(iter[s \ {Max(s)}], questions[Max(s)])
    BY <1>6, <2>2, <2>3
  <2>4. QED
    BY <2>1, <2>3
<1>8. RetrievedPairs(questions) = (CHOOSE it : It(it))[1..n]
  BY <1>1 DEF RetrievedPairs, FoldLeft, MapThenFoldSet, WithRetrieved, FreeText
<1>9. PICK it : It(it) /\ RetrievedPairs(questions) = it[1..n]
  <2> HIDE DEF It
  <2>1. QED
    BY <1>7, <1>8
<1> DEFINE v == [k \in 0..n |-> it[1..k]]
<1>10. v[0] = <<>>
  BY <1>9
<1>11. ASSUME NEW k \in 1..n
       PROVE  v[k] = WithRetrieved(v[k-1], questions[k])
  <2>1. Max(1..k) = k /\ (1..k) \ {k} = 1..(k-1) /\ 1..k \in SUBSET (1..n) /\ 1..k # {}
    BY LastOfInterval
  <2>2. it[1..k] = WithRetrieved(it[1..(k-1)], questions[k])
    BY <1>9, <2>1
  <2>3. QED
    BY <2>2
<1>12. v \in [0..n -> Pairs]
  <2> DEFINE T == {k \in 0..n : v[k] \in Pairs}
  <2> HIDE DEF v
  <2>1. 0 \in T
    BY <1>2, <1>10
  <2>2. \A k \in 1..n : k - 1 \in T => k \in T
    <3> SUFFICES ASSUME NEW k \in 1..n, v[k-1] \in Pairs PROVE v[k] \in Pairs
      OBVIOUS
    <3>1. QED
      BY <1>3, <1>11
  <2>3. 0..n \subseteq T
    <3> HIDE DEF T
    <3>1. QED
      BY <2>1, <2>2, IntervalInduction
  <2>4. QED
    BY <2>3 DEF v
<1>13. QED
  <2> HIDE DEF v
  <2>1. n \in 0..n
    OBVIOUS
  <2>2. v[n] = RetrievedPairs(questions)
    BY <1>9, <2>1 DEF v
  <2>3. QED
    BY <1>10, <1>11, <1>12, <2>2

-----------------------------------------------------------------------------
(* A turn asks and answers once at most, and nobody answers before.        *)
Lone ==
  \A i, j \in DOMAIN memory :
    /\ memory[i].turn = memory[j].turn
    /\ memory[i].kind = memory[j].kind
    /\ memory[i].kind \in {"question", "answer"}
    => i = j

(* A question has one answer, and an answer one question.                  *)
LEMMA OwnFacts ==
  ASSUME CInv, Lone
  PROVE  /\ Places("question") \subseteq 1..Len(memory) /\ Places("answer") \subseteq 1..Len(memory)
         /\ Len(memory) \in Nat
         /\ \A q \in Places("question") : \A a, b \in Own(q, Len(memory)) : a = b /\ q < a
         /\ \A p, q \in Places("question") : \A a \in Own(p, Len(memory)) : a \in Own(q, Len(memory)) => p = q
         /\ \A a \in Places("answer") : \E q \in Places("question") : a \in Own(q, Len(memory)) /\ q < a
<1>1. /\ memory \in Seq(Item) /\ Len(memory) \in Nat /\ DOMAIN memory = 1..Len(memory)
      /\ \A i \in DOMAIN memory : memory[i].turn \in Turn
  <2>1. memory \in Seq(Item)
    BY DEF CInv, TypeOK
  <2>2. Len(memory) \in Nat /\ DOMAIN memory = 1..Len(memory) /\ \A i \in DOMAIN memory : memory[i] \in Item
    BY <2>1
  <2>3. QED
    BY <2>1, <2>2 DEF Item
<1>2. Places("question") \subseteq 1..Len(memory) /\ Places("answer") \subseteq 1..Len(memory)
  BY <1>1 DEF Places
<1>3. \A p, q \in Places("question") : memory[p].turn = memory[q].turn => p = q
  BY DEF Lone, Places
<1>4. \A a, b \in Places("answer") : memory[a].turn = memory[b].turn => a = b
  BY DEF Lone, Places
<1>5. ASSUME NEW a \in Places("answer")
      PROVE  \E q \in Places("question") : a \in Own(q, Len(memory)) /\ q < a
  <2>1. a \in DOMAIN memory /\ memory[a].turn \in Turn
    BY <1>1, <1>2
  <2>2. a \in Written(memory[a].turn, "answer")
    BY <2>1 DEF Written, Mine
  <2>3. PICK q \in Written(memory[a].turn, "question") : q < a
    BY <2>1, <2>2 DEF CInv, Story, Asked
  <2>4. q \in Places("question") /\ memory[q].turn = memory[a].turn
    BY DEF Written, Mine
  <2>5. a <= Len(memory)
    BY <1>1, <2>1
  <2>6. QED
    BY <2>3, <2>4, <2>5 DEF Own
<1>6. \A q \in Places("question") : \A a, b \in Own(q, Len(memory)) : a = b
  BY <1>4 DEF Own
<1>7. \A p, q \in Places("question") : \A a \in Own(p, Len(memory)) : a \in Own(q, Len(memory)) => p = q
  BY <1>3 DEF Own
<1>8. ASSUME NEW q \in Places("question"), NEW a \in Own(q, Len(memory))
      PROVE  q < a
  <2>1. PICK p \in Places("question") : a \in Own(p, Len(memory)) /\ p < a
    BY <1>5 DEF Own
  <2>2. QED
    BY <1>7, <2>1
<1>9. QED
  BY <1>1, <1>2, <1>5, <1>6, <1>7, <1>8

(* What Recall shows of a memory in which no turns crossed: questions with *)
(* their own answers. The newer questions have taken theirs, so what is    *)
(* left for a question is its own.                                         *)
LEMMA RecentPairsAreOwn ==
  ASSUME CInv, Lone, ~ Crossed(Len(memory))
  PROVE  \A n \in DOMAIN RecentPairs(3) : RecentPairs(3)[n][2] \in Own(RecentPairs(3)[n][1], Len(memory))
<1> DEFINE L == Len(memory)
           Taken(found, a) == \E n \in DOMAIN found : found[n][2] = a
           Good(found, k) ==
             /\ \A n \in DOMAIN found : found[n][2] \in Own(found[n][1], L)
             /\ \A q \in Places("question") : q > L - k =>
                  \A a \in Own(q, L) : Len(found) = 3 \/ Taken(found, a)
<1>1. memory \in Seq(Item)
  BY DEF CInv, TypeOK
<1>2. PICK v \in [0..L -> Pairs] :
           /\ v[0] = <<>>
           /\ \A k \in 1..L : v[k] = WithRecent(v[k-1], L + 1 - k, 3)
           /\ RecentPairs(3) = v[L]
  BY <1>1, RecentPairsFold
<1>3. /\ Places("question") \subseteq 1..L /\ Places("answer") \subseteq 1..L /\ L \in Nat
      /\ \A q \in Places("question") : \A a, b \in Own(q, L) : a = b /\ q < a
      /\ \A p, q \in Places("question") : \A a \in Own(p, L) : a \in Own(q, L) => p = q
      /\ \A a \in Places("answer") : \E q \in Places("question") : a \in Own(q, L) /\ q < a
  BY OwnFacts
<1> DEFINE T == {k \in 0..L : Good(v[k], k)}
<1>4. 0 \in T
  <2>1. \A q \in Places("question") : ~ (q > L - 0)
    BY <1>3
  <2>2. DOMAIN v[0] = {}
    BY <1>2
  <2>3. QED
    BY <1>3, <2>1, <2>2
<1>5. ASSUME NEW k \in 1..L, k - 1 \in T
      PROVE  k \in T
  <2> DEFINE i == L + 1 - k
             found == v[k-1]
  <2>1. /\ found \in Pairs /\ k - 1 \in 0..L /\ i \in 1..L /\ v[k] = WithRecent(found, i, 3)
        /\ \A q \in 1..L : q > L - k <=> q = i \/ q > L - (k - 1)
        /\ \A q \in 1..L : q > L - (k - 1) <=> q > i
    BY <1>2, <1>3
  <2>2. Good(found, k - 1)
    BY <1>5
  <2> HIDE DEF i, found
  <2>3. CASE i \notin Places("question")
    <3>1. v[k] = found
      BY <1>1, <2>1, <2>3 DEF WithRecent, Places
    <3>2. QED
      BY <1>3, <2>1, <2>2, <2>3, <3>1
  <2>4. CASE i \in Places("question") /\ Len(found) = 3
    <3>1. v[k] = found
      BY <2>1, <2>4 DEF WithRecent
    <3>2. QED
      BY <2>2, <2>4, <3>1
  <2>5. CASE i \in Places("question") /\ Len(found) # 3 /\ Free(found, i) = {}
    <3>1. v[k] = found
      BY <2>1, <2>5 DEF WithRecent
    <3>2. \A a \in Own(i, L) : Taken(found, a)
      BY <1>3, <2>5 DEF Free, Own
    <3>3. QED
      BY <1>3, <2>1, <2>2, <3>1, <3>2
  <2>6. CASE i \in Places("question") /\ Len(found) # 3 /\ Free(found, i) # {}
    <3> DEFINE a == Max(Free(found, i))
    <3>1. memory[i].kind = "question"
      BY <2>6 DEF Places
    <3>2. v[k] = Append(found, <<i, a>>)
      BY <2>1, <2>6, <3>1 DEF WithRecent
    <3>3. a \in Places("answer") /\ a > i /\ ~ Taken(found, a)
      BY <1>1, <2>6, FreeIsBounded DEF Free
    <3> HIDE DEF a
    <3>4. PICK p \in Places("question") : a \in Own(p, L) /\ p < a
      BY <1>3, <3>3
    <3>5. ~ (p > i)
      BY <1>3, <2>1, <2>2, <2>6, <3>3, <3>4
    <3>6. ~ (p < i)
      BY <2>6, <3>3, <3>4 DEF Crossed
    <3>7. a \in Own(i, L)
      BY <1>3, <2>1, <3>4, <3>5, <3>6
    <3>8. /\ DOMAIN v[k] = DOMAIN found \cup {Len(found) + 1}
          /\ \A n \in DOMAIN found : v[k][n] = found[n]
          /\ v[k][Len(found) + 1] = <<i, a>>
      <4>1. <<i, a>> \in Places("question") \X Places("answer")
        BY <2>6, <3>3
      <4>2. found \in Seq(Places("question") \X Places("answer"))
        BY <2>1 DEF Pairs
      <4>3. QED
        BY <3>2, <4>1, <4>2, Appended
    <3>9. \A b : Taken(found, b) \/ b = a => Taken(v[k], b)
      BY <3>8
    <3>10. \A n \in DOMAIN v[k] : v[k][n][2] \in Own(v[k][n][1], L)
      BY <2>2, <3>7, <3>8
    <3>11. ASSUME NEW q \in Places("question"), q > L - k, NEW b \in Own(q, L)
           PROVE  Taken(v[k], b)
      BY <1>3, <2>1, <2>2, <2>6, <3>7, <3>9, <3>11
    <3>12. QED
      BY <3>10, <3>11
  <2>7. QED
    BY <2>3, <2>4, <2>5, <2>6
<1>6. L \in T
  <2> HIDE DEF T, L
  <2>1. 0..L \subseteq T
    BY <1>3, <1>4, <1>5, IntervalInduction
  <2>2. QED
    BY <1>3, <2>1
<1>7. QED
  BY <1>2, <1>6

(* A question is shown that has no answer, or one that was given twice.    *)
Misled(pairs, n) ==
  \E m \in DOMAIN pairs : Own(pairs[m][1], n) = {} \/ Repeated(pairs[m][1], n)

(* With rag the oldest free answer is the question's own, unless a         *)
(* question shown before or this one misleads.                             *)
LEMMA RetrievedPairsAreOwn ==
  ASSUME CInv, Lone, ~ Crossed(Len(memory)),
         NEW n \in Nat, NEW questions \in [1..n -> Places("question")],
         \A i, j \in 1..n : i # j => questions[i] # questions[j]
  PROVE  \/ Misled(RetrievedPairs(questions), Len(memory))
         \/ \A m \in DOMAIN RetrievedPairs(questions) :
              RetrievedPairs(questions)[m][2] \in Own(RetrievedPairs(questions)[m][1], Len(memory))
<1> DEFINE L == Len(memory)
           Good(found, k) ==
             \/ Misled(found, L)
             \/ \A m \in DOMAIN found : /\ found[m][2] \in Own(found[m][1], L)
                                        /\ \A j \in k+1..n : found[m][1] # questions[j]
<1>1. memory \in Seq(Item)
  BY DEF CInv, TypeOK
<1>2. PICK v \in [0..n -> Pairs] :
           /\ v[0] = <<>>
           /\ \A k \in 1..n : v[k] = WithRetrieved(v[k-1], questions[k])
           /\ RetrievedPairs(questions) = v[n]
  BY <1>1, RetrievedPairsFold
<1>3. /\ Places("question") \subseteq 1..L /\ Places("answer") \subseteq 1..L /\ L \in Nat
      /\ \A q \in Places("question") : \A a, b \in Own(q, L) : a = b /\ q < a
      /\ \A p, q \in Places("question") : \A a \in Own(p, L) : a \in Own(q, L) => p = q
      /\ \A a \in Places("answer") : \E q \in Places("question") : a \in Own(q, L) /\ q < a
  BY OwnFacts
<1> DEFINE T == {k \in 0..n : Good(v[k], k)}
<1>4. 0 \in T
  BY <1>2
<1>5. ASSUME NEW k \in 1..n, k - 1 \in T
      PROVE  k \in T
  <2> DEFINE q == questions[k]
             found == v[k-1]
  <2>1. /\ found \in Pairs /\ q \in Places("question") /\ v[k] = WithRetrieved(found, q)
        /\ \A j \in k+1..n : q # questions[j]
        /\ \A j \in k+1..n : j \in (k-1)+1..n
        /\ k \in (k-1)+1..n
    BY <1>2
  <2>2. Good(found, k - 1)
    BY <1>5
  <2> HIDE DEF found
  <2>3. CASE Len(found) = 3 \/ FreeText(found, q) = {}
    <3>1. v[k] = found
      BY <2>1, <2>3 DEF WithRetrieved
    <3>2. QED
      BY <2>1, <2>2, <3>1
  <2>4. CASE ~ (Len(found) = 3 \/ FreeText(found, q) = {})
    <3> DEFINE a == Min(FreeText(found, q))
    <3>1. v[k] = Append(found, <<q, a>>)
      BY <2>1, <2>4 DEF WithRetrieved
    <3>2. a \in FreeText(found, q) /\ \A b \in FreeText(found, q) : a <= b
      BY <1>1, <2>4, FreeTextIsBounded
    <3>3. a \in Places("answer") /\ a > q
      BY <3>2 DEF FreeText
    <3> HIDE DEF a, q
    <3>4. /\ DOMAIN v[k] = DOMAIN found \cup {Len(found) + 1}
          /\ \A m \in DOMAIN found : v[k][m] = found[m]
          /\ v[k][Len(found) + 1] = <<q, a>>
      <4>1. <<q, a>> \in Places("question") \X Places("answer")
        BY <2>1, <3>3
      <4>2. found \in Seq(Places("question") \X Places("answer"))
        BY <2>1 DEF Pairs
      <4>3. QED
        BY <3>1, <4>1, <4>2, Appended
    <3>5. Misled(found, L) \/ Own(q, L) = {} \/ Repeated(q, L) => Misled(v[k], L)
      BY <3>4 DEF Misled
    <3>6. CASE Misled(found, L) \/ Own(q, L) = {} \/ Repeated(q, L)
      BY <3>5, <3>6
    <3>7. CASE ~ (Misled(found, L) \/ Own(q, L) = {} \/ Repeated(q, L))
      <4>1. PICK b \in Own(q, L) : TRUE
        BY <3>7
      <4>2. b \in Places("answer") /\ b > q /\ b <= L
        BY <1>3, <2>1 DEF Own
      <4>3. \A m \in DOMAIN found : found[m][2] \in Own(found[m][1], L) /\ found[m][1] # q
        BY <2>1, <2>2, <3>7 DEF q
      <4>4. \A m \in DOMAIN found : found[m] \in Places("question") \X Places("answer")
        BY <2>1 DEF Pairs
      <4>5. ASSUME NEW m \in DOMAIN found
            PROVE  memory[found[m][2]].text # memory[b].text
        <5>1. found[m][2] \in Places("answer") /\ found[m][1] \in Places("question")
          BY <4>4
        <5>2. found[m][2] # b
          BY <1>3, <2>1, <4>1, <4>3, <5>1
        <5>3. found[m][2] <= L
          BY <1>3, <5>1
        <5>4. QED
          BY <3>7, <4>1, <5>1, <5>2, <5>3 DEF Repeated
      <4>6. b \in FreeText(found, q)
        BY <4>2, <4>5 DEF FreeText
      <4>7. a <= b
        BY <3>2, <4>6
      <4>8. PICK p \in Places("question") : a \in Own(p, L) /\ p < a
        BY <1>3, <3>3
      <4>9. p \in 1..L /\ q \in 1..L /\ a \in 1..L /\ b \in 1..L
        BY <1>3, <2>1, <3>3, <4>2, <4>8
      <4>10. ~ (p < q)
        BY <2>1, <3>3, <4>8 DEF Crossed
      <4>11. ~ (q < p)
        <5> SUFFICES ASSUME q < p PROVE FALSE
          OBVIOUS
        <5>1. p < b
          BY <4>7, <4>8, <4>9
        <5>2. QED
          BY <2>1, <4>1, <4>8, <5>1 DEF Crossed
      <4>12. p = q
        BY <4>9, <4>10, <4>11
      <4>13. a \in Own(q, L)
        BY <4>8, <4>12
      <4>14. QED
        BY <2>1, <2>2, <3>4, <3>7, <4>13 DEF q
    <3>8. QED
      BY <3>6, <3>7
  <2>5. QED
    BY <2>3, <2>4
<1>6. n \in T
  <2> HIDE DEF T
  <2>1. 0..n \subseteq T
    BY <1>4, <1>5, IntervalInduction
  <2>2. QED
    BY <2>1
<1>7. QED
  BY <1>2, <1>6

(* What the pairs of an instruction are, told by the memory it was read    *)
(* from.                                                                   *)
PairsHold(t) ==
  \A n \in DOMAIN told[t].pairs :
    /\ told[t].pairs[n][1] \in Places("question")
    /\ \/ told[t].pairs[n][2] \in Own(told[t].pairs[n][1], told[t].seen)
       \/ Crossed(told[t].seen)
       \/ rag /\ Misled(told[t].pairs, told[t].seen)

Paired == Lone /\ \A t \in Turn : PairsHold(t)

(* What is said of the first n items stays as it is.                       *)
LEMMA PastStays ==
  ASSUME CInv, NEW t \in Turn, Moves(t), NEW n \in 0..Len(memory)
  PROVE  /\ Places("question") \subseteq Places("question")'
         /\ \A q \in Places("question") : Own(q, n)' = Own(q, n)
         /\ Crossed(n) => Crossed(n)'
         /\ \A q \in Places("question") : Repeated(q, n) => Repeated(q, n)'
<1>1. /\ Len(memory) \in Nat
      /\ DOMAIN memory = 1..Len(memory) /\ DOMAIN memory' = 1..Len(memory')
      /\ \A i \in DOMAIN memory : i \in DOMAIN memory' /\ memory'[i] = memory[i]
      /\ \A i \in DOMAIN memory' \ DOMAIN memory : i > Len(memory)
      /\ \A kind : \A i \in DOMAIN memory : i \in Places(kind)' <=> i \in Places(kind)
  BY MemoryStays DEF CInv, TypeOK
<1>2. \A kind : Places(kind) \subseteq DOMAIN memory /\ Places(kind)' \subseteq DOMAIN memory'
  BY DEF Places
<1>3. \A a \in DOMAIN memory' : a <= n => a \in DOMAIN memory
  BY <1>1
<1>4. Places("question") \subseteq Places("question")'
  BY <1>1, <1>2
<1>5. ASSUME NEW q \in Places("question")
      PROVE  Own(q, n)' = Own(q, n)
  <2>1. memory'[q] = memory[q]
    BY <1>1, <1>2
  <2>2. \A a : a \in Own(q, n)' <=> a \in Own(q, n)
    BY <1>1, <1>2, <1>3, <2>1 DEF Own
  <2>3. QED
    BY <2>2 DEF Own
<1>6. Crossed(n) => Crossed(n)'
  BY <1>4, <1>5 DEF Crossed
<1>7. ASSUME NEW q \in Places("question"), Repeated(q, n)
      PROVE  Repeated(q, n)'
  <2>1. PICK a \in Own(q, n), b \in Places("answer") :
          b <= n /\ a # b /\ memory[a].text = memory[b].text
    BY <1>7 DEF Repeated
  <2>2. a \in DOMAIN memory /\ b \in DOMAIN memory /\ a \in Own(q, n)' /\ b \in Places("answer")'
    BY <1>1, <1>2, <1>5 DEF Own
  <2>3. memory'[a] = memory[a] /\ memory'[b] = memory[b]
    BY <1>1, <2>2
  <2>4. QED
    BY <2>1, <2>2, <2>3 DEF Repeated
<1>8. QED
  BY <1>4, <1>5, <1>6, <1>7

(* An instruction keeps its pairs, and they stay true.                     *)
LEMMA PairsStay ==
  ASSUME CInv, NEW t \in Turn, Moves(t), NEW u \in Turn, told'[u] = told[u], PairsHold(u)
  PROVE  PairsHold(u)'
<1> DEFINE n == told[u].seen
<1>1. n \in 0..Len(memory) /\ rag' = rag
  BY DEF CInv, TypeOK, Moves
<1>2. /\ Places("question") \subseteq Places("question")'
      /\ \A q \in Places("question") : Own(q, n)' = Own(q, n)
      /\ Crossed(n) => Crossed(n)'
      /\ \A q \in Places("question") : Repeated(q, n) => Repeated(q, n)'
  <2> HIDE DEF n
  <2>1. PICK m : m = n
    OBVIOUS
  <2>2. /\ Places("question") \subseteq Places("question")'
        /\ \A q \in Places("question") : Own(q, m)' = Own(q, m)
        /\ Crossed(m) => Crossed(m)'
        /\ \A q \in Places("question") : Repeated(q, m) => Repeated(q, m)'
    BY <1>1, <2>1, PastStays
  <2>3. n' = n
    BY DEF n
  <2>4. QED
    BY <2>1, <2>2, <2>3
<1>3. QED
  BY <1>1, <1>2 DEF PairsHold, Misled

(* A turn stays alone with its question and with its answer.               *)
LEMMA LoneStays ==
  ASSUME CInv, Lone, NEW t \in Turn, Moves(t),
         \A item \in Item :
           /\ item.kind \in {"question", "answer"}
           /\ memory' = Append(memory, item)
           => \A i \in Mine(t) : memory[i].kind # item.kind
  PROVE  Lone'
<1>1. CASE memory' = memory
  BY <1>1 DEF Lone
<1>2. CASE memory' # memory
  <2>1. PICK item \in Item : item.turn = t /\ memory' = Append(memory, item)
    BY <1>2 DEF Moves, Stores
  <2>2. /\ DOMAIN memory' = DOMAIN memory \cup {Len(memory) + 1}
        /\ memory'[Len(memory) + 1] = item
        /\ \A i \in DOMAIN memory : memory'[i] = memory[i]
    BY <2>1, AppendedPlace DEF CInv, TypeOK
  <2>3. \A i \in DOMAIN memory : memory[i].turn = t => i \in Mine(t)
    BY DEF Mine
  <2>4. \A i \in DOMAIN memory :
          memory[i].turn = t /\ item.kind \in {"question", "answer"} => memory[i].kind # item.kind
    BY <2>1, <2>3
  <2>5. QED
    BY <2>1, <2>2, <2>4 DEF Lone
<1>3. QED
  BY <1>1, <1>2

(* A turn that stores a question has stored nothing, and one that stores   *)
(* an answer has stored its question.                                      *)
LEMMA StoredIsNew ==
  ASSUME CInv, NEW t \in Turn, NEW kind, NEW text, NEW next, Write(t, kind, text, next),
         kind = "question" => Mine(t) = {},
         kind = "answer" => \E q \in Places("question") : Mine(t) = {q}
  PROVE  \A item \in Item :
           /\ item.kind \in {"question", "answer"}
           /\ memory' = Append(memory, item)
           => \A i \in Mine(t) : memory[i].kind # item.kind
<1> SUFFICES ASSUME NEW item \in Item, item.kind \in {"question", "answer"},
                    memory' = Append(memory, item), NEW i \in Mine(t)
             PROVE  memory[i].kind # item.kind
  OBVIOUS
<1> DEFINE x == [kind |-> kind, turn |-> t, text |-> text]
<1>1. memory' = Append(memory, x) /\ x.kind = kind
  BY DEF Write
<1> HIDE DEF x
<1>2. memory \in Seq(Item)
  BY DEF CInv, TypeOK
<1>3. memory'[Len(memory) + 1] = item /\ memory'[Len(memory) + 1] = x
  <2> DEFINE S == Item \cup {x}
  <2>1. memory \in Seq(S) /\ x \in S /\ item \in S
    BY <1>2
  <2> HIDE DEF S
  <2>2. Append(memory, x)[Len(memory) + 1] = x
    BY <2>1, Appended
  <2>3. Append(memory, item)[Len(memory) + 1] = item
    BY <2>1, Appended
  <2>4. QED
    BY <1>1, <2>2, <2>3
<1>4. item.kind = kind
  BY <1>1, <1>3
<1>5. QED
  BY <1>4 DEF Places

(* Recall and Retrieve write true pairs.                                   *)
LEMMA RecalledPairs ==
  ASSUME CInv, Lone, NEW t \in Turn, Recall(t)
  PROVE  PairsHold(t)'
<1> DEFINE pairs == IF step[t] = "recalling" THEN RecentPairs(3) ELSE <<>>
<1>1. /\ told'[t].pairs = pairs /\ told'[t].seen = Len(memory)
      /\ UNCHANGED <<memory, rag>>
  BY DEF Recall, CInv, TypeOK
<1>2. RecentPairs(3) \in Pairs
  <2>1. PICK v \in [0..Len(memory) -> Pairs] : RecentPairs(3) = v[Len(memory)]
    BY RecentPairsFold DEF CInv, TypeOK
  <2>2. Len(memory) \in 0..Len(memory)
    BY DEF CInv, TypeOK
  <2>3. QED
    BY <2>1, <2>2
<1>3. \A n \in DOMAIN pairs : pairs[n][1] \in Places("question")
  BY <1>2 DEF Pairs
<1>4. \A n \in DOMAIN pairs : pairs[n][2] \in Own(pairs[n][1], Len(memory)) \/ Crossed(Len(memory))
  BY RecentPairsAreOwn
<1> HIDE DEF pairs
<1>5. Places("question")' = Places("question")
  BY <1>1 DEF Places
<1>6. /\ \A q : Own(q, Len(memory))' = Own(q, Len(memory))
      /\ Crossed(Len(memory))' <=> Crossed(Len(memory))
  BY <1>1 DEF Own, Crossed, Places
<1>7. QED
  BY <1>1, <1>3, <1>4, <1>5, <1>6 DEF PairsHold

LEMMA RetrievedPairsHold ==
  ASSUME CInv, Lone, NEW t \in Turn, NEW matches,
         NEW questions \in SetToSeqs(matches \cap Places("question")), NEW best,
         Retrieve(t, matches, questions, best)
  PROVE  PairsHold(t)'
<1> DEFINE n == Cardinality(matches \cap Places("question"))
           pairs == RetrievedPairs(questions)
<1>1. /\ told'[t].pairs = pairs /\ told'[t].seen = Len(memory)
      /\ UNCHANGED <<memory, rag>> /\ rag
  BY DEF Retrieve, CInv, TypeOK
<1>2. n \in Nat
  <2>1. matches \cap Places("question") \in SUBSET DOMAIN memory
    BY DEF Places
  <2>2. QED
    BY <2>1, PlacesAreFinite DEF CInv, TypeOK
<1>3. /\ questions \in [1..n -> Places("question")]
      /\ \A i, j \in 1..n : i # j => questions[i] # questions[j]
  BY DEF SetToSeqs
<1> HIDE DEF n
<1>4. pairs \in Pairs
  <2>1. PICK v \in [0..n -> Pairs] : pairs = v[n]
    BY <1>2, <1>3, RetrievedPairsFold DEF CInv, TypeOK
  <2>2. n \in 0..n
    BY <1>2
  <2>3. QED
    BY <2>1, <2>2
<1>5. \A m \in DOMAIN pairs : pairs[m][1] \in Places("question")
  BY <1>4 DEF Pairs
<1>6. \/ Crossed(Len(memory))
      \/ Misled(pairs, Len(memory))
      \/ \A m \in DOMAIN pairs : pairs[m][2] \in Own(pairs[m][1], Len(memory))
  BY <1>2, <1>3, RetrievedPairsAreOwn
<1> HIDE DEF pairs
<1>7. PICK L : L = Len(memory)
  OBVIOUS
<1>8. Places("question")' = Places("question") /\ Places("answer")' = Places("answer") /\ memory' = memory
  BY <1>1 DEF Places
<1>9. /\ \A q : Own(q, L)' = Own(q, L)
      /\ Crossed(L)' <=> Crossed(L)
      /\ \A q : Repeated(q, L)' <=> Repeated(q, L)
  BY <1>8 DEF Own, Crossed, Repeated
<1>10. QED
  BY <1>1, <1>5, <1>6, <1>7, <1>8, <1>9 DEF PairsHold, Misled

LEMMA PairedInit == Init => Paired
<1> SUFFICES ASSUME Init PROVE Paired
  OBVIOUS
<1>1. memory = <<>> /\ \A t \in Turn : told[t] = Untold
  BY DEF Init
<1>2. DOMAIN memory = {} /\ \A t \in Turn : DOMAIN told[t].pairs = {}
  BY <1>1 DEF Untold
<1>3. QED
  BY <1>2 DEF Paired, Lone, PairsHold

LEMMA PairedStep == CInv /\ Paired /\ [Next]_vars => Paired'
<1> SUFFICES ASSUME CInv, Paired, [Next]_vars PROVE Paired'
  OBVIOUS
<1>1. CASE UNCHANGED vars
  <2>1. rag' = rag /\ memory' = memory /\ told' = told
    BY <1>1 DEF vars, locals
  <2>2. QED
    BY <2>1, SMTT(60) DEF Paired, Lone, PairsHold, Misled, Repeated, Crossed, Own, Places
<1>2. CASE Next
  <2>1. PICK t \in Turn : Acts(t) /\ Moves(t)
    BY <1>2, TurnMoves
  <2>2. ASSUME NEW u \in Turn, told'[u] = told[u]
        PROVE  PairsHold(u)'
    BY <2>1, <2>2, PairsStay DEF Paired
  <2>3. \A u \in Turn \ {t} : PairsHold(u)'
    BY <2>1, <2>2 DEF Moves
  <2>4. PairsHold(t)'
    <3>1. CASE told' = told
      BY <2>2, <3>1
    <3>2. CASE Recall(t)
      BY <3>2, RecalledPairs DEF Paired
    <3>3. CASE Search(t)
      <4>1. PICK matches \in Matches :
              \E questions \in SetToSeqs(matches \cap Places("question")) :
                \E best : Retrieve(t, matches, questions, best)
        BY <3>3 DEF Search
      <4>2. PICK questions \in SetToSeqs(matches \cap Places("question")) :
              \E best : Retrieve(t, matches, questions, best)
        BY <4>1
      <4>3. QED
        BY <4>2, RetrievedPairsHold DEF Paired
    <3>4. CASE \E text \in Answer : Execute(t, text)
      <4>1. told'[t] = Untold
        BY <3>4 DEF Execute, CInv, TypeOK
      <4>2. QED
        BY <4>1 DEF PairsHold, Untold
    <3>5. QED
      BY <2>1, <3>1, <3>2, <3>3, <3>4 DEF Acts, Classify, StorePassage, Summarise, StoreSummary,
         StoreNote, StoreQuestion, Embed, Raise, StoreAnswer, Crash, locals
  <2>5. Lone'
    <3>1. CASE memory' = memory
      BY <2>1, <3>1 DEF Paired, Lone
    <3>2. ASSUME NEW kind, NEW text, NEW next, Write(t, kind, text, next),
                 kind = "question" => Mine(t) = {},
                 kind = "answer" => \E q \in Places("question") : Mine(t) = {q}
          PROVE  Lone'
      BY <2>1, <3>2, StoredIsNew, LoneStays DEF Paired
    <3>3. Story(t)
      BY DEF CInv
    <3>4. CASE StorePassage(t) \/ StoreSummary(t) \/ StoreNote(t)
      <4>1. PICK kind \in {"passage", "summary", "note"} : \E next : Write(t, kind, t, next)
        BY <3>4 DEF StorePassage, StoreSummary, StoreNote
      <4>2. QED
        BY <3>2, <4>1
    <3>5. CASE StoreQuestion(t)
      <4>1. Mine(t) = {} /\ \E next : Write(t, "question", t, next)
        BY <3>3, <3>5 DEF StoreQuestion, Story, Stored, At
      <4>2. QED
        BY <3>2, <4>1
    <3>6. CASE StoreAnswer(t)
      <4>1. (\E q \in Places("question") : Mine(t) = {q}) /\ Write(t, "answer", answer[t], "done")
        BY <3>3, <3>6 DEF StoreAnswer, Story, Stored, At
      <4>2. QED
        BY <3>2, <4>1
    <3>7. QED
      BY <2>1, <3>1, <3>4, <3>5, <3>6 DEF Acts, Classify, Summarise, Embed, Raise, Recall, Search,
         Retrieve, Execute, Crash, locals
  <2>6. QED
    BY <2>3, <2>4, <2>5 DEF Paired
<1>3. QED
  BY <1>1, <1>2

(* The inductive invariant of the pairs, with that of the turns.           *)
THEOREM PairsStayTrue == Spec => []Paired
<1>1. CInv /\ CInv' /\ Paired /\ [Next]_vars => Paired'
  BY PairedStep
<1> QED  BY <1>1, PairedInit, StoriesHold, PTL DEF Spec

(* Each question an instruction shows stands with the answer of its own    *)
(* turn, unless turns crossed or, with rag, a question shown has no answer *)
(* or one that was given twice (get_recent_qa_pairs, retrieve_context).    *)
THEOREM ShownPairsAreTrue == Spec => []PairsAreTrue
<1>1. Paired => PairsAreTrue
  BY DEF Paired, PairsHold, Misled, PairsAreTrue
<1> QED  BY <1>1, PairsStayTrue, PTL
=============================================================================
