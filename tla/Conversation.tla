---------------------------- MODULE Conversation ----------------------------
(***************************************************************************)
(* Chat turns of one workspace: chat_turn (llmasm/conversation/chat.py),   *)
(* the memory items it writes (memory.py) and what it reads back for the   *)
(* model's instruction (memory.py, retrieval.py).                          *)
(*                                                                         *)
(* Turns may overlap, raise and die. The memory is a sequence, in the      *)
(* order of created_at. With rag the chat embeddings are enabled: a memory *)
(* item is stored first, then embedded by a provider that may raise, and   *)
(* only then found by search. A run is one step here with its possible     *)
(* outcomes; RunExecutor has its inside. Chunking and its summary are      *)
(* enabled, which is the default.                                          *)
(***************************************************************************)
EXTENDS Naturals, FiniteSets, SequencesExt, FiniteSetsExt

CONSTANTS
  Turn,         \* chat turns
  Answer,       \* texts a model may answer
  Empty,        \* the text of an answer when the run produced none
  MaxParts,     \* most chunks of a long document
  SearchLimit,  \* matches that search_similar returns
  MaxFailures,  \* turns that raise or whose process dies
  None

ASSUME ConversationAssumption ==
  Empty \in Answer /\ None \notin Answer /\ MaxParts \in Nat \ {0}

VARIABLES
  rag,        \* whether chat embeddings are enabled
  memory,     \* the workspace's memory items
  embedded,   \* places of the items that search can find
  step,       \* where each turn is
  then,       \* where it goes once the item it has stored is embedded
  parts,      \* into how many passages its source is cut, 0 for no source
  told,       \* what its instruction to the model contains
  answer,     \* the model's answer
  failures    \* how many turns have raised or died

locals == <<then, parts, told, answer>>
vars == <<rag, memory, embedded, step, locals, failures>>

Busy(t) == step[t] \notin {"new", "done", "raised", "dead"}

(* What is read for an instruction: passages and pairs are places in the   *)
(* memory, and so is the summary; seen is how long the memory was.         *)
Untold == [passages |-> {}, summary |-> 0, pairs |-> <<>>, seen |-> 0]

Places(kind) == {i \in DOMAIN memory : memory[i].kind = kind}
Mine(t) == {i \in DOMAIN memory : memory[i].turn = t}
Written(t, kind) == Mine(t) \cap Places(kind)

GoTo(t, s) == step' = [step EXCEPT ![t] = s]

(* write_memory_item: the item is persisted and, with rag, embedded next.  *)
Write(t, kind, text, next) ==
  /\ memory' = Append(memory, [kind |-> kind, turn |-> t, text |-> text])
  /\ GoTo(t, IF rag THEN "embedding" ELSE next)
  /\ then' = [then EXCEPT ![t] = next]

Init ==
  /\ rag \in BOOLEAN
  /\ memory = <<>> /\ embedded = {} /\ failures = 0
  /\ step = [t \in Turn |-> "new"]
  /\ then = [t \in Turn |-> "new"]
  /\ parts = [t \in Turn |-> 0]
  /\ told = [t \in Turn |-> Untold]
  /\ answer = [t \in Turn |-> None]

(* The prompt is classified, by a heuristic or by a model that may say     *)
(* anything.                                                               *)
Classify(t, type, chunks) ==
  /\ step[t] = "new"
  /\ GoTo(t, CASE type = "source" -> "passage"
               [] type = "document" -> "chunks"
               [] type = "instruction" -> "note"
               [] type = "followup" -> "followup"
               [] OTHER -> "question")
  /\ parts' = [parts EXCEPT ![t] = CASE type = "source" -> 1
                                     [] type = "document" -> chunks
                                     [] OTHER -> 0]
  /\ UNCHANGED <<rag, memory, embedded, then, told, answer, failures>>

(* Seeded fault: the summary is made one passage too early.                *)
StorePassageFault(t) ==
  LET stored == Cardinality(Written(t, "passage")) + 1 IN
  /\ step[t] \in {"passage", "chunks"}
  /\ Write(t, "passage", t, CASE step[t] = "passage" -> "done"
                              [] stored + 1 < parts[t] -> "chunks"
                              [] OTHER -> "summarising")
  /\ UNCHANGED <<rag, embedded, parts, told, answer, failures>>

(* store_source_passage, and one round of the loop of                      *)
(* store_source_passages.                                                  *)
StorePassage(t) ==
  LET stored == Cardinality(Written(t, "passage")) + 1 IN
  /\ step[t] \in {"passage", "chunks"}
  /\ Write(t, "passage", t, CASE step[t] = "passage" -> "done"
                              [] stored < parts[t] -> "chunks"
                              [] OTHER -> "summarising")
  /\ UNCHANGED <<rag, embedded, parts, told, answer, failures>>

(* The run of the summary graph: it leaves a summary or it does not.       *)
Summarise(t) ==
  /\ step[t] = "summarising"
  /\ GoTo(t, "summary") \/ GoTo(t, "done")
  /\ UNCHANGED <<rag, memory, embedded, locals, failures>>

StoreSummary(t) ==
  /\ step[t] = "summary"
  /\ Write(t, "summary", t, "done")
  /\ UNCHANGED <<rag, embedded, parts, told, answer, failures>>

StoreNote(t) ==
  /\ step[t] = "note"
  /\ Write(t, "note", t, "done")
  /\ UNCHANGED <<rag, embedded, parts, told, answer, failures>>

(* The question is stored before it is answered.                           *)
StoreQuestion(t) ==
  /\ step[t] \in {"question", "followup"}
  /\ Write(t, "question", t, IF step[t] = "followup" THEN "recalling" ELSE "gathering")
  /\ UNCHANGED <<rag, embedded, parts, told, answer, failures>>

(* Seeded fault: the turn goes on when the embedding failed.               *)
EmbedFault(t) ==
  /\ step[t] = "embedding"
  /\ embedded' \in {embedded, embedded \cup {Max(Mine(t))}}
  /\ GoTo(t, then[t])
  /\ UNCHANGED <<rag, memory, locals, failures>>

(* embed_and_persist of the item just stored.                              *)
Embed(t) ==
  /\ step[t] = "embedding"
  /\ embedded' = embedded \cup {Max(Mine(t))}
  /\ GoTo(t, then[t])
  /\ UNCHANGED <<rag, memory, locals, failures>>

(* The provider raised, while embedding, searching or running.             *)
Raise(t) ==
  /\ \/ step[t] \in {"embedding", "summarising", "answering"}
     \/ rag /\ step[t] \in {"gathering", "recalling"}
  /\ failures < MaxFailures
  /\ failures' = failures + 1
  /\ GoTo(t, "raised")
  /\ UNCHANGED <<rag, memory, embedded, locals>>

(* The places of the memory, sorted by created_at.                         *)
NewestFirst == [k \in DOMAIN memory |-> Len(memory) + 1 - k]

(* Seeded fault: an answer may be used again.                              *)
RecentPairsFault(limit) ==
  LET pair(found, q) ==
        LET answers == {a \in Places("answer") : a > q} IN
        IF memory[q].kind # "question" \/ Len(found) = limit \/ answers = {} THEN found
        ELSE Append(found, <<q, Max(answers)>>)
  IN FoldLeft(pair, <<>>, NewestFirst)

(* get_recent_qa_pairs: the questions, newest first, each with the newest  *)
(* answer after it that no other question has taken.                       *)
RecentPairs(limit) ==
  LET pair(found, q) ==
        LET free == {a \in Places("answer") : a > q /\ \A n \in DOMAIN found : found[n][2] # a} IN
        IF memory[q].kind # "question" \/ Len(found) = limit \/ free = {} THEN found
        ELSE Append(found, <<q, Max(free)>>)
  IN FoldLeft(pair, <<>>, NewestFirst)

(* The pairs of retrieve_context: the questions in the order of their      *)
(* scores, each with the oldest answer after it whose text is not yet      *)
(* among the pairs; at most three pairs.                                   *)
RetrievedPairs(questions) ==
  LET pair(found, q) ==
        LET free == {a \in Places("answer") :
                       a > q /\ \A n \in DOMAIN found : memory[found[n][2]].text # memory[a].text} IN
        IF Len(found) = 3 \/ free = {} THEN found ELSE Append(found, <<q, Min(free)>>)
  IN FoldLeft(pair, <<>>, questions)

NewestSummary == Max(Places("summary") \cup {0})

(* The instruction without rag: all passages, the newest summary, and the  *)
(* recent pairs when the prompt is a follow-up.                            *)
Recall(t) ==
  /\ ~rag /\ step[t] \in {"gathering", "recalling"}
  /\ told' = [told EXCEPT ![t] =
       [passages |-> Places("passage"),
        summary  |-> NewestSummary,
        pairs    |-> IF step[t] = "recalling" THEN RecentPairs(3) ELSE <<>>,
        seen     |-> Len(memory)]]
  /\ GoTo(t, "answering")
  /\ UNCHANGED <<rag, memory, embedded, then, parts, answer, failures>>

(* search_similar: as many of the embedded items as the limit allows.      *)
Matches == kSubset(Min({SearchLimit, Cardinality(embedded)}), embedded)

(* Seeded fault: no safety net under an empty search.                      *)
RetrieveFault(t, matches, questions, best) ==
  /\ rag /\ step[t] \in {"gathering", "recalling"}
  /\ told' = [told EXCEPT ![t] =
       [passages |-> matches \cap Places("passage"), summary |-> best,
        pairs |-> RetrievedPairs(questions), seen |-> Len(memory)]]
  /\ GoTo(t, "answering")
  /\ UNCHANGED <<rag, memory, embedded, then, parts, answer, failures>>

(* The instruction with rag: what retrieve_context finds among the         *)
(* matches, and all passages when it finds none.                           *)
Retrieve(t, matches, questions, best) ==
  LET passages == matches \cap Places("passage") IN
  /\ rag /\ step[t] \in {"gathering", "recalling"}
  /\ told' = [told EXCEPT ![t] =
       [passages |-> IF passages = {} THEN Places("passage") ELSE passages,
        summary  |-> IF passages = {} THEN NewestSummary ELSE best,
        pairs    |-> RetrievedPairs(questions),
        seen     |-> Len(memory)]]
  /\ GoTo(t, "answering")
  /\ UNCHANGED <<rag, memory, embedded, then, parts, answer, failures>>

(* The scores rank the matches in any order.                               *)
Search(t) ==
  \E matches \in Matches :
    \E questions \in SetToSeqs(matches \cap Places("question")),
       best \in IF matches \cap Places("summary") = {} THEN {0} ELSE matches \cap Places("summary") :
      Retrieve(t, matches, questions, best)

(* The run of the chat graph with that instruction: the final node's text, *)
(* or none.                                                                *)
Execute(t, text) ==
  /\ step[t] = "answering"
  /\ answer' = [answer EXCEPT ![t] = text]
  /\ told' = [told EXCEPT ![t] = Untold]
  /\ GoTo(t, "answer")
  /\ UNCHANGED <<rag, memory, embedded, then, parts, failures>>

StoreAnswer(t) ==
  /\ step[t] = "answer"
  /\ Write(t, "answer", answer[t], "done")
  /\ UNCHANGED <<rag, embedded, parts, told, answer, failures>>

Crash(t) ==
  /\ Busy(t) /\ failures < MaxFailures
  /\ failures' = failures + 1
  /\ GoTo(t, "dead")
  /\ UNCHANGED <<rag, memory, embedded, locals>>

Next ==
  \E t \in Turn :
    \/ \E type \in {"source", "instruction", "followup", "question"} : Classify(t, type, 1)
    \/ \E chunks \in 1..MaxParts : Classify(t, "document", chunks)
    \/ StorePassage(t) \/ Summarise(t) \/ StoreSummary(t) \/ StoreNote(t)
    \/ StoreQuestion(t) \/ Embed(t) \/ Raise(t) \/ Recall(t) \/ Search(t)
    \/ \E text \in Answer : Execute(t, text)
    \/ StoreAnswer(t) \/ Crash(t)

Spec == Init /\ [][Next]_vars

-----------------------------------------------------------------------------
(* The answer of the turn that asked, among the first n items.             *)
Own(q, n) == {a \in Places("answer") : a <= n /\ memory[a].turn = memory[q].turn}

(* A question was stored between another one and that one's answer.        *)
Crossed(n) ==
  \E p, q \in Places("question") : p < q /\ \E a \in Own(p, n) : q < a

(* Two turns were answered the same.                                       *)
Repeated(q, n) ==
  \E a \in Own(q, n), b \in Places("answer") : b <= n /\ a # b /\ memory[a].text = memory[b].text

(* The pairs an instruction shows are true: each question stands with the  *)
(* answer of its own turn, also when turns raised or died before they      *)
(* answered, as long as turns did not cross (get_recent_qa_pairs). With    *)
(* rag a shown question without an answer takes another one's, and so does *)
(* one whose answer was given twice, and what they take is missing for the *)
(* other questions (retrieve_context).                                     *)
PairsAreTrue ==
  \A t \in Turn : \A n \in DOMAIN told[t].pairs :
    LET q == told[t].pairs[n][1]
        a == told[t].pairs[n][2] IN
    \/ a \in Own(q, told[t].seen)
    \/ Crossed(told[t].seen)
    \/ rag /\ \E m \in DOMAIN told[t].pairs :
                 LET p == told[t].pairs[m][1] IN
                 Own(p, told[t].seen) = {} \/ Repeated(p, told[t].seen)

(* A summary that is shown is that of a document whose passages are all    *)
(* stored before it: shown with it, or at least found by search. A turn    *)
(* that raises or dies in the middle of a document never leaves a summary. *)
SummaryIsGrounded ==
  \A t \in Turn : told[t].summary # 0 =>
    LET s == told[t].summary
        passages == {i \in Written(memory[s].turn, "passage") : i < s} IN
    /\ Cardinality(passages) = parts[memory[s].turn]
    /\ passages \subseteq IF rag THEN embedded ELSE told[t].passages

(* No question is answered without sources while the workspace has some,   *)
(* whatever search finds and however incomplete the sources are (the       *)
(* safety net of chat_turn).                                               *)
SourcesAreUsed ==
  \A t \in Turn : told[t].passages = {} =>
    \A i \in Places("passage") : i > told[t].seen

(* A turn that ended well has left exactly what it promised, in order and  *)
(* where search finds it; one that raised or died left no answer without   *)
(* its question.                                                           *)
TurnsAreWhole ==
  \A t \in Turn :
    /\ step[t] = "done" =>
         /\ Cardinality(Written(t, "passage")) = parts[t]
         /\ parts[t] = 0 => \/ Mine(t) = Written(t, "note") /\ Cardinality(Mine(t)) = 1
                            \/ \E q, a \in Mine(t) : /\ Mine(t) = {q, a} /\ q < a
                                                     /\ memory[q].kind = "question"
                                                     /\ memory[a].kind = "answer"
                                                     /\ memory[a].text = answer[t]
         /\ rag => Mine(t) \subseteq embedded
    /\ \A a \in Written(t, "answer") : \E q \in Written(t, "question") : q < a
=============================================================================
