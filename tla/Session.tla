------------------------------- MODULE Session -------------------------------
(***************************************************************************)
(* The planner-mode chat (examples/chat.py over LLMASM.ask, api.py): a     *)
(* process opens a workspace, reads prompts and commands, and for each     *)
(* prompt ingests, compiles, runs, answers and remembers.  Every storage   *)
(* call is made to both backends: db outlives the process, mem is lost     *)
(* with it.  The chat goes by the rows of db; the nodes of a graph may     *)
(* have any order, that of a list or that of ids.                          *)
(*                                                                         *)
(* Compiling is one step here, and so is a node; Compilation and           *)
(* RunExecutor take them apart.  The planner's graphs are trees.           *)
(***************************************************************************)
EXTENDS Naturals, Sequences, FiniteSets, FiniteSetsExt, SequencesExt

CONSTANTS
  None,
  Prompt,        \* what a user may type
  Long,          \* those that are long source documents
  Placeholder,   \* what the planner is given in place of one
  Text,          \* what a model or a tool may answer
  Empty,         \* the text of an answer without a final artifact
  Shape,         \* what a planner may propose: sequences of Part
  Chunks,        \* chunks of a long document
  MaxTurns,      \* turns that do not fail
  MaxSessions,
  MaxEvents      \* crashes, errors that are raised and commands

(* A node of a proposal: up is the place of its upstream node, or 0; key   *)
(* is its name and execution, which make its cache key; an expand node     *)
(* adds one final node below itself.  rank is where the node comes when    *)
(* the storage answers the nodes of its graph: memory has them in the      *)
(* order in which they were proposed, Postgres in that of their random     *)
(* ids.                                                                    *)
Part == [kind : {"intent", "tool", "model", "final", "expand"}, up : Nat, key : STRING,
         cache : BOOLEAN, summary : BOOLEAN, rank : Nat]

ASSUME SessionAssumption ==
  /\ None \notin ({"graph"} \X Nat) \cup ({"artifact"} \X {"output"} \X Nat)
  /\ Long \subseteq Prompt
  /\ Shape \subseteq Seq(Part)
  /\ \A s \in Shape : \A i \in DOMAIN s : s[i].up < i

VARIABLES
  db, mem,       \* the storages
  phase,         \* where the chat stands
  turn,          \* the locals of the current turn
  previous,      \* previous_task_graph_id
  now,           \* what ids and times are made of
  log,           \* history: the graph of every answered turn, and None for
                 \* every failure, /clear and start in between
  sessions, crashes, raises, commands

counters == <<sessions, crashes, raises, commands>>
vars == <<db, mem, phase, turn, previous, now, log, counters>>

P == INSTANCE PostgresStorage
M == INSTANCE InMemoryStorage

W == <<"workspace">>
GraphId(n) == <<"graph", n>>

NoTurn == [n |-> 0, prompt |-> None, source |-> None, chunk |-> 0, graph |-> None,
           run |-> None, answer |-> Empty, stored |-> {}, memory |-> None]

Event == crashes + raises + commands < MaxEvents

C(op, row) == [op |-> op, row |-> row]

(* A sequence of storage calls.                                            *)
Do(calls) == /\ db' = P!After(db, calls)
             /\ mem' = M!After(mem, calls)
             /\ now' = now + 1

GoTo(p) == phase' = p
Break == log' = Append(log, None)

Init ==
  /\ db = P!Created /\ mem = M!Created
  /\ phase = "closed" /\ turn = NoTurn /\ previous = None /\ now = 1 /\ log = <<>>
  /\ sessions = 0 /\ crashes = 0 /\ raises = 0 /\ commands = 0

-----------------------------------------------------------------------------
(* Processes and commands.                                                 *)

Workspace == C("create_workspace_graph", [id |-> W])

(* Seeded fault: only the first process creates the workspace, and only    *)
(* when it is asked something.                                             *)
OpenFault ==
  /\ phase = "closed" /\ sessions < MaxSessions
  /\ UNCHANGED db /\ mem' = M!After(M!Created, <<Workspace>>)
  /\ GoTo("prompt") /\ turn' = [NoTurn EXCEPT !.n = turn.n] /\ previous' = None /\ Break
  /\ sessions' = sessions + 1
  /\ UNCHANGED <<now, crashes, raises, commands>>

(* main(): the workspace is created, which changes nothing when an earlier *)
(* process has created it in the database.                                 *)
Open ==
  /\ phase = "closed" /\ sessions < MaxSessions
  /\ db' = P!After(db, <<Workspace>>) /\ mem' = M!After(M!Created, <<Workspace>>)
  /\ GoTo("prompt") /\ turn' = [NoTurn EXCEPT !.n = turn.n] /\ previous' = None /\ Break
  /\ sessions' = sessions + 1
  /\ UNCHANGED <<now, crashes, raises, commands>>

Quit == phase = "prompt" /\ GoTo("closed")
        /\ UNCHANGED <<db, mem, turn, previous, now, log, counters>>

(* /clear: the active goal is closed, and the conversation starts anew.    *)
Clear ==
  LET g == P!LoadActiveGoal(db, W) IN
  /\ phase = "prompt" /\ Event
  /\ IF g = None THEN UNCHANGED <<db, mem, now>>
     ELSE Do(<<C("update_goal", [g EXCEPT !.status = "closed", !.updated = now])>>)
  /\ previous' = None /\ Break
  /\ commands' = commands + 1
  /\ UNCHANGED <<phase, turn, sessions, crashes, raises>>

(* A memory item whose text is embedded, by store_* (conversation/         *)
(* memory.py); without an answer of the provider it is only stored.        *)
Remember(item, embedded) ==
  <<C("persist_memory_item", item)>> \o
  IF embedded THEN <<C("persist_embedding", [id |-> <<"embedding", now>>, owner |-> item.id]),
                     C("attach_item", item)>>
              ELSE <<>>

Item(kind, text, run) ==
  [id |-> <<"item", now>>, workspace |-> W, kind |-> kind, text |-> text, run |-> run, at |-> now]

(* /inject: the note is not embedded.                                      *)
Inject ==
  /\ phase = "prompt" /\ Event
  /\ Do(Remember(Item("human_note", Empty, None), FALSE))
  /\ commands' = commands + 1
  /\ UNCHANGED <<phase, turn, previous, log, sessions, crashes, raises>>

(* The process dies, of whatever cause, at any point.                      *)
Crash ==
  /\ phase # "closed" /\ Event
  /\ crashes' = crashes + 1
  /\ GoTo("closed")
  /\ UNCHANGED <<db, mem, turn, previous, now, log, sessions, raises, commands>>

-----------------------------------------------------------------------------
(* A turn.                                                                 *)

(* Seeded fault: the next turn follows the one before the failed one.      *)
FailTurnFault ==
  /\ GoTo("prompt") /\ Break
  /\ UNCHANGED <<turn, previous, sessions, crashes, commands>>

(* except LLMASMError: the turn has failed.                                *)
FailTurn ==
  /\ previous' = None
  /\ GoTo("prompt") /\ Break
  /\ UNCHANGED <<turn, sessions, crashes, commands>>

MayRaise == Event /\ raises' = raises + 1

(* The user types a prompt; maybe_ingest_long_source looks at its length.  *)
Ask(p) ==
  /\ phase = "prompt" /\ turn.n < MaxTurns + raises
  /\ turn' = [NoTurn EXCEPT !.n = turn.n + 1, !.prompt = p,
                            !.source = IF p \in Long THEN <<"source", turn.n + 1>> ELSE None]
  /\ GoTo(IF p \in Long THEN "ingesting" ELSE "compiling")
  /\ UNCHANGED <<db, mem, previous, now, log, counters>>

(* One chunk of the document.                                              *)
Ingest ==
  LET item == Item("source_passage", turn.prompt, None) IN
  /\ phase = "ingesting"
  /\ \/ /\ Do(Remember(item, TRUE))
        /\ turn' = [turn EXCEPT !.chunk = @ + 1]
        /\ GoTo(IF turn.chunk + 1 = Chunks THEN "compiling" ELSE "ingesting")
        /\ UNCHANGED <<previous, log, counters>>
     \/ Do(Remember(item, FALSE)) /\ MayRaise /\ FailTurn

EffectivePrompt == IF turn.source = None THEN turn.prompt ELSE Placeholder

Goal(a) == IF a = "new" THEN [id |-> <<"goal", turn.n>>, workspace |-> W, graph |-> None,
                              text |-> <<turn.n>>, status |-> "provisional", updated |-> now]
           ELSE P!LoadActiveGoal(db, W)

OpenGoal(a) == IF a = "new" THEN <<C("persist_goal", Goal(a))>> ELSE <<>>

UpdatedGoal(a) ==
  [Goal(a) EXCEPT !.status = "active", !.updated = now,
                  !.graph = IF a = "new" THEN GraphId(turn.n) ELSE @,
                  !.text = IF a = "new" THEN @ ELSE Append(@, turn.n)]

(* The task graph that a proposal is normalised to.                        *)
Graph(shape, goal) ==
  LET g == GraphId(turn.n)
      node(i) == <<"node", turn.n, i>>
  IN [id |-> g, workspace |-> W, goal |-> goal, intent |-> EffectivePrompt,
      nodes |-> {[id |-> node(i), graph |-> g, kind |-> shape[i].kind, key |-> shape[i].key,
                  cache |-> shape[i].cache, summary |-> shape[i].summary,
                  rank |-> shape[i].rank] : i \in DOMAIN shape},
      edges |-> {[id |-> <<"edge", turn.n, i>>, graph |-> g, from |-> node(shape[i].up),
                  to |-> node(i)] : i \in {j \in DOMAIN shape : shape[j].up # 0}}]

WorkspaceEdge(type, from, to) ==
  C("persist_workspace_edge", [id |-> <<"link", type, now>>, workspace |-> W, type |-> type,
                               from |-> from, to |-> to])

Classified(a) == a \in {"new", "continue"} /\ (a = "continue" => Goal(a) # None)

(* compile_into_workspace with a proposal that is accepted.                *)
Compile(a, shape) ==
  /\ phase = "compiling" /\ Classified(a)
  /\ Do(OpenGoal(a) \o
        <<C("persist_task_graph", Graph(shape, Goal(a).id)),
          WorkspaceEdge("supports_goal", GraphId(turn.n), Goal(a).id),
          C("update_goal", UpdatedGoal(a))>>)
  /\ turn' = [turn EXCEPT !.graph = GraphId(turn.n)]
  /\ GoTo("starting")
  /\ UNCHANGED <<previous, log, counters>>

(* The planner's attempts are used up: CompilationError.                   *)
CompileFails(a) ==
  /\ phase = "compiling" /\ Classified(a)
  /\ Do(OpenGoal(a) \o <<C("persist_compilation_failure",
                            [workspace |-> W, prompt |-> EffectivePrompt])>>)
  /\ MayRaise /\ FailTurn

-----------------------------------------------------------------------------
(* The run.                                                                *)

RunId == <<"run", turn.n>>
Nodes == P!LoadTaskGraph(db, turn.graph).nodes
NodeOf(s) == CHOOSE n \in Nodes : n.id = s.node

State(node) == [id |-> <<RunId, node>>, run |-> RunId, node |-> node, status |-> "pending",
                output |-> None]

StatesCreated == LET s == SetToSeq({State(n.id) : n \in Nodes})
                 IN [i \in DOMAIN s |-> C("create_run_node_state", s[i])]

(* LLMASM.run, and execute up to its loop.                                 *)
StartRun ==
  LET run == [id |-> RunId, workspace |-> W, graph |-> turn.graph, status |-> "pending",
              pc |-> None]
  IN /\ phase = "starting"
     /\ Do(<<C("create_run", run)>> \o StatesCreated \o
           <<C("update_run", [run EXCEPT !.status = "running"])>>)
     /\ turn' = [turn EXCEPT !.run = RunId]
     /\ GoTo("running")
     /\ UNCHANGED <<previous, log, counters>>

States == P!ListRunNodeStates(db, RunId)
InStatus(S) == {s.node : s \in {t \in States : t.status \in S}}

Upstream(s) == {e.from : e \in {f \in P!ListTaskEdges(db, turn.graph) : f.to = s.node}}
Ready(s) == s.status = "pending" /\ Upstream(s) \subseteq InStatus({"succeeded", "expanded"})

(* next_node takes the first one in the order of the graph's nodes.        *)
First(s) == \A t \in States : Ready(t) => NodeOf(s).rank <= NodeOf(t).rank

Inputs(s) == {P!LoadArtifact(db, t.output).content : t \in {u \in States : u.node \in Upstream(s)}}
Input(s) == CHOOSE c \in Inputs(s) : TRUE

Checkpoint(i, s, completed, failed) ==
  C("persist_checkpoint", [id |-> <<"checkpoint", now, i>>, run |-> RunId, pc |-> s.node,
                           completed |-> completed, failed |-> failed])

Saved(s, status, output) ==
  C("update_run_node_state", [s EXCEPT !.status = status, !.output = output])

(* The program counter and the first checkpoint, and the row.              *)
Begin(s) ==
  <<C("update_run", [P!LoadRun(db, RunId) EXCEPT !.pc = s.node]),
    Checkpoint(1, s, InStatus({"succeeded"}), {}),
    Saved(s, "running", None)>>

Artifact(s, port, content) ==
  [id |-> <<"artifact", port, now>>, run |-> RunId, node |-> s.node, port |-> port,
   content |-> content, key |-> IF port = "output" THEN NodeOf(s).key ELSE None,
   inputs |-> IF port = "output" THEN Inputs(s) ELSE {}, at |-> now]

(* The output is saved, the row settled, and a second checkpoint made.     *)
End(s, a, status, embedded) ==
  <<C("persist_artifact", a)>> \o
  (IF embedded THEN <<C("persist_embedding", [id |-> <<"embedding", now>>, owner |-> a.id])>>
               ELSE <<>>) \o
  <<Saved(s, status, a.id),
    Checkpoint(2, s, InStatus({"succeeded"}) \cup (IF status = "succeeded" THEN {s.node} ELSE {}),
               {})>>

Reusable(s) == IF NodeOf(s).cache THEN P!FindCachedArtifact(db, NodeOf(s).key, Inputs(s)) ELSE None

(* A cache hit: the artifact is copied into the run.                       *)
Reuse(s) ==
  /\ Reusable(s) # None
  /\ Do(Begin(s) \o
        End(s, [Reusable(s) EXCEPT !.id = <<"artifact", "output", now>>, !.run = RunId],
            "succeeded", FALSE))

ModelCall(s, prompt) ==
  C("persist_model_call", [id |-> <<"modelcall", now>>, run |-> RunId, node |-> s.node,
                           prompt |-> prompt])

(* What is said in one turn is told apart from what is said in another.    *)
Said == {<<text, turn.n>> : text \in Text}

(* What a node may have to say: a final node below a reused lookup repeats *)
(* what was said in an earlier turn.                                       *)
Sayable == Prompt \cup {Placeholder} \cup (Text \X (1 .. turn.n))

(* An intent node says the prompt, a final node its input, a model or a    *)
(* tool anything.                                                          *)
Invoke(s, answer) ==
  LET kind   == NodeOf(s).kind
      prompt == Artifact(s, "prompt", Input(s))
      done(content) == End(s, Artifact(s, "output", content), "succeeded", FALSE)
  IN /\ Reusable(s) = None
     /\ \/ /\ kind = "intent" /\ answer = EffectivePrompt
           /\ Do(Begin(s) \o done(answer))
        \/ /\ kind = "final" /\ answer = Input(s)
           /\ Do(Begin(s) \o done(answer))
        \/ /\ kind = "tool" /\ answer \in Said
           /\ Do(Begin(s) \o <<C("persist_tool_call", [id |-> <<"toolcall", now>>, run |-> RunId,
                                                       node |-> s.node])>> \o done(answer))
        \/ /\ kind = "model" /\ answer \in Said
           /\ Do(Begin(s) \o
                 <<C("persist_artifact", prompt), ModelCall(s, prompt.id)>> \o
                 End(s, Artifact(s, "output", answer), "succeeded", TRUE))

(* An added node may come before or after any other.                       *)
AddedRank == 5

Grown(s) ==
  LET g == P!LoadTaskGraph(db, turn.graph)
      n == [id |-> <<"node", turn.n, now, "added">>, graph |-> g.id, kind |-> "final",
            key |-> "added", cache |-> FALSE, summary |-> FALSE,
            rank |-> AddedRank]
      e == [id |-> <<"edge", turn.n, now, "added">>, graph |-> g.id, from |-> s.node, to |-> n.id]
  IN [node |-> n, edge |-> e, graph |-> [g EXCEPT !.nodes = @ \cup {n}, !.edges = @ \cup {e}]]

(* Seeded fault: the row of the added node is left to its first update.    *)
ExpandFault(s, answer) ==
  /\ NodeOf(s).kind = "expand" /\ answer = Placeholder
  /\ Do(Begin(s) \o
        <<C("persist_task_edge", Grown(s).edge),
          C("persist_task_graph", Grown(s).graph),
          WorkspaceEdge("expands_to", s.node, turn.graph),
          Saved(State(Grown(s).node.id), "pending", None)>> \o
        End(s, Artifact(s, "output", answer), "expanded", FALSE))

(* apply_expansion, in the middle of the node's own calls.                 *)
Expand(s, answer) ==
  /\ NodeOf(s).kind = "expand" /\ answer = Placeholder
  /\ Do(Begin(s) \o
        <<C("create_run_node_state", State(Grown(s).node.id)),
          C("persist_task_edge", Grown(s).edge),
          C("persist_task_graph", Grown(s).graph),
          WorkspaceEdge("expands_to", s.node, turn.graph),
          Saved(s, "expanded", None)>> \o
        End(s, Artifact(s, "output", answer), "expanded", FALSE))

RunNode(s, answer) ==
  /\ phase = "running" /\ Ready(s) /\ First(s)
  /\ Reuse(s) \/ Invoke(s, answer) \/ Expand(s, answer)
  /\ UNCHANGED <<phase, turn, previous, log, counters>>

(* What a node has done before it raises: a tool nothing, a model its      *)
(* prompt, or all but the embedding of its output.                         *)
Attempts(s) ==
  LET prompt == Artifact(s, "prompt", Input(s))
      asked  == <<C("persist_artifact", prompt)>>
  IN IF NodeOf(s).kind = "tool" THEN {<<>>}
     ELSE {asked} \cup
          {asked \o <<ModelCall(s, prompt.id),
                     C("persist_artifact", Artifact(s, "output", answer))>> : answer \in Said}

(* The model, the tool or the provider of embeddings raises an ordinary    *)
(* error. (RunExecutor has the fatal and the retryable ones.)              *)
NodeRaises(s) ==
  LET failed == [P!LoadRun(db, RunId) EXCEPT !.pc = s.node, !.status = "failed"] IN
  /\ phase = "running" /\ Ready(s) /\ First(s)
  /\ NodeOf(s).kind \in {"model", "tool"} /\ Reusable(s) = None
  /\ \E done \in Attempts(s) :
       Do(Begin(s) \o done \o <<Saved(s, "failed", None), C("update_run", failed)>>)
  /\ MayRaise /\ FailTurn

FinishRun ==
  /\ phase = "running"
  /\ \A s \in States : s.status # "pending"
  /\ Do(<<C("update_run", [P!LoadRun(db, RunId) EXCEPT !.status = "succeeded"])>>)
  /\ GoTo("collecting")
  /\ UNCHANGED <<turn, previous, log, counters>>

-----------------------------------------------------------------------------
(* The answer.                                                             *)

Latest(artifacts) == CHOOSE a \in artifacts : \A b \in artifacts : b.at <= a.at

AnswerOf(artifacts) == IF artifacts = {} THEN Empty ELSE Latest(artifacts).content

(* The artifacts of a run that were made by given nodes of its graph.      *)
Made(s, run, kinds) ==
  {a \in P!ListArtifacts(s, run) :
     \E n \in P!LoadTaskGraph(s, P!LoadRun(s, run).graph).nodes :
       n.id = a.node /\ n.kind \in kinds}

(* Seeded fault: ask goes by the graph it has compiled.                    *)
CollectFault ==
  /\ phase = "collecting"
  /\ turn' = [turn EXCEPT !.answer =
       AnswerOf({a \in Made(db, RunId, {"final"}) : Len(a.node) = 3})]
  /\ GoTo(IF turn.source = None THEN "asking" ELSE "summarising")
  /\ UNCHANGED <<db, mem, previous, now, log, counters>>

(* ask: the graph is loaded again, and the last artifact of its final      *)
(* nodes is the answer.                                                    *)
Collect ==
  /\ phase = "collecting"
  /\ turn' = [turn EXCEPT !.answer = AnswerOf(Made(db, RunId, {"final"}))]
  /\ GoTo(IF turn.source = None THEN "asking" ELSE "summarising")
  /\ UNCHANGED <<db, mem, previous, now, log, counters>>

Summaries == {a \in Made(db, RunId, {"model"}) :
                /\ a.port = "output" /\ a.id \notin turn.stored
                /\ \E n \in Nodes : n.id = a.node /\ n.summary}

(* _persist_summary_artifacts                                              *)
Summarise ==
  LET a    == CHOOSE x \in Summaries : \A y \in Summaries : x.at <= y.at
      item == Item("source_passage", a.content, RunId)
  IN /\ phase = "summarising"
     /\ \/ /\ Summaries = {} /\ GoTo("answering")
           /\ UNCHANGED <<db, mem, turn, previous, now, log, counters>>
        \/ /\ Summaries # {}
           /\ Do(Remember(item, TRUE))
           /\ turn' = [turn EXCEPT !.stored = @ \cup {a.id}]
           /\ UNCHANGED <<phase, previous, log, counters>>
        \/ /\ Summaries # {}
           /\ Do(Remember(item, FALSE)) /\ MayRaise /\ FailTurn

(* Nothing catches what store_user_question and store_assistant_answer     *)
(* raise: the process ends.                                                *)
Dies == MayRaise /\ GoTo("closed") /\ UNCHANGED <<turn, previous, log, sessions, crashes, commands>>

(* A document that was chunked is not stored as a question, too.           *)
StoreQuestion ==
  LET item == Item("user_question", turn.prompt, RunId) IN
  /\ phase = "asking"
  /\ \/ /\ Do(Remember(item, TRUE))
        /\ GoTo("answering")
        /\ UNCHANGED <<turn, previous, log, counters>>
     \/ Do(Remember(item, FALSE)) /\ Dies

StoreAnswer ==
  LET item == Item("assistant_answer", turn.answer, RunId) IN
  /\ phase = "answering"
  /\ \/ /\ Do(Remember(item, TRUE))
        /\ turn' = [turn EXCEPT !.memory = item.id]
        /\ GoTo("linking")
        /\ log' = Append(log, turn.graph)
        /\ UNCHANGED <<previous, counters>>
     \/ Do(Remember(item, FALSE)) /\ Dies

(* The follows_up edge.                                                    *)
LinkFollowsUp ==
  /\ phase = "linking"
  /\ IF previous = None THEN UNCHANGED <<db, mem, now>>
     ELSE Do(<<WorkspaceEdge("follows_up", turn.graph, previous)>>)
  /\ GoTo("producing")
  /\ UNCHANGED <<turn, previous, log, counters>>

(* The produced edge, from the final node that comes first in the graph's  *)
(* nodes; then the loop goes on.                                           *)
LinkProduced ==
  LET finals == {n \in Nodes : n.kind = "final"} IN
  /\ phase = "producing"
  /\ \/ finals = {} /\ UNCHANGED <<db, mem, now>>
     \/ \E n \in finals :
          /\ \A o \in finals : n.rank <= o.rank
          /\ Do(<<WorkspaceEdge("produced", n.id, turn.memory)>>)
  /\ previous' = turn.graph
  /\ GoTo("prompt")
  /\ UNCHANGED <<turn, log, counters>>

Next ==
  \/ Open \/ Quit \/ Clear \/ Inject \/ Crash
  \/ \E p \in Prompt : Ask(p)
  \/ Ingest
  \/ \E a \in {"new", "continue"} : CompileFails(a) \/ \E s \in Shape : Compile(a, s)
  \/ StartRun
  \/ \E s \in States : NodeRaises(s)
                       \/ \E answer \in Sayable : RunNode(s, answer)
  \/ FinishRun \/ Collect \/ Summarise \/ StoreQuestion \/ StoreAnswer
  \/ LinkFollowsUp \/ LinkProduced

Spec == Init /\ [][Next]_vars

-----------------------------------------------------------------------------
Alone == sessions = 1

(* As long as one process has done everything, the two backends answer     *)
(* every call of the program alike, although the one inserts what is       *)
(* missing and ignores updates of nothing, and the other replaces: the     *)
(* same rows.  The order in which they list the nodes of a graph differs,  *)
(* and the examples of memory have repetitions; neither is compared here.  *)
SameAnswers ==
  Alone =>
    /\ db.raised = mem.raised
    /\ \A n \in 1 .. turn.n :
         /\ P!LoadTaskGraph(db, GraphId(n)) = M!LoadTaskGraph(mem, GraphId(n))
         /\ P!LoadRun(db, <<"run", n>>) = M!LoadRun(mem, <<"run", n>>)
         /\ P!LoadRun(db, <<"run", n>>) # None =>
              P!QueryRun(db, <<"run", n>>) = M!QueryRun(mem, <<"run", n>>)
    /\ \A a \in {b \in db.artifacts : b.key # None} :
         P!FindCachedArtifact(db, a.key, a.inputs).content
           = M!FindCachedArtifact(mem, a.key, a.inputs).content
    /\ P!LoadActiveGoal(db, W) = M!LoadActiveGoal(mem, W)
    /\ P!ListMemoryItems(db, W) = M!ListMemoryItems(mem, W)
    /\ P!SearchSimilar(db, W) = M!SearchSimilar(mem, W)
    /\ P!ListWorkspaceEdges(db, W) = M!ListWorkspaceEdges(mem, W)
    /\ P!FewShotGraphs(db, W) = M!FewShotGraphs(mem, W)

(* No call is refused: PostgreSQL finds the parent of every row that is    *)
(* inserted, also after a process has died between two steps.              *)
NothingIsRefused == ~db.raised /\ ~mem.raised

Answers == {m \in db.memory_items : m.kind = "assistant_answer"}
Questions == {m \in db.memory_items : m.kind = "user_question"}

(* Outputs of final nodes of a run, and those that the nodes themselves    *)
(* have made (a reused one is its original's).                             *)
FinalOutputs(d, run) ==
  LET finals == {n.id : n \in {m \in P!LoadTaskGraph(d, P!LoadRun(d, run).graph).nodes :
                                 m.kind = "final"}}
  IN {[node |-> s.node, artifact |-> P!LoadArtifact(d, s.output)] :
        s \in {t \in P!ListRunNodeStates(d, run) : t.node \in finals /\ t.output # None}}
OwnFinals(d, run) == {o.artifact : o \in {x \in FinalOutputs(d, run) : x.artifact.node = x.node}}

(* What is remembered as an answer is what the final nodes of the run have *)
(* produced last, also one that the run has added to its graph.  It may    *)
(* repeat a lookup that was reused from an earlier turn, but the artifact  *)
(* is never that of another turn.                                          *)
AnswersAreTheRuns ==
  \A m \in Answers :
    /\ P!LoadRun(db, m.run).status = "succeeded"
    /\ m.text = AnswerOf(OwnFinals(db, m.run))

(* The docstring of ask ("Compile and execute a prompt, returning the      *)
(* final answer artifact."): when final nodes have succeeded, one of their *)
(* outputs is the answer.                                                  *)
AnswerIsReturned ==
  \A m \in Answers :
    FinalOutputs(db, m.run) # {} => m.text \in {o.artifact.content : o \in FinalOutputs(db, m.run)}

Follows == {<<e.from, e.to>> : e \in {f \in db.workspace_edges : f.type = "follows_up"}}
Consecutive == {<<log[i + 1], log[i]>> : i \in {j \in 1 .. Len(log) - 1 :
                                                 log[j] # None /\ log[j + 1] # None}}

(* A task graph follows another exactly when their turns were answered one *)
(* after the other in one process, without a failure or a /clear between   *)
(* them; only a crash may lose an edge.                                    *)
FollowsPrevious ==
  /\ Follows \subseteq Consecutive
  /\ phase = "prompt" /\ crashes = 0 => Follows = Consecutive

(* The oldest item, or none.                                               *)
Oldest(items) == {a \in items : \A b \in items : a.at <= b.at}

Sorted(items) == CHOOSE s \in SetToSeqs(items) :
                   \A i, j \in DOMAIN s : i < j => s[i].at < s[j].at

(* Seeded fault: an answer is taken for a later question's.                *)
ExportedFault(questions, answers) ==
  LET pair(done, q) ==
        LET free == {a \in answers : \A r \in done : a \notin r.answer}
        IN done \cup {[question |-> q, answer |-> Oldest(free)]}
  IN FoldLeft(pair, {}, Sorted(questions))

(* The records of _export_workspace_turns: every question with the first   *)
(* unused answer that is not older, if there is one.                       *)
Exported(questions, answers) ==
  LET pair(done, q) ==
        LET free == {a \in answers : a.at >= q.at /\ \A r \in done : a \notin r.answer}
        IN done \cup {[question |-> q, answer |-> Oldest(free)]}
  IN FoldLeft(pair, {}, Sorted(questions))

(* /export pairs every question with its own answer, chunked documents     *)
(* (which have an answer and no question) in between or not, unless a      *)
(* question has lost its answer.                                           *)
ExportPairsTrue ==
  phase = "prompt" /\ (\A q \in Questions : \E a \in Answers : a.run = q.run) =>
    \A r \in Exported(Questions, Answers) :
      \E a \in Answers : r.answer = {a} /\ a.run = r.question.run
=============================================================================
