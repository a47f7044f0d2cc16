--------------------------- MODULE InMemoryStorage ---------------------------
(***************************************************************************)
(* InMemoryStorage (storage/memory.py): the calls of PostgresStorage, done *)
(* with dictionaries.  A dictionary is a function from ids; what is put    *)
(* into it is a copy (deepcopy), so later changes of the caller's object   *)
(* are not seen.                                                           *)
(***************************************************************************)
EXTENDS Naturals, Sequences, FiniteSets, SequencesExt

CONSTANT None

Dictionary == {"workspace_graphs", "task_graphs", "runs", "run_node_states", "task_edges",
               "workspace_edges", "artifacts", "goals", "checkpoints", "tool_calls",
               "model_calls", "memory_items", "embeddings", "items"}

Created ==
  [d \in Dictionary \cup {"compilation_failures", "artifact_cache", "few_shots", "raised"} |->
     IF d = "raised" THEN FALSE ELSE <<>>]

Raise(mem) == [mem EXCEPT !.raised = TRUE]

Rows(mem, d) == {mem[d][id] : id \in DOMAIN mem[d]}

(* d[row.id] = deepcopy(row)                                               *)
Put(mem, d, row) ==
  [mem EXCEPT ![d] = [id \in DOMAIN @ \cup {row.id} |-> IF id = row.id THEN row ELSE @[id]]]

(* _get, which raises StorageError when there is none.                     *)
Get(mem, d, id) == IF id \in DOMAIN mem[d] THEN mem[d][id] ELSE None

OfRun(mem, d, run) == {r \in Rows(mem, d) : r.run = run}

-----------------------------------------------------------------------------
(* Calls that write.                                                       *)

CreateWorkspaceGraph(mem, w) == Put(mem, "workspace_graphs", w)

(* The edge is put into its graph, too, unless it is there.                *)
PersistTaskEdge(mem, e) ==
  LET put == Put(mem, "task_edges", e)
      g   == Get(mem, "task_graphs", e.graph)
  IN IF g # None /\ \A f \in g.edges : f.id # e.id
       THEN [put EXCEPT !.task_graphs[e.graph].edges = @ \cup {e}]
       ELSE put

(* The graph is replaced as a whole, and is an example once more.          *)
PersistTaskGraph(mem, g) ==
  [FoldLeft(PersistTaskEdge, Put(mem, "task_graphs", g), SetToSeq(g.edges))
     EXCEPT !.few_shots = Append(@, [workspace |-> g.workspace, id |-> g.id, intent |-> g.intent])]

CreateRun(mem, run) == Put(mem, "runs", run)

UpdateRun(mem, run) ==
  IF run.id \notin DOMAIN mem.runs THEN Raise(mem) ELSE Put(mem, "runs", run)

CreateRunNodeState(mem, s) == Put(mem, "run_node_states", s)
UpdateRunNodeState(mem, s) == Put(mem, "run_node_states", s)

PersistWorkspaceEdge(mem, e) == Put(mem, "workspace_edges", e)

(* An artifact with a key takes the place in the cache.                    *)
PersistArtifact(mem, a) ==
  LET put == Put(mem, "artifacts", a)
  IN IF a.key = None THEN put
     ELSE [put EXCEPT !.artifact_cache = (<<a.key, a.inputs>> :> a.id) @@ @]

PersistGoal(mem, g) == Put(mem, "goals", g)
UpdateGoal(mem, g) == Put(mem, "goals", g)

PersistCheckpoint(mem, c) == Put(mem, "checkpoints", c)
PersistToolCall(mem, c) == Put(mem, "tool_calls", c)
PersistModelCall(mem, c) == Put(mem, "model_calls", c)
PersistMemoryItem(mem, m) == Put(mem, "memory_items", m)

PersistCompilationFailure(mem, f) ==
  [mem EXCEPT !.compilation_failures = Append(@, f)]

(* InMemoryEmbeddingStore.persist                                          *)
PersistEmbedding(mem, e) == Put(mem, "embeddings", e)

(* InMemoryEmbeddingStore.attach_item                                      *)
AttachItem(mem, m) == Put(mem, "items", m)

Call(mem, c) ==
  CASE c.op = "create_workspace_graph"      -> CreateWorkspaceGraph(mem, c.row)
    [] c.op = "persist_task_graph"          -> PersistTaskGraph(mem, c.row)
    [] c.op = "create_run"                  -> CreateRun(mem, c.row)
    [] c.op = "update_run"                  -> UpdateRun(mem, c.row)
    [] c.op = "create_run_node_state"       -> CreateRunNodeState(mem, c.row)
    [] c.op = "update_run_node_state"       -> UpdateRunNodeState(mem, c.row)
    [] c.op = "persist_task_edge"           -> PersistTaskEdge(mem, c.row)
    [] c.op = "persist_workspace_edge"      -> PersistWorkspaceEdge(mem, c.row)
    [] c.op = "persist_artifact"            -> PersistArtifact(mem, c.row)
    [] c.op = "persist_goal"                -> PersistGoal(mem, c.row)
    [] c.op = "update_goal"                 -> UpdateGoal(mem, c.row)
    [] c.op = "persist_checkpoint"          -> PersistCheckpoint(mem, c.row)
    [] c.op = "persist_tool_call"           -> PersistToolCall(mem, c.row)
    [] c.op = "persist_model_call"          -> PersistModelCall(mem, c.row)
    [] c.op = "persist_memory_item"         -> PersistMemoryItem(mem, c.row)
    [] c.op = "persist_compilation_failure" -> PersistCompilationFailure(mem, c.row)
    [] c.op = "persist_embedding"           -> PersistEmbedding(mem, c.row)
    [] c.op = "attach_item"                 -> AttachItem(mem, c.row)

After(mem, calls) == FoldLeft(Call, mem, calls)

-----------------------------------------------------------------------------
(* Calls that read.                                                        *)

LoadWorkspaceGraph(mem, w) == Get(mem, "workspace_graphs", w)

(* The nodes as a set: they come in the order of their list, which is one  *)
(* of the orders that their ranks may stand for (Session.tla).             *)
LoadTaskGraph(mem, g) == Get(mem, "task_graphs", g)

LoadRun(mem, run) == Get(mem, "runs", run)
ListRunNodeStates(mem, run) == OfRun(mem, "run_node_states", run)
ListTaskEdges(mem, g) == {e \in Rows(mem, "task_edges") : e.graph = g}
ListWorkspaceEdges(mem, w) == {e \in Rows(mem, "workspace_edges") : e.workspace = w}

LoadWorkspaceEdgesForTask(mem, g) ==
  LET graph == LoadTaskGraph(mem, g)
      ids   == {g, graph.goal} \cup {n.id : n \in graph.nodes}
  IN {e \in ListWorkspaceEdges(mem, graph.workspace) : e.from \in ids \/ e.to \in ids}

LoadArtifact(mem, a) == Get(mem, "artifacts", a)
ListArtifacts(mem, run) == OfRun(mem, "artifacts", run)

LoadActiveGoal(mem, w) ==
  LET active == {g \in Rows(mem, "goals") : g.workspace = w /\ g.status = "active"}
  IN IF active = {} THEN None
     ELSE CHOOSE g \in active : \A h \in active : h.updated <= g.updated

ListCheckpoints(mem, run) == OfRun(mem, "checkpoints", run)
ListToolCalls(mem, run) == OfRun(mem, "tool_calls", run)
ListModelCalls(mem, run) == OfRun(mem, "model_calls", run)
ListMemoryItems(mem, w) == {m \in Rows(mem, "memory_items") : m.workspace = w}

FewShotGraphs(mem, w) == {e.id : e \in {x \in ToSet(mem.few_shots) : x.workspace = w}}

FindCachedArtifact(mem, key, inputs) ==
  IF <<key, inputs>> \in DOMAIN mem.artifact_cache
    THEN LoadArtifact(mem, mem.artifact_cache[<<key, inputs>>]) ELSE None

(* InMemoryEmbeddingStore.has_embedding                                    *)
HasEmbedding(mem, owner) == \E e \in Rows(mem, "embeddings") : e.owner = owner

(* search_similar: only what was attached is found.                        *)
SearchSimilar(mem, w) ==
  {m \in Rows(mem, "items") : m.workspace = w /\ HasEmbedding(mem, m.id)}

(* query_run (analysis/run.py): what the reads above say of a run.         *)
QueryRun(mem, run) ==
  LET r == LoadRun(mem, run)
      g == LoadTaskGraph(mem, r.graph)
  IN [workspace       |-> LoadWorkspaceGraph(mem, r.workspace),
      task_graph      |-> g,
      run             |-> r,
      task_edges      |-> ListTaskEdges(mem, g.id),
      workspace_edges |-> LoadWorkspaceEdgesForTask(mem, g.id),
      node_states     |-> ListRunNodeStates(mem, run),
      artifacts       |-> ListArtifacts(mem, run),
      tool_calls      |-> ListToolCalls(mem, run),
      model_calls     |-> ListModelCalls(mem, run),
      checkpoints     |-> ListCheckpoints(mem, run)]
=============================================================================
