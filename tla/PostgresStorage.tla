--------------------------- MODULE PostgresStorage ---------------------------
(***************************************************************************)
(* PostgresStorage (storage/postgres.py): what each call of the Storage    *)
(* protocol does to the tables of 001_initial.sql, and what it answers.    *)
(* A table is a set of rows, which are records with their key as id; a     *)
(* list that is answered is the set of its rows, which carry created_at    *)
(* (at) where it is sorted.  raised says that a call has raised.           *)
(***************************************************************************)
EXTENDS Naturals, Sequences, FiniteSets, SequencesExt

CONSTANT None

Table == {"workspace_graphs", "task_graphs", "nodes", "task_edges", "workspace_edges",
          "runs", "run_node_states", "artifacts", "goals", "checkpoints", "tool_calls",
          "model_calls", "memory_items", "compilation_failures", "embeddings"}

(* A database after run_migrations.                                        *)
Created == [t \in Table \cup {"raised"} |-> IF t = "raised" THEN FALSE ELSE {}]

Raise(db) == [db EXCEPT !.raised = TRUE]

Has(db, table, id) == \E r \in db[table] : r.id = id

(* INSERT ... ON CONFLICT DO NOTHING                                       *)
Insert(db, table, row) ==
  IF Has(db, table, row.id) THEN db ELSE [db EXCEPT ![table] = @ \cup {row}]

(* The same into a table whose rows reference a row of another one.        *)
InsertChild(db, table, row, parent, id) ==
  IF Has(db, parent, id) THEN Insert(db, table, row) ELSE Raise(db)

(* UPDATE ... WHERE id = ...: no row, no effect.                           *)
Update(db, table, row) ==
  [db EXCEPT ![table] = {IF r.id = row.id THEN row ELSE r : r \in @}]

(* _get_row, which raises when there is none.                              *)
Get(db, table, id) ==
  IF Has(db, table, id) THEN CHOOSE r \in db[table] : r.id = id ELSE None

OfRun(db, table, run) == {r \in db[table] : r.run = run}
OfGraph(db, table, g) == {r \in db[table] : r.graph = g}

-----------------------------------------------------------------------------
(* Calls that write.                                                       *)

CreateWorkspaceGraph(db, w) == Insert(db, "workspace_graphs", w)

(* One transaction: the graph and those of its nodes and edges that have   *)
(* no row yet.  A row of task_graphs is never changed.                     *)
PersistTaskGraph(db, g) ==
  LET row == [id |-> g.id, workspace |-> g.workspace, goal |-> g.goal, intent |-> g.intent]
      new(table, rows) == {r \in rows : ~Has(db, table, r.id)}
  IN IF ~Has(db, "workspace_graphs", g.workspace) THEN Raise(db)
     ELSE [Insert(db, "task_graphs", row) EXCEPT
             !["nodes"] = @ \cup new("nodes", g.nodes),
             !["task_edges"] = @ \cup new("task_edges", g.edges)]

(* A run is in the workspace of its graph, which is there if the graph is. *)
CreateRun(db, run) == InsertChild(db, "runs", run, "task_graphs", run.graph)
UpdateRun(db, run) == Update(db, "runs", run)

CreateRunNodeState(db, s) == InsertChild(db, "run_node_states", s, "runs", s.run)
UpdateRunNodeState(db, s) == Update(db, "run_node_states", s)

PersistTaskEdge(db, e) == InsertChild(db, "task_edges", e, "task_graphs", e.graph)
PersistWorkspaceEdge(db, e) == Insert(db, "workspace_edges", e)

PersistArtifact(db, a) == InsertChild(db, "artifacts", a, "runs", a.run)

PersistGoal(db, g) == Insert(db, "goals", g)
UpdateGoal(db, g) == Update(db, "goals", g)

PersistCheckpoint(db, c) == InsertChild(db, "checkpoints", c, "runs", c.run)
PersistToolCall(db, c) == InsertChild(db, "tool_calls", c, "runs", c.run)
PersistModelCall(db, c) == InsertChild(db, "model_calls", c, "runs", c.run)

PersistMemoryItem(db, m) == Insert(db, "memory_items", m)

(* The id is a bigserial.                                                  *)
PersistCompilationFailure(db, f) ==
  Insert(db, "compilation_failures", f @@ [id |-> Cardinality(db.compilation_failures) + 1])

(* PostgresEmbeddingStore.persist                                          *)
PersistEmbedding(db, e) == Insert(db, "embeddings", e)

(* A call is its name and its argument.  The store has no attach_item, so  *)
(* the caller leaves it out.                                               *)
Call(db, c) ==
  CASE c.op = "create_workspace_graph"      -> CreateWorkspaceGraph(db, c.row)
    [] c.op = "persist_task_graph"          -> PersistTaskGraph(db, c.row)
    [] c.op = "create_run"                  -> CreateRun(db, c.row)
    [] c.op = "update_run"                  -> UpdateRun(db, c.row)
    [] c.op = "create_run_node_state"       -> CreateRunNodeState(db, c.row)
    [] c.op = "update_run_node_state"       -> UpdateRunNodeState(db, c.row)
    [] c.op = "persist_task_edge"           -> PersistTaskEdge(db, c.row)
    [] c.op = "persist_workspace_edge"      -> PersistWorkspaceEdge(db, c.row)
    [] c.op = "persist_artifact"            -> PersistArtifact(db, c.row)
    [] c.op = "persist_goal"                -> PersistGoal(db, c.row)
    [] c.op = "update_goal"                 -> UpdateGoal(db, c.row)
    [] c.op = "persist_checkpoint"          -> PersistCheckpoint(db, c.row)
    [] c.op = "persist_tool_call"           -> PersistToolCall(db, c.row)
    [] c.op = "persist_model_call"          -> PersistModelCall(db, c.row)
    [] c.op = "persist_memory_item"         -> PersistMemoryItem(db, c.row)
    [] c.op = "persist_compilation_failure" -> PersistCompilationFailure(db, c.row)
    [] c.op = "persist_embedding"           -> PersistEmbedding(db, c.row)
    [] c.op = "attach_item"                 -> db

(* The calls of a sequence, one after another.                             *)
After(db, calls) == FoldLeft(Call, db, calls)

-----------------------------------------------------------------------------
(* Calls that read.                                                        *)

LoadWorkspaceGraph(db, w) == Get(db, "workspace_graphs", w)

(* The nodes as a set: ORDER BY id, which is random, puts them in one of   *)
(* the orders that their ranks may stand for (Session.tla).                *)
LoadTaskGraph(db, g) ==
  LET r == Get(db, "task_graphs", g)
  IN IF ~Has(db, "task_graphs", g) THEN None
     ELSE [id |-> r.id, workspace |-> r.workspace, goal |-> r.goal, intent |-> r.intent,
           nodes |-> OfGraph(db, "nodes", g), edges |-> OfGraph(db, "task_edges", g)]

LoadRun(db, run) == Get(db, "runs", run)
ListRunNodeStates(db, run) == OfRun(db, "run_node_states", run)
ListTaskEdges(db, g) == OfGraph(db, "task_edges", g)

ListWorkspaceEdges(db, w) == {e \in db.workspace_edges : e.workspace = w}

LoadWorkspaceEdgesForTask(db, g) ==
  LET graph == LoadTaskGraph(db, g)
      ids   == {g, graph.goal} \cup {n.id : n \in graph.nodes}
  IN {e \in db.workspace_edges :
        e.workspace = graph.workspace /\ (e.from \in ids \/ e.to \in ids)}

LoadArtifact(db, a) == Get(db, "artifacts", a)
ListArtifacts(db, run) == OfRun(db, "artifacts", run)

(* ORDER BY updated_at DESC LIMIT 1                                        *)
LoadActiveGoal(db, w) ==
  LET active == {g \in db.goals : g.workspace = w /\ g.status = "active"}
  IN IF active = {} THEN None
     ELSE CHOOSE g \in active : \A h \in active : h.updated <= g.updated

ListCheckpoints(db, run) == OfRun(db, "checkpoints", run)
ListToolCalls(db, run) == OfRun(db, "tool_calls", run)
ListModelCalls(db, run) == OfRun(db, "model_calls", run)

ListMemoryItems(db, w) == {m \in db.memory_items : m.workspace = w}

(* The examples that are offered to the ranking: every graph is one.       *)
FewShotGraphs(db, w) == {g.id : g \in {h \in db.task_graphs : h.workspace = w}}

(* The newest artifact with the key and the same inputs.  A copy has the   *)
(* created_at of its original, and their contents are the same.            *)
FindCachedArtifact(db, key, inputs) ==
  LET hits == {a \in db.artifacts : a.key = key /\ a.inputs = inputs}
  IN IF hits = {} THEN None
     ELSE CHOOSE a \in hits : \A b \in hits : b.at <= a.at

(* PostgresEmbeddingStore.has_embedding, for owners whose text never       *)
(* changes.                                                                *)
HasEmbedding(db, owner) == \E e \in db.embeddings : e.owner = owner

(* search_similar for the memory items of a workspace, before the ranking. *)
SearchSimilar(db, w) == {m \in ListMemoryItems(db, w) : HasEmbedding(db, m.id)}

(* query_run (analysis/run.py): what the reads above say of a run.         *)
QueryRun(db, run) ==
  LET r == LoadRun(db, run)
      g == LoadTaskGraph(db, r.graph)
  IN [workspace       |-> LoadWorkspaceGraph(db, r.workspace),
      task_graph      |-> g,
      run             |-> r,
      task_edges      |-> ListTaskEdges(db, g.id),
      workspace_edges |-> LoadWorkspaceEdgesForTask(db, g.id),
      node_states     |-> ListRunNodeStates(db, run),
      artifacts       |-> ListArtifacts(db, run),
      tool_calls      |-> ListToolCalls(db, run),
      model_calls     |-> ListModelCalls(db, run),
      checkpoints     |-> ListCheckpoints(db, run)]
=============================================================================
