----------------------------- MODULE RunExecutor -----------------------------
(***************************************************************************)
(* The synchronous task-graph executor: Executor.execute and               *)
(* Executor._execute_node (llmasm/runtime/executor.py) with the Scheduler  *)
(* they call (llmasm/runtime/scheduler.py), for several runs of one task   *)
(* graph.  A run has its own rows in storage; the artifact cache is shared *)
(* by all of them, so it is the state through which two runs meet.         *)
(*                                                                         *)
(* Every storage call whose effect anything reads again is a step of its   *)
(* own: the Postgres connection is in autocommit mode, so a process that   *)
(* dies between two calls leaves the first one persisted, and other runs   *)
(* go on between any two.  The rows a handler writes for the record only   *)
(* (tool calls, prompt artifacts, model calls) belong to the step of the   *)
(* call.  phase[r] is the place execute has reached; todo, seen, inputs    *)
(* and result are locals of execute and of what it calls; the other        *)
(* variables are rows in storage.                                          *)
(***************************************************************************)
EXTENDS Naturals, Sequences, FiniteSets

CONSTANTS
  Run,            \* run ids
  Node,           \* node ids
  Port,           \* input port names
  Branch,         \* labels a router may answer or an edge may carry
  Found,          \* the default_branch of a deterministic router
  Missing,        \* the not_found_branch of a deterministic router
  Text,           \* contents of ordinary artifacts
  Empty,          \* RawText(text=""), what a final node without input answers
  Detail,         \* the detail text of a NotFound value
  NotFound,       \* the content of an artifact that holds a NotFound value
  None,           \* Python's None: no value, no label, no row
  Graphs,         \* the task graphs a behaviour may start from
  MaxExecutions,  \* how often execute is called on one run
  MaxCrashes      \* how often a process dies

(* Nodes of kind expand change the graph; Expansion.tla adds their steps.  *)
Kind == {"intent", "tool", "model", "compress", "router", "final", "expand", "unsupported"}

(* The Node and TaskEdge rows of a graph, as far as the executor reads     *)
(* them.  free[n]: the node is a router in model mode (any label may be    *)
(* answered), otherwise a router is deterministic.  literal[n] is what an  *)
(* intent node's payload validates to.  rank is the order of graph.nodes:  *)
(* insertion order in memory, the order of the random ids in Postgres.     *)
Edge == [from : Node, to : Node, port : Port, required : BOOLEAN,
         branch : Branch \cup {None}]

TaskGraph == [nodes : SUBSET Node, edges : SUBSET Edge, kind : [Node -> Kind],
              free : [Node -> BOOLEAN], allowCache : [Node -> BOOLEAN],
              literal : [Node -> Text \cup {NotFound}], rank : [Node -> Nat]]

(* validate_acyclic accepts exactly the graphs in which every nonempty set *)
(* of nodes has a member without an upstream node in the set.              *)
Acyclic(g) == \A S \in SUBSET g.nodes :
                S # {} => \E n \in S : \A e \in g.edges : e.to = n => e.from \notin S

Closed(g) == \A e \in g.edges : e.from \in g.nodes /\ e.to \in g.nodes

Content == Text \cup Branch \cup {Empty, Detail, NotFound}

ASSUME GraphsAssumption ==
  \A g \in Graphs : g \in TaskGraph /\ Closed(g) /\ Acyclic(g)
ASSUME LabelAssumption == Found \in Branch /\ Missing \in Branch
ASSUME NoneAssumption == None \notin Content /\ None \notin Node
ASSUME BoundAssumption == MaxExecutions \in Nat /\ MaxCrashes \in Nat

VARIABLES
  graph,           \* the task graph the runs execute
  runStatus,       \* Run.status
  programCounter,  \* Run.program_counter_node_id
  nodeStatus,      \* RunNodeState.status, "absent" for a row not created yet
  attempts,        \* RunNodeState.attempts
  notFound,        \* RunNodeState.metadata["not_found"]
  selected,        \* RunNodeState.metadata["selected_branch"]
  output,          \* content of the artifact in output_artifact_ids, or None
  checkpoints,     \* Checkpoint rows of the run, oldest first
  cache,           \* artifacts persisted with a cache key
  phase,           \* where execute(run) stands
  todo,            \* nodes that still get a row in _ensure_node_states
  seen,            \* the edges next_node read when it was called
  inputs,          \* the input hashes _gather_inputs collected
  result,          \* the artifact that is not yet in the row
  executions,      \* calls of execute so far
  crashes          \* processes that died so far

rowVars  == <<nodeStatus, attempts, notFound, selected, output>>
runVars  == <<runStatus, programCounter>>
envVars  == <<graph, executions, crashes>>
locals   == <<todo, seen, inputs>>
vars     == <<graph, runStatus, programCounter, nodeStatus, attempts, notFound,
              selected, output, checkpoints, cache, phase, todo, seen, inputs, result,
              executions, crashes>>

RunStatus  == {"pending", "running", "succeeded", "failed"}
NodeStatus == {"absent", "pending", "running", "succeeded", "expanded", "failed",
               "retryable", "skipped"}
Phase == {"idle", "ensuring", "scheduling", "choosing", "dispatched", "entering", "running",
          "gathered", "hit", "invoking", "answered", "persisted", "reused", "marked",
          "fatal", "retryable", "error", "nodeFailed"}

Checkpoint == [pc : Node, completed : SUBSET Node, failed : SUBSET Node]

-----------------------------------------------------------------------------
(* What the scheduler reads.  next_node reads the edges once and decides   *)
(* readiness and transitive pruning from them; the two checks of a single  *)
(* node read its edges again.                                              *)

Incoming(n) == {e \in graph.edges : e.to = n}

Upstream(r, n) == {e \in seen[r] : e.to = n}

(* Seeded fault: an expanded node holds its downstream nodes up.           *)
CompleteFault2 == {"succeeded", "skipped"}

(* Seeded fault: only success lets a downstream node run.                  *)
CompleteFault == {"succeeded", "expanded"}

(* The statuses that let a downstream node run.                            *)
Complete == {"succeeded", "expanded", "skipped"}

(* Scheduler._blocked_by_not_found: only nodes of kind model.              *)
BlockedByNotFound(r, n, es) ==
  /\ graph.kind[n] = "model"
  /\ \E e \in es : e.to = n /\ notFound[r][e.from]

(* Scheduler._blocked_by_router: any edge from a finished router with      *)
(* another label than the selected one.                                    *)
BlockedByRouter(r, n, es) ==
  \E e \in es :
    /\ e.to = n
    /\ graph.kind[e.from] = "router"
    /\ nodeStatus[r][e.from] = "succeeded"
    /\ e.branch # None
    /\ selected[r][e.from] # None
    /\ e.branch # selected[r][e.from]

(* Seeded fault: one skipped upstream node is enough.                      *)
AllUpstreamSkippedFault(r, n) ==
  \E e \in Upstream(r, n) : nodeStatus[r][e.from] = "skipped"

(* Scheduler._all_upstream_skipped: transitive pruning.                    *)
AllUpstreamSkipped(r, n) ==
  /\ Upstream(r, n) # {}
  /\ \A e \in Upstream(r, n) : nodeStatus[r][e.from] = "skipped"

(* A reason to skip n, when the checks that read the edges again find es.  *)
Skippable(r, n, es) ==
  /\ n \in graph.nodes
  /\ nodeStatus[r][n] = "pending"
  /\ BlockedByNotFound(r, n, es) \/ BlockedByRouter(r, n, es) \/ AllUpstreamSkipped(r, n)

(* Seeded fault: one finished upstream node is enough.                     *)
ReadyFault(r, n) ==
  /\ n \in graph.nodes
  /\ nodeStatus[r][n] = "pending"
  /\ Upstream(r, n) = {} \/ \E e \in Upstream(r, n) : nodeStatus[r][e.from] \in Complete

Ready(r, n) ==
  /\ n \in graph.nodes
  /\ nodeStatus[r][n] = "pending"
  /\ \A e \in Upstream(r, n) : nodeStatus[r][e.from] \in Complete

(* Seeded fault: a node is chosen before the skips have settled.           *)
StableFault(r) == r \in Run

(* Phase 1 of next_node has reached its fixpoint: no node left to skip.    *)
(* An edge another run draws after the check of its node is not noticed.   *)
Stable(r) == \A n \in Node : ~ Skippable(r, n, seen[r])

(* Scheduler.terminal_succeeded                                            *)
TerminalSucceeded(r) ==
  \E n \in graph.nodes : graph.kind[n] = "final" /\ nodeStatus[r][n] = "succeeded"

(* Seeded fault: the loop stops at the first final answer.                 *)
NoneReadyFault(r) == TerminalSucceeded(r) \/ \A n \in Node : ~ Ready(r, n)

NoneReady(r) == \A n \in Node : ~ Ready(r, n)

(* Any PENDING row of the run, also one whose node is not in the graph.    *)
HasPending(r) == \E n \in Node : nodeStatus[r][n] = "pending"

-----------------------------------------------------------------------------
(* What _gather_inputs collects.  Edges from routers are control only; an  *)
(* upstream node without output delivers nothing.                          *)

DataEdges(n) == {e \in Incoming(n) : graph.kind[e.from] # "router"}

Delivering(r, n) == {e \in DataEdges(n) : output[r][e.from] # None}

MissingRequired(r, n) ==
  \E e \in DataEdges(n) :
    /\ output[r][e.from] = None
    /\ e.required
    /\ nodeStatus[r][e.from] # "skipped"

(* input_artifact_ids: one content hash per delivering edge.  The cache    *)
(* compares the sorted list, so the ports are forgotten.                   *)
InputBag(r, n) ==
  [c \in Content |-> Cardinality({e \in Delivering(r, n) : output[r][e.from] = c})]

(* The artifacts with the cache key of the node and the inputs gathered.   *)
(* Runs that miss at the same time leave several.                          *)
Cached(r) == {a \in cache : a.node = programCounter[r] /\ a.inputs = inputs[r]}

(* Seeded fault: NotFound answers are not kept for reuse.                  *)
StoreFault(a) == IF a.content = NotFound THEN cache ELSE cache \cup {a}

Store(a) == cache \cup {a}

(* The node's output with its cache key.                                   *)
Artifact(r) == [node |-> programCounter[r], inputs |-> inputs[r], content |-> result[r]]

-----------------------------------------------------------------------------
Init ==
  /\ graph \in Graphs
  /\ runStatus = [r \in Run |-> "pending"]
  /\ programCounter = [r \in Run |-> None]
  /\ nodeStatus = [r \in Run |-> [n \in Node |-> "absent"]]
  /\ attempts = [r \in Run |-> [n \in Node |-> 0]]
  /\ notFound = [r \in Run |-> [n \in Node |-> FALSE]]
  /\ selected = [r \in Run |-> [n \in Node |-> None]]
  /\ output = [r \in Run |-> [n \in Node |-> None]]
  /\ checkpoints = [r \in Run |-> <<>>]
  /\ cache = {}
  /\ phase = [r \in Run |-> "idle"]
  /\ todo = [r \in Run |-> {}]
  /\ seen = [r \in Run |-> {}]
  /\ inputs = [r \in Run |-> [c \in Content |-> 0]]
  /\ result = [r \in Run |-> None]
  /\ executions = [r \in Run |-> 0]
  /\ crashes = 0

GoTo(r, p) == phase' = [phase EXCEPT ![r] = p]

SetStatus(r, n, s) == nodeStatus' = [nodeStatus EXCEPT ![r][n] = s]

SetRunStatus(r, s) == runStatus' = [runStatus EXCEPT ![r] = s]

(* execute loads the graph and lists the rows of the run: the nodes that   *)
(* have none will get one.  A caller may execute a run again, whatever     *)
(* state an earlier call left it in.                                       *)
Execute(r) ==
  /\ phase[r] = "idle"
  /\ executions[r] < MaxExecutions
  /\ executions' = [executions EXCEPT ![r] = @ + 1]
  /\ todo' = [todo EXCEPT ![r] = {n \in graph.nodes : nodeStatus[r][n] = "absent"}]
  /\ GoTo(r, "ensuring")
  /\ UNCHANGED <<graph, crashes, rowVars, runVars, checkpoints, cache, seen, inputs, result>>

(* One row of Executor._ensure_node_states, in the order of graph.nodes.   *)
CreateRow(r, n) ==
  /\ phase[r] = "ensuring"
  /\ n \in todo[r]
  /\ \A m \in todo[r] : graph.rank[n] <= graph.rank[m]
  /\ SetStatus(r, n, "pending")
  /\ todo' = [todo EXCEPT ![r] = @ \ {n}]
  /\ UNCHANGED <<envVars, runVars, attempts, notFound, selected, output, checkpoints,
                 cache, phase, seen, inputs, result>>

(* The last call before the loop: the run is saved as RUNNING.             *)
MarkRunning(r) ==
  /\ phase[r] = "ensuring"
  /\ todo[r] = {}
  /\ SetRunStatus(r, "running")
  /\ GoTo(r, "scheduling")
  /\ UNCHANGED <<envVars, rowVars, programCounter, checkpoints, cache, locals, result>>

(* Seeded fault: the edges of the first call are kept.                     *)
LookFault(r) ==
  /\ phase[r] = "scheduling"
  /\ seen' = [seen EXCEPT ![r] = IF @ = {} THEN graph.edges ELSE @]
  /\ GoTo(r, "choosing")
  /\ UNCHANGED <<envVars, rowVars, runVars, checkpoints, cache, todo, inputs, result>>

(* next_node is called and reads the graph.  A node that another run adds  *)
(* between its reads of nodes and edges has no row and is passed over.     *)
Look(r) ==
  /\ phase[r] = "scheduling"
  /\ seen' = [seen EXCEPT ![r] = graph.edges]
  /\ GoTo(r, "choosing")
  /\ UNCHANGED <<envVars, rowVars, runVars, checkpoints, cache, todo, inputs, result>>

(* Seeded fault: the skipped row is not saved.                             *)
SkipFault(r, n) ==
  /\ phase[r] = "choosing"
  /\ Skippable(r, n, graph.edges)
  /\ UNCHANGED vars

(* One skip of phase 1 of next_node.  The order within a pass is that of   *)
(* graph.nodes; skips only ever enable more skips, so the fixpoint is the  *)
(* same for every order.                                                   *)
Skip(r, n) ==
  /\ phase[r] = "choosing"
  /\ Skippable(r, n, graph.edges)
  /\ SetStatus(r, n, "skipped")
  /\ UNCHANGED <<envVars, runVars, attempts, notFound, selected, output,
                 checkpoints, cache, phase, locals, result>>

(* Seeded fault: the counter is not set before the checkpoint.             *)
DispatchFault(r, n) ==
  /\ phase[r] = "choosing"
  /\ Stable(r)
  /\ Ready(r, n)
  /\ GoTo(r, "dispatched")
  /\ UNCHANGED <<envVars, rowVars, runVars, checkpoints, cache, locals, result>>

(* Phase 2 of next_node, then the program counter is moved and saved.      *)
Dispatch(r, n) ==
  /\ phase[r] = "choosing"
  /\ Stable(r)
  /\ Ready(r, n)
  /\ \A m \in Node : Ready(r, m) => graph.rank[n] <= graph.rank[m]
  /\ programCounter' = [programCounter EXCEPT ![r] = n]
  /\ GoTo(r, "dispatched")
  /\ UNCHANGED <<envVars, rowVars, runStatus, checkpoints, cache, locals, result>>

(* next_node returned None and some final node succeeded.                  *)
FinishTerminal(r) ==
  /\ phase[r] = "choosing"
  /\ Stable(r) /\ NoneReady(r)
  /\ TerminalSucceeded(r)
  /\ SetRunStatus(r, "succeeded")
  /\ GoTo(r, "idle")
  /\ UNCHANGED <<envVars, rowVars, programCounter, checkpoints, cache, locals, result>>

(* next_node returned None, no final node succeeded, nodes are pending:    *)
(* the run is failed and ExecutionError("Run stalled ...") raised.         *)
FinishStalled(r) ==
  /\ phase[r] = "choosing"
  /\ Stable(r) /\ NoneReady(r)
  /\ ~ TerminalSucceeded(r)
  /\ HasPending(r)
  /\ SetRunStatus(r, "failed")
  /\ GoTo(r, "idle")
  /\ UNCHANGED <<envVars, rowVars, programCounter, checkpoints, cache, locals, result>>

(* Seeded fault: a drained run is failed.                                  *)
FinishDrainedFault(r) ==
  /\ phase[r] = "choosing"
  /\ Stable(r) /\ NoneReady(r)
  /\ ~ TerminalSucceeded(r)
  /\ ~ HasPending(r)
  /\ SetRunStatus(r, "failed")
  /\ GoTo(r, "idle")
  /\ UNCHANGED <<envVars, rowVars, programCounter, checkpoints, cache, locals, result>>

(* next_node returned None, no final node succeeded, nothing is pending.   *)
FinishDrained(r) ==
  /\ phase[r] = "choosing"
  /\ Stable(r) /\ NoneReady(r)
  /\ ~ TerminalSucceeded(r)
  /\ ~ HasPending(r)
  /\ SetRunStatus(r, "succeeded")
  /\ GoTo(r, "idle")
  /\ UNCHANGED <<envVars, rowVars, programCounter, checkpoints, cache, locals, result>>

(* Executor._checkpoint                                                    *)
Snapshot(r) ==
  [pc |-> programCounter[r],
   completed |-> {n \in Node : nodeStatus[r][n] = "succeeded"},
   failed |-> {n \in Node : nodeStatus[r][n] = "failed"}]

SaveCheckpoint(r, from, to) ==
  /\ phase[r] = from
  /\ checkpoints' = [checkpoints EXCEPT ![r] = Append(@, Snapshot(r))]
  /\ GoTo(r, to)
  /\ UNCHANGED <<envVars, rowVars, runVars, cache, locals, result>>

CheckpointBefore(r) == SaveCheckpoint(r, "dispatched", "entering")

(* Seeded fault: no checkpoint after a node.                               *)
CheckpointAfterFault(r) ==
  /\ phase[r] = "marked"
  /\ GoTo(r, "scheduling")
  /\ UNCHANGED <<envVars, rowVars, runVars, checkpoints, cache, locals, result>>

CheckpointAfter(r) == SaveCheckpoint(r, "marked", "scheduling")

(* Seeded fault: the attempt is counted, the RUNNING row not saved.        *)
BeginFault(r) ==
  /\ phase[r] = "entering"
  /\ attempts' = [attempts EXCEPT ![r][programCounter[r]] = @ + 1]
  /\ GoTo(r, "running")
  /\ UNCHANGED <<envVars, runVars, nodeStatus, notFound, selected, output, checkpoints,
                 cache, locals, result>>

(* The first lines of _execute_node: the row is saved as RUNNING.          *)
Begin(r) ==
  LET n == programCounter[r] IN
  /\ phase[r] = "entering"
  /\ SetStatus(r, n, "running")
  /\ attempts' = [attempts EXCEPT ![r][n] = @ + 1]
  /\ GoTo(r, "running")
  /\ UNCHANGED <<envVars, runVars, notFound, selected, output, checkpoints, cache, locals, result>>

(* _gather_inputs raises: a required input is missing, or an input cannot  *)
(* be converted to the schema or by the transform of its edge.             *)
GatherFails(r) ==
  LET n == programCounter[r] IN
  /\ phase[r] = "running"
  /\ MissingRequired(r, n) \/ Delivering(r, n) # {}
  /\ GoTo(r, "error")
  /\ UNCHANGED <<envVars, rowVars, runVars, checkpoints, cache, locals, result>>

(* All inputs are there and converted.                                     *)
Gather(r) ==
  LET n == programCounter[r] IN
  /\ phase[r] = "running"
  /\ ~ MissingRequired(r, n)
  /\ inputs' = [inputs EXCEPT ![r] = InputBag(r, n)]
  /\ GoTo(r, IF graph.allowCache[n] THEN "gathered" ELSE "invoking")
  /\ UNCHANGED <<envVars, rowVars, runVars, checkpoints, cache, todo, seen, result>>

(* find_cached_artifact.  Of several artifacts with the key, memory has    *)
(* the one persisted last and Postgres the one created last; a copy keeps  *)
(* the time its original was created, so any of them may be found.         *)
CacheHit(r) ==
  /\ phase[r] = "gathered"
  /\ \E a \in Cached(r) : result' = [result EXCEPT ![r] = a.content]
  /\ GoTo(r, "hit")
  /\ UNCHANGED <<envVars, rowVars, runVars, checkpoints, cache, locals>>

CacheMiss(r) ==
  /\ phase[r] = "gathered"
  /\ Cached(r) = {}
  /\ GoTo(r, "invoking")
  /\ UNCHANGED <<envVars, rowVars, runVars, checkpoints, cache, locals, result>>

(* The artifact found is copied under a new id and persisted.  The copy    *)
(* keeps the metadata of the original, its cache key among them.           *)
Reuse(r) ==
  /\ phase[r] = "hit"
  /\ cache' = Store(Artifact(r))
  /\ GoTo(r, "reused")
  /\ UNCHANGED <<envVars, rowVars, runVars, checkpoints, locals, result>>

(* The outputs _invoke can return for a node, by kind.  A tool node        *)
(* without inputs raises; a model whose output_schema is NotFound answers  *)
(* one; a final node passes one of its inputs on; a deterministic router   *)
(* tests one of its inputs for NotFound.                                   *)
Inputs(r) == {c \in Content : inputs[r][c] > 0}

FinalText(c) == IF c = NotFound THEN Detail ELSE c

Outputs(r, n) ==
  CASE graph.kind[n] = "intent" -> {graph.literal[n]}
    [] graph.kind[n] = "tool" -> IF Inputs(r) = {} THEN {} ELSE Text \cup {NotFound}
    [] graph.kind[n] \in {"model", "compress"} -> Text \cup {NotFound}
    [] graph.kind[n] = "final" -> IF Inputs(r) = {} THEN {Empty} ELSE {FinalText(c) : c \in Inputs(r)}
    [] graph.kind[n] = "router" ->
         IF graph.free[n] THEN Branch
         ELSE IF Inputs(r) = {} THEN {Found}
              ELSE {IF c = NotFound THEN Missing ELSE Found : c \in Inputs(r)}
    [] OTHER -> {}

(* The tool, the model or the handler in the executor returned c.          *)
Invoke(r, c) ==
  /\ phase[r] = "invoking"
  /\ c \in Outputs(r, programCounter[r])
  /\ result' = [result EXCEPT ![r] = c]
  /\ GoTo(r, "answered")
  /\ UNCHANGED <<envVars, rowVars, runVars, checkpoints, cache, locals>>

(* It raised instead.  RetryableError and FatalError come from tools and   *)
(* providers; every other exception is an "error".                         *)
CallsOut(n) == \/ graph.kind[n] \in {"tool", "model", "compress"}
               \/ (graph.kind[n] = "router" /\ graph.free[n])

Raises(n) == IF CallsOut(n) THEN {"fatal", "retryable", "error"}
             ELSE IF graph.kind[n] \in {"intent", "expand", "unsupported"} THEN {"error"} ELSE {}

InvokeRaises(r, p) ==
  /\ phase[r] = "invoking"
  /\ p \in Raises(programCounter[r])
  /\ GoTo(r, p)
  /\ UNCHANGED <<envVars, rowVars, runVars, checkpoints, cache, locals, result>>

(* The output is persisted, with the cache key if the node is cacheable:   *)
(* reusable at once, before the row says SUCCEEDED.                        *)
PersistOutput(r) ==
  /\ phase[r] = "answered"
  /\ cache' = IF graph.allowCache[programCounter[r]] THEN Store(Artifact(r)) ELSE cache
  /\ GoTo(r, "persisted")
  /\ UNCHANGED <<envVars, rowVars, runVars, checkpoints, locals, result>>

(* embed_and_persist raised after the output artifact had been persisted.  *)
EmbedRaises(r, p) ==
  /\ phase[r] = "persisted"
  /\ graph.kind[programCounter[r]] \in {"model", "compress"}
  /\ p \in {"fatal", "retryable", "error"}
  /\ result' = [result EXCEPT ![r] = None]
  /\ GoTo(r, p)
  /\ UNCHANGED <<envVars, rowVars, runVars, checkpoints, cache, locals>>

(* Seeded fault: EXPANDED is overwritten.                                  *)
MarkSucceededFault(r) ==
  LET n == programCounter[r] IN
  /\ phase[r] = "persisted"
  /\ SetStatus(r, n, "succeeded")
  /\ output' = [output EXCEPT ![r][n] = result[r]]
  /\ result' = [result EXCEPT ![r] = None]
  /\ GoTo(r, "marked")
  /\ UNCHANGED <<envVars, runVars, attempts, notFound, selected, checkpoints, cache, locals>>

(* Executor._mark_succeeded after an invocation, with the metadata that    *)
(* steers the scheduler.                                                   *)
MarkSucceeded(r) ==
  LET n == programCounter[r]
      c == result[r]
  IN
  /\ phase[r] = "persisted"
  /\ SetStatus(r, n, IF nodeStatus[r][n] = "expanded" THEN "expanded" ELSE "succeeded")
  /\ output' = [output EXCEPT ![r][n] = c]
  /\ notFound' = [notFound EXCEPT ![r][n] = @ \/ c = NotFound]
  /\ selected' = IF graph.kind[n] = "router" THEN [selected EXCEPT ![r][n] = c] ELSE selected
  /\ result' = [result EXCEPT ![r] = None]
  /\ GoTo(r, "marked")
  /\ UNCHANGED <<envVars, runVars, attempts, checkpoints, cache, locals>>

(* Executor._mark_succeeded after a cache hit: the metadata is only        *)
(* {"cache_hit": True}, neither not_found nor selected_branch.             *)
MarkReused(r) ==
  LET n == programCounter[r] IN
  /\ phase[r] = "reused"
  /\ SetStatus(r, n, "succeeded")
  /\ output' = [output EXCEPT ![r][n] = result[r]]
  /\ result' = [result EXCEPT ![r] = None]
  /\ GoTo(r, "marked")
  /\ UNCHANGED <<envVars, runVars, attempts, notFound, selected, checkpoints, cache, locals>>

(* except FatalError: the node is marked, the exception propagates.        *)
HandleFatal(r) ==
  /\ phase[r] = "fatal"
  /\ SetStatus(r, programCounter[r], "failed")
  /\ GoTo(r, "idle")
  /\ UNCHANGED <<envVars, runVars, attempts, notFound, selected, output, checkpoints,
                 cache, locals, result>>

(* except RetryableError: likewise.                                        *)
HandleRetryable(r) ==
  /\ phase[r] = "retryable"
  /\ SetStatus(r, programCounter[r], "retryable")
  /\ GoTo(r, "idle")
  /\ UNCHANGED <<envVars, runVars, attempts, notFound, selected, output, checkpoints,
                 cache, locals, result>>

(* except Exception: the node, then the run are marked failed.             *)
HandleError(r) ==
  /\ phase[r] = "error"
  /\ SetStatus(r, programCounter[r], "failed")
  /\ GoTo(r, "nodeFailed")
  /\ UNCHANGED <<envVars, runVars, attempts, notFound, selected, output, checkpoints,
                 cache, locals, result>>

FailRun(r) ==
  /\ phase[r] = "nodeFailed"
  /\ SetRunStatus(r, "failed")
  /\ GoTo(r, "idle")
  /\ UNCHANGED <<envVars, rowVars, programCounter, checkpoints, cache, locals, result>>

(* The process that executes the run dies: what it persisted stays.        *)
Crash(r) ==
  /\ phase[r] # "idle"
  /\ crashes < MaxCrashes
  /\ crashes' = crashes + 1
  /\ result' = [result EXCEPT ![r] = None]
  /\ GoTo(r, "idle")
  /\ UNCHANGED <<graph, executions, runVars, rowVars, checkpoints, cache, locals>>

(* The steps of a process that is executing run r.                         *)
Step(r) ==
  \/ \E n \in Node : CreateRow(r, n) \/ Skip(r, n) \/ Dispatch(r, n)
  \/ MarkRunning(r) \/ Look(r)
  \/ FinishTerminal(r) \/ FinishStalled(r) \/ FinishDrained(r)
  \/ CheckpointBefore(r) \/ CheckpointAfter(r)
  \/ Begin(r) \/ Gather(r) \/ GatherFails(r)
  \/ CacheHit(r) \/ CacheMiss(r) \/ Reuse(r)
  \/ \E c \in Content : Invoke(r, c)
  \/ \E p \in Phase : InvokeRaises(r, p) \/ EmbedRaises(r, p)
  \/ PersistOutput(r) \/ MarkSucceeded(r) \/ MarkReused(r)
  \/ HandleFatal(r) \/ HandleRetryable(r) \/ HandleError(r) \/ FailRun(r)

Next == \E r \in Run : Execute(r) \/ Step(r) \/ Crash(r)

Spec == Init /\ [][Next]_vars

(* A process that is executing a run goes on; nobody has to call execute,  *)
(* and no process has to die.                                              *)
FairSpec == Spec /\ \A r \in Run : WF_vars(Step(r))

-----------------------------------------------------------------------------
(* Properties.                                                             *)

(* Every variable ranges over the values the code can put there.           *)
TypeOK ==
  /\ graph \in Graphs
  /\ runStatus \in [Run -> RunStatus]
  /\ programCounter \in [Run -> Node \cup {None}]
  /\ nodeStatus \in [Run -> [Node -> NodeStatus]]
  /\ attempts \in [Run -> [Node -> Nat]]
  /\ notFound \in [Run -> [Node -> BOOLEAN]]
  /\ selected \in [Run -> [Node -> Content \cup {None}]]
  /\ output \in [Run -> [Node -> Content \cup {None}]]
  /\ checkpoints \in [Run -> Seq(Checkpoint)]
  /\ \A a \in cache : a.node \in Node /\ a.content \in Content
  /\ phase \in [Run -> Phase]
  /\ todo \in [Run -> SUBSET Node]
  /\ seen \in [Run -> SUBSET Edge]
  /\ DOMAIN inputs = Run /\ \A r \in Run : DOMAIN inputs[r] = Content
  /\ result \in [Run -> Content \cup {None}]
  /\ executions \in [Run -> Nat]
  /\ crashes \in Nat

Started == {"running", "succeeded", "expanded", "failed", "retryable"}
Settled == {"succeeded", "expanded", "failed", "retryable", "skipped"}

(* A node in one of these states will never finish: the scheduler only     *)
(* picks PENDING nodes.                                                    *)
Broken == {"running", "failed", "retryable"}

Executing == {"running", "gathered", "hit", "invoking", "answered", "persisted", "reused",
              "fatal", "retryable", "error"}

(* Dependency order: a node runs only after every upstream node succeeded  *)
(* or was skipped, whatever crashed, was retried or pruned in between.     *)
DependencyOrder ==
  \A r \in Run, n \in graph.nodes :
    nodeStatus[r][n] \in Started =>
      \A e \in Incoming(n) : nodeStatus[r][e.from] \in Complete

(* The reasons to leave a node out, in terms of the rows upstream.         *)
Pruned(r, n) ==
  \/ graph.kind[n] = "model" /\ \E e \in Incoming(n) : notFound[r][e.from]
  \/ \E e \in Incoming(n) : e.branch # None /\ selected[r][e.from] \notin {None, e.branch}
  \/ Incoming(n) # {} /\ \A e \in Incoming(n) : nodeStatus[r][e.from] = "skipped"

(* The skip fixpoint comes before the choice of a node: no node on an      *)
(* unselected branch, below a typed NotFound or below skipped nodes only   *)
(* is ever run, for every order of graph.nodes.                            *)
PrunedNeverRuns ==
  \A r \in Run, n \in graph.nodes : nodeStatus[r][n] \in Started => ~ Pruned(r, n)

(* And nothing else is skipped: each skip still has its reason in the rows *)
(* of the upstream nodes, so reading the rows explains it.                 *)
SkipJustified ==
  \A r \in Run, n \in graph.nodes : nodeStatus[r][n] = "skipped" => Pruned(r, n)

(* A run is failed because of a node: it stalls only behind a node that    *)
(* failed, waits for a retry or was cut off by a crash, never because the  *)
(* scheduler forgot to run or to skip a node of an acyclic graph.          *)
FailedRunHasCulprit ==
  \A r \in Run : runStatus[r] = "failed" =>
    \E n \in graph.nodes : nodeStatus[r][n] \in Broken

(* When a run executed once says SUCCEEDED, no node was left behind.       *)
SucceededIsSettled ==
  \A r \in Run : executions[r] = 1 /\ runStatus[r] = "succeeded" =>
    \A n \in graph.nodes : nodeStatus[r][n] \in Complete

(* The program counter names the node being worked on, and after a failed  *)
(* first execution the node that failed.                                   *)
CounterNamesWork ==
  \A r \in Run :
    /\ phase[r] \in Executing => nodeStatus[r][programCounter[r]] = "running"
    /\ executions[r] = 1 /\ runStatus[r] = "failed" =>
         nodeStatus[r][programCounter[r]] = "failed"

(* The checkpoints are a journal: the last one lists every node that       *)
(* succeeded except at most the node it names, even if the process died    *)
(* between the row and the checkpoint; and nothing is missing when execute *)
(* came back by itself.                                                    *)
Succeeded(r) == {n \in Node : nodeStatus[r][n] = "succeeded"}

LastCheckpoint(r) == checkpoints[r][Len(checkpoints[r])]

JournalLag ==
  \A r \in Run :
    IF checkpoints[r] = <<>> THEN Succeeded(r) = {}
    ELSE /\ LastCheckpoint(r).completed \subseteq Succeeded(r)
         /\ Succeeded(r) \ LastCheckpoint(r).completed \subseteq {LastCheckpoint(r).pc}
         /\ phase[r] = "idle" /\ crashes = 0 => LastCheckpoint(r).completed = Succeeded(r)

(* What a node did is history: its outcome, output and attempts never      *)
(* change again, not by a later execution of the run either, and no node   *)
(* is attempted twice.  (An EXPANDED row gets its output a step later.)    *)
OutcomeIsFinal ==
  [][\A r \in Run, n \in Node :
       /\ nodeStatus[r][n] \in Settled =>
            /\ nodeStatus'[r][n] = nodeStatus[r][n]
            /\ attempts'[r][n] = attempts[r][n]
            /\ nodeStatus[r][n] # "expanded" => output'[r][n] = output[r][n]
       /\ nodeStatus[r][n] = "running" => attempts'[r][n] = attempts[r][n]]_vars

(* A cacheable node that has finished for some run, by the time another    *)
(* run looks it up, is not invoked again for the same inputs               *)
(* (test_tool_cache_reuses_artifact_without_invocation), even if the       *)
(* process of the first died right after or reused the result itself.      *)
(* Runs that look up before either has persisted its output both invoke.   *)
NoSecondInvocation ==
  [][\A r, q \in Run :
       phase[r] = "gathered" /\ phase'[r] = "invoking" =>
         LET n == programCounter[r] IN
         ~ (nodeStatus[q][n] = "succeeded" /\ InputBag(q, n) = inputs[r])]_vars

(* Every call of execute returns or raises.                                *)
ExecutionEnds == \A r \in Run : phase[r] # "idle" ~> phase[r] = "idle"
-----------------------------------------------------------------------------
(* RunExecutor implements TaskRun.  A RUNNING row is active while its      *)
(* process works on it, and broken once the process is gone.               *)
AbsStatus ==
  [r \in Run |-> [n \in Node |->
     CASE nodeStatus[r][n] \in {"absent", "pending"} -> "todo"
       [] nodeStatus[r][n] \in {"succeeded", "expanded"} -> "done"
       [] nodeStatus[r][n] = "skipped" -> "pruned"
       [] nodeStatus[r][n] \in {"failed", "retryable"} -> "broken"
       [] OTHER -> IF phase[r] \in Executing /\ n = programCounter[r]
                     THEN "active" ELSE "broken"]]

AbsWorker ==
  [r \in Run |-> IF phase[r] \in Executing THEN programCounter[r] ELSE None]

AbsVerdict ==
  [r \in Run |-> CASE runStatus[r] = "pending" -> "new"
                   [] runStatus[r] = "running" -> "open"
                   [] runStatus[r] = "succeeded" -> "ok"
                   [] OTHER -> "failed"]

AbsUpstream == [n \in Node |-> {e.from : e \in Incoming(n)}]

Promise == INSTANCE TaskRun WITH
  nodes <- graph.nodes, upstream <- AbsUpstream, status <- AbsStatus,
  worker <- AbsWorker, verdict <- AbsVerdict

(* The executor keeps the promise of TaskRun: one node at a time, upstream *)
(* first, no outcome taken back, no broken node passed off as done.        *)
KeepsPromise == Promise!Spec
=============================================================================
