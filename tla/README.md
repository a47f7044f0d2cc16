# llmasm in TLA+

This directory holds TLA+ models of [llmasm](../src/README.md), the TLC
configurations that check them and TLAPS proofs about eight of them. `src/` below
stands for the repository; `executor.py:107` is a line of `src/llmasm/runtime/executor.py`,
and so on. `PROJECT.json` maps every definition to the lines it models and lists the
runs, the mutants (plausible bugs seeded into a definition to show that a property
notices them), the findings, the hazards and the theorems.

Run a check with `tlc -config MCTurns.cfg MCCompilation.tla` and a proof with
`tlapm RunExecutorProofs.tla`.

## 1. The system

llmasm turns a conversation into *task graphs* and executes them. A prompt is
compiled by a planner model into a graph of typed nodes, the graph is validated and
saved, and a synchronous executor runs it node by node, checkpointing as it goes.
All state lives in a `Storage` (PostgreSQL in autocommit mode, or memory); there are
no threads or locks in the package, so the processes that meet are whole Python
processes, or callers, that share one storage. The storage calls are therefore the
points at which they interleave and after which they may die.

| Part | State it keeps | Operations | Talks to |
|---|---|---|---|
| Executor and scheduler (`runtime/executor.py`, `scheduler.py`) | run row, one row per node, program counter, checkpoints | `execute`, `_execute_node`, `next_node`, `terminal_succeeded` | storage, tools, model provider, context selection, expansion |
| Artifact cache (`storage/*.py`) | artifacts and their reuse keys | `persist_artifact`, `find_cached_artifact` | shared by all runs |
| Runtime expansion (`runtime/expansion.py`) | nodes and edges of a saved graph | `apply_expansion` | called by the executor in the middle of a run, on a graph other runs read |
| Compiler and repair loop (`compiler/*.py`) | saved graphs, failure rows | `compile_into_workspace`, `compile_with_repair`, `_normalize` | planner, validators, goals |
| Goals (`goals/tracker.py`, `classifier.py`) | goal rows, goal edges | create, finalize, continue, steer, close | storage |
| Validators and transforms (`graph/*.py`) | none | `validate_*`, `can_transform` | pure |
| Chat (`conversation/*.py`) | memory items: questions, answers, passages, summaries, notes | `chat_turn`, `get_recent_qa_pairs`, `retrieve_context` | storage, embeddings, executor, chunker |
| Context selection (`runtime/context.py`) | none | `select_context`, `_trim` | storage search, embeddings, a model as filter |
| Chunking (`chunking.py`) | the chunk being built | `chunk` | tokenizer |
| Embeddings (`storage/embeddings.py`) | one vector per owner | `write_memory_item`, `embed_and_persist`, `search_similar` | provider |
| Starting up (`storage/migrate.py`, `postgres.py`, `tools/reset_embeddings.py`) | `schema_version` rows, the vector column | `run_migrations`, `PostgresEmbeddingStore.create`, `reset_embeddings` | PostgreSQL |
| Storage backends (`storage/postgres.py`, `storage/memory.py`) | fifteen tables, or as many dictionaries | the calls of the `Storage` protocol | everything above |
| Facade and planner-mode chat (`api.py`, `conversation/ingestion.py`, `examples/chat.py`) | the previous task graph, memory items, workspace edges | `ask`, `run`, `/clear`, `/inject`, `/export` | all of the above |
| Run analysis (`analysis/run.py`) | none | `query_run` and filters on its answer | storage |
| Providers, tools, prompts, visualisation, viewer, schemas | none of the program's own | | outside |

What is hard about it, and hard to test:

* **Crashes.** A node's life is five to eight storage calls. A process may die between
  any two; a later `execute` on the same run meets what is left.
* **Interleaving.** Two runs share the cache, and, with expand nodes, the very graph they
  execute; two turns share goals and memory; read-change-write without locks throughout.
* **Pruning.** Routers, typed `NotFound` results and skipped nodes interact in a skip
  fixpoint that is evaluated for nodes in an order random ids decide.
* **Partial failure.** A tool, a model, the embedding provider or the planner may raise in
  the middle of a sequence of writes.
* **Two builds of one graph.** The graph that is validated and the graph that is saved
  come from two normalisations of the same proposal.
* **Two backends.** PostgreSQL inserts what is missing, ignores updates of nothing and refuses
  rows without a parent; the dictionaries replace. The program is written against both.
* **Starting together.** Several processes may migrate one database, add its vector column or
  clear its embeddings, one statement at a time.
* **Boundaries.** Trimming to a budget that has a reserve in it, packing sentences with
  overlap.

What makes each part correct: a node starts only when everything upstream is settled and
nothing prunes it; a settled outcome is never taken back; a run fails because of a node;
checkpoints agree with rows; execution ends (executor). Finished work is reused (cache).
EXPANDED means everything is there (expansion). An active goal has a graph behind it and a
text its turns add up to (goals). What is saved can be executed (compiler). No sentence is
lost (chunking), the budget is kept and used (context), and what a model is told of the
conversation is what happened (chat). The backends answer alike and refuse nothing (storage). What
is remembered as an answer is what that turn's run has produced, `follows_up` links exactly the
consecutive turns, and an export pairs each question with its answer (facade). Migrations are
recorded in order and nobody works without them (starting up).

## 2. Modules

| Module | Models | Remarks |
|---|---|---|
| `TaskRun` | nothing in particular: the promise | Abstract specification: statuses todo, active, done, broken, pruned; one worker per run |
| `RunExecutor` | `execute`, `_execute_node`, `next_node`, the cache | One action per storage call whose effect is read again; implements `TaskRun` |
| `RunClaims` | | Statements of the documents that `RunExecutor` does not keep |
| `Expansion` | `apply_expansion` and the expand case of `_invoke` | Extends `RunExecutor`; the graph becomes a variable that grows |
| `Compilation` | `compile_into_workspace`, `compile_with_repair`, `GoalTracker` | A reply is valid or not |
| `Proposals` | `_normalize`, `graph/validation.py`, transforms | Functions, no state |
| `CompiledGraphs` | | Composes the two: replies are proposals, valid when the validators accept |
| `Chunking` | `SentenceTextChunker.chunk` | One action per loop iteration |
| `ContextSelection` | `select_context`, `filter_context_with_llm`, `retrieve_workspace_context` | Functions, no state |
| `Documents` | | Composes the two: a text is chunked, stored and selected from |
| `Conversation` | `chat_turn`, `memory.py`, `retrieve_context`, `write_memory_item` | One action per storage or provider call |
| `Startup` | `run_migrations`, the vector column, `reset_embeddings`, persisting embeddings | One action per statement or transaction of a process |
| `PostgresStorage`, `InMemoryStorage` | The `Storage` protocol of either backend, `query_run` | Functions of the tables and of the dictionaries, no state |
| `Session` | `ask`, `run`, the chat's loop, commands, memory, edges and export | Composes the two backends: every call goes to both |
| `MC*` | | Graphs, replies, texts and bounds for TLC |
| `Induction` | | Induction over numbers and along folds, for the proofs |
| `*Proofs` | | Theorems and proofs |

### RunExecutor

The variables are database rows, per run and node: `nodeStatus`, `attempts`, `notFound` and
`selected` (the two pieces of row metadata that steer the scheduler), `output`, `runStatus`,
`programCounter`, `checkpoints`, and `cache` for all runs together. `phase[r]` is the place
`execute` has reached; `todo[r]` (nodes that still get a row), `seen[r]` (the edges `next_node` has
read), `inputs[r]` (the hashes `_gather_inputs` collected) and `result[r]` (the artifact that is not yet
in the row) are locals. `Execute` is a call on a run that nobody executes, `CreateRow` and
`MarkRunning` bring it to the loop; `Look`, `Skip`, `Dispatch` and the `Finish` actions are the loop.
A node then goes through `CheckpointBefore`, `Begin`, `Gather`, and, when it is cacheable, the look-up:
`CacheHit` and `Reuse` copy what was found, `CacheMiss` goes on to `Invoke`, `PersistOutput` and
`MarkSucceeded`; `CheckpointAfter` ends it. Other runs go on between any two of these, so two runs that
look up before either has persisted its output both miss, both invoke and leave two artifacts with one
key, of which either may be found later. `GatherFails`, `InvokeRaises` and
`EmbedRaises` raise, and `HandleFatal`, `HandleRetryable`, `HandleError` and `FailRun` are the exception
handlers. A tool or a model answers anything its kind allows.
Not steps of their own are the records a call leaves of itself (tool call, prompt artifact, model call):
nothing in a run reads them, and `Session` has them all. Contents are a few model values, since only
equality and being a `NotFound` matter. The cache compares the bag of the contents that arrive, without
their ports. `Crash` may hit anywhere and loses the locals.

The mapping to `TaskRun` is `AbsStatus` at the end of the module: a RUNNING row is `active`
while its process works on it and `broken` once the process is gone.

### Expansion

`plan[r]` holds the locals of `apply_expansion`. `TakeRequest` resolves the names, of which two proposed
nodes may have the same, `WriteRow`, `WriteEdge` and `WriteNodes` are its statements in their order, and
`MarkExpanded` saves the row; the handler's answer is then persisted like any other, so it may be
reused. New ids are taken from the nodes nobody used. `late[r]` is history: the edges drawn, by whomever,
since run r last read the edges in `Look`. The workspace edge an expansion leaves is in `Session`.

### Compilation, Proposals, CompiledGraphs

A turn is `Classify` (any action the classifier could return given the active goal), then
`OpenGoal`, `AskPlanner` up to `MaxAttempts` times, `RecordFailure` or `PersistGraph`,
`LinkGoal`, and `LoadGoal`/`UpdateGoal` for the tracker's read-change-write, in which the
whole row read is written back. A goal's text is the sequence of turns whose words it holds,
so that lost and revived updates show. `log` and `since` are history; `Told(g)` retells a goal's text
from the log.

`Proposals!Graph(p, fresh)` is `_normalize`: `fresh` says whether nodes get new ids (what is
saved) or `node_<name>` (the dry run). `CompiledGraphs` validates the one and saves the other.

### Chunking, ContextSelection, Documents

A sentence is its number of tokens. A chunk is an interval of sentences. Items carry two
sizes, because the text search counts words and the selection tokens; scores are whatever
TLC picks for each item and source.

### Conversation

`memory` is the sequence of memory items in the order of `created_at`. Each item is stored
(`Write`) and then, with embeddings, embedded (`Embed`), and `Raise` or `Crash` may come
between. `told[t]` is what the instruction of turn t shows, as places in the memory, with
the length `seen` of the memory it was read from. Reading a context is one step: what could
change while it is read are appended items only.

### Startup

`recorded` are the rows of `schema_version`, `open[p]` the version in p's transaction, `column` the
dimensions of `embeddings.vector` (0 when there is no such column), `rows` the embeddings. A process
keeps `step`, the versions `todo` that it read as unapplied, its configured `dim`, its store's
`_pgvector` (`vec`) and the `item` it is embedding. The connection is in autocommit mode, hence `Reset`
takes two steps, `Connect` reads and `Apply` may find that somebody else was faster; `Apply` and
`Commit` enclose the one transaction there is, and a crash in between rolls it back. Installing the
extension's package is a step of the environment. `history` remembers whether the package came late,
whether a reset died half done, and whose start nobody has disturbed.

### PostgresStorage, InMemoryStorage, Session

A table is a set of rows, and a dictionary a function. `Insert`, `InsertChild` (which raises without
the row that a foreign key names) and `Update` are the SQL statements; the in-memory module overrides
functions instead. `Call(s, c)` is what a call does to a storage, `After(s, calls)` a sequence of
them, and the readers (`LoadTaskGraph`, `QueryRun`, `ListMemoryItems`, ...) are operators of the same
names in both.

In `Session` the variable `db` outlives a process and `mem` is lost with it. A turn goes through
`Ask`, `Ingest` (for a long document), `Compile` or `CompileFails`, `StartRun`, `RunNode` or
`NodeRaises`, `FinishRun`, `Collect`, `Summarise`, `StoreQuestion`, `StoreAnswer`, `LinkFollowsUp`,
`LinkProduced`, and may die between any two. Compiling and executing a node are one step each, since
`Compilation` and `RunExecutor` take them apart; proposed graphs are trees. The
`rank` of a node is its place in the list in which the storage answers the nodes of its graph, by which the
scheduler and the chat choose (`First`, `LinkProduced`): ids are random in PostgreSQL, so any order is possible there,
the one of the proposal, which memory answers, included. `AddedRank` is the place of a node that an expansion
adds. `Sayable` is what a node may have to say: a final node below a lookup reused from an
earlier turn repeats what was said then. `previous` is the local
`previous_task_graph_id`; `log` records what was answered in which order. Answers carry the number of
their turn, so that a stale one shows.

## 3. What the runs check

| Run | Instance | Shows |
|---|---|---|
| `small_graphs` | one run, two executions, one crash, every graph on three nodes | `DependencyOrder`, `PrunedNeverRuns`, `SkipJustified`, `FailedRunHasCulprit`, `SucceededIsSettled`, liveness `ExecutionEnds` |
| `recovery` | two runs, two executions each, one crash, four documented graphs of four or five nodes and one whose skip comes early | `CounterNamesWork`, `JournalLag`, `NoSecondInvocation`, refinement `KeepsPromise` |
| `expansion` | two runs that grow the graph they share, one crash; an expand node whose answer may be reused, proposals with a lookup or with two nodes of one name | `ExpandedIsComplete`, `GrownRunIsSettled`, `GraphClosedAtRest`, `OutcomeIsFinal`, `StartsInOrder` |
| `turns` | three turns, two planner calls each, closing and raising ones, one crash | `ActiveGoalIsBacked`, `OutcomeIsTold`, `TurnsAddUp`, `LostOnlyToOverlap`, liveness `TurnsEnd` |
| `compiled` | one turn, about a hundred thousand proposals | `PersistedIsExecutable` |
| `documents` | texts of up to five sentences of 0, 1, 2 or 4 tokens, target 4, overlap 2; selections from at most four items | `NoSentenceLost`, `ChunksFit`, `CountsAreTrue`, `BudgetIsWellSpent` |
| `conversation` | three overlapping turns, with and without embeddings, one failure | `PairsAreTrue`, `SummaryIsGrounded`, `SourcesAreUsed`, `TurnsAreWhole` |
| `startup` | two processes, four starts, one crash, three migrations, two embedding sizes, two items; the package there, missing or installed meanwhile | `MigratedInOrder`, `ReadyIsMigrated`, `QuietStartSucceeds`, `RowsAreSearchable`, liveness `StartsEnd` |
| `session` | two turns with a question or a long document of two chunks, five graphs, two processes one after the other, one crash, error or command | `SameAnswers`, `NothingIsRefused`, `AnswersAreTheRuns`, `FollowsPrevious`, `ExportPairsTrue` |
| `claim_*` | | One statement each that the code does not keep, see section 6 |

**Bounds.** Three nodes give every way in which a node can have one or two upstream nodes,
and every combination of kinds on them (an intent node first only, where the compiler puts it), which is
what the skip rules and `next_node` look at; chains and joins of five nodes are in the documented graphs. The node order is the most
adverse one: against the edges. Two executions are the first in which leftovers of an earlier
one matter, and a third finds nothing new to leave. One crash per behaviour: a second one
would meet the same leftovers, as a dead process leaves no locals. Two runs, since the cache
and the shared graph relate two at a time; three turns, because two may disturb a third that
read before them. Two planner calls tell "again" from "last". Three proposed nodes are enough
for a cycle beside a path, for a fork and for a join. Five sentences make three chunks with
overlap between them. The words of a budget are small numbers chosen so that items fit, do not
fit, and fit after another one did not. Two starting processes meet everywhere, four starts let
each of them come back to what a crash, a refusal or the other one has left, and three versions have
one before and one after the optional one. The graphs of a session are a lookup that the next turn
reuses, a summary, one that grows before and one that grows after its own final node has run (the order of the
ids decides), and a final node that is itself reused. A session needs two turns for the cache, for `follows_up`
and for pairing, and a second process to meet what the first one left in the database.

Every bound is a CONSTANT that occurs in a guard (`MaxExecutions`, `MaxCrashes`,
`MaxAttempts`, `MaxFailures`, `MaxParts`, `SearchLimit`, `MaxAsked`, `MaxStarts`, `MaxTurns`,
`MaxSessions`, `MaxEvents`); of these
`MaxAttempts` (`compiler_max_attempts`) and `SearchLimit` (the limit of `search_similar`)
are the code's own.

**Deadlock** is checked in `session` and its claims, where `MCSession!Over` is the one place of rest: no
process is left. So no turn gets stuck, the ones that reuse what an earlier turn looked up included. In the other runs
it is not checked: those systems rightly stop when nobody calls them any more.

**Fairness.** `RunExecutor!FairSpec` has `WF_vars(Step(r))` and `Compilation!FairSpec`
`WF_vars(Step(t))`: a process that is executing goes on, because the code is sequential and
every external call returns or raises. `Startup!FairSpec` has `WF_vars(Step(p))`: a process that is
starting goes on, and one that waits for another's transaction gets its turn when that has ended,
because PostgreSQL wakes the waiter up. Nothing forces a caller to begin, or to begin again,
and a crash is never required. Whether a provider without a timeout answers is outside.

**Symmetry** is used in `conversation` and in `expansion`, whose turns and runs differ in nothing and which
have no liveness.

## 4. What is proved

For every value of the constants that satisfies the modules' assumptions, with no bound
on the number of runs, nodes, turns, executions, processes, starts, crashes, sentences, tokens or calls:

| Theorem | Statement |
|---|---|
| `RunExecutorProofs!TypeCorrect` | `Spec => []TypeOK` |
| `RunExecutorProofs!InOrder` | `Spec => []DependencyOrder` |
| `RunExecutorProofs!NoSpuriousStall` | `Spec => []FailedRunHasCulprit` |
| `RunExecutorProofs!OutcomesAreFinal` | `Spec => OutcomeIsFinal` |
| `RunExecutorProofs!PrunedNodesNeverRun` | `Spec => []PrunedNeverRuns` |
| `RunExecutorProofs!SkipsAreExplained` | `Spec => []SkipJustified` |
| `RunExecutorProofs!SuccessIsComplete` | `Spec => []SucceededIsSettled` |
| `RunExecutorProofs!CounterTellsTheNode` | `Spec => []CounterNamesWork` |
| `RunExecutorProofs!CheckpointsAreAJournal` | `Spec => []JournalLag` |
| `RunExecutorProofs!FinishedWorkIsReused` | `Spec => NoSecondInvocation`: what has finished when it is looked up |
| `RunExecutorProofs!ExecutorKeepsPromise` | `Spec => KeepsPromise`: `RunExecutor` implements `TaskRun` |
| `ExpansionProofs!ExpansionIsWhole` | `XSpec => []ExpandedIsComplete` |
| `ExpansionProofs!NothingDangles` | `XSpec => []GraphClosedAtRest` |
| `ExpansionProofs!GrownOutcomesAreFinal` | `XSpec => OutcomeIsFinal` |
| `ExpansionProofs!GrownNodesStartInOrder` | `XSpec => StartsInOrder`: but for edges drawn since the choice was begun |
| `ExpansionProofs!LoneRunsAreSettled` | `XSpec => [](Acyclic(graph) => GrownRunIsSettled)` |
| `CompilationProofs!TypeCorrect` | `Spec => []TypeOK` |
| `CompilationProofs!GoalsAreBacked` | `Spec => []ActiveGoalIsBacked` |
| `CompilationProofs!OutcomesAreTold` | `Spec => []OutcomeIsTold` |
| `CompilationProofs!TextsAddUp` | `Spec => []TurnsAddUp` |
| `CompilationProofs!WordsAreLostOnlyToOverlap` | `Spec => []LostOnlyToOverlap` |
| `CompilationProofs!SavedGraphsRun` | `Spec => []PersistedIsExecutable` |
| `DocumentsProofs!ChunkTypeCorrect` | `Spec => []ChunkTypeOK` |
| `DocumentsProofs!SentencesKept` | `Spec => []NoSentenceLost` |
| `DocumentsProofs!ChunksKeepTarget` | `Spec => []ChunksFit` |
| `DocumentsProofs!CountsAreSums` | `Spec => []CountsAreTrue` |
| `DocumentsProofs!BudgetsAreSpent` | `Spec => []BudgetIsWellSpent` |
| `ConversationProofs!QuestionsHaveSources` | `Spec => []SourcesAreUsed` |
| `ConversationProofs!FinishedTurnsAreWhole` | `Spec => []TurnsAreWhole` |
| `ConversationProofs!ShownSummariesAreGrounded` | `Spec => []SummaryIsGrounded` |
| `ConversationProofs!ShownPairsAreTrue` | `Spec => []PairsAreTrue` |
| `StartupProofs!TypeCorrect` | `Spec => []TypeOK` |
| `StartupProofs!MigrationsAreOrdered` | `Spec => []MigratedInOrder` |
| `StartupProofs!StartedIsMigrated` | `Spec => []ReadyIsMigrated` |
| `StartupProofs!SearchFindsRows` | `Spec => []RowsAreSearchable` |
| `StartupProofs!UndisturbedStartsSucceed` | `Spec => QuietStartSucceeds` |
| `SessionProofs!EveryCallIsServed` | `Spec => []NothingIsRefused` |
| `SessionProofs!EdgesFollowTheTurns` | `Spec => []FollowsPrevious` |
| `SessionProofs!ExportsAreTrue` | `Spec => []ExportPairsTrue` |
| `SessionProofs!AnswersAreOfTheirRuns` | `Spec => []AnswersAreTheRuns` |

The type invariants of `Compilation`, `Chunking` and `Startup` are proved and not run: a type says little that the
other properties of their runs do not.

*Assumptions.* `RunExecutor`: the graphs are typed, closed and acyclic, which is what the
compiler's validators guarantee (`validate_acyclic`; `persist_task_graph` writes edges of its own
nodes), and `None` is no content and no node. `Expansion`: requests are well formed (Pydantic), in any
graph they may lead to, cyclic ones included, and a set of nodes that is not empty has a last one.
`Compilation`: at least one planner call, and no reply is not a valid one. `CompiledGraphs`: a reply that
parses has its nodes in a list, and a reply is valid exactly when `_validate_proposal` accepts it. `Chunking`: the checks of
`SentenceTextChunker.__init__`. `ContextSelection`, `Documents`: the reserve, the batch, budgets and
token counts are natural numbers. `Conversation`: a document has at least one part. `Startup`: versions
and dimensions are positive, and one of the versions is the extension's. `Session`: a shape is a sequence
in which each part comes after the one it hangs on, and `None` is not the id of a graph or an artifact.

*RunExecutor.* `DependencyOrder` alone is not inductive: a node is chosen and checkpointed
several steps before its row says RUNNING. `IInv` adds `Position`, which ties `phase` to the
rows: a chosen node is still ready, the node the counter names is RUNNING while it is executed, and
a run that is executed is RUNNING and has a row for every node. `FailedRunHasCulprit` needs acyclicity: when nothing is
ready and something is pending, the set of pending nodes has a member without pending upstream
nodes; it is not ready, so one of its upstream nodes is broken. `RowStep` says once which rows a
step may change; `OutcomeIsFinal` follows from it.

*The history of a run.* `History` is inductive together with `IInv`. For
`PrunedNeverRuns` it has `ChosenIsNotPruned`: a node that has been chosen cannot be pruned any more,
because what prunes is a settled upstream row, those rows are final, and the skip fixpoint has looked at
every pending node before one was chosen. `FirstExecution` says that while the first execution goes on no
row is broken but that of the node at work, which is what the counter of a failed run and the rows of a succeeded one rest on, and
`Journal` says for each phase whether the last checkpoint is level with the rows or one row behind.
`NoSecondInvocation` relates two runs: `CacheRemembers` says that for every succeeded row of a cacheable
node the cache has an artifact under the inputs of that row, and that a run which is about to mark one has
put it there (`Keyed`), some steps after the look-up that found nothing. `GatheredInputs` says that the hashes
a run keeps in the meantime are still what its rows say. Both need `NoneExpanded`, which is where
`Expansion` differs: an EXPANDED row gets its output a step later, and what its successors were given
changes.

*Refinement.* `ShownStatus` splits the mapping into rows, so that a step of
`RunExecutor` that changes one row changes one entry of the abstract table; then each action is matched
with the step of `TaskRun` it is, or shown to change nothing abstract. `Start` needs `DependencyOrder`
and `PrunedNeverRuns`, `GiveUp` the culprit, `Crash` the worker that becomes a broken row.

*Expansion.* `XInv` does not assume the grown graph to be acyclic or closed. `Plans` says what is written
of an expansion at any time: its ids are new to everybody until its nodes are in the graph, and rows and
edges come before nodes. `XPosition` carries `HeldBack`, dependency order up to the edges drawn since the
run last read them (`late`): while a run chooses, what it has read and what is late are all the edges there are.
`Lone` is about a run in its first execution that no other run disturbs: nothing has died yet, its rows
are those of the graph and of what it is adding, and only the node at its counter can be unfinished. So
when it has nothing left to start, an acyclic graph leaves nothing pending (`NothingLeftBehind`). Here
acyclicity is a hypothesis of the theorem: nobody validates a request, and one that closes a cycle stalls
the run with nothing broken (section 6). On the instance the hypothesis always holds.

*Compilation.* `IInv` is `TypeOK /\ Bound /\ Written /\ ActiveGoalIsBacked`: `Bound` says which
goal a turn in each phase works for and that a `copy` in the middle of a read-change-write is of
a goal that was backed when it was read, `Written` which rows exist in each phase. Without the
first, writing back a stale copy could undo the backing; without the second, `OutcomeIsTold` has no
link from a finished turn to its edge. For `TurnsAddUp`, `Informed` says of a turn between its read and
its write that what it has read is still the goal's text, unless another turn has overtaken it.
`LostOnlyToOverlap` is about the turns that do meet: `Kept` says that the text of a goal, and what a turn has
in hand of it, has the word of every update up to the one it was read after, but for the updates that a later
steer or an overlapping turn excuses (`Excused`). An update puts what is in hand into the text, and its own entry
in the log excuses whatever was said since.

*Sums and tales.* `Told` and `Tokens` are recursive functions on a sequence that grows by one element
a step. That such a function exists, is unique, and what its values are, is a part of the inductive
invariant (`OneTale`, `OneSum`): the function exists for the empty sequence, and one for a longer sequence
is made of the one before.

*Folds.* The induction theorems of the library take an operator as a parameter, which the provers cannot
instantiate. `Induction` states them with sets instead: `LeastNumber` (from the library's well-foundedness
of <), `NumberInduction` and `IntervalInduction` for a set of numbers, and `FoldExists`, that the recursive
function behind `FoldLeft` exists for a step function on a set of values. The value of a fold is a CHOOSE of
such a function; once one exists, a lemma `...Steps` gives the sequence of values the fold goes through, and
everything else about the fold is an `IntervalInduction` along them.

*What is saved.* `SavedGraphsRun` needs no invariant but `TypeOK`: what a turn has saved is the graph of a
reply that the validators accepted. The rest is about one proposal. `Sound` are the nodes that
`validate_acyclic` leaves without finding a cycle; so every set of nodes of the dry run has one that leads
to none of it (`SetHasSink`, a chain that went on would come back), and therefore one that none of it leads
to (`SetHasSource`). When names are unique, the graph that is saved is the dry run under other ids, and
inherits this (`SavedIsOrdered`) and the edges that fit (`SavedIsFed`). Then each round of execution
completes another node until none is left (`FedGraphCompletes`).

*Selection.* A list that is offered is `Headed`: candidates that fit the budget together, all summaries
among them, and then only others. Ranking makes it so (`RankedIsHeaded`), and the filter keeps it so wherever
the batch ends (`FilteredIsHeaded`): dropping costs nothing, and cutting a list of two parts leaves two parts.
`_trim` then keeps the head in place (`TrimKeepsHead`), stays within the budget (`TrimKeepsBudget`) and
leaves out only what did not fit when it was looked at, hence does not fit at the end (`TrimLeavesNoRoom`).

*Conversation.* `CInv` gives every turn a `Story`: `Stored`, what it has stored when it gets to a stage;
`Searchable`, that all of this is embedded but for the newest item while that is being embedded; `Shown` and
`Sourced`, what its instruction may be told. A step is that of one turn and the memory only grows
(`Moves`), so the other turns' stories stay (`OthersStay`). `Grounded` is the property of a summary in
the memory, from which it follows for one that is shown at any time later. `Newest` says that there is a
newest summary: the maximum of a set of places exists because it is an invariant that it does.
`Paired` is `PairsAreTrue` of what was shown, and stays true because it speaks of the memory up to the
length that was seen. That it holds when pairs are read is an induction along each loop: going from the
newest question, every answer behind a question's own is taken by the newer ones, so the newest free one
is its own (`RecentPairsAreOwn`); going from the oldest with rag, the oldest free one is its own, unless
the disjuncts of the property say why not (`RetrievedPairsAreOwn`).

*Startup.* A process goes by what it read some steps ago. `Looked` says that whatever is not in its
`todo` any more is recorded, or is the extension's; `InTurn` that an open transaction is of the smallest
version in `todo`; with `NoHole` these give the order. `Migrated` and `StoreHasType` carry the facts to
the started process, and `ColumnHasType` and `Configured` are needed where the store finds a column of
its own size and concludes that the extension is there. `HInv` adds what `history` says of the present:
a process that nobody disturbed has only unrecorded versions to look at, and a store that was created
after a timely package uses it.

*Session.* `Database` and `Memory` say what is so of the two backends in every state, and `Fine` that a call
can be made now with what is there: `CallKeeps` and `MemoryCallKeeps` show, call by call, that one which is
`Fine` is not refused and loses no row; `DatabaseAfter` and `MemoryAfter` carry this along the fold that a sequence of
calls is. `Known` names the rows each phase relies on: the workspace from the prompt on, the graph until
the run has ended, the run while nodes are executed. Every action's calls are `Fine` with them, and a new
process, which creates its workspace first, needs nothing of what a dead one has left. Only
`LinkFollowsUp` adds a `follows_up` edge (`Plain` calls do not), and `Logged` says for each phase how the
edges compare with the history: they are its consecutive graphs, less the one that is about to be drawn
or that a crash has prevented. The edge is really inserted, because its id contains the time and no edge
is newer than now (`LinkIsNew`).
`Spoken` says of the stored questions and answers that they are in the order of the turns, one of each
kind per turn, the question before its answer. So the oldest answer after a question is its own
(`OwnIsOldest`), and it is still free when the export comes to the question, because all the older ones
have taken theirs: an induction along the export's fold (`ExportSteps`). That the items can be put in
order at all is another, on their number (`SortedExists`).

*The answer of a run.* `ask` chooses the newest artifact among those of its final nodes, while
`AnswersAreTheRuns` speaks of the rows of the run; so `Truthful` keeps the two together. `Covered` says
of the current turn that every artifact of a final node is what the row of that node shows, same time and
content, and that a row whose output its own node has made points at an output of this run. It is not so
between the calls of one node: the artifact is there before the row points at it. Hence it is
proved for the whole sequence of a node's calls: those before the last are `Mild` (no row gets an output and
no final node an artifact), and lead from `Covered` to `Covered` (`CoveredStill`); the last ones settle one
row (`EndSettles`). A reused artifact bears the node of an older turn, which is why the property is about
those a node has made itself. An expansion adds rows of nodes that are not in the graph yet, which `Tidy` takes
as a parameter. `Tidy` says that ids tell rows and artifacts apart and name the turn; so no call of a turn
touches what an earlier one has left (`EarlierStays`), and an answer that was true when it was stored is
true ever after.

*Only model-checked*, on the instances above:

* Liveness (`ExecutionEnds`, `TurnsEnd`, `StartsEnd`), which is out of the prover's reach.
* `SameAnswers`: it compares what two backends return for every query. The proof would need a relation
  between the contents of fifteen pairs of tables, carried through every call.

## 5. What is not modelled

* Query rewriting (`QueryPreparer`), vector similarity, prompt texts, the JSON of replies: any
  score and any valid or invalid reply is possible instead.
* Explicit ports, model names, budgets and schema placeholders in a proposal; the fast path with
  embeddings enabled for artifacts but not for chat.
* `update_artifact`, which nothing in the repository calls.
* In `Session`: two processes at once (a turn's interleavings are in `Compilation`, a run's in
  `RunExecutor`, a start's in `Startup`), joins in a graph, and commands that only display something.
* Tool, model and embedding calls themselves, the visualisation, the graph viewer, and the other
  examples, which call the facade once per line of a data set.
* Storage failures: apart from the refusals in `PostgresStorage`, a call is done or, when the process
  dies before it, not done.

## 6. Where code and documents disagree

With a run that shows it:

* `claim_not_found` (bug): a cache hit restores a `NotFound` artifact without the `not_found` flag,
  so a summariser runs on it (`executor.py:135`).
* `claim_names` (bug): two nodes of one name pass the dry run and one is saved unfed (`compiler.py:245`).
* `claim_answer` (bug): a cached artifact that is copied into a run keeps the `node_id` of the node
  that made it (`executor.py:132`), so `ask` finds no answer for a reused final node and returns the
  empty text (`api.py:129`, docstring at `api.py:99`).

Seen while modelling, without a run of their own; the models do what the code does. Executor:

* A `FatalError` marks the node and leaves the run RUNNING (`executor.py:107`; the
  implementation plan, line 109, wants the run failed).
* A RETRYABLE node is never tried again (`executor.py:110`, plan line 108).
* An expansion that closes a cycle is accepted (`executor.py:255`, plan line 491), and nothing
  restricts edges to the frontier (`expansion.py:85`, RFC line 938). The properties of `Expansion`
  need no acyclic requests, but for `GrownRunIsSettled`, which is checked and proved with such.
* A run may succeed although no final node did, when every node was settled (`executor.py:98`,
  plan line 422).
* After a failed node there is no second checkpoint (`executor.py:113`, plan line 435); hence
  `JournalLag` is about succeeded nodes.
* Edges to names nobody bears are dropped silently, by `apply_expansion` and by `_canonical_edges`.
* A router's edge counts as an incoming edge although it carries no data.
* The reuse key holds a node's name, execution and input contents, but not their ports, its
  instruction, the selected context or the workspace (`executor.py:343`, RFC line 1175).
* Two overlapping runs of one graph that look a tool up before either has persisted its output both invoke it
  (`executor.py:130`, `148`); the cache does not reserve a key. `NoSecondInvocation` is about work that has
  finished when it is looked up. Of several artifacts with one key, memory finds the one persisted last and PostgreSQL
  the one created last (a copy keeps the time of its original).
* An edge another run draws after `next_node` has read the edges (`scheduler.py:19`) does not hold back the node
  that is being chosen; `StartsInOrder` exempts these edges and no others.
* A router's `ModelCall` is saved with an empty `prompt_artifact_id` (`executor.py:315`), for which
  `context_used_by_model_call` raises `StopIteration` (`analysis/run.py:59`).

Conversation and context:

* A turn that was under way when its goal was closed sets it to active again.
* With an overlap, a chunk may exceed the target by more than a single long sentence does
  (class comment of `SentenceTextChunker`); `ChunksFit` states what does hold.
* Overlapping turns cross their questions and answers in `get_recent_qa_pairs`, whose comment says
  "stored immediately after it"; and in `retrieve_context` a question that was never answered takes
  the next answer. `PairsAreTrue` names these cases and excludes nothing else.
* `retrieve_context` skips answers it has used by their text (`retrieval.py:263`), so a question whose
  answer repeats an earlier one is shown with a later answer.
* Items found by the text search count in words, so a selection can exceed the budget in tokens;
  and that search spends the budget on chunks before the reserve for the summary applies
  (`memory.py:287`, `docs/planner-mode-chunking-plan.md:170`).
* `/export` says "export all turns", and leaves out those of chunked documents, which have no question.
* When the embedding provider fails in `store_question` or `store_answer`, nothing catches it and the
  chat ends, with the item stored and not embedded.

Storage:

* `load_task_graph` answers the nodes of a graph in the order of their ids in PostgreSQL (`postgres.py:166`), which
  are random (`ids.py:22`), and in memory in the order in which they were proposed (`memory.py:95`), although both
  backends are to pass "the same storage contract tests" (plan, line 542). `next_node` takes the first ready
  node (`scheduler.py:47`) and the chat draws its edge from the first final node (`examples/chat.py:63`), so the
  backends may run the nodes in different orders. `SameAnswers` says nothing of this order: it compares the nodes as a set. What
  else is checked holds for each order a run uses; `small_graphs` has the most adverse one, the theorems all.
* `persist_task_graph` merges into a saved graph in PostgreSQL and replaces it in memory;
  `_few_shots` in memory lists a graph again after each expansion. `SameAnswers` compares these
  examples without repetitions.
* `load_task_graph` and `query_run` are several statements without a transaction, so what they
  return may mix two states of a graph that grows meanwhile.
* Two processes that start together on a new database: the slower one fails on a row of `schema_version`; that
  `CREATE TABLE IF NOT EXISTS` itself can lose such a race in PostgreSQL (`migrate.py:14`) is not in the model.
  Two with different dimensions that both find no column: the second one keeps the first one's
  (`ADD COLUMN IF NOT EXISTS`) and fails when it persists a vector, although the docstring
  (`postgres.py:855`) promises the mismatch to be refused.
* A death between `ADD COLUMN` and `CREATE INDEX` leaves the column without an index for good.
* Embeddings written before the extension was installed have no vector, are not found, and are not
  embedded again, since `has_embedding` is true. `--reset-embeddings` raises on a new database, and
  nothing embeds again what it has cleared.

## 7. Plan

Modules: the executor on a graph `CompiledGraphs` saved (`RunExecutor` composed with `Proposals`, to
discharge `GraphsAssumption`), and concurrent writers that embed one owner, with retries.

Theorems: what relates the tables of the two backends, for `SameAnswers`.
