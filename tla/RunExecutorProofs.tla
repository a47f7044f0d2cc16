-------------------------- MODULE RunExecutorProofs --------------------------
(***************************************************************************)
(* Proofs about RunExecutor for every set of runs, every set of acyclic    *)
(* task graphs and every bound: first the order in which nodes run and     *)
(* what a failed run shows, then what the rows, the counter and the        *)
(* checkpoints tell about the past.  Nodes are pruned for a reason that    *)
(* can still be read, pruned nodes never run, the first execution of a run *)
(* leaves nothing behind, and the checkpoints lag by one node at most.     *)
(***************************************************************************)
EXTENDS RunExecutor, TLAPS

(* Where execute stands says what the rows of the run look like.           *)
Position ==
  \A r \in Run :
    /\ \A n \in Node : nodeStatus[r][n] # "absent" => n \in graph.nodes
    /\ phase[r] = "ensuring" => \A n \in graph.nodes : nodeStatus[r][n] = "absent" => n \in todo[r]
    /\ phase[r] = "ensuring" => todo[r] \subseteq graph.nodes
    /\ phase[r] = "ensuring" => \A n \in todo[r] : nodeStatus[r][n] = "absent"
    /\ phase[r] \notin {"idle", "ensuring"} =>
         /\ runStatus[r] = "running"
         /\ \A n \in graph.nodes : nodeStatus[r][n] # "absent"
    /\ phase[r] \notin {"idle", "ensuring", "scheduling", "choosing"} =>
         programCounter[r] \in graph.nodes
    /\ phase[r] \in {"choosing", "dispatched", "entering"} => seen[r] = graph.edges
    /\ phase[r] \in {"hit", "answered"} => result[r] \in Content
    /\ phase[r] \in {"dispatched", "entering"} => Ready(r, programCounter[r])
    /\ phase[r] \in Executing => nodeStatus[r][programCounter[r]] = "running"
    /\ phase[r] = "nodeFailed" => nodeStatus[r][programCounter[r]] = "failed"

IInv == TypeOK /\ Position /\ DependencyOrder /\ FailedRunHasCulprit

USE DEF GoTo, SetStatus, SetRunStatus, SaveCheckpoint, envVars, rowVars, runVars, locals

(* A graph of the behaviour has its nodes among Node and is closed.        *)
LEMMA GraphFacts ==
  ASSUME TypeOK
  PROVE  /\ graph.nodes \subseteq Node /\ graph.edges \subseteq Edge
         /\ \A e \in graph.edges : e.from \in graph.nodes /\ e.to \in graph.nodes
BY GraphsAssumption DEF TypeOK, TaskGraph, Closed

LEMMA InitInv == Init => IInv
<1> SUFFICES ASSUME Init PROVE IInv
  OBVIOUS
<1>1. TypeOK
  BY BoundAssumption DEF Init, TypeOK, RunStatus, NodeStatus, Phase
<1>2. Position
  BY DEF Init, Position, Executing
<1>3. DependencyOrder
  BY <1>1, GraphFacts DEF Init, DependencyOrder, Started
<1>4. FailedRunHasCulprit
  BY DEF Init, FailedRunHasCulprit
<1>5. QED
  BY <1>1, <1>2, <1>3, <1>4 DEF IInv

LEMMA SnapshotType ==
  ASSUME NEW r \in Run, programCounter[r] \in Node
  PROVE  Snapshot(r) \in Checkpoint
BY DEF Snapshot, Checkpoint

(* Type correctness of a step.                                             *)
LEMMA TypeStep ==
  ASSUME TypeOK, Position, [Next]_vars
  PROVE  TypeOK'
<1> USE GraphFacts DEF TypeOK, NodeStatus, RunStatus, Phase
<1>1. ASSUME NEW r \in Run, Execute(r) PROVE TypeOK'
  <2>1. {n \in graph.nodes : nodeStatus[r][n] = "absent"} \in SUBSET Node
    OBVIOUS
  <2> QED  BY <1>1, <2>1 DEF Execute
<1>2. ASSUME NEW r \in Run, NEW n \in Node, Skip(r, n) PROVE TypeOK'
  BY <1>2 DEF Skip
<1>3. ASSUME NEW r \in Run, NEW n \in Node, Dispatch(r, n) PROVE TypeOK'
  BY <1>3 DEF Dispatch
<1>4. ASSUME NEW r \in Run, Reuse(r) PROVE TypeOK'
  <2>1. programCounter[r] \in Node /\ result[r] \in Content
    BY <1>4 DEF Reuse, Position
  <2>2. Artifact(r).node \in Node /\ Artifact(r).content \in Content
    BY <2>1 DEF Artifact
  <2>3. \A a \in cache' : a.node \in Node /\ a.content \in Content
    BY <1>4, <2>2 DEF Reuse, Store
  <2> QED  BY <1>4, <2>3 DEF Reuse
<1>5. ASSUME NEW r \in Run, NEW c \in Content, Invoke(r, c) PROVE TypeOK'
  BY <1>5 DEF Invoke
<1>6. ASSUME NEW r \in Run, NEW p \in Phase, InvokeRaises(r, p) PROVE TypeOK'
  BY <1>6 DEF InvokeRaises
<1>7. ASSUME NEW r \in Run, NEW p \in Phase, EmbedRaises(r, p) PROVE TypeOK'
  BY <1>7 DEF EmbedRaises
<1>8. ASSUME NEW r \in Run, FinishTerminal(r) PROVE TypeOK'
  BY <1>8 DEF FinishTerminal
<1>9. ASSUME NEW r \in Run, FinishStalled(r) PROVE TypeOK'
  BY <1>9 DEF FinishStalled
<1>10. ASSUME NEW r \in Run, FinishDrained(r) PROVE TypeOK'
  BY <1>10 DEF FinishDrained
<1>11. ASSUME NEW r \in Run, CheckpointBefore(r) PROVE TypeOK'
  <2>1. Snapshot(r) \in Checkpoint
    BY <1>11, SnapshotType DEF CheckpointBefore, Position
  <2>2. QED
    BY <1>11, <2>1, SMTT(30) DEF CheckpointBefore
<1>12. ASSUME NEW r \in Run, CheckpointAfter(r) PROVE TypeOK'
  <2>1. Snapshot(r) \in Checkpoint
    BY <1>12, SnapshotType DEF CheckpointAfter, Position
  <2>2. QED
    BY <1>12, <2>1, SMTT(30) DEF CheckpointAfter
<1>13. ASSUME NEW r \in Run, Begin(r) PROVE TypeOK'
  <2> DEFINE n == programCounter[r]
  <2>1. n \in Node
    BY <1>13 DEF Begin, Position
  <2>2. attempts[r] \in [Node -> Nat] /\ attempts[r][n] + 1 \in Nat
    BY <2>1
  <2>3. attempts' = [attempts EXCEPT ![r] = [attempts[r] EXCEPT ![n] = attempts[r][n] + 1]]
    BY <1>13, <2>1, <2>2 DEF Begin
  <2>4. attempts' \in [Run -> [Node -> Nat]]
    BY <2>1, <2>2, <2>3
  <2>5. QED
    BY <1>13, <2>1, <2>4 DEF Begin
<1>14. ASSUME NEW r \in Run, GatherFails(r) PROVE TypeOK'
  BY <1>14 DEF GatherFails
<1>15. ASSUME NEW r \in Run, MarkSucceeded(r) PROVE TypeOK'
  BY <1>15 DEF MarkSucceeded
<1>16. ASSUME NEW r \in Run, MarkReused(r) PROVE TypeOK'
  BY <1>16 DEF MarkReused
<1>17. ASSUME NEW r \in Run, HandleFatal(r) PROVE TypeOK'
  BY <1>17 DEF HandleFatal
<1>18. ASSUME NEW r \in Run, HandleRetryable(r) PROVE TypeOK'
  BY <1>18 DEF HandleRetryable
<1>19. ASSUME NEW r \in Run, HandleError(r) PROVE TypeOK'
  BY <1>19 DEF HandleError
<1>20. ASSUME NEW r \in Run, FailRun(r) PROVE TypeOK'
  BY <1>20 DEF FailRun
<1>21. ASSUME NEW r \in Run, Crash(r) PROVE TypeOK'
  BY <1>21 DEF Crash
<1>22. CASE UNCHANGED vars
  BY <1>22 DEF vars
<1>23. ASSUME NEW r \in Run, NEW n \in Node, CreateRow(r, n) PROVE TypeOK'
  BY <1>23 DEF CreateRow
<1>24. ASSUME NEW r \in Run, MarkRunning(r) PROVE TypeOK'
  BY <1>24 DEF MarkRunning
<1>25. ASSUME NEW r \in Run, Look(r) PROVE TypeOK'
  BY <1>25 DEF Look
<1>26. ASSUME NEW r \in Run, Gather(r) PROVE TypeOK'
  <2> DEFINE bag == InputBag(r, programCounter[r])
  <2>1. inputs' = [inputs EXCEPT ![r] = bag] /\ DOMAIN bag = Content
    BY <1>26 DEF Gather, InputBag
  <2> HIDE DEF bag
  <2>2. DOMAIN inputs' = Run /\ \A q \in Run : DOMAIN inputs'[q] = Content
    BY <2>1
  <2>3. phase' \in [Run -> Phase]
    BY <1>26 DEF Gather
  <2> QED  BY <1>26, <2>2, <2>3 DEF Gather
<1>27. ASSUME NEW r \in Run, CacheHit(r) PROVE TypeOK'
  BY <1>27 DEF CacheHit, Cached
<1>28. ASSUME NEW r \in Run, CacheMiss(r) PROVE TypeOK'
  BY <1>28 DEF CacheMiss
<1>29. ASSUME NEW r \in Run, PersistOutput(r) PROVE TypeOK'
  <2>1. programCounter[r] \in Node /\ result[r] \in Content
    BY <1>29 DEF PersistOutput, Position
  <2>2. Artifact(r).node \in Node /\ Artifact(r).content \in Content
    BY <2>1 DEF Artifact
  <2>3. \A a \in cache' : a.node \in Node /\ a.content \in Content
    BY <1>29, <2>2 DEF PersistOutput, Store
  <2> QED  BY <1>29, <2>3 DEF PersistOutput
<1> HIDE DEF TypeOK, NodeStatus, RunStatus, Phase
<1>q. QED
  BY <1>1, <1>2, <1>3, <1>4, <1>5, <1>6, <1>7, <1>8, <1>9, <1>10, <1>11, <1>12, <1>13, <1>14, <1>15,
     <1>16, <1>17, <1>18, <1>19, <1>20, <1>21, <1>22, <1>23, <1>24, <1>25, <1>26, <1>27, <1>28, <1>29
  DEF Next, Step

(* Where execute stands still says what the rows look like after a step.   *)
LEMMA PositionStep ==
  ASSUME TypeOK, Position, [Next]_vars
  PROVE  Position'
<1> USE GraphFacts DEF TypeOK, NodeStatus, RunStatus, Phase, Position, Executing
<1>1. ASSUME NEW r \in Run, Execute(r) PROVE Position'
  BY <1>1 DEF Execute, Ready, Upstream
<1>2. ASSUME NEW r \in Run, NEW n \in Node, Skip(r, n) PROVE Position'
  BY <1>2 DEF Skip, Skippable, Ready, Upstream
<1>3. ASSUME NEW r \in Run, NEW n \in Node, Dispatch(r, n) PROVE Position'
  <2>1. /\ phase[r] = "choosing" /\ phase' = [phase EXCEPT ![r] = "dispatched"] /\ Ready(r, n)
        /\ programCounter' = [programCounter EXCEPT ![r] = n]
        /\ UNCHANGED <<graph, runStatus, nodeStatus, todo, seen, result>>
    BY <1>3 DEF Dispatch
  <2>2. n \in graph.nodes
    BY <2>1 DEF Ready
  <2>3. \A q \in Run, m \in Node : Ready(q, m)' = Ready(q, m)
    BY <2>1 DEF Ready, Upstream
  <2> QED  BY <2>1, <2>2, <2>3
<1>4. ASSUME NEW r \in Run, Reuse(r) PROVE Position'
  BY <1>4 DEF Reuse, Ready, Upstream
<1>5. ASSUME NEW r \in Run, NEW c \in Content, Invoke(r, c) PROVE Position'
  BY <1>5 DEF Invoke, Ready, Upstream
<1>6. ASSUME NEW r \in Run, NEW p \in Phase, InvokeRaises(r, p) PROVE Position'
  BY <1>6 DEF InvokeRaises, Raises, Ready, Upstream
<1>7. ASSUME NEW r \in Run, NEW p \in Phase, EmbedRaises(r, p) PROVE Position'
  BY <1>7 DEF EmbedRaises, Ready, Upstream
<1>8. ASSUME NEW r \in Run, FinishTerminal(r) PROVE Position'
  BY <1>8 DEF FinishTerminal, Ready, Upstream
<1>9. ASSUME NEW r \in Run, FinishStalled(r) PROVE Position'
  BY <1>9 DEF FinishStalled, Ready, Upstream
<1>10. ASSUME NEW r \in Run, FinishDrained(r) PROVE Position'
  BY <1>10 DEF FinishDrained, Ready, Upstream
<1>11. ASSUME NEW r \in Run, CheckpointBefore(r) PROVE Position'
  BY <1>11 DEF CheckpointBefore, Ready, Upstream
<1>12. ASSUME NEW r \in Run, CheckpointAfter(r) PROVE Position'
  BY <1>12 DEF CheckpointAfter, Ready, Upstream
<1>13. ASSUME NEW r \in Run, Begin(r) PROVE Position'
  BY <1>13 DEF Begin, Ready, Upstream
<1>14. ASSUME NEW r \in Run, GatherFails(r) PROVE Position'
  BY <1>14 DEF GatherFails, Ready, Upstream
<1>15. ASSUME NEW r \in Run, MarkSucceeded(r) PROVE Position'
  BY <1>15 DEF MarkSucceeded, Ready, Upstream
<1>16. ASSUME NEW r \in Run, MarkReused(r) PROVE Position'
  BY <1>16 DEF MarkReused, Ready, Upstream
<1>17. ASSUME NEW r \in Run, HandleFatal(r) PROVE Position'
  BY <1>17 DEF HandleFatal, Ready, Upstream
<1>18. ASSUME NEW r \in Run, HandleRetryable(r) PROVE Position'
  BY <1>18 DEF HandleRetryable, Ready, Upstream
<1>19. ASSUME NEW r \in Run, HandleError(r) PROVE Position'
  BY <1>19 DEF HandleError, Ready, Upstream
<1>20. ASSUME NEW r \in Run, FailRun(r) PROVE Position'
  BY <1>20 DEF FailRun, Ready, Upstream
<1>21. ASSUME NEW r \in Run, Crash(r) PROVE Position'
  BY <1>21 DEF Crash, Ready, Upstream
<1>22. CASE UNCHANGED vars
  BY <1>22 DEF vars, Ready, Upstream
<1>23. ASSUME NEW r \in Run, NEW n \in Node, CreateRow(r, n) PROVE Position'
  BY <1>23 DEF CreateRow, Ready, Upstream
<1>24. ASSUME NEW r \in Run, MarkRunning(r) PROVE Position'
  BY <1>24 DEF MarkRunning, Ready, Upstream
<1>25. ASSUME NEW r \in Run, Look(r) PROVE Position'
  BY <1>25 DEF Look, Ready, Upstream
<1>26. ASSUME NEW r \in Run, Gather(r) PROVE Position'
  BY <1>26 DEF Gather, Ready, Upstream
<1>27. ASSUME NEW r \in Run, CacheHit(r) PROVE Position'
  <2>1. result'[r] \in Content /\ \A q \in Run : q # r => result'[q] = result[q]
    BY <1>27 DEF CacheHit, Cached
  <2> QED  BY <1>27, <2>1 DEF CacheHit, Ready, Upstream
<1>28. ASSUME NEW r \in Run, CacheMiss(r) PROVE Position'
  BY <1>28 DEF CacheMiss, Ready, Upstream
<1>29. ASSUME NEW r \in Run, PersistOutput(r) PROVE Position'
  BY <1>29 DEF PersistOutput, Ready, Upstream
<1> HIDE DEF TypeOK, NodeStatus, RunStatus, Phase, Position, Executing
<1>q. QED
  BY <1>1, <1>2, <1>3, <1>4, <1>5, <1>6, <1>7, <1>8, <1>9, <1>10, <1>11, <1>12, <1>13, <1>14, <1>15,
     <1>16, <1>17, <1>18, <1>19, <1>20, <1>21, <1>22, <1>23, <1>24, <1>25, <1>26, <1>27, <1>28, <1>29,
     SMTT(30) DEF Next, Step

(* What one step may do to the rows: a settled row is never written again, *)
(* an attempt is counted once, and a node enters a started status only     *)
(* from PENDING with all upstream nodes complete.                          *)
RowsKept(r, n) ==
  /\ nodeStatus[r][n] \in Settled => /\ nodeStatus'[r][n] = nodeStatus[r][n]
                                     /\ attempts'[r][n] = attempts[r][n]
                                     /\ nodeStatus[r][n] # "expanded" =>
                                          output'[r][n] = output[r][n]
  /\ nodeStatus[r][n] = "running" => attempts'[r][n] = attempts[r][n]
  /\ nodeStatus'[r][n] \in Started /\ nodeStatus[r][n] \notin Started =>
       Ready(r, n) /\ seen[r] = graph.edges

LEMMA RowStep ==
  ASSUME TypeOK, Position, [Next]_vars
  PROVE  graph' = graph /\ \A r \in Run, n \in Node : RowsKept(r, n)
<1> DEFINE Goal == graph' = graph /\ \A q \in Run, m \in Node : RowsKept(q, m)
<1> USE GraphFacts DEF TypeOK, NodeStatus, RowsKept, Settled, Started
<1>1. ASSUME NEW r \in Run, Execute(r) PROVE Goal
  BY <1>1 DEF Execute
<1>2. ASSUME NEW r \in Run, NEW n \in Node, Skip(r, n) PROVE Goal
  BY <1>2 DEF Skip, Skippable
<1>3. ASSUME NEW r \in Run, NEW n \in Node, Dispatch(r, n) PROVE Goal
  BY <1>3 DEF Dispatch, Position, Executing
<1>4. ASSUME NEW r \in Run, Reuse(r) PROVE Goal
  BY <1>4 DEF Reuse, Position, Executing
<1>5. ASSUME NEW r \in Run, NEW c \in Content, Invoke(r, c) PROVE Goal
  BY <1>5 DEF Invoke, Position, Executing
<1>6. ASSUME NEW r \in Run, NEW p \in Phase, InvokeRaises(r, p) PROVE Goal
  BY <1>6 DEF InvokeRaises, Position, Executing
<1>7. ASSUME NEW r \in Run, NEW p \in Phase, EmbedRaises(r, p) PROVE Goal
  BY <1>7 DEF EmbedRaises, Position, Executing
<1>8. ASSUME NEW r \in Run, FinishTerminal(r) PROVE Goal
  BY <1>8 DEF FinishTerminal, Position, Executing
<1>9. ASSUME NEW r \in Run, FinishStalled(r) PROVE Goal
  BY <1>9 DEF FinishStalled, Position, Executing
<1>10. ASSUME NEW r \in Run, FinishDrained(r) PROVE Goal
  BY <1>10 DEF FinishDrained, Position, Executing
<1>11. ASSUME NEW r \in Run, CheckpointBefore(r) PROVE Goal
  BY <1>11 DEF CheckpointBefore, Position, Executing
<1>12. ASSUME NEW r \in Run, CheckpointAfter(r) PROVE Goal
  BY <1>12 DEF CheckpointAfter, Position, Executing
<1>13. ASSUME NEW r \in Run, Begin(r) PROVE Goal
  <2> DEFINE n == programCounter[r]
  <2>1. n \in Node /\ Ready(r, n) /\ seen[r] = graph.edges /\ nodeStatus[r][n] = "pending"
    BY <1>13 DEF Begin, Position, Ready
  <2>2. nodeStatus' = [nodeStatus EXCEPT ![r][n] = "running"] /\ graph' = graph /\ output' = output
    BY <1>13 DEF Begin
  <2>3. \A q \in Run, m \in Node : <<q, m>> # <<r, n>> => attempts'[q][m] = attempts[q][m]
    BY <1>13, <2>1 DEF Begin
  <2>4. ASSUME NEW q \in Run, NEW m \in Node PROVE RowsKept(q, m)
    <3>1. CASE q = r /\ m = n
      BY <2>1, <2>2, <3>1
    <3>2. CASE <<q, m>> # <<r, n>>
      <4>1. nodeStatus'[q][m] = nodeStatus[q][m]
        BY <2>1, <2>2, <3>2
      <4>2. QED
        BY <2>2, <2>3, <3>2, <4>1
    <3>3. QED
      BY <3>1, <3>2
  <2>5. QED
    BY <2>2, <2>4
<1>14. ASSUME NEW r \in Run, GatherFails(r) PROVE Goal
  BY <1>14 DEF GatherFails, Position, Executing
<1>15. ASSUME NEW r \in Run, MarkSucceeded(r) PROVE Goal
  BY <1>15 DEF MarkSucceeded, Position, Executing
<1>16. ASSUME NEW r \in Run, MarkReused(r) PROVE Goal
  BY <1>16 DEF MarkReused, Position, Executing
<1>17. ASSUME NEW r \in Run, HandleFatal(r) PROVE Goal
  BY <1>17 DEF HandleFatal, Position, Executing
<1>18. ASSUME NEW r \in Run, HandleRetryable(r) PROVE Goal
  BY <1>18 DEF HandleRetryable, Position, Executing
<1>19. ASSUME NEW r \in Run, HandleError(r) PROVE Goal
  BY <1>19 DEF HandleError, Position, Executing
<1>20. ASSUME NEW r \in Run, FailRun(r) PROVE Goal
  BY <1>20 DEF FailRun, Position, Executing
<1>21. ASSUME NEW r \in Run, Crash(r) PROVE Goal
  BY <1>21 DEF Crash, Position, Executing
<1>22. CASE UNCHANGED vars
  BY <1>22 DEF vars
<1>23. ASSUME NEW r \in Run, NEW n \in Node, CreateRow(r, n) PROVE Goal
  BY <1>23 DEF CreateRow, Position, Executing
<1>24. ASSUME NEW r \in Run, MarkRunning(r) PROVE Goal
  BY <1>24 DEF MarkRunning, Position, Executing
<1>25. ASSUME NEW r \in Run, Look(r) PROVE Goal
  BY <1>25 DEF Look, Position, Executing
<1>26. ASSUME NEW r \in Run, Gather(r) PROVE Goal
  BY <1>26 DEF Gather, Position, Executing
<1>27. ASSUME NEW r \in Run, CacheHit(r) PROVE Goal
  BY <1>27 DEF CacheHit, Position, Executing
<1>28. ASSUME NEW r \in Run, CacheMiss(r) PROVE Goal
  BY <1>28 DEF CacheMiss, Position, Executing
<1>29. ASSUME NEW r \in Run, PersistOutput(r) PROVE Goal
  BY <1>29 DEF PersistOutput, Position, Executing
<1>q. QED
  BY <1>1, <1>2, <1>3, <1>4, <1>5, <1>6, <1>7, <1>8, <1>9, <1>10, <1>11, <1>12, <1>13, <1>14, <1>15,
     <1>16, <1>17, <1>18, <1>19, <1>20, <1>21, <1>22, <1>23, <1>24, <1>25, <1>26, <1>27, <1>28, <1>29
  DEF Next, Step

(* Dependency order is preserved: a node starts only when its upstream     *)
(* nodes are complete, and complete nodes stay as they are.                *)
LEMMA OrderStep ==
  ASSUME TypeOK, Position, DependencyOrder, [Next]_vars
  PROVE  DependencyOrder'
<1> SUFFICES ASSUME NEW r \in Run, NEW n \in graph'.nodes, nodeStatus'[r][n] \in Started,
                    NEW e \in Incoming(n)'
             PROVE  nodeStatus'[r][e.from] \in Complete
  BY DEF DependencyOrder, Complete
<1>1. graph' = graph /\ \A q \in Run, m \in Node : RowsKept(q, m)
  BY RowStep
<1>2. n \in graph.nodes /\ n \in Node /\ e \in Incoming(n) /\ e.from \in Node
  BY <1>1, GraphFacts DEF Incoming
<1>3. nodeStatus[r][e.from] \in Complete
  <2>1. CASE nodeStatus[r][n] \in Started
    BY <1>2, <2>1 DEF DependencyOrder
  <2>2. CASE nodeStatus[r][n] \notin Started
    BY <1>1, <1>2, <2>2 DEF RowsKept, Ready, Upstream, Incoming
  <2>3. QED
    BY <2>1, <2>2
<1>4. QED
  BY <1>1, <1>2, <1>3 DEF RowsKept, Complete, Settled

(* In an acyclic graph the scheduler is stuck only behind a broken node:   *)
(* among the pending nodes one has no pending upstream node, and what it   *)
(* waits for can only be broken.                                           *)
LEMMA StuckBehindBroken ==
  ASSUME TypeOK, NEW r \in Run, NoneReady(r), HasPending(r), seen[r] = graph.edges,
         \A n \in Node : n \in graph.nodes <=> nodeStatus[r][n] # "absent"
  PROVE  \E n \in graph.nodes : nodeStatus[r][n] \in Broken
<1> DEFINE P == {n \in graph.nodes : nodeStatus[r][n] = "pending"}
<1>1. P # {} /\ P \in SUBSET graph.nodes
  BY DEF HasPending, TypeOK, NodeStatus
<1>2. Acyclic(graph)
  BY GraphsAssumption DEF TypeOK
<1>3. PICK n \in P : \A e \in graph.edges : e.to = n => e.from \notin P
  BY <1>1, <1>2 DEF Acyclic
<1>4. ~ Ready(r, n) /\ n \in Node
  BY GraphFacts DEF NoneReady
<1>5. PICK e \in Incoming(n) : nodeStatus[r][e.from] \notin Complete
  BY <1>4 DEF Ready, Upstream, Incoming
<1>6. e.from \in graph.nodes /\ e.from \in Node /\ e.from \notin P
  BY <1>3, <1>5, GraphFacts DEF Incoming
<1>7. nodeStatus[r][e.from] \in NodeStatus \ {"absent", "pending"}
  BY <1>6 DEF TypeOK
<1>8. QED
  BY <1>5, <1>6, <1>7 DEF NodeStatus, Complete, Broken

(* While next_node chooses, all rows are there and all edges were read.    *)
LEMMA WhileChoosing ==
  ASSUME Position, NEW r \in Run, phase[r] = "choosing"
  PROVE  seen[r] = graph.edges /\ \A n \in Node : n \in graph.nodes <=> nodeStatus[r][n] # "absent"
BY DEF Position

(* The same for the culprit of a failed run.                               *)
LEMMA CulpritStep ==
  ASSUME TypeOK, Position, FailedRunHasCulprit, [Next]_vars
  PROVE  FailedRunHasCulprit'
<1>0. ASSUME NEW r \in Run, phase[r] = "choosing", NoneReady(r), HasPending(r)
      PROVE  \E n \in graph.nodes : nodeStatus[r][n] \in Broken
  BY <1>0, WhileChoosing, StuckBehindBroken
<1> USE GraphFacts DEF TypeOK, FailedRunHasCulprit, Position
<1>1. ASSUME NEW r \in Run, Execute(r) PROVE FailedRunHasCulprit'
  BY <1>1 DEF Execute, Broken
<1>2. ASSUME NEW r \in Run, NEW n \in Node, Skip(r, n) PROVE FailedRunHasCulprit'
  BY <1>2 DEF Skip
<1>3. ASSUME NEW r \in Run, NEW n \in Node, Dispatch(r, n) PROVE FailedRunHasCulprit'
  BY <1>3 DEF Dispatch
<1>4. ASSUME NEW r \in Run, Reuse(r) PROVE FailedRunHasCulprit'
  BY <1>4 DEF Reuse
<1>5. ASSUME NEW r \in Run, NEW c \in Content, Invoke(r, c) PROVE FailedRunHasCulprit'
  BY <1>5 DEF Invoke
<1>6. ASSUME NEW r \in Run, NEW p \in Phase, InvokeRaises(r, p) PROVE FailedRunHasCulprit'
  BY <1>6 DEF InvokeRaises
<1>7. ASSUME NEW r \in Run, NEW p \in Phase, EmbedRaises(r, p) PROVE FailedRunHasCulprit'
  BY <1>7 DEF EmbedRaises
<1>8. ASSUME NEW r \in Run, FinishTerminal(r) PROVE FailedRunHasCulprit'
  BY <1>8 DEF FinishTerminal
<1>9. ASSUME NEW r \in Run, FinishStalled(r) PROVE FailedRunHasCulprit'
  <2>1. NoneReady(r) /\ HasPending(r) /\ phase[r] = "choosing"
    BY <1>9 DEF FinishStalled
  <2>2. \E n \in graph.nodes : nodeStatus[r][n] \in Broken
    BY <1>0, <2>1
  <2> QED  BY <1>9, <2>2 DEF FinishStalled
<1>10. ASSUME NEW r \in Run, FinishDrained(r) PROVE FailedRunHasCulprit'
  BY <1>10 DEF FinishDrained
<1>11. ASSUME NEW r \in Run, CheckpointBefore(r) PROVE FailedRunHasCulprit'
  BY <1>11 DEF CheckpointBefore
<1>12. ASSUME NEW r \in Run, CheckpointAfter(r) PROVE FailedRunHasCulprit'
  BY <1>12 DEF CheckpointAfter
<1>13. ASSUME NEW r \in Run, Begin(r) PROVE FailedRunHasCulprit'
  BY <1>13 DEF Begin
<1>14. ASSUME NEW r \in Run, GatherFails(r) PROVE FailedRunHasCulprit'
  BY <1>14 DEF GatherFails
<1>15. ASSUME NEW r \in Run, MarkSucceeded(r) PROVE FailedRunHasCulprit'
  BY <1>15 DEF MarkSucceeded
<1>16. ASSUME NEW r \in Run, MarkReused(r) PROVE FailedRunHasCulprit'
  BY <1>16 DEF MarkReused
<1>17. ASSUME NEW r \in Run, HandleFatal(r) PROVE FailedRunHasCulprit'
  BY <1>17 DEF HandleFatal
<1>18. ASSUME NEW r \in Run, HandleRetryable(r) PROVE FailedRunHasCulprit'
  BY <1>18 DEF HandleRetryable
<1>19. ASSUME NEW r \in Run, HandleError(r) PROVE FailedRunHasCulprit'
  BY <1>19 DEF HandleError
<1>20. ASSUME NEW r \in Run, FailRun(r) PROVE FailedRunHasCulprit'
  <2>1. phase[r] = "nodeFailed"
    BY <1>20 DEF FailRun
  <2>2. programCounter[r] \in graph.nodes /\ nodeStatus[r][programCounter[r]] = "failed"
    BY <2>1
  <2> QED  BY <1>20, <2>2 DEF FailRun, Broken
<1>21. ASSUME NEW r \in Run, Crash(r) PROVE FailedRunHasCulprit'
  BY <1>21 DEF Crash
<1>22. CASE UNCHANGED vars
  BY <1>22 DEF vars, Broken
<1>23. ASSUME NEW r \in Run, NEW n \in Node, CreateRow(r, n) PROVE FailedRunHasCulprit'
  <2>1. \A q \in Run, m \in Node : nodeStatus[q][m] \in Broken => nodeStatus'[q][m] = nodeStatus[q][m]
    BY <1>23 DEF CreateRow, Broken
  <2> QED  BY <1>23, <2>1 DEF CreateRow
<1>24. ASSUME NEW r \in Run, MarkRunning(r) PROVE FailedRunHasCulprit'
  BY <1>24 DEF MarkRunning
<1>25. ASSUME NEW r \in Run, Look(r) PROVE FailedRunHasCulprit'
  BY <1>25 DEF Look
<1>26. ASSUME NEW r \in Run, Gather(r) PROVE FailedRunHasCulprit'
  BY <1>26 DEF Gather
<1>27. ASSUME NEW r \in Run, CacheHit(r) PROVE FailedRunHasCulprit'
  BY <1>27 DEF CacheHit
<1>28. ASSUME NEW r \in Run, CacheMiss(r) PROVE FailedRunHasCulprit'
  BY <1>28 DEF CacheMiss
<1>29. ASSUME NEW r \in Run, PersistOutput(r) PROVE FailedRunHasCulprit'
  BY <1>29 DEF PersistOutput
<1> HIDE DEF TypeOK, FailedRunHasCulprit, Position
<1>q. QED
  BY <1>1, <1>2, <1>3, <1>4, <1>5, <1>6, <1>7, <1>8, <1>9, <1>10, <1>11, <1>12, <1>13, <1>14, <1>15,
     <1>16, <1>17, <1>18, <1>19, <1>20, <1>21, <1>22, <1>23, <1>24, <1>25, <1>26, <1>27, <1>28, <1>29
  DEF Next, Step

LEMMA InvStep == IInv /\ [Next]_vars => IInv'
BY TypeStep, PositionStep, OrderStep, CulpritStep DEF IInv

THEOREM Invariance == Spec => []IInv
BY InitInv, InvStep, PTL DEF Spec

(* Rows, counters, checkpoints and cache keep their types for every graph. *)
THEOREM TypeCorrect == Spec => []TypeOK
<1>1. IInv => TypeOK
  BY DEF IInv
<1>2. QED
  BY <1>1, Invariance, PTL

(* Nodes run in dependency order, through crashes and re-executions.       *)
THEOREM InOrder == Spec => []DependencyOrder
<1>1. IInv => DependencyOrder
  BY DEF IInv
<1>2. QED
  BY <1>1, Invariance, PTL

(* A run is failed only because of a node that broke.                      *)
THEOREM NoSpuriousStall == Spec => []FailedRunHasCulprit
<1>1. IInv => FailedRunHasCulprit
  BY DEF IInv
<1>2. QED
  BY <1>1, Invariance, PTL

(* What became of a node is never rewritten.                               *)
THEOREM OutcomesAreFinal == Spec => OutcomeIsFinal
<1> DEFINE Kept == \A r \in Run, n \in Node :
       /\ nodeStatus[r][n] \in Settled =>
            /\ nodeStatus'[r][n] = nodeStatus[r][n]
            /\ attempts'[r][n] = attempts[r][n]
            /\ nodeStatus[r][n] # "expanded" => output'[r][n] = output[r][n]
       /\ nodeStatus[r][n] = "running" => attempts'[r][n] = attempts[r][n]
<1>1. IInv /\ [Next]_vars => [Kept]_vars
  BY RowStep DEF IInv, RowsKept
<1>2. QED
  BY <1>1, Invariance, PTL DEF Spec, OutcomeIsFinal

-----------------------------------------------------------------------------
(* What the rows, the counter and the checkpoints of a run tell about its  *)
(* past.                                                                   *)

(* The steps that write rows of nodes; every other step leaves all of them *)
(* alone.                                                                  *)
Writes(r) ==
  \/ \E n \in Node : CreateRow(r, n) \/ Skip(r, n)
  \/ Begin(r) \/ MarkSucceeded(r) \/ MarkReused(r)
  \/ HandleFatal(r) \/ HandleRetryable(r) \/ HandleError(r)

LEMMA RowsOrNot ==
  ASSUME [Next]_vars
  PROVE  UNCHANGED rowVars \/ \E r \in Run : Writes(r)
<1>1. CASE UNCHANGED vars
  BY <1>1 DEF vars
<1>2. ASSUME NEW r \in Run, Execute(r) \/ Step(r) \/ Crash(r)
      PROVE  UNCHANGED rowVars \/ Writes(r)
  BY <1>2 DEF Execute, Step, Writes, MarkRunning, Look, Dispatch, FinishTerminal, FinishStalled,
              FinishDrained, CheckpointBefore, CheckpointAfter, Gather, GatherFails, CacheHit,
              CacheMiss, Reuse, Invoke, InvokeRaises, EmbedRaises, PersistOutput, FailRun, Crash
<1> QED  BY <1>1, <1>2 DEF Next

(* A row is created for a node that has none.                              *)
LEMMA RowIsNew ==
  ASSUME TypeOK, Position, NEW r \in Run, NEW n \in Node, CreateRow(r, n)
  PROVE  /\ nodeStatus[r][n] = "absent" /\ n \in graph.nodes
         /\ nodeStatus' = [nodeStatus EXCEPT ![r][n] = "pending"]
BY DEF CreateRow, Position

-----------------------------------------------------------------------------
(* What steers the scheduler is set when a node succeeds, and only a       *)
(* router selects a branch.                                                *)
Steering ==
  \A r \in Run, n \in Node :
    /\ notFound[r][n] => nodeStatus[r][n] = "succeeded"
    /\ selected[r][n] # None => nodeStatus[r][n] = "succeeded" /\ graph.kind[n] = "router"

(* A node that has been chosen is not pruned before it starts.             *)
ChosenIsNotPruned ==
  \A r \in Run : phase[r] \in {"dispatched", "entering"} => ~ Pruned(r, programCounter[r])

(* What a step may do to the rows that prune others.                       *)
SteeringKept(r, n) ==
  /\ nodeStatus[r][n] \in Settled => /\ notFound'[r][n] = notFound[r][n]
                                     /\ selected'[r][n] = selected[r][n]
  /\ nodeStatus'[r][n] = "skipped" =>
       \/ nodeStatus[r][n] = "skipped"
       \/ Skippable(r, n, graph.edges) /\ seen[r] = graph.edges

LEMMA SteeringStep ==
  ASSUME TypeOK, Position, Steering, [Next]_vars
  PROVE  Steering' /\ \A r \in Run, n \in Node : SteeringKept(r, n)
<1> DEFINE Goal == Steering' /\ \A q \in Run, m \in Node : SteeringKept(q, m)
<1> USE GraphFacts DEF TypeOK, NodeStatus, Steering, SteeringKept, Settled
<1>1. graph' = graph
  BY RowStep
<1>2. CASE UNCHANGED rowVars
  BY <1>1, <1>2
<1>3. ASSUME NEW r \in Run, NEW m \in Node, CreateRow(r, m) PROVE Goal
  <2>1. /\ nodeStatus[r][m] = "absent" /\ nodeStatus' = [nodeStatus EXCEPT ![r][m] = "pending"]
        /\ notFound' = notFound /\ selected' = selected
    BY <1>3, RowIsNew DEF CreateRow
  <2>2. \A q \in Run, l \in Node : q # r \/ l # m => nodeStatus'[q][l] = nodeStatus[q][l]
    BY <2>1
  <2> QED  BY <1>1, <2>1, <2>2
<1>4. ASSUME NEW r \in Run, NEW n \in Node, Skip(r, n) PROVE Goal
  BY <1>1, <1>4 DEF Skip, Skippable, Position
<1>5. ASSUME NEW r \in Run, Begin(r) PROVE Goal
  BY <1>1, <1>5 DEF Begin, Position, Ready
<1>6. ASSUME NEW r \in Run, MarkSucceeded(r) PROVE Goal
  BY <1>1, <1>6 DEF MarkSucceeded, Position, Executing
<1>7. ASSUME NEW r \in Run, MarkReused(r) PROVE Goal
  BY <1>1, <1>7 DEF MarkReused, Position, Executing
<1>8. ASSUME NEW r \in Run, HandleFatal(r) PROVE Goal
  BY <1>1, <1>8 DEF HandleFatal, Position, Executing
<1>9. ASSUME NEW r \in Run, HandleRetryable(r) PROVE Goal
  BY <1>1, <1>9 DEF HandleRetryable, Position, Executing
<1>10. ASSUME NEW r \in Run, HandleError(r) PROVE Goal
  BY <1>1, <1>10 DEF HandleError, Position, Executing
<1> QED  BY <1>2, <1>3, <1>4, <1>5, <1>6, <1>7, <1>8, <1>9, <1>10, RowsOrNot DEF Writes

(* A reason to be pruned stays one, and once all upstream nodes are        *)
(* complete none is added.                                                 *)
LEMMA PrunedStays ==
  ASSUME TypeOK, Position, Steering, [Next]_vars,
         NEW r \in Run, NEW n \in graph.nodes
  PROVE  /\ Pruned(r, n) => Pruned(r, n)'
         /\ (\A e \in Incoming(n) : nodeStatus[r][e.from] \in Complete)
              => (Pruned(r, n)' => Pruned(r, n))
<1>1. /\ graph' = graph
      /\ \A m \in Node : RowsKept(r, m) /\ SteeringKept(r, m)
  BY RowStep, SteeringStep
<1>2. \A e \in Incoming(n) : e.from \in Node
  BY GraphFacts DEF Incoming
<1>3. \A m \in Node : nodeStatus[r][m] \in Settled =>
        /\ nodeStatus'[r][m] = nodeStatus[r][m]
        /\ notFound'[r][m] = notFound[r][m]
        /\ selected'[r][m] = selected[r][m]
  BY <1>1 DEF RowsKept, SteeringKept
<1>4. Incoming(n)' = Incoming(n)
  BY <1>1 DEF Incoming
<1>5. ASSUME Pruned(r, n) PROVE Pruned(r, n)'
  <2>1. CASE graph.kind[n] = "model" /\ \E e \in Incoming(n) : notFound[r][e.from]
    <3>1. PICK e \in Incoming(n) : notFound[r][e.from]
      BY <2>1
    <3>2. nodeStatus[r][e.from] \in Settled
      BY <1>2, <3>1 DEF Steering, Settled
    <3> QED  BY <1>1, <1>2, <1>3, <1>4, <2>1, <3>1, <3>2 DEF Pruned
  <2>2. CASE \E e \in Incoming(n) : e.branch # None /\ selected[r][e.from] \notin {None, e.branch}
    <3>1. PICK e \in Incoming(n) : e.branch # None /\ selected[r][e.from] \notin {None, e.branch}
      BY <2>2
    <3>2. nodeStatus[r][e.from] \in Settled
      BY <1>2, <3>1 DEF Steering, Settled
    <3> QED  BY <1>2, <1>3, <1>4, <3>1, <3>2 DEF Pruned
  <2>3. CASE Incoming(n) # {} /\ \A e \in Incoming(n) : nodeStatus[r][e.from] = "skipped"
    BY <1>2, <1>3, <1>4, <2>3 DEF Pruned, Settled
  <2> QED  BY <1>5, <2>1, <2>2, <2>3 DEF Pruned
<1>6. ASSUME \A e \in Incoming(n) : nodeStatus[r][e.from] \in Complete, Pruned(r, n)'
      PROVE  Pruned(r, n)
  <2>1. \A e \in Incoming(n) : /\ nodeStatus'[r][e.from] = nodeStatus[r][e.from]
                               /\ notFound'[r][e.from] = notFound[r][e.from]
                               /\ selected'[r][e.from] = selected[r][e.from]
    BY <1>2, <1>3, <1>6 DEF Complete, Settled
  <2> QED  BY <1>1, <1>4, <1>6, <2>1 DEF Pruned
<1> QED  BY <1>5, <1>6

(* When no skip is left, a pending node is not pruned.                     *)
LEMMA StableIsNotPruned ==
  ASSUME TypeOK, Steering, NEW r \in Run, NEW n \in graph.nodes,
         Stable(r), nodeStatus[r][n] = "pending", seen[r] = graph.edges
  PROVE  ~ Pruned(r, n)
<1>1. /\ ~ BlockedByNotFound(r, n, graph.edges) /\ ~ BlockedByRouter(r, n, graph.edges)
      /\ ~ AllUpstreamSkipped(r, n) /\ Upstream(r, n) = Incoming(n)
  BY GraphFacts DEF Stable, Skippable, Upstream, Incoming
<1>2. ASSUME NEW e \in Incoming(n), e.branch # None
      PROVE  selected[r][e.from] \in {None, e.branch}
  <2>1. e.from \in Node
    BY GraphFacts DEF Incoming
  <2> QED  BY <1>1, <1>2, <2>1 DEF Steering, BlockedByRouter, Incoming
<1> QED  BY <1>1, <1>2 DEF Pruned, BlockedByNotFound, AllUpstreamSkipped, Incoming

(* A skip has its reason at the moment it is made.                         *)
LEMMA SkippableIsPruned ==
  ASSUME NEW r \in Run, NEW n \in Node, Skippable(r, n, graph.edges), seen[r] = graph.edges
  PROVE  Pruned(r, n)
BY DEF Skippable, Pruned, BlockedByNotFound, BlockedByRouter, AllUpstreamSkipped, Upstream, Incoming

(* A run comes to a chosen node by Dispatch.                               *)
LEMMA ChosenByDispatch ==
  ASSUME TypeOK, [Next]_vars, NEW r \in Run, phase'[r] \in {"dispatched", "entering"}
  PROVE  \/ phase[r] \in {"dispatched", "entering"} /\ programCounter'[r] = programCounter[r]
         \/ \E n \in Node : Dispatch(r, n)
<1> USE DEF TypeOK
<1>1. CASE UNCHANGED vars
  BY <1>1 DEF vars
<1>2. ASSUME NEW q \in Run, Execute(q) \/ Crash(q) \/ FinishTerminal(q) \/ FinishStalled(q)
                            \/ FinishDrained(q) \/ FailRun(q)
      PROVE  phase[r] \in {"dispatched", "entering"} /\ programCounter'[r] = programCounter[r]
  BY <1>2 DEF Execute, Crash, FinishTerminal, FinishStalled, FinishDrained, FailRun
<1>8. ASSUME NEW q \in Run, MarkRunning(q) \/ Look(q) \/ \E n \in Node : CreateRow(q, n)
      PROVE  phase[r] \in {"dispatched", "entering"} /\ programCounter'[r] = programCounter[r]
  BY <1>8 DEF MarkRunning, Look, CreateRow
<1>9. ASSUME NEW q \in Run, Gather(q) \/ CacheHit(q) \/ CacheMiss(q) \/ Reuse(q) \/ PersistOutput(q)
      PROVE  phase[r] \in {"dispatched", "entering"} /\ programCounter'[r] = programCounter[r]
  BY <1>9 DEF Gather, CacheHit, CacheMiss, Reuse, PersistOutput
<1>3. ASSUME NEW q \in Run, CheckpointBefore(q) \/ CheckpointAfter(q) \/ Begin(q) \/ GatherFails(q)
      PROVE  phase[r] \in {"dispatched", "entering"} /\ programCounter'[r] = programCounter[r]
  BY <1>3 DEF CheckpointBefore, CheckpointAfter, Begin, GatherFails
<1>4. ASSUME NEW q \in Run, \/ MarkSucceeded(q) \/ MarkReused(q) \/ HandleFatal(q)
                            \/ HandleRetryable(q) \/ HandleError(q)
      PROVE  phase[r] \in {"dispatched", "entering"} /\ programCounter'[r] = programCounter[r]
  BY <1>4 DEF MarkSucceeded, MarkReused, HandleFatal, HandleRetryable, HandleError
<1>5. ASSUME NEW q \in Run, \/ \E n \in Node : Skip(q, n)
                            \/ \E c \in Content : Invoke(q, c)
      PROVE  phase[r] \in {"dispatched", "entering"} /\ programCounter'[r] = programCounter[r]
  BY <1>5 DEF Skip, Invoke
<1>6. ASSUME NEW q \in Run, NEW p \in Phase, EmbedRaises(q, p) \/ InvokeRaises(q, p)
      PROVE  phase[r] \in {"dispatched", "entering"} /\ programCounter'[r] = programCounter[r]
  BY <1>6 DEF EmbedRaises, InvokeRaises, Raises
<1>7. ASSUME NEW q \in Run, NEW n \in Node, Dispatch(q, n)
      PROVE  \/ phase[r] \in {"dispatched", "entering"} /\ programCounter'[r] = programCounter[r]
             \/ Dispatch(r, n)
  BY <1>7 DEF Dispatch
<1> QED  BY <1>1, <1>2, <1>3, <1>4, <1>5, <1>6, <1>7, <1>8, <1>9 DEF Next, Step

LEMMA ChosenStep ==
  ASSUME TypeOK, Position, Steering, ChosenIsNotPruned, [Next]_vars
  PROVE  ChosenIsNotPruned'
<1> SUFFICES ASSUME NEW r \in Run, phase'[r] \in {"dispatched", "entering"}
             PROVE  ~ Pruned(r, programCounter[r])'
  BY DEF ChosenIsNotPruned
<1>1. PICK n \in graph.nodes : /\ programCounter'[r] = n /\ Ready(r, n) /\ ~ Pruned(r, n)
                               /\ seen[r] = graph.edges
  <2>1. CASE phase[r] \in {"dispatched", "entering"} /\ programCounter'[r] = programCounter[r]
    BY <2>1 DEF Position, ChosenIsNotPruned
  <2>2. ASSUME NEW m \in Node, Dispatch(r, m)
        PROVE  /\ m \in graph.nodes /\ programCounter'[r] = m /\ Ready(r, m) /\ ~ Pruned(r, m)
               /\ seen[r] = graph.edges
    <3>1. seen[r] = graph.edges
      BY <2>2 DEF Dispatch, Position
    <3> QED  BY <2>2, <3>1, StableIsNotPruned DEF Dispatch, Ready, TypeOK
  <2> QED  BY <2>1, <2>2, ChosenByDispatch
<1>2. ~ Pruned(r, n)'
  BY <1>1, PrunedStays DEF Ready, Upstream, Incoming
<1> QED  BY <1>1, <1>2 DEF Pruned, Incoming

(* A node is started by Begin, when it is the one that was chosen.         *)
LEMMA StartedByBegin ==
  ASSUME TypeOK, Position, [Next]_vars, NEW r \in Run, NEW n \in Node,
         nodeStatus'[r][n] \in Started, nodeStatus[r][n] \notin Started
  PROVE  phase[r] = "entering" /\ programCounter[r] = n
<1> DEFINE Goal == phase[r] = "entering" /\ programCounter[r] = n
<1> USE GraphFacts DEF TypeOK, Started
<1>1. CASE UNCHANGED rowVars
  BY <1>1
<1>2. ASSUME NEW q \in Run, NEW m \in Node, CreateRow(q, m) PROVE Goal
  BY <1>2, RowIsNew DEF CreateRow
<1>3. ASSUME NEW q \in Run, NEW m \in Node, Skip(q, m) PROVE Goal
  BY <1>3 DEF Skip
<1>4. ASSUME NEW q \in Run, Begin(q) PROVE Goal
  BY <1>4 DEF Begin
<1>5. ASSUME NEW q \in Run, MarkSucceeded(q) PROVE Goal
  BY <1>5 DEF MarkSucceeded, Position, Executing
<1>6. ASSUME NEW q \in Run, MarkReused(q) PROVE Goal
  BY <1>6 DEF MarkReused, Position, Executing
<1>7. ASSUME NEW q \in Run, HandleFatal(q) PROVE Goal
  BY <1>7 DEF HandleFatal, Position, Executing
<1>8. ASSUME NEW q \in Run, HandleRetryable(q) PROVE Goal
  BY <1>8 DEF HandleRetryable, Position, Executing
<1>9. ASSUME NEW q \in Run, HandleError(q) PROVE Goal
  BY <1>9 DEF HandleError, Position, Executing
<1> QED  BY <1>1, <1>2, <1>3, <1>4, <1>5, <1>6, <1>7, <1>8, <1>9, RowsOrNot DEF Writes

LEMMA PrunedNeverRunsStep ==
  ASSUME TypeOK, Position, DependencyOrder, Steering, ChosenIsNotPruned, PrunedNeverRuns,
         [Next]_vars
  PROVE  PrunedNeverRuns'
<1> SUFFICES ASSUME NEW r \in Run, NEW n \in graph'.nodes, nodeStatus'[r][n] \in Started
             PROVE  ~ Pruned(r, n)'
  BY DEF PrunedNeverRuns
<1>1. n \in graph.nodes /\ n \in Node /\ RowsKept(r, n)
  BY RowStep, GraphFacts
<1>2. CASE nodeStatus[r][n] \in Started
  BY <1>1, <1>2, PrunedStays DEF PrunedNeverRuns, DependencyOrder
<1>3. CASE nodeStatus[r][n] \notin Started
  <2>1. phase[r] = "entering" /\ programCounter[r] = n
    BY <1>1, <1>3, StartedByBegin
  <2>2. Ready(r, n) /\ seen[r] = graph.edges /\ ~ Pruned(r, n)
    BY <2>1 DEF ChosenIsNotPruned, Position
  <2> QED  BY <1>1, <2>2, PrunedStays DEF Ready, Upstream, Incoming
<1> QED  BY <1>2, <1>3

LEMMA SkipJustifiedStep ==
  ASSUME TypeOK, Position, Steering, SkipJustified, [Next]_vars
  PROVE  SkipJustified'
<1> SUFFICES ASSUME NEW r \in Run, NEW n \in graph'.nodes, nodeStatus'[r][n] = "skipped"
             PROVE  Pruned(r, n)'
  BY DEF SkipJustified
<1>1. n \in graph.nodes /\ n \in Node /\ SteeringKept(r, n)
  BY RowStep, SteeringStep, GraphFacts
<1> QED  BY <1>1, PrunedStays, SkippableIsPruned DEF SkipJustified, SteeringKept

-----------------------------------------------------------------------------
(* The first execution of a run: until it ends, no node is broken but the  *)
(* one that is being executed, and its end is told by the rows.            *)
FirstExecution ==
  \A r \in Run :
    /\ executions[r] = 0 => /\ phase[r] = "idle" /\ runStatus[r] = "pending"
                            /\ \A n \in Node : nodeStatus[r][n] = "absent"
    /\ executions[r] = 1 =>
         /\ phase[r] \in {"ensuring", "scheduling", "choosing", "dispatched", "entering", "marked"} =>
              \A n \in Node : nodeStatus[r][n] \notin Broken
         /\ phase[r] \in Executing \cup {"nodeFailed"} =>
              \A n \in Node : nodeStatus[r][n] \in Broken => n = programCounter[r]
         /\ runStatus[r] = "succeeded" => \A n \in graph.nodes : nodeStatus[r][n] \in Complete
         /\ runStatus[r] = "failed" => nodeStatus[r][programCounter[r]] = "failed"

(* When nothing is ready and nothing is broken, everything is complete.    *)
LEMMA AllComplete ==
  ASSUME TypeOK, Position, NEW r \in Run, phase[r] = "choosing", NoneReady(r),
         \A n \in Node : nodeStatus[r][n] \notin Broken
  PROVE  ~ HasPending(r) /\ \A n \in graph.nodes : nodeStatus[r][n] \in Complete
<1>1. seen[r] = graph.edges /\ \A n \in Node : n \in graph.nodes <=> nodeStatus[r][n] # "absent"
  BY DEF Position
<1>2. ~ HasPending(r)
  BY <1>1, StuckBehindBroken, GraphFacts
<1>3. ASSUME NEW n \in graph.nodes PROVE nodeStatus[r][n] \in Complete
  <2>1. n \in Node /\ nodeStatus[r][n] \in NodeStatus \ {"absent", "pending"}
    BY <1>1, <1>2, GraphFacts DEF HasPending, TypeOK
  <2> QED  BY <2>1 DEF NodeStatus, Complete, Broken
<1> QED  BY <1>2, <1>3

LEMMA FirstExecutionStep ==
  ASSUME TypeOK, Position, FirstExecution, [Next]_vars
  PROVE  FirstExecution'
<1>0. ASSUME NEW r \in Run, NEW n \in Node, CreateRow(r, n)
      PROVE  /\ nodeStatus[r][n] = "absent" /\ n \in graph.nodes
             /\ nodeStatus' = [nodeStatus EXCEPT ![r][n] = "pending"] /\ phase[r] = "ensuring"
             /\ UNCHANGED <<graph, phase, runStatus, programCounter, executions>>
  BY <1>0, RowIsNew DEF CreateRow
<1> USE GraphFacts DEF TypeOK, FirstExecution, Executing, Broken
<1>1. CASE UNCHANGED vars
  BY <1>1 DEF vars, Complete
<1>2. ASSUME NEW r \in Run, Execute(r) PROVE FirstExecution'
  BY <1>2 DEF Execute, Complete
<1>3. ASSUME NEW r \in Run, NEW n \in Node, Skip(r, n) PROVE FirstExecution'
  BY <1>3, SMTT(30) DEF Skip, Position
<1>4. ASSUME NEW r \in Run, NEW n \in Node, Dispatch(r, n) PROVE FirstExecution'
  BY <1>4, SMTT(60) DEF Dispatch, Position
<1>5. ASSUME NEW r \in Run, Reuse(r) PROVE FirstExecution'
  BY <1>5 DEF Reuse, Position
<1>6. ASSUME NEW r \in Run, NEW c \in Content, Invoke(r, c) PROVE FirstExecution'
  BY <1>6 DEF Invoke, Position
<1>7. ASSUME NEW r \in Run, NEW p \in Phase, InvokeRaises(r, p)
      PROVE  FirstExecution'
  BY <1>7 DEF InvokeRaises, Raises, Position
<1>8. ASSUME NEW r \in Run, NEW p \in Phase, EmbedRaises(r, p) PROVE FirstExecution'
  BY <1>8 DEF EmbedRaises, Position
<1>9. ASSUME NEW r \in Run, FinishTerminal(r) \/ FinishDrained(r) PROVE FirstExecution'
  <2>1. executions[r] = 1 => \A n \in graph.nodes : nodeStatus[r][n] \in Complete
    <3>1. phase[r] = "choosing" /\ NoneReady(r)
      BY <1>9 DEF FinishTerminal, FinishDrained
    <3> QED  BY <3>1, AllComplete
  <2>2. /\ runStatus' = [runStatus EXCEPT ![r] = "succeeded"]
        /\ phase' = [phase EXCEPT ![r] = "idle"] /\ phase[r] = "choosing"
        /\ UNCHANGED <<graph, executions, nodeStatus, programCounter>>
    BY <1>9 DEF FinishTerminal, FinishDrained
  <2>3. \A q \in Run : /\ q # r => runStatus'[q] = runStatus[q] /\ phase'[q] = phase[q]
                       /\ q = r => runStatus'[q] = "succeeded" /\ phase'[q] = "idle"
    BY <2>2
  <2>4. executions[r] # 0
    BY <2>2
  <2> QED  BY <2>1, <2>2, <2>3, <2>4
<1>10. ASSUME NEW r \in Run, FinishStalled(r) PROVE FirstExecution'
  <2>1. phase[r] = "choosing" /\ NoneReady(r) /\ HasPending(r)
    BY <1>10 DEF FinishStalled
  <2>2. executions[r] # 1
    BY <2>1, AllComplete
  <2> QED  BY <1>10, <2>2 DEF FinishStalled, Complete
<1>11. ASSUME NEW r \in Run, CheckpointBefore(r) PROVE FirstExecution'
  BY <1>11 DEF CheckpointBefore, Position
<1>12. ASSUME NEW r \in Run, CheckpointAfter(r) PROVE FirstExecution'
  BY <1>12 DEF CheckpointAfter, Position
<1>13. ASSUME NEW r \in Run, GatherFails(r) PROVE FirstExecution'
  BY <1>13 DEF GatherFails, Position
<1>14. ASSUME NEW r \in Run, Begin(r) PROVE FirstExecution'
  BY <1>14 DEF Begin, Position, Ready
<1>15. ASSUME NEW r \in Run, MarkSucceeded(r) PROVE FirstExecution'
  BY <1>15 DEF MarkSucceeded, Position
<1>16. ASSUME NEW r \in Run, MarkReused(r) PROVE FirstExecution'
  BY <1>16 DEF MarkReused, Position
<1>17. ASSUME NEW r \in Run, HandleFatal(r) PROVE FirstExecution'
  BY <1>17 DEF HandleFatal, Position
<1>18. ASSUME NEW r \in Run, HandleRetryable(r) PROVE FirstExecution'
  BY <1>18 DEF HandleRetryable, Position
<1>19. ASSUME NEW r \in Run, HandleError(r) PROVE FirstExecution'
  BY <1>19 DEF HandleError, Position
<1>20. ASSUME NEW r \in Run, FailRun(r) PROVE FirstExecution'
  BY <1>20 DEF FailRun, Position
<1>21. ASSUME NEW r \in Run, Crash(r) PROVE FirstExecution'
  BY <1>21 DEF Crash, Position
<1>22. ASSUME NEW r \in Run, NEW n \in Node, CreateRow(r, n) PROVE FirstExecution'
  <2>1. /\ nodeStatus[r][n] = "absent" /\ n \in graph.nodes
        /\ nodeStatus' = [nodeStatus EXCEPT ![r][n] = "pending"] /\ phase[r] = "ensuring"
        /\ UNCHANGED <<graph, phase, runStatus, programCounter, executions>>
    BY <1>0, <1>22
  <2>2. \A q \in Run, l \in Node : q # r \/ l # n => nodeStatus'[q][l] = nodeStatus[q][l]
    BY <2>1
  <2>3. nodeStatus'[r][n] = "pending" /\ executions[r] # 0
    BY <2>1
  <2> QED  BY <2>1, <2>2, <2>3 DEF Complete
<1>23. ASSUME NEW r \in Run, MarkRunning(r) PROVE FirstExecution'
  BY <1>23 DEF MarkRunning, Position
<1>24. ASSUME NEW r \in Run, Look(r) PROVE FirstExecution'
  BY <1>24 DEF Look, Position
<1>25. ASSUME NEW r \in Run, Gather(r) PROVE FirstExecution'
  BY <1>25 DEF Gather, Position
<1>26. ASSUME NEW r \in Run, CacheHit(r) PROVE FirstExecution'
  BY <1>26 DEF CacheHit, Position
<1>27. ASSUME NEW r \in Run, CacheMiss(r) PROVE FirstExecution'
  BY <1>27 DEF CacheMiss, Position
<1>28. ASSUME NEW r \in Run, PersistOutput(r) PROVE FirstExecution'
  BY <1>28 DEF PersistOutput, Position
<1> QED  BY <1>1, <1>2, <1>3, <1>4, <1>5, <1>6, <1>7, <1>8, <1>9, <1>10, <1>11, <1>12, <1>13,
            <1>14, <1>15, <1>16, <1>17, <1>18, <1>19, <1>20, <1>21,
            <1>22, <1>23, <1>24, <1>25, <1>26, <1>27, <1>28 DEF Next, Step

-----------------------------------------------------------------------------
(* The checkpoints as a journal: where execute stands says how far the     *)
(* last one is behind the rows.                                            *)
Behind(r) ==
  IF checkpoints[r] = <<>> THEN Succeeded(r) = {}
  ELSE /\ LastCheckpoint(r).completed \subseteq Succeeded(r)
       /\ Succeeded(r) \ LastCheckpoint(r).completed \subseteq {LastCheckpoint(r).pc}

UpToDate(r) ==
  IF checkpoints[r] = <<>> THEN Succeeded(r) = {}
  ELSE LastCheckpoint(r).completed = Succeeded(r)

Journal ==
  \A r \in Run :
    /\ Behind(r)
    /\ phase[r] \in {"entering", "marked"} \cup Executing =>
         checkpoints[r] # <<>> /\ LastCheckpoint(r).pc = programCounter[r]
    /\ phase[r] \in {"entering"} \cup Executing => UpToDate(r)
    /\ phase[r] # "marked" /\ crashes = 0 => UpToDate(r)

LEMMA JournalIsLag ==
  ASSUME Journal
  PROVE  JournalLag
BY DEF Journal, JournalLag, Behind, UpToDate

LEMMA LastOfAppend ==
  ASSUME NEW S, NEW s \in Seq(S), NEW x \in S
  PROVE  Append(s, x) # <<>> /\ Append(s, x)[Len(Append(s, x))] = x
OBVIOUS

(* The checkpoint that was just saved is the last one.                     *)
LEMMA SavedIsLast ==
  ASSUME TypeOK, NEW r \in Run, Snapshot(r) \in Checkpoint,
         checkpoints' = [checkpoints EXCEPT ![r] = Append(@, Snapshot(r))]
  PROVE  checkpoints'[r] # <<>> /\ LastCheckpoint(r)' = Snapshot(r)
<1>1. checkpoints[r] \in Seq(Checkpoint) /\ checkpoints'[r] = Append(checkpoints[r], Snapshot(r))
  BY DEF TypeOK
<1>2. checkpoints'[r] # <<>> /\ checkpoints'[r][Len(checkpoints'[r])] = Snapshot(r)
  BY <1>1, LastOfAppend
<1> QED  BY <1>2 DEF LastCheckpoint

(* A node succeeds when it is the one that was run.                        *)
LEMMA SucceedsByMark ==
  ASSUME TypeOK, Position, [Next]_vars, NEW r \in Run, NEW n \in Node,
         nodeStatus'[r][n] = "succeeded", nodeStatus[r][n] # "succeeded"
  PROVE  /\ phase[r] \in {"persisted", "reused"} /\ n = programCounter[r]
         /\ nodeStatus[r][n] = "running"
<1> DEFINE Goal == /\ phase[r] \in {"persisted", "reused"} /\ n = programCounter[r]
                   /\ nodeStatus[r][n] = "running"
<1> USE GraphFacts DEF TypeOK
<1>1. CASE UNCHANGED rowVars
  BY <1>1
<1>2. ASSUME NEW q \in Run, NEW m \in Node, CreateRow(q, m) PROVE Goal
  BY <1>2, RowIsNew DEF CreateRow
<1>3. ASSUME NEW q \in Run, NEW m \in Node, Skip(q, m) PROVE Goal
  BY <1>3 DEF Skip
<1>4. ASSUME NEW q \in Run, Begin(q) PROVE Goal
  BY <1>4 DEF Begin
<1>5. ASSUME NEW q \in Run, MarkSucceeded(q) PROVE Goal
  BY <1>5 DEF MarkSucceeded, Position, Executing
<1>6. ASSUME NEW q \in Run, MarkReused(q) PROVE Goal
  BY <1>6 DEF MarkReused, Position, Executing
<1>7. ASSUME NEW q \in Run, HandleFatal(q) PROVE Goal
  BY <1>7 DEF HandleFatal
<1>8. ASSUME NEW q \in Run, HandleRetryable(q) PROVE Goal
  BY <1>8 DEF HandleRetryable
<1>9. ASSUME NEW q \in Run, HandleError(q) PROVE Goal
  BY <1>9 DEF HandleError
<1> QED  BY <1>1, <1>2, <1>3, <1>4, <1>5, <1>6, <1>7, <1>8, <1>9, RowsOrNot DEF Writes

(* A set of rows is the same when its rows are.                            *)
LEMMA SameSucceeded ==
  ASSUME NEW r \in Run,
         \A n \in Node : nodeStatus'[r][n] = "succeeded" <=> nodeStatus[r][n] = "succeeded"
  PROVE  Succeeded(r)' = Succeeded(r)
BY DEF Succeeded

LEMMA OneMoreSucceeded ==
  ASSUME NEW r \in Run, NEW m \in Node,
         \A n \in Node : nodeStatus'[r][n] = "succeeded" <=> n = m \/ nodeStatus[r][n] = "succeeded"
  PROVE  Succeeded(r)' = Succeeded(r) \cup {m}
BY DEF Succeeded

(* Rows succeed one at a time, when the node that ran is marked.           *)
MarksOne(r) ==
  /\ phase[r] \in {"persisted", "reused"} /\ phase'[r] = "marked"
  /\ Succeeded(r)' = Succeeded(r) \cup {programCounter[r]}

LEMMA SucceededStep ==
  ASSUME TypeOK, Position, [Next]_vars, NEW r \in Run
  PROVE  Succeeded(r)' = Succeeded(r) \/ MarksOne(r)
<1> DEFINE Same == \A n \in Node : nodeStatus'[r][n] = "succeeded" <=> nodeStatus[r][n] = "succeeded"
           More == \A n \in Node : nodeStatus'[r][n] = "succeeded"
                     <=> n = programCounter[r] \/ nodeStatus[r][n] = "succeeded"
           Goal == Same \/ /\ phase[r] \in {"persisted", "reused"} /\ phase'[r] = "marked"
                           /\ programCounter[r] \in Node /\ More
<1>1. Goal
  <2> USE GraphFacts DEF TypeOK
  <2>1. CASE UNCHANGED rowVars
    BY <2>1
  <2>2. ASSUME NEW q \in Run, NEW m \in Node, CreateRow(q, m) PROVE Goal
    <3>1. nodeStatus[q][m] = "absent" /\ nodeStatus' = [nodeStatus EXCEPT ![q][m] = "pending"]
      BY <2>2, RowIsNew
    <3>2. Same
      BY <3>1
    <3> QED  BY <3>2
  <2>3. ASSUME NEW q \in Run, NEW m \in Node, Skip(q, m) PROVE Goal
    BY <2>3 DEF Skip, Skippable
  <2>4. ASSUME NEW q \in Run, Begin(q) PROVE Goal
    BY <2>4 DEF Begin, Position, Ready
  <2>5. ASSUME NEW q \in Run, MarkSucceeded(q) PROVE Goal
    BY <2>5 DEF MarkSucceeded, Position, Executing
  <2>6. ASSUME NEW q \in Run, MarkReused(q) PROVE Goal
    BY <2>6 DEF MarkReused, Position, Executing
  <2>7. ASSUME NEW q \in Run, HandleFatal(q) PROVE Goal
    BY <2>7 DEF HandleFatal, Position, Executing
  <2>8. ASSUME NEW q \in Run, HandleRetryable(q) PROVE Goal
    BY <2>8 DEF HandleRetryable, Position, Executing
  <2>9. ASSUME NEW q \in Run, HandleError(q) PROVE Goal
    BY <2>9 DEF HandleError, Position, Executing
  <2> QED  BY <2>1, <2>2, <2>3, <2>4, <2>5, <2>6, <2>7, <2>8, <2>9, RowsOrNot DEF Writes
<1> QED  BY <1>1, SameSucceeded, OneMoreSucceeded DEF MarksOne

LEMMA JournalStep ==
  ASSUME TypeOK, Position, Journal, [Next]_vars
  PROVE  Journal'
<1> DEFINE Same == \A q \in Run : Succeeded(q)' = Succeeded(q)
<1> USE DEF TypeOK
<1>1. \A r \in Run : Succeeded(r)' = Succeeded(r) \/ MarksOne(r)
  BY SucceededStep
<1>2. CASE UNCHANGED vars
  BY <1>2 DEF vars, Succeeded, LastCheckpoint, Journal, Behind, UpToDate, Executing
<1>3. ASSUME NEW r \in Run, Execute(r) PROVE Journal'
  <2>1. Same
    BY <1>1, <1>3 DEF Execute, MarksOne
  <2> QED  BY <1>3, <2>1 DEF Journal, Behind, UpToDate, Execute, LastCheckpoint, Executing
<1>4. ASSUME NEW r \in Run, NEW n \in Node, Skip(r, n) PROVE Journal'
  <2>1. Same
    BY <1>1, <1>4 DEF Skip, MarksOne
  <2> QED  BY <1>4, <2>1 DEF Journal, Behind, UpToDate, Skip, LastCheckpoint, Executing
<1>5. ASSUME NEW r \in Run, NEW n \in Node, Dispatch(r, n) PROVE Journal'
  <2>1. Same
    BY <1>1, <1>5 DEF Dispatch, MarksOne
  <2> QED  BY <1>5, <2>1 DEF Journal, Behind, UpToDate, Dispatch, LastCheckpoint, Executing
<1>6. ASSUME NEW r \in Run, Reuse(r) PROVE Journal'
  <2>1. Same
    BY <1>1, <1>6 DEF Reuse, MarksOne
  <2> QED  BY <1>6, <2>1 DEF Journal, Behind, UpToDate, Reuse, LastCheckpoint, Executing
<1>7. ASSUME NEW r \in Run, NEW c \in Content, Invoke(r, c) PROVE Journal'
  <2>1. Same
    BY <1>1, <1>7 DEF Invoke, MarksOne
  <2> QED  BY <1>7, <2>1 DEF Journal, Behind, UpToDate, Invoke, LastCheckpoint, Executing
<1>8. ASSUME NEW r \in Run, NEW p \in Phase, InvokeRaises(r, p) PROVE Journal'
  <2>1. Same
    BY <1>1, <1>8 DEF InvokeRaises, Raises, MarksOne
  <2> QED  BY <1>8, <2>1 DEF Journal, Behind, UpToDate, InvokeRaises, Raises, LastCheckpoint, Executing
<1>9. ASSUME NEW r \in Run, NEW p \in Phase, EmbedRaises(r, p) PROVE Journal'
  <2>1. Same
    BY <1>1, <1>9 DEF EmbedRaises, MarksOne
  <2> QED  BY <1>9, <2>1 DEF Journal, Behind, UpToDate, EmbedRaises, LastCheckpoint, Executing
<1>10. ASSUME NEW r \in Run, FinishTerminal(r) PROVE Journal'
  <2>1. Same
    BY <1>1, <1>10 DEF FinishTerminal, MarksOne
  <2> QED  BY <1>10, <2>1 DEF Journal, Behind, UpToDate, FinishTerminal, LastCheckpoint, Executing
<1>11. ASSUME NEW r \in Run, FinishStalled(r) PROVE Journal'
  <2>1. Same
    BY <1>1, <1>11 DEF FinishStalled, MarksOne
  <2> QED  BY <1>11, <2>1 DEF Journal, Behind, UpToDate, FinishStalled, LastCheckpoint, Executing
<1>12. ASSUME NEW r \in Run, FinishDrained(r) PROVE Journal'
  <2>1. Same
    BY <1>1, <1>12 DEF FinishDrained, MarksOne
  <2> QED  BY <1>12, <2>1 DEF Journal, Behind, UpToDate, FinishDrained, LastCheckpoint, Executing
<1>13. ASSUME NEW r \in Run, Begin(r) PROVE Journal'
  <2>1. Same
    BY <1>1, <1>13 DEF Begin, MarksOne
  <2> QED  BY <1>13, <2>1 DEF Journal, Behind, UpToDate, Begin, LastCheckpoint, Executing
<1>14. ASSUME NEW r \in Run, GatherFails(r) PROVE Journal'
  <2>1. Same
    BY <1>1, <1>14 DEF GatherFails, MarksOne
  <2> QED  BY <1>14, <2>1 DEF Journal, Behind, UpToDate, GatherFails, LastCheckpoint, Executing
<1>15. ASSUME NEW r \in Run, HandleFatal(r) PROVE Journal'
  <2>1. Same
    BY <1>1, <1>15 DEF HandleFatal, MarksOne
  <2> QED  BY <1>15, <2>1 DEF Journal, Behind, UpToDate, HandleFatal, LastCheckpoint, Executing
<1>16. ASSUME NEW r \in Run, HandleRetryable(r) PROVE Journal'
  <2>1. Same
    BY <1>1, <1>16 DEF HandleRetryable, MarksOne
  <2> QED  BY <1>16, <2>1 DEF Journal, Behind, UpToDate, HandleRetryable, LastCheckpoint, Executing
<1>17. ASSUME NEW r \in Run, HandleError(r) PROVE Journal'
  <2>1. Same
    BY <1>1, <1>17 DEF HandleError, MarksOne
  <2> QED  BY <1>17, <2>1 DEF Journal, Behind, UpToDate, HandleError, LastCheckpoint, Executing
<1>18. ASSUME NEW r \in Run, FailRun(r) PROVE Journal'
  <2>1. Same
    BY <1>1, <1>18 DEF FailRun, MarksOne
  <2> QED  BY <1>18, <2>1 DEF Journal, Behind, UpToDate, FailRun, LastCheckpoint, Executing
<1>19. ASSUME NEW r \in Run, Crash(r) PROVE Journal'
  <2>1. Same
    BY <1>1, <1>19 DEF Crash, MarksOne
  <2> QED  BY <1>19, <2>1 DEF Journal, Behind, UpToDate, Crash, LastCheckpoint, Executing
<1>20. ASSUME NEW r \in Run, CheckpointBefore(r) PROVE Journal'
  <2>1. Same
    BY <1>1, <1>20 DEF CheckpointBefore, MarksOne
  <2>2. checkpoints'[r] # <<>> /\ LastCheckpoint(r)' = Snapshot(r)
    BY <1>20, SavedIsLast, SnapshotType, GraphFacts DEF CheckpointBefore, Position
  <2>3. Snapshot(r).pc = programCounter[r] /\ Snapshot(r).completed = Succeeded(r)
    BY DEF Snapshot, Succeeded
  <2>4. \A q \in Run \ {r} : checkpoints'[q] = checkpoints[q] /\ LastCheckpoint(q)' = LastCheckpoint(q)
    BY <1>20 DEF CheckpointBefore, LastCheckpoint
  <2> QED  BY <1>20, <2>1, <2>2, <2>3, <2>4 DEF Journal, Behind, UpToDate, CheckpointBefore, Executing
<1>21. ASSUME NEW r \in Run, CheckpointAfter(r) PROVE Journal'
  <2>1. Same
    BY <1>1, <1>21 DEF CheckpointAfter, MarksOne
  <2>2. checkpoints'[r] # <<>> /\ LastCheckpoint(r)' = Snapshot(r)
    BY <1>21, SavedIsLast, SnapshotType, GraphFacts DEF CheckpointAfter, Position
  <2>3. Snapshot(r).pc = programCounter[r] /\ Snapshot(r).completed = Succeeded(r)
    BY DEF Snapshot, Succeeded
  <2>4. \A q \in Run \ {r} : checkpoints'[q] = checkpoints[q] /\ LastCheckpoint(q)' = LastCheckpoint(q)
    BY <1>21 DEF CheckpointAfter, LastCheckpoint
  <2> QED  BY <1>21, <2>1, <2>2, <2>3, <2>4 DEF Journal, Behind, UpToDate, CheckpointAfter, Executing
<1>22. ASSUME NEW r \in Run, MarkSucceeded(r) PROVE Journal'
  <2>1. \A q \in Run : \/ Succeeded(q)' = Succeeded(q)
                       \/ q = r /\ Succeeded(q)' = Succeeded(q) \cup {programCounter[q]}
    BY <1>1, <1>22 DEF MarkSucceeded, MarksOne
  <2>2. /\ phase[r] \in Executing /\ phase' = [phase EXCEPT ![r] = "marked"]
        /\ UNCHANGED <<checkpoints, programCounter, crashes>>
    BY <1>22 DEF MarkSucceeded, Executing
  <2>3. \A q \in Run : LastCheckpoint(q)' = LastCheckpoint(q)
    BY <2>2 DEF LastCheckpoint
  <2> QED  BY <2>1, <2>2, <2>3 DEF Journal, Behind, UpToDate, Executing
<1>23. ASSUME NEW r \in Run, MarkReused(r) PROVE Journal'
  <2>1. \A q \in Run : \/ Succeeded(q)' = Succeeded(q)
                       \/ q = r /\ Succeeded(q)' = Succeeded(q) \cup {programCounter[q]}
    BY <1>1, <1>23 DEF MarkReused, MarksOne
  <2>2. /\ phase[r] \in Executing /\ phase' = [phase EXCEPT ![r] = "marked"]
        /\ UNCHANGED <<checkpoints, programCounter, crashes>>
    BY <1>23 DEF MarkReused, Executing
  <2>3. \A q \in Run : LastCheckpoint(q)' = LastCheckpoint(q)
    BY <2>2 DEF LastCheckpoint
  <2> QED  BY <2>1, <2>2, <2>3 DEF Journal, Behind, UpToDate, Executing
<1>24. ASSUME NEW r \in Run, NEW n \in Node, CreateRow(r, n) PROVE Journal'
  <2>1. Same
    BY <1>1, <1>24 DEF CreateRow, MarksOne
  <2> QED  BY <1>24, <2>1 DEF Journal, Behind, UpToDate, CreateRow, LastCheckpoint, Executing
<1>25. ASSUME NEW r \in Run, MarkRunning(r) PROVE Journal'
  <2>1. Same
    BY <1>1, <1>25 DEF MarkRunning, MarksOne
  <2> QED  BY <1>25, <2>1 DEF Journal, Behind, UpToDate, MarkRunning, LastCheckpoint, Executing
<1>26. ASSUME NEW r \in Run, Look(r) PROVE Journal'
  <2>1. Same
    BY <1>1, <1>26 DEF Look, MarksOne
  <2> QED  BY <1>26, <2>1 DEF Journal, Behind, UpToDate, Look, LastCheckpoint, Executing
<1>27. ASSUME NEW r \in Run, Gather(r) PROVE Journal'
  <2>1. Same
    BY <1>1, <1>27 DEF Gather, MarksOne
  <2> QED  BY <1>27, <2>1 DEF Journal, Behind, UpToDate, Gather, LastCheckpoint, Executing
<1>28. ASSUME NEW r \in Run, CacheHit(r) PROVE Journal'
  <2>1. Same
    BY <1>1, <1>28 DEF CacheHit, MarksOne
  <2> QED  BY <1>28, <2>1 DEF Journal, Behind, UpToDate, CacheHit, LastCheckpoint, Executing
<1>29. ASSUME NEW r \in Run, CacheMiss(r) PROVE Journal'
  <2>1. Same
    BY <1>1, <1>29 DEF CacheMiss, MarksOne
  <2> QED  BY <1>29, <2>1 DEF Journal, Behind, UpToDate, CacheMiss, LastCheckpoint, Executing
<1>30. ASSUME NEW r \in Run, PersistOutput(r) PROVE Journal'
  <2>1. Same
    BY <1>1, <1>30 DEF PersistOutput, MarksOne
  <2> QED  BY <1>30, <2>1 DEF Journal, Behind, UpToDate, PersistOutput, LastCheckpoint, Executing
<1> QED  BY <1>1, <1>2, <1>3, <1>4, <1>5, <1>6, <1>7, <1>8, <1>9, <1>10, <1>11, <1>12,
            <1>13, <1>14, <1>15, <1>16, <1>17, <1>18, <1>19, <1>20, <1>21, <1>22, <1>23,
            <1>24, <1>25, <1>26, <1>27, <1>28, <1>29, <1>30 DEF Next, Step

-----------------------------------------------------------------------------
(* The history of a run, as an inductive invariant.                        *)
History ==
  /\ Steering /\ ChosenIsNotPruned /\ PrunedNeverRuns /\ SkipJustified
  /\ FirstExecution /\ Journal

LEMMA InitHistory == Init => History
<1> SUFFICES ASSUME Init PROVE History
  OBVIOUS
<1>1. TypeOK
  BY InitInv DEF IInv
<1>2. Steering /\ ChosenIsNotPruned
  BY DEF Init, Steering, ChosenIsNotPruned
<1>3. PrunedNeverRuns /\ SkipJustified
  BY <1>1, GraphFacts DEF Init, PrunedNeverRuns, SkipJustified, Started
<1>4. FirstExecution
  BY DEF Init, FirstExecution
<1>5. Journal
  <2>1. \A r \in Run : checkpoints[r] = <<>> /\ Succeeded(r) = {}
    BY DEF Init, Succeeded
  <2> QED  BY <2>1 DEF Init, Journal, Behind, UpToDate, Executing
<1> QED  BY <1>2, <1>3, <1>4, <1>5 DEF History

LEMMA HistoryStep == IInv /\ History /\ [Next]_vars => History'
BY SteeringStep, ChosenStep, PrunedNeverRunsStep, SkipJustifiedStep, FirstExecutionStep,
   JournalStep DEF IInv, History

THEOREM HistoryInvariance == Spec => []History
BY InitHistory, HistoryStep, Invariance, PTL DEF Spec

(* No node on an unselected branch, below a typed NotFound or below        *)
(* skipped nodes only is ever run, whatever the order of graph.nodes.      *)
THEOREM PrunedNodesNeverRun == Spec => []PrunedNeverRuns
<1>1. History => PrunedNeverRuns
  BY DEF History
<1> QED  BY <1>1, HistoryInvariance, PTL

(* Every skipped node has its reason in the rows upstream, for ever.       *)
THEOREM SkipsAreExplained == Spec => []SkipJustified
<1>1. History => SkipJustified
  BY DEF History
<1> QED  BY <1>1, HistoryInvariance, PTL

(* A run that succeeded in its first execution left no node behind.        *)
THEOREM SuccessIsComplete == Spec => []SucceededIsSettled
<1>1. History => SucceededIsSettled
  BY DEF History, FirstExecution, SucceededIsSettled
<1> QED  BY <1>1, HistoryInvariance, PTL

(* The program counter names the node at work, and the node that made a    *)
(* first execution fail.                                                   *)
THEOREM CounterTellsTheNode == Spec => []CounterNamesWork
<1>1. IInv /\ History => CounterNamesWork
  BY DEF IInv, Position, History, FirstExecution, CounterNamesWork
<1> QED  BY <1>1, Invariance, HistoryInvariance, PTL

(* The last checkpoint lags by the node it names at most, also after a     *)
(* crash, and not at all when execute came back by itself.                 *)
THEOREM CheckpointsAreAJournal == Spec => []JournalLag
<1>1. History => JournalLag
  BY JournalIsLag DEF History
<1> QED  BY <1>1, HistoryInvariance, PTL

-----------------------------------------------------------------------------
(* The artifact cache across runs.  Without expansions no row is EXPANDED, *)
(* so the inputs of a started node never change again: what a run gathered *)
(* is what its rows still say when it looks the node up, and what a        *)
(* finished node was given is remembered, whichever artifact answers.      *)
NoneExpanded == \A r \in Run, n \in Node : nodeStatus[r][n] # "expanded"

WithInputs == {"gathered", "hit", "invoking", "answered", "persisted", "reused"}

GatheredInputs ==
  \A r \in Run :
    /\ phase[r] \in WithInputs => inputs[r] = InputBag(r, programCounter[r])
    /\ phase[r] = "gathered" => graph.allowCache[programCounter[r]]

Remembered(r, n) == \E a \in cache : a.node = n /\ a.inputs = InputBag(r, n)

Keyed(r) == \E a \in cache : a.node = programCounter[r] /\ a.inputs = inputs[r]

WithKey == {"hit", "persisted", "reused"}

CacheRemembers ==
  \A r \in Run :
    /\ \A n \in graph.nodes :
         graph.allowCache[n] /\ nodeStatus[r][n] = "succeeded" => Remembered(r, n)
    /\ phase[r] \in WithKey /\ graph.allowCache[programCounter[r]] => Keyed(r)

LEMMA NoneExpandedStep ==
  ASSUME TypeOK, Position, NoneExpanded, [Next]_vars
  PROVE  NoneExpanded'
<1> USE GraphFacts DEF TypeOK, NoneExpanded
<1>1. CASE UNCHANGED rowVars
  BY <1>1
<1>2. ASSUME NEW q \in Run, NEW m \in Node, CreateRow(q, m) PROVE NoneExpanded'
  BY <1>2, RowIsNew DEF CreateRow
<1>3. ASSUME NEW q \in Run, NEW m \in Node, Skip(q, m) PROVE NoneExpanded'
  BY <1>3 DEF Skip
<1>4. ASSUME NEW q \in Run, Begin(q) PROVE NoneExpanded'
  BY <1>4 DEF Begin
<1>5. ASSUME NEW q \in Run, MarkSucceeded(q) PROVE NoneExpanded'
  BY <1>5 DEF MarkSucceeded, Position, Executing
<1>6. ASSUME NEW q \in Run, MarkReused(q) PROVE NoneExpanded'
  BY <1>6 DEF MarkReused
<1>7. ASSUME NEW q \in Run, HandleFatal(q) PROVE NoneExpanded'
  BY <1>7 DEF HandleFatal
<1>8. ASSUME NEW q \in Run, HandleRetryable(q) PROVE NoneExpanded'
  BY <1>8 DEF HandleRetryable
<1>9. ASSUME NEW q \in Run, HandleError(q) PROVE NoneExpanded'
  BY <1>9 DEF HandleError
<1> QED  BY <1>1, <1>2, <1>3, <1>4, <1>5, <1>6, <1>7, <1>8, <1>9, RowsOrNot DEF Writes

(* The inputs of a node that has started are final.                        *)
LEMMA InputsAreFinal ==
  ASSUME TypeOK, Position, DependencyOrder, NoneExpanded, [Next]_vars,
         NEW r \in Run, NEW n \in graph.nodes, nodeStatus[r][n] \in Started
  PROVE  InputBag(r, n)' = InputBag(r, n)
<1>1. graph' = graph /\ \A m \in Node : RowsKept(r, m)
  BY RowStep
<1>2. Incoming(n)' = Incoming(n) /\ DataEdges(n)' = DataEdges(n)
  BY <1>1 DEF Incoming, DataEdges
<1>3. ASSUME NEW e \in Incoming(n) PROVE output'[r][e.from] = output[r][e.from]
  <2>1. e.from \in Node /\ nodeStatus[r][e.from] \in Complete
    BY GraphFacts DEF Incoming, DependencyOrder
  <2> QED  BY <1>1, <2>1 DEF RowsKept, Complete, Settled, NoneExpanded
<1>4. Delivering(r, n)' = Delivering(r, n)
  BY <1>2, <1>3 DEF Delivering, DataEdges
<1>5. \A e \in Delivering(r, n) : output'[r][e.from] = output[r][e.from]
  BY <1>3 DEF Delivering, DataEdges
<1>6. \A c \in Content : {e \in Delivering(r, n)' : output'[r][e.from] = c}
                          = {e \in Delivering(r, n) : output[r][e.from] = c}
  BY <1>4, <1>5
<1> QED  BY <1>6 DEF InputBag

(* The cache forgets nothing.  A run has inputs because it gathered them,  *)
(* and comes to where its output is remembered with its key in the cache.  *)
CacheKept(r) ==
  /\ phase'[r] \in WithInputs =>
       /\ programCounter'[r] = programCounter[r]
       /\ Gather(r) \/ (phase[r] \in WithInputs /\ inputs'[r] = inputs[r])
  /\ phase'[r] = "gathered" => phase[r] = "gathered" \/ Gather(r)
  /\ phase'[r] \in WithKey => phase'[r] = phase[r] \/ (graph.allowCache[programCounter[r]] => Keyed(r)')

LEMMA CacheStep ==
  ASSUME TypeOK, [Next]_vars
  PROVE  cache \subseteq cache' /\ \A r \in Run : CacheKept(r)
<1> DEFINE Goal == cache \subseteq cache' /\ \A r \in Run : CacheKept(r)
           Calm == /\ cache' = cache
                   /\ \A r \in Run : phase'[r] \in WithInputs =>
                        /\ phase'[r] = phase[r] /\ programCounter'[r] = programCounter[r]
                        /\ inputs'[r] = inputs[r]
<1> USE DEF TypeOK, WithInputs
<1>1. Calm => Goal
  BY DEF CacheKept, WithKey
<1>2. ASSUME UNCHANGED vars PROVE Calm
  BY <1>2 DEF vars
<1>3. ASSUME NEW q \in Run, \/ MarkRunning(q) \/ Look(q) \/ Execute(q)
                            \/ \E n \in Node : CreateRow(q, n) \/ Skip(q, n) \/ Dispatch(q, n)
      PROVE  Calm
  BY <1>3 DEF MarkRunning, Look, Execute, CreateRow, Skip, Dispatch
<1>4. ASSUME NEW q \in Run, \/ FinishTerminal(q) \/ FinishStalled(q) \/ FinishDrained(q)
                            \/ FailRun(q) \/ Crash(q)
      PROVE  Calm
  BY <1>4 DEF FinishTerminal, FinishStalled, FinishDrained, FailRun, Crash
<1>5. ASSUME NEW q \in Run, CheckpointBefore(q) \/ CheckpointAfter(q) \/ Begin(q) \/ GatherFails(q)
      PROVE  Calm
  BY <1>5 DEF CheckpointBefore, CheckpointAfter, Begin, GatherFails
<1>6. ASSUME NEW q \in Run, NEW p \in Phase, EmbedRaises(q, p) \/ InvokeRaises(q, p)
      PROVE  Calm
  BY <1>6 DEF EmbedRaises, InvokeRaises, Raises
<1>7. ASSUME NEW q \in Run, \/ MarkSucceeded(q) \/ MarkReused(q) \/ HandleFatal(q)
                            \/ HandleRetryable(q) \/ HandleError(q)
      PROVE  Calm
  BY <1>7 DEF MarkSucceeded, MarkReused, HandleFatal, HandleRetryable, HandleError
<1>8. ASSUME NEW q \in Run, Gather(q) PROVE Goal
  <2>1. /\ cache' = cache /\ programCounter' = programCounter
        /\ phase'[q] \in {"gathered", "invoking"}
        /\ \A r \in Run : r # q => phase'[r] = phase[r] /\ inputs'[r] = inputs[r]
    BY <1>8 DEF Gather
  <2> QED  BY <1>8, <2>1 DEF CacheKept, WithKey
<1>9. ASSUME NEW q \in Run, CacheMiss(q) \/ \E c \in Content : Invoke(q, c) PROVE Goal
  <2>1. /\ UNCHANGED <<cache, programCounter, inputs>>
        /\ phase[q] \in WithInputs /\ phase'[q] \in {"invoking", "answered"}
        /\ \A r \in Run : r # q => phase'[r] = phase[r]
    BY <1>9 DEF CacheMiss, Invoke
  <2> QED  BY <2>1 DEF CacheKept, WithKey
<1>10. ASSUME NEW q \in Run, CacheHit(q) \/ Reuse(q) \/ PersistOutput(q) PROVE Goal
  <2>1. /\ UNCHANGED <<programCounter, inputs>> /\ cache \subseteq cache'
        /\ phase[q] \in WithInputs /\ phase'[q] \in WithKey
        /\ \A r \in Run : r # q => phase'[r] = phase[r]
    BY <1>10 DEF CacheHit, Reuse, PersistOutput, Store, WithKey
  <2>2. ASSUME graph.allowCache[programCounter[q]] PROVE Keyed(q)'
    <3>1. CASE CacheHit(q)
      BY <3>1 DEF CacheHit, Cached, Keyed
    <3>2. CASE Reuse(q) \/ PersistOutput(q)
      <4>1. /\ Artifact(q) \in cache'
            /\ Artifact(q).node = programCounter'[q] /\ Artifact(q).inputs = inputs'[q]
        BY <2>1, <2>2, <3>2 DEF Reuse, PersistOutput, Store, Artifact
      <4> QED  BY <4>1 DEF Keyed
    <3> QED  BY <1>10, <3>1, <3>2
  <2> QED  BY <2>1, <2>2 DEF CacheKept, WithKey
<1> HIDE DEF Goal, Calm
<1>11. ASSUME NEW q \in Run, Execute(q) \/ Step(q) \/ Crash(q) PROVE Goal
  BY <1>1, <1>3, <1>4, <1>5, <1>6, <1>7, <1>8, <1>9, <1>10, <1>11 DEF Step
<1>12. Goal
  BY <1>1, <1>2, <1>11 DEF Next
<1> QED  BY <1>12 DEF Goal

LEMMA GatheredInputsStep ==
  ASSUME TypeOK, Position, DependencyOrder, NoneExpanded, GatheredInputs, [Next]_vars
  PROVE  GatheredInputs'
<1> SUFFICES ASSUME NEW r \in Run, phase'[r] \in WithInputs
             PROVE  /\ inputs'[r] = InputBag(r, programCounter[r])'
                    /\ phase'[r] = "gathered" => graph'.allowCache[programCounter'[r]]
  BY DEF GatheredInputs, WithInputs
<1>1. graph' = graph /\ programCounter'[r] = programCounter[r] /\ CacheKept(r)
  BY CacheStep, RowStep DEF CacheKept
<1>2. phase[r] = "running" \/ phase[r] \in WithInputs
  BY <1>1 DEF CacheKept, Gather
<1>3. PICK n \in graph.nodes : n = programCounter[r] /\ nodeStatus[r][n] \in Started
  <2>1. phase[r] \in Executing
    BY <1>2 DEF WithInputs, Executing
  <2>2. nodeStatus[r][programCounter[r]] = "running"
    BY <2>1 DEF Position
  <2>3. phase[r] \notin {"idle", "ensuring", "scheduling", "choosing"}
    BY <2>1 DEF Executing
  <2> QED  BY <2>2, <2>3 DEF Position, Started
<1>4. InputBag(r, n)' = InputBag(r, n)
  BY <1>3, InputsAreFinal
<1>5. InputBag(r, programCounter[r])' = InputBag(r, n)'
  BY <1>1, <1>3 DEF InputBag, Delivering, DataEdges, Incoming
<1>6. CASE Gather(r)
  <2>1. /\ inputs'[r] = InputBag(r, n)
        /\ phase'[r] = "gathered" => graph.allowCache[n]
    BY <1>3, <1>6 DEF Gather, TypeOK
  <2> QED  BY <1>1, <1>3, <1>4, <1>5, <2>1
<1>7. CASE ~ Gather(r)
  BY <1>1, <1>3, <1>4, <1>5, <1>7 DEF CacheKept, GatheredInputs
<1> QED  BY <1>6, <1>7

LEMMA CacheRemembersStep ==
  ASSUME IInv, NoneExpanded, GatheredInputs, CacheRemembers, [Next]_vars
  PROVE  CacheRemembers'
<1>1. TypeOK /\ Position /\ DependencyOrder
  BY DEF IInv
<1>2. /\ graph' = graph /\ cache \subseteq cache'
      /\ \A r \in Run : CacheKept(r)
  BY <1>1, RowStep, CacheStep
<1>3. ASSUME NEW r \in Run, NEW n \in graph'.nodes, graph'.allowCache[n],
             nodeStatus'[r][n] = "succeeded"
      PROVE  Remembered(r, n)'
  <2>1. n \in graph.nodes /\ n \in Node /\ graph.allowCache[n]
    BY <1>1, <1>2, <1>3, GraphFacts
  <2>2. nodeStatus[r][n] \in Started /\ Remembered(r, n)
    <3>1. CASE nodeStatus[r][n] = "succeeded"
      BY <2>1, <3>1 DEF Started, CacheRemembers
    <3>2. CASE nodeStatus[r][n] # "succeeded"
      <4>1. /\ phase[r] \in {"persisted", "reused"} /\ n = programCounter[r]
            /\ nodeStatus[r][n] = "running"
        BY <1>1, <1>3, <2>1, <3>2, SucceedsByMark
      <4>2. Keyed(r) /\ inputs[r] = InputBag(r, n)
        BY <2>1, <4>1 DEF CacheRemembers, GatheredInputs, WithKey, WithInputs
      <4> QED  BY <4>1, <4>2 DEF Keyed, Remembered, Started
    <3> QED  BY <3>1, <3>2
  <2>3. InputBag(r, n)' = InputBag(r, n)
    BY <1>1, <2>1, <2>2, InputsAreFinal
  <2> QED  BY <1>2, <2>2, <2>3 DEF Remembered
<1>4. ASSUME NEW r \in Run, phase'[r] \in WithKey, graph'.allowCache[programCounter'[r]]
      PROVE  Keyed(r)'
  <2>1. programCounter'[r] = programCounter[r] /\ (Gather(r) \/ inputs'[r] = inputs[r])
    BY <1>2, <1>4 DEF CacheKept, WithKey, WithInputs
  <2>2. ~ Gather(r)
    BY <1>1, <1>4 DEF Gather, TypeOK, WithKey
  <2>3. CASE phase'[r] = phase[r]
    BY <1>2, <1>4, <2>1, <2>2, <2>3 DEF CacheRemembers, Keyed
  <2>4. CASE phase'[r] # phase[r]
    BY <1>2, <1>4, <2>1, <2>4 DEF CacheKept
  <2> QED  BY <2>3, <2>4
<1> QED  BY <1>3, <1>4 DEF CacheRemembers

(* A run that has gathered the inputs of a cacheable node comes to its     *)
(* invocation by a look-up that finds nothing.                             *)
LEMMA InvokedOnMiss ==
  ASSUME TypeOK, [Next]_vars, NEW r \in Run, phase[r] = "gathered", phase'[r] = "invoking"
  PROVE  Cached(r) = {}
<1> USE DEF TypeOK
<1>1. CASE UNCHANGED vars
  BY <1>1 DEF vars
<1>2. ASSUME NEW q \in Run, CacheMiss(q) PROVE Cached(r) = {}
  BY <1>2 DEF CacheMiss
<1>3. ASSUME NEW q \in Run, \/ MarkRunning(q) \/ Look(q) \/ Execute(q)
                            \/ \E n \in Node : CreateRow(q, n) \/ Skip(q, n) \/ Dispatch(q, n)
      PROVE  FALSE
  BY <1>3 DEF MarkRunning, Look, Execute, CreateRow, Skip, Dispatch
<1>4. ASSUME NEW q \in Run, \/ FinishTerminal(q) \/ FinishStalled(q) \/ FinishDrained(q)
                            \/ FailRun(q) \/ Crash(q)
      PROVE  FALSE
  BY <1>4 DEF FinishTerminal, FinishStalled, FinishDrained, FailRun, Crash
<1>5. ASSUME NEW q \in Run, \/ CheckpointBefore(q) \/ CheckpointAfter(q) \/ Begin(q)
                            \/ Gather(q) \/ GatherFails(q)
      PROVE  FALSE
  BY <1>5 DEF CheckpointBefore, CheckpointAfter, Begin, Gather, GatherFails
<1>6. ASSUME NEW q \in Run, NEW p \in Phase, EmbedRaises(q, p) \/ InvokeRaises(q, p)
      PROVE  FALSE
  BY <1>6 DEF EmbedRaises, InvokeRaises, Raises
<1>7. ASSUME NEW q \in Run, \/ MarkSucceeded(q) \/ MarkReused(q) \/ HandleFatal(q)
                            \/ HandleRetryable(q) \/ HandleError(q)
      PROVE  FALSE
  BY <1>7 DEF MarkSucceeded, MarkReused, HandleFatal, HandleRetryable, HandleError
<1>8. ASSUME NEW q \in Run, \/ CacheHit(q) \/ Reuse(q) \/ PersistOutput(q)
                            \/ \E c \in Content : Invoke(q, c)
      PROVE  FALSE
  BY <1>8 DEF CacheHit, Reuse, PersistOutput, Invoke
<1>9. ASSUME NEW q \in Run, Execute(q) \/ Step(q) \/ Crash(q)
      PROVE  Cached(r) = {}
  BY <1>2, <1>3, <1>4, <1>5, <1>6, <1>7, <1>8, <1>9 DEF Step
<1> QED  BY <1>1, <1>9 DEF Next

CacheInv == NoneExpanded /\ GatheredInputs /\ CacheRemembers

LEMMA CacheInvariance == Spec => []CacheInv
<1>1. Init => CacheInv
  <2> SUFFICES ASSUME Init PROVE CacheInv
    OBVIOUS
  <2>1. TypeOK
    BY InitInv DEF IInv
  <2> QED  BY <2>1, GraphFacts DEF Init, CacheInv, NoneExpanded, GatheredInputs, CacheRemembers,
                                   WithInputs, WithKey
<1>2. IInv /\ CacheInv /\ [Next]_vars => CacheInv'
  BY NoneExpandedStep, GatheredInputsStep, CacheRemembersStep DEF IInv, CacheInv
<1> QED  BY <1>1, <1>2, Invariance, PTL DEF Spec

(* For any number of overlapping runs: a run whose look-up of a cacheable  *)
(* node comes after that node has finished for any run with the same       *)
(* inputs does not invoke it.                                              *)
THEOREM FinishedWorkIsReused == Spec => NoSecondInvocation
<1> DEFINE Misses == \A r, q \in Run :
       phase[r] = "gathered" /\ phase'[r] = "invoking" =>
         LET n == programCounter[r] IN
         ~ (nodeStatus[q][n] = "succeeded" /\ InputBag(q, n) = inputs[r])
<1>1. IInv /\ CacheInv /\ [Next]_vars => [Misses]_vars
  <2> SUFFICES ASSUME IInv, CacheInv, [Next]_vars, NEW r \in Run, NEW q \in Run,
                      phase[r] = "gathered", phase'[r] = "invoking",
                      nodeStatus[q][programCounter[r]] = "succeeded",
                      InputBag(q, programCounter[r]) = inputs[r]
               PROVE  FALSE
    OBVIOUS
  <2>1. Cached(r) = {} /\ programCounter[r] \in graph.nodes
    BY InvokedOnMiss DEF IInv, Position
  <2>2. Remembered(q, programCounter[r])
    BY <2>1 DEF CacheInv, GatheredInputs, CacheRemembers
  <2> QED  BY <2>1, <2>2 DEF Remembered, Cached
<1> QED  BY <1>1, Invariance, CacheInvariance, PTL DEF Spec, NoSecondInvocation

-----------------------------------------------------------------------------
(* The rest shows that RunExecutor implements TaskRun, for every set of    *)
(* runs and every set of acyclic task graphs: each step of the executor is *)
(* a step of the promise under the refinement mapping of RunExecutor, or   *)
(* leaves it unchanged.                                                    *)
USE DEF GoTo, SetStatus, SetRunStatus, SaveCheckpoint, envVars, rowVars, runVars, locals

(* The refinement mapping, row by row: a row is shown by its status and by *)
(* whether its node is the one being worked on.                            *)
Shown(s, working) ==
  CASE s \in {"absent", "pending"} -> "todo"
    [] s \in {"succeeded", "expanded"} -> "done"
    [] s = "skipped" -> "pruned"
    [] s \in {"failed", "retryable"} -> "broken"
    [] OTHER -> IF working THEN "active" ELSE "broken"

LEMMA ShownTable ==
  ASSUME NEW w \in BOOLEAN
  PROVE  /\ Shown("absent", w) = "todo" /\ Shown("pending", w) = "todo"
         /\ Shown("succeeded", w) = "done" /\ Shown("expanded", w) = "done"
         /\ Shown("skipped", w) = "pruned"
         /\ Shown("failed", w) = "broken" /\ Shown("retryable", w) = "broken"
         /\ w => Shown("running", w) = "active"
         /\ ~ w => Shown("running", w) = "broken"
BY DEF Shown

ShownStatus == [r \in Run |-> [n \in Node |-> Shown(nodeStatus[r][n], AbsWorker[r] = n)]]

LEMMA AbsStatusShows == AbsStatus = ShownStatus
<1>1. ASSUME NEW r \in Run, NEW n \in Node
      PROVE  AbsWorker[r] = n <=> phase[r] \in Executing /\ n = programCounter[r]
  BY NoneAssumption DEF AbsWorker
<1>2. ASSUME NEW r \in Run, NEW n \in Node
      PROVE  AbsStatus[r][n] = Shown(nodeStatus[r][n], AbsWorker[r] = n)
  <2>1. CASE phase[r] \in Executing /\ n = programCounter[r]
    BY <1>1, <2>1 DEF AbsStatus, Shown
  <2>2. CASE ~ (phase[r] \in Executing /\ n = programCounter[r])
    BY <1>1, <2>2 DEF AbsStatus, Shown
  <2> QED  BY <2>1, <2>2
<1> QED  BY <1>2 DEF AbsStatus, ShownStatus

(* Two tables that differ in one entry.                                    *)
LEMMA OneEntry ==
  ASSUME NEW A, NEW B, NEW f, NEW g, NEW a \in A, NEW b \in B, NEW s,
         f = [x \in A |-> [y \in B |-> f[x][y]]], g = [x \in A |-> [y \in B |-> g[x][y]]],
         g[a][b] = s,
         \A x \in A, y \in B : x # a \/ y # b => g[x][y] = f[x][y]
  PROVE  g = [f EXCEPT ![a][b] = s]
<1>1. \A x \in A : x # a => g[x] = f[x]
  <2> SUFFICES ASSUME NEW x \in A, x # a PROVE g[x] = f[x]
    OBVIOUS
  <2>1. g[x] = [y \in B |-> g[x][y]] /\ f[x] = [y \in B |-> f[x][y]]
    OBVIOUS
  <2>2. \A y \in B : g[x][y] = f[x][y]
    OBVIOUS
  <2> QED  BY <2>1, <2>2
<1>2. g[a] = [f[a] EXCEPT ![b] = s]
  <2>1. g[a] = [y \in B |-> g[a][y]] /\ f[a] = [y \in B |-> f[a][y]]
    OBVIOUS
  <2> QED  BY <2>1
<1> QED  BY <1>1, <1>2

(* A step that changes how one row is shown.                               *)
LEMMA OneRowShown ==
  ASSUME TypeOK, TypeOK', NEW r \in Run, NEW n \in Node, NEW s,
         Shown(nodeStatus'[r][n], AbsWorker'[r] = n) = s,
         \A q \in Run, m \in Node : q # r \/ m # n =>
           Shown(nodeStatus'[q][m], AbsWorker'[q] = m) = Shown(nodeStatus[q][m], AbsWorker[q] = m)
  PROVE  AbsStatus' = [AbsStatus EXCEPT ![r][n] = s]
<1>1. (AbsStatus = ShownStatus)'
  BY AbsStatusShows, PTL
<1>2. /\ ShownStatus = [q \in Run |-> [m \in Node |-> ShownStatus[q][m]]]
      /\ ShownStatus' = [q \in Run |-> [m \in Node |-> ShownStatus'[q][m]]]
  BY DEF ShownStatus
<1>3. /\ ShownStatus'[r][n] = s
      /\ \A q \in Run, m \in Node : q # r \/ m # n => ShownStatus'[q][m] = ShownStatus[q][m]
  BY DEF ShownStatus
<1>4. ShownStatus' = [ShownStatus EXCEPT ![r][n] = s]
  BY <1>2, <1>3, OneEntry
<1> QED  BY <1>1, <1>4, AbsStatusShows

LEMMA SameShown ==
  ASSUME TypeOK, TypeOK',
         \A q \in Run, m \in Node :
           Shown(nodeStatus'[q][m], AbsWorker'[q] = m) = Shown(nodeStatus[q][m], AbsWorker[q] = m)
  PROVE  AbsStatus' = AbsStatus
<1>1. (AbsStatus = ShownStatus)'
  BY AbsStatusShows, PTL
<1> QED  BY <1>1, AbsStatusShows DEF ShownStatus

-----------------------------------------------------------------------------
(* Steps that the promise does not see.                                    *)
LEMMA Unseen ==
  ASSUME TypeOK, TypeOK', graph' = graph, nodeStatus' = nodeStatus, runStatus' = runStatus,
         \A q \in Run : AbsWorker'[q] = AbsWorker[q]
  PROVE  UNCHANGED Promise!vars
<1>1. AbsStatus' = AbsStatus
  BY SameShown
<1>2. AbsWorker' = AbsWorker
  <2>1. /\ AbsWorker = [q \in Run |-> AbsWorker[q]]
        /\ AbsWorker' = [q \in Run |-> AbsWorker'[q]]
    BY DEF AbsWorker
  <2> QED  BY <2>1
<1>3. AbsVerdict' = AbsVerdict /\ AbsUpstream' = AbsUpstream
  BY DEF AbsVerdict, AbsUpstream, Incoming
<1> QED  BY <1>1, <1>2, <1>3 DEF Promise!vars

LEMMA UnseenStep ==
  ASSUME TypeOK, TypeOK', Position, NEW r \in Run,
         \/ Execute(r) \/ Look(r) \/ CheckpointBefore(r) \/ CheckpointAfter(r)
         \/ Gather(r) \/ GatherFails(r) \/ CacheHit(r) \/ CacheMiss(r) \/ Reuse(r)
         \/ PersistOutput(r)
         \/ \E n \in Node : Dispatch(r, n)
         \/ \E c \in Content : Invoke(r, c)
         \/ \E p \in Phase : InvokeRaises(r, p) \/ EmbedRaises(r, p)
         \/ Crash(r) /\ phase[r] \notin Executing
  PROVE  UNCHANGED Promise!vars
<1> DEFINE Goal == /\ graph' = graph /\ nodeStatus' = nodeStatus /\ runStatus' = runStatus
                   /\ \A q \in Run : AbsWorker'[q] = AbsWorker[q]
<1> USE DEF TypeOK, AbsWorker, Executing
<1>1. ASSUME Execute(r) \/ Look(r) PROVE Goal
  BY <1>1 DEF Execute, Look
<1>2. ASSUME CheckpointBefore(r) PROVE Goal
  BY <1>2 DEF CheckpointBefore
<1>3. ASSUME CheckpointAfter(r) PROVE Goal
  BY <1>3 DEF CheckpointAfter
<1>4. ASSUME NEW n \in Node, Dispatch(r, n) PROVE Goal
  BY <1>4 DEF Dispatch
<1>5. ASSUME Gather(r) \/ GatherFails(r) PROVE Goal
  BY <1>5 DEF Gather, GatherFails
<1>6. ASSUME CacheHit(r) \/ CacheMiss(r) PROVE Goal
  BY <1>6 DEF CacheHit, CacheMiss
<1>7. ASSUME Reuse(r) \/ PersistOutput(r) PROVE Goal
  BY <1>7 DEF Reuse, PersistOutput
<1>8. ASSUME NEW c \in Content, Invoke(r, c) PROVE Goal
  BY <1>8 DEF Invoke
<1>9. ASSUME NEW p \in Phase, InvokeRaises(r, p) PROVE Goal
  BY <1>9 DEF InvokeRaises, Raises
<1>10. ASSUME NEW p \in Phase, EmbedRaises(r, p) PROVE Goal
  BY <1>10 DEF EmbedRaises
<1>11. ASSUME Crash(r), phase[r] \notin Executing PROVE Goal
  BY <1>11 DEF Crash
<1>12. Goal
  <2> HIDE DEF Goal
  <2> QED  BY <1>1, <1>2, <1>3, <1>4, <1>5, <1>6, <1>7, <1>8, <1>9, <1>10, <1>11
<1> HIDE DEF AbsWorker
<1> QED  BY <1>12, Unseen

(* A row that is created shows the promise nothing new.                    *)
LEMMA CreateStep ==
  ASSUME TypeOK, TypeOK', Position, NEW r \in Run, NEW n \in Node, CreateRow(r, n)
  PROVE  UNCHANGED Promise!vars
<1>1. /\ nodeStatus[r][n] = "absent" /\ nodeStatus'[r][n] = "pending"
      /\ \A q \in Run, m \in Node : q # r \/ m # n => nodeStatus'[q][m] = nodeStatus[q][m]
      /\ graph' = graph /\ runStatus' = runStatus
      /\ phase' = phase /\ programCounter' = programCounter
  <2>1. /\ nodeStatus[r][n] = "absent"
        /\ nodeStatus' = [nodeStatus EXCEPT ![r][n] = "pending"]
    BY RowIsNew
  <2>2. nodeStatus \in [Run -> [Node -> NodeStatus]]
    BY DEF TypeOK
  <2>3. graph' = graph /\ runStatus' = runStatus /\ phase' = phase /\ programCounter' = programCounter
    BY DEF CreateRow
  <2> QED  BY <2>1, <2>2, <2>3
<1>2. AbsWorker' = AbsWorker
  BY <1>1 DEF AbsWorker
<1>3. ASSUME NEW q \in Run, NEW m \in Node
      PROVE  Shown(nodeStatus'[q][m], AbsWorker'[q] = m) = Shown(nodeStatus[q][m], AbsWorker[q] = m)
  <2>1. CASE q = r /\ m = n
    BY <1>1, <2>1, ShownTable
  <2>2. CASE ~ (q = r /\ m = n)
    BY <1>1, <1>2, <2>2
  <2> QED  BY <2>1, <2>2
<1>4. AbsStatus' = AbsStatus
  BY <1>3, SameShown
<1>5. AbsVerdict' = AbsVerdict /\ AbsUpstream' = AbsUpstream
  BY <1>1 DEF AbsVerdict, AbsUpstream, Incoming
<1> QED  BY <1>1, <1>2, <1>4, <1>5 DEF Promise!vars

(* Steps that change the verdict only.                                     *)
LEMMA VerdictStep ==
  ASSUME TypeOK, TypeOK', NEW r \in Run, NEW s \in RunStatus, NEW v,
         graph' = graph, runStatus' = [runStatus EXCEPT ![r] = s],
         \A q \in Run : AbsWorker'[q] = AbsWorker[q],
         \A q \in Run, m \in Node :
           Shown(nodeStatus'[q][m], AbsWorker[q] = m) = Shown(nodeStatus[q][m], AbsWorker[q] = m),
         s = "running" => v = "open", s = "succeeded" => v = "ok", s = "failed" => v = "failed",
         s # "pending"
  PROVE  /\ Promise!SetVerdict(r, v)
         /\ UNCHANGED <<graph.nodes, AbsUpstream, AbsStatus, AbsWorker>>
<1>1. AbsStatus' = AbsStatus
  BY SameShown
<1>2. AbsWorker' = AbsWorker
  <2>1. /\ AbsWorker = [q \in Run |-> AbsWorker[q]]
        /\ AbsWorker' = [q \in Run |-> AbsWorker'[q]]
    BY DEF AbsWorker
  <2> QED  BY <2>1
<1>3. AbsUpstream' = AbsUpstream
  BY DEF AbsUpstream, Incoming
<1>4. AbsVerdict' = [AbsVerdict EXCEPT ![r] = v]
  BY DEF AbsVerdict, TypeOK, RunStatus
<1> QED  BY <1>1, <1>2, <1>3, <1>4 DEF Promise!SetVerdict

LEMMA OpenStep ==
  ASSUME TypeOK, TypeOK', Position, NEW r \in Run, MarkRunning(r)
  PROVE  Promise!Open(r)
<1>1. AbsWorker[r] = None /\ \A q \in Run : AbsWorker'[q] = AbsWorker[q]
  BY DEF MarkRunning, AbsWorker, Executing, TypeOK
<1>2. Promise!SetVerdict(r, "open") /\ UNCHANGED <<graph.nodes, AbsUpstream, AbsStatus, AbsWorker>>
  BY <1>1, VerdictStep DEF MarkRunning, RunStatus
<1> QED  BY <1>1, <1>2 DEF Promise!Open

(* A node the promise may start is ready.                                  *)
LEMMA StartableIsReady ==
  ASSUME TypeOK, Position, NEW r \in Run, NEW n \in Node,
         phase[r] \in {"choosing", "entering"}
  PROVE  Promise!Startable(r, n) <=> Ready(r, n)
<1>1. \A m \in Node : AbsStatus[r][m] = Shown(nodeStatus[r][m], AbsWorker[r] = m)
  BY AbsStatusShows DEF ShownStatus
<1>2. \A m \in Node : nodeStatus[r][m] \in NodeStatus
  BY DEF TypeOK
<1>3. AbsStatus[r][n] = "todo" <=> nodeStatus[r][n] \in {"absent", "pending"}
  BY <1>1, <1>2 DEF Shown, NodeStatus
<1>4. \A m \in Node : AbsStatus[r][m] \in {"done", "pruned"} <=> nodeStatus[r][m] \in Complete
  BY <1>1, <1>2 DEF Shown, NodeStatus, Complete
<1>5. AbsUpstream[n] = {e.from : e \in Incoming(n)} /\ \A e \in Incoming(n) : e.from \in Node
  BY GraphFacts DEF AbsUpstream, Incoming
<1>6. (\A m \in AbsUpstream[n] : AbsStatus[r][m] \in {"done", "pruned"})
        <=> \A e \in Incoming(n) : nodeStatus[r][e.from] \in Complete
  BY <1>4, <1>5
<1>7. n \in graph.nodes => nodeStatus[r][n] # "absent"
  BY DEF Position
<1>8. Upstream(r, n) = Incoming(n)
  BY DEF Position, Upstream, Incoming
<1> QED  BY <1>3, <1>6, <1>7, <1>8 DEF Promise!Startable, Ready

LEMMA SucceedStep ==
  ASSUME TypeOK, TypeOK', Position, NEW r \in Run, FinishTerminal(r) \/ FinishDrained(r)
  PROVE  Promise!Succeed(r)
<1>1. /\ phase[r] = "choosing" /\ phase' = [phase EXCEPT ![r] = "idle"] /\ NoneReady(r)
      /\ runStatus' = [runStatus EXCEPT ![r] = "succeeded"]
      /\ graph' = graph /\ nodeStatus' = nodeStatus /\ programCounter' = programCounter
  BY DEF FinishTerminal, FinishDrained
<1>2. AbsWorker[r] = None /\ \A q \in Run : AbsWorker'[q] = AbsWorker[q]
  BY <1>1 DEF AbsWorker, Executing, TypeOK
<1>3. Promise!SetVerdict(r, "ok") /\ UNCHANGED <<graph.nodes, AbsUpstream, AbsStatus, AbsWorker>>
  BY <1>1, <1>2, VerdictStep DEF RunStatus
<1>4. AbsVerdict[r] = "open"
  BY <1>1 DEF Position, AbsVerdict
<1>5. \A n \in Node : ~ Promise!Startable(r, n)
  BY <1>1, StartableIsReady DEF NoneReady
<1> QED  BY <1>2, <1>3, <1>4, <1>5 DEF Promise!Succeed

LEMMA GiveUpStep ==
  ASSUME TypeOK, TypeOK', Position, NEW r \in Run, FinishStalled(r) \/ FailRun(r)
  PROVE  Promise!GiveUp(r)
<1>1. /\ phase[r] \in {"choosing", "nodeFailed"} /\ phase' = [phase EXCEPT ![r] = "idle"]
      /\ runStatus' = [runStatus EXCEPT ![r] = "failed"]
      /\ graph' = graph /\ nodeStatus' = nodeStatus /\ programCounter' = programCounter
  BY DEF FinishStalled, FailRun
<1>2. AbsWorker[r] = None /\ \A q \in Run : AbsWorker'[q] = AbsWorker[q]
  BY <1>1 DEF AbsWorker, Executing, TypeOK
<1>3. Promise!SetVerdict(r, "failed") /\ UNCHANGED <<graph.nodes, AbsUpstream, AbsStatus, AbsWorker>>
  BY <1>1, <1>2, VerdictStep DEF RunStatus
<1>4. AbsVerdict[r] = "open"
  BY <1>1 DEF Position, AbsVerdict
<1>5. PICK n \in graph.nodes : nodeStatus[r][n] \in Broken
  <2>1. CASE FinishStalled(r)
    BY <2>1, StuckBehindBroken, WhileChoosing DEF FinishStalled, Position
  <2>2. CASE FailRun(r)
    BY <2>2 DEF FailRun, Position, Broken
  <2> QED  BY <2>1, <2>2
<1>6. AbsStatus[r][n] = "broken"
  <2>1. n \in Node /\ nodeStatus[r][n] \in NodeStatus /\ AbsWorker[r] # n
    BY <1>2, GraphFacts, NoneAssumption DEF TypeOK
  <2>2. AbsStatus[r][n] = Shown(nodeStatus[r][n], AbsWorker[r] = n)
    BY <2>1, AbsStatusShows DEF ShownStatus
  <2> QED  BY <1>5, <2>1, <2>2 DEF Shown, NodeStatus, Broken
<1> QED  BY <1>2, <1>3, <1>4, <1>6 DEF Promise!GiveUp

-----------------------------------------------------------------------------
(* Steps that change the row of one node, and who works.                   *)
LEMMA RowChange ==
  ASSUME TypeOK, TypeOK', NEW r \in Run, NEW n \in Node, NEW s \in NodeStatus,
         NEW w \in {n, None}, NEW v,
         graph' = graph, runStatus' = runStatus,
         nodeStatus' = [nodeStatus EXCEPT ![r][n] = s],
         AbsWorker[r] \in {n, None}, AbsWorker'[r] = w,
         \A q \in Run : q # r => AbsWorker'[q] = AbsWorker[q],
         Shown(s, w = n) = v
  PROVE  /\ Promise!SetStatus(r, n, v)
         /\ Promise!SetWorker(r, w)
         /\ UNCHANGED <<graph.nodes, AbsUpstream, AbsVerdict>>
<1>1. nodeStatus'[r][n] = s /\ \A q \in Run, m \in Node : q # r \/ m # n => nodeStatus'[q][m] = nodeStatus[q][m]
  BY DEF TypeOK
<1>2. ASSUME NEW q \in Run, NEW m \in Node, q # r \/ m # n
      PROVE  AbsWorker'[q] = m <=> AbsWorker[q] = m
  BY <1>2, NoneAssumption
<1>3. ASSUME NEW q \in Run, NEW m \in Node, q # r \/ m # n
      PROVE  Shown(nodeStatus'[q][m], AbsWorker'[q] = m) = Shown(nodeStatus[q][m], AbsWorker[q] = m)
  <2>1. nodeStatus'[q][m] = nodeStatus[q][m] /\ (AbsWorker'[q] = m <=> AbsWorker[q] = m)
    BY <1>1, <1>2, <1>3
  <2> QED  BY <2>1 DEF Shown
<1>4. AbsStatus' = [AbsStatus EXCEPT ![r][n] = v]
  BY <1>1, <1>3, OneRowShown
<1>5. AbsWorker' = [AbsWorker EXCEPT ![r] = w]
  <2>1. /\ AbsWorker = [q \in Run |-> AbsWorker[q]]
        /\ AbsWorker' = [q \in Run |-> AbsWorker'[q]]
    BY DEF AbsWorker
  <2> QED  BY <2>1
<1>6. AbsVerdict' = AbsVerdict /\ AbsUpstream' = AbsUpstream
  BY DEF AbsVerdict, AbsUpstream, Incoming
<1> QED  BY <1>4, <1>5, <1>6 DEF Promise!SetStatus, Promise!SetWorker

LEMMA StartStep ==
  ASSUME TypeOK, TypeOK', Position, NEW r \in Run, Begin(r)
  PROVE  \E n \in Node : Promise!Start(r, n)
<1>1. PICK n \in Node : /\ n = programCounter[r] /\ Ready(r, n)
                        /\ nodeStatus' = [nodeStatus EXCEPT ![r][n] = "running"]
  BY GraphFacts DEF Begin, Position
<1>2. /\ phase[r] = "entering" /\ phase' = [phase EXCEPT ![r] = "running"]
      /\ graph' = graph /\ runStatus' = runStatus /\ programCounter' = programCounter
  BY DEF Begin
<1>3. /\ AbsWorker[r] = None /\ AbsWorker'[r] = n
      /\ \A q \in Run : q # r => AbsWorker'[q] = AbsWorker[q]
  BY <1>1, <1>2 DEF AbsWorker, Executing, TypeOK
<1>4. Shown("running", n = n) = "active"
  BY DEF Shown
<1>5. /\ Promise!SetStatus(r, n, "active") /\ Promise!SetWorker(r, n)
      /\ UNCHANGED <<graph.nodes, AbsUpstream, AbsVerdict>>
  BY <1>1, <1>2, <1>3, <1>4, RowChange DEF NodeStatus
<1>6. AbsVerdict[r] = "open"
  BY <1>2 DEF Position, AbsVerdict
<1>7. Promise!Startable(r, n)
  BY <1>1, <1>2, StartableIsReady
<1> QED  BY <1>3, <1>5, <1>6, <1>7 DEF Promise!Start

(* The end of the work on a node.                                          *)
LEMMA EndOfWork ==
  ASSUME TypeOK, TypeOK', Position, NEW r \in Run, NEW n \in Node, NEW s \in NodeStatus, NEW v,
         phase[r] \in Executing, n = programCounter[r], phase'[r] \notin Executing,
         \A q \in Run : q # r => phase'[q] = phase[q],
         graph' = graph, runStatus' = runStatus, programCounter' = programCounter,
         nodeStatus' = [nodeStatus EXCEPT ![r][n] = s], Shown(s, FALSE) = v
  PROVE  /\ AbsWorker[r] = n
         /\ Promise!SetStatus(r, n, v) /\ Promise!SetWorker(r, None)
         /\ UNCHANGED <<graph.nodes, AbsUpstream, AbsVerdict>>
<1>1. /\ AbsWorker[r] = n /\ AbsWorker'[r] = None
      /\ \A q \in Run : q # r => AbsWorker'[q] = AbsWorker[q]
  BY DEF AbsWorker
<1>2. Shown(s, None = n) = v
  BY NoneAssumption
<1> QED  BY <1>1, <1>2, RowChange

LEMMA FinishStep ==
  ASSUME TypeOK, TypeOK', Position, NEW r \in Run, MarkSucceeded(r) \/ MarkReused(r)
  PROVE  \E n \in Node : Promise!Finish(r, n)
<1>1. PICK n \in Node : /\ n = programCounter[r] /\ phase[r] \in Executing
                        /\ nodeStatus' = [nodeStatus EXCEPT ![r][n] = "succeeded"]
                        /\ phase' = [phase EXCEPT ![r] = "marked"]
                        /\ graph' = graph /\ runStatus' = runStatus
                        /\ programCounter' = programCounter
  BY GraphFacts DEF MarkSucceeded, MarkReused, Position, Executing
<1>2. Shown("succeeded", FALSE) = "done"
  BY ShownTable
<1>3. phase'[r] \notin Executing /\ \A q \in Run : q # r => phase'[q] = phase[q]
  BY <1>1 DEF TypeOK, Executing
<1>4. "succeeded" \in NodeStatus
  BY DEF NodeStatus
<1>5. /\ AbsWorker[r] = n
      /\ Promise!SetStatus(r, n, "done") /\ Promise!SetWorker(r, None)
      /\ UNCHANGED <<graph.nodes, AbsUpstream, AbsVerdict>>
  BY <1>1, <1>2, <1>3, <1>4, EndOfWork
<1> QED  BY <1>5 DEF Promise!Finish

LEMMA BreakStep ==
  ASSUME TypeOK, TypeOK', Position, NEW r \in Run,
         \/ HandleFatal(r) \/ HandleRetryable(r) \/ HandleError(r)
         \/ Crash(r) /\ phase[r] \in Executing
  PROVE  \E n \in Node : Promise!Break(r, n)
<1>1. PICK n \in Node, s \in {"failed", "retryable", "running"} :
        /\ n = programCounter[r] /\ phase[r] \in Executing
        /\ nodeStatus' = [nodeStatus EXCEPT ![r][n] = s]
        /\ phase'[r] \notin Executing /\ \A q \in Run : q # r => phase'[q] = phase[q]
        /\ graph' = graph /\ runStatus' = runStatus /\ programCounter' = programCounter
  <2>1. phase[r] \in Executing => programCounter[r] \in Node /\ nodeStatus[r][programCounter[r]] = "running"
    BY GraphFacts DEF Position, Executing
  <2>2. CASE HandleFatal(r)
    BY <2>1, <2>2, ZenonT(60) DEF HandleFatal, TypeOK, Executing
  <2>3. CASE HandleRetryable(r)
    BY <2>1, <2>3 DEF HandleRetryable, TypeOK, Executing
  <2>4. CASE HandleError(r)
    BY <2>1, <2>4, ZenonT(60) DEF HandleError, TypeOK, Executing
  <2>5. CASE Crash(r) /\ phase[r] \in Executing
    <3>1. nodeStatus = [nodeStatus EXCEPT ![r][programCounter[r]] = "running"]
      BY <2>1, <2>5 DEF TypeOK
    <3> QED  BY <2>1, <2>5, <3>1 DEF Crash, TypeOK, Executing
  <2> QED  BY <2>2, <2>3, <2>4, <2>5
<1>2. s \in NodeStatus /\ Shown(s, FALSE) = "broken"
  BY ShownTable DEF NodeStatus
<1>3. /\ AbsWorker[r] = n
      /\ Promise!SetStatus(r, n, "broken") /\ Promise!SetWorker(r, None)
      /\ UNCHANGED <<graph.nodes, AbsUpstream, AbsVerdict>>
  BY <1>1, <1>2, EndOfWork
<1> QED  BY <1>3 DEF Promise!Break

(* A node is skipped below one that answered, was routed or was skipped.   *)
LEMMA PruneStep ==
  ASSUME TypeOK, TypeOK', Position, Steering, NEW r \in Run, NEW n \in Node, Skip(r, n)
  PROVE  Promise!Prune(r, n)
<1>1. /\ phase[r] = "choosing" /\ phase' = phase /\ Skippable(r, n, graph.edges)
      /\ nodeStatus' = [nodeStatus EXCEPT ![r][n] = "skipped"]
      /\ graph' = graph /\ runStatus' = runStatus /\ programCounter' = programCounter
  BY DEF Skip
<1>2. /\ AbsWorker[r] = None /\ AbsWorker'[r] = None
      /\ \A q \in Run : q # r => AbsWorker'[q] = AbsWorker[q]
  BY <1>1 DEF AbsWorker, Executing
<1>3. Shown("skipped", None = n) = "pruned"
  BY DEF Shown
<1>4. /\ Promise!SetStatus(r, n, "pruned") /\ Promise!SetWorker(r, None)
      /\ UNCHANGED <<graph.nodes, AbsUpstream, AbsVerdict>>
  BY <1>1, <1>2, <1>3, RowChange DEF NodeStatus
<1>5. AbsWorker' = AbsWorker
  BY <1>2, <1>4 DEF Promise!SetWorker, AbsWorker
<1>6. \A m \in Node : AbsStatus[r][m] = Shown(nodeStatus[r][m], AbsWorker[r] = m)
  BY AbsStatusShows DEF ShownStatus
<1>7. AbsStatus[r][n] = "todo"
  BY <1>1, <1>6, ShownTable DEF Skippable, Shown
<1>8. PICK e \in Incoming(n) : nodeStatus[r][e.from] \in {"succeeded", "skipped"}
  <2>1. \A e \in Incoming(n) : e.from \in Node
    BY GraphFacts DEF Incoming
  <2>2. Upstream(r, n) = Incoming(n)
    BY <1>1 DEF Position, Upstream, Incoming
  <2>3. CASE AllUpstreamSkipped(r, n)
    BY <2>2, <2>3 DEF AllUpstreamSkipped
  <2>4. CASE BlockedByNotFound(r, n, graph.edges) \/ BlockedByRouter(r, n, graph.edges)
    BY <2>1, <2>4 DEF BlockedByNotFound, BlockedByRouter, Incoming, Steering
  <2> QED  BY <1>1, <2>3, <2>4 DEF Skippable
<1>9. e.from \in AbsUpstream[n] /\ AbsStatus[r][e.from] \in {"done", "pruned"}
  BY <1>6, <1>8, GraphFacts DEF AbsUpstream, Incoming, Shown
<1>10. AbsVerdict[r] = "open"
  BY <1>1 DEF Position, AbsVerdict
<1> QED  BY <1>2, <1>4, <1>5, <1>7, <1>9, <1>10 DEF Promise!Prune

-----------------------------------------------------------------------------
LEMMA PromiseInit == Init => Promise!Init
<1> SUFFICES ASSUME Init PROVE Promise!Init
  OBVIOUS
<1>1. TypeOK
  BY InitInv DEF IInv
<1>2. graph.nodes \in SUBSET Node /\ AbsUpstream \in [Node -> SUBSET graph.nodes]
  BY <1>1, GraphFacts DEF AbsUpstream, Incoming
<1>3. AbsWorker = [r \in Run |-> None] /\ AbsVerdict = [r \in Run |-> "new"]
  BY DEF Init, AbsWorker, AbsVerdict, Executing
<1>4. AbsStatus = [r \in Run |-> [n \in Node |-> "todo"]]
  <2>1. \A r \in Run, n \in Node : Shown(nodeStatus[r][n], AbsWorker[r] = n) = "todo"
    BY DEF Init, Shown
  <2> QED  BY <2>1, AbsStatusShows DEF ShownStatus
<1> QED  BY <1>2, <1>3, <1>4 DEF Promise!Init

LEMMA PromiseStep ==
  ASSUME IInv, IInv', Steering, [Next]_vars
  PROVE  [Promise!Next]_(Promise!vars)
<1> USE DEF IInv
<1>1. CASE UNCHANGED vars
  <2>1. \A q \in Run : AbsWorker'[q] = AbsWorker[q]
    BY <1>1 DEF vars, AbsWorker
  <2> QED  BY <1>1, <2>1, Unseen DEF vars
<1>2. ASSUME NEW r \in Run, Execute(r) \/ Step(r) \/ Crash(r)
      PROVE  Promise!Next \/ UNCHANGED Promise!vars
  <2>1. CASE MarkRunning(r)
    BY <2>1, OpenStep DEF Promise!Next
  <2>2. CASE FinishTerminal(r) \/ FinishDrained(r)
    BY <2>2, SucceedStep DEF Promise!Next
  <2>3. CASE FinishStalled(r) \/ FailRun(r)
    BY <2>3, GiveUpStep DEF Promise!Next
  <2>4. CASE Begin(r)
    BY <2>4, StartStep DEF Promise!Next
  <2>5. CASE MarkSucceeded(r) \/ MarkReused(r)
    BY <2>5, FinishStep DEF Promise!Next
  <2>6. CASE \/ HandleFatal(r) \/ HandleRetryable(r) \/ HandleError(r)
             \/ Crash(r) /\ phase[r] \in Executing
    BY <2>6, BreakStep DEF Promise!Next
  <2>7. CASE \E n \in Node : Skip(r, n)
    BY <2>7, PruneStep DEF Promise!Next
  <2>8. CASE \E n \in Node : CreateRow(r, n)
    BY <2>8, CreateStep
  <2>9. CASE \/ Execute(r) \/ Look(r) \/ CheckpointBefore(r) \/ CheckpointAfter(r)
             \/ Gather(r) \/ GatherFails(r) \/ CacheHit(r) \/ CacheMiss(r) \/ Reuse(r)
             \/ PersistOutput(r)
             \/ \E n \in Node : Dispatch(r, n)
             \/ \E c \in Content : Invoke(r, c)
             \/ \E p \in Phase : InvokeRaises(r, p) \/ EmbedRaises(r, p)
             \/ Crash(r) /\ phase[r] \notin Executing
    BY <2>9, UnseenStep
  <2> QED  BY <1>2, <2>1, <2>2, <2>3, <2>4, <2>5, <2>6, <2>7, <2>8, <2>9 DEF Step
<1> QED  BY <1>1, <1>2 DEF Next

(* The executor keeps the promise of TaskRun through crashes, failures and *)
(* repeated executions: it works on one node at a time and upstream first, *)
(* takes no outcome back, and gives a run up only because of a node that   *)
(* broke.                                                                  *)
THEOREM ExecutorKeepsPromise == Spec => KeepsPromise
<1>1. History => Steering
  BY DEF History
<1> QED  BY <1>1, PromiseInit, PromiseStep, Invariance, HistoryInvariance, PTL
         DEF Spec, KeepsPromise, Promise!Spec
=============================================================================
