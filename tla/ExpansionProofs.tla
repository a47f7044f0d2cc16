---------------------------- MODULE ExpansionProofs ----------------------------
(***************************************************************************)
(* Proofs about Expansion: whatever graphs the runs start from, whatever   *)
(* the requests of their expand nodes, and however the runs that share a   *)
(* growing graph interleave and die.                                       *)
(***************************************************************************)
EXTENDS Expansion, Induction, TLAPS

USE DEF GoTo, SetStatus, SetRunStatus, SaveCheckpoint, envVars, rowVars, runVars, locals

XPhase == Phase \cup {"expanding", "expanded"}

Plan == [node : Node \cup {None}, new : Seq([name : Name, kind : Kind]), ids : Seq(Node),
         rows : SUBSET Node, edges : SUBSET Edge, wires : SUBSET Edge]

(* The types of what the properties are about.  Other than in RunExecutor, *)
(* the graph is one the runs may have grown.                               *)
XTypes ==
  /\ graph \in TaskGraph /\ Ranked(graph)
  /\ programCounter \in [Run -> Node \cup {None}]
  /\ nodeStatus \in [Run -> [Node -> NodeStatus]]
  /\ attempts \in [Run -> [Node -> Nat]]
  /\ output \in [Run -> [Node -> Content \cup {None}]]
  /\ \A a \in cache : a.content \in Content \cup {None}
  /\ phase \in [Run -> XPhase]
  /\ todo \in [Run -> SUBSET Node]
  /\ seen \in [Run -> SUBSET Edge]
  /\ result \in [Run -> Content \cup {None}]
  /\ crashes \in Nat
  /\ plan \in [Run -> Plan]
  /\ \A r \in Run : DOMAIN plan[r].new = DOMAIN plan[r].ids

(* The upstream nodes of n are complete, but for edges drawn since the run *)
(* last read the edges.                                                    *)
HeldBack(r, n) ==
  \A e \in Incoming(n) : nodeStatus[r][e.from] \in Complete \/ e \in late[r]

(* Where execute stands says what the row it works on looks like.          *)
Place(r) ==
  /\ phase[r] = "ensuring" => \A n \in todo[r] : nodeStatus[r][n] = "absent"
  /\ phase[r] = "choosing" => graph.edges \subseteq seen[r] \cup late[r]
  /\ phase[r] \notin {"idle", "ensuring", "scheduling", "choosing"} =>
       programCounter[r] \in graph.nodes
  /\ phase[r] \in {"dispatched", "entering"} =>
       nodeStatus[r][programCounter[r]] = "pending" /\ HeldBack(r, programCounter[r])
  /\ phase[r] \in {"running", "gathered", "hit", "invoking", "reused", "fatal", "retryable",
                   "error", "expanding", "expanded"} =>
       nodeStatus[r][programCounter[r]] = "running"
  /\ phase[r] \in {"answered", "persisted"} =>
       \/ nodeStatus[r][programCounter[r]] = "running"
       \/ /\ nodeStatus[r][programCounter[r]] = "expanded"
          /\ graph.kind[programCounter[r]] = "expand"
  /\ phase[r] \in {"expanding", "expanded"} => graph.kind[programCounter[r]] = "expand"

XPosition == \A r \in Run : Place(r)

(* What is written of an expansion: the ids are new until the nodes are    *)
(* written, and rows and edges come before the nodes.                      *)
InWriting(r) ==
  /\ plan[r].node = programCounter[r]
  /\ \A n \in NewNodes(r) : n \notin graph.nodes
  /\ plan[r].rows \subseteq NewNodes(r)
  /\ \A n \in NewNodes(r) : nodeStatus[r][n] = "absent" <=> n \in plan[r].rows
  /\ \A e \in plan[r].wires : e \in plan[r].edges \/ e \in graph.edges
  /\ \A e \in plan[r].wires : /\ e.from \in graph.nodes \cup NewNodes(r)
                              /\ e.to \in graph.nodes \cup NewNodes(r)
  /\ plan[r].edges \subseteq plan[r].wires

Written(r) ==
  /\ NewNodes(r) \subseteq graph.nodes
  /\ plan[r].wires \subseteq graph.edges
  /\ \A n \in NewNodes(r) : nodeStatus[r][n] # "absent"

Plans ==
  /\ \A r, q \in Run : r # q => NewNodes(r) \cap NewNodes(q) = {}
  /\ \A r \in Run : phase[r] = "expanding" => InWriting(r)
  /\ \A r \in Run : phase[r] = "expanded" => plan[r].node = programCounter[r] /\ Written(r)

(* An edge of the graph that dangles is of an expansion under way, unless  *)
(* a process died in one.                                                  *)
Expected(n) == n \in graph.nodes \/ \E r \in Run : phase[r] = "expanding" /\ n \in NewNodes(r)

NoLooseEnds == crashes = 0 => \A e \in graph.edges : Expected(e.from) /\ Expected(e.to)

XInv == XTypes /\ XPosition /\ Plans /\ ExpandedIsComplete /\ NoLooseEnds

-----------------------------------------------------------------------------
LEMMA XInitInv == XInit => XInv
<1> SUFFICES ASSUME XInit PROVE XInv
  OBVIOUS
<1> USE DEF XInit, Init
<1>1. graph \in TaskGraph /\ Ranked(graph) /\ Closed(graph)
  BY GraphsAssumption, RankAssumption
<1>2. NoPlan \in Plan /\ NoPlan.new = NoPlan.ids
  BY DEF NoPlan, Plan
<1>3. XTypes
  BY <1>1, <1>2 DEF XTypes, XPhase, Phase, NodeStatus
<1>4. \A r \in Run : NewNodes(r) = {} /\ plan[r].node = None
  BY DEF NewNodes, NoPlan
<1>5. XPosition /\ Plans /\ ExpandedIsComplete
  BY <1>4 DEF XPosition, Place, Plans, ExpandedIsComplete
<1>6. NoLooseEnds
  BY <1>1 DEF NoLooseEnds, Expected, Closed
<1> QED  BY <1>3, <1>5, <1>6 DEF XInv

(* The nodes of a graph and the ends of its edges are nodes.               *)
LEMMA XGraphFacts ==
  ASSUME XTypes
  PROVE  /\ graph.nodes \subseteq Node
         /\ \A e \in graph.edges : e \in Edge /\ e.from \in Node /\ e.to \in Node
BY DEF XTypes, TaskGraph, Edge

LEMMA NewNodesAreNodes ==
  ASSUME XTypes, NEW r \in Run
  PROVE  NewNodes(r) \subseteq Node
<1>1. plan[r].ids \in Seq(Node)
  BY DEF XTypes, Plan
<1> QED  BY <1>1 DEF NewNodes

(* A name that is bound stands for a proposed node or for one of the       *)
(* graph.                                                                  *)
LEMMA BoundIds ==
  ASSUME XTypes, NEW q, q.nodes \in Seq([name : Name, kind : Kind]), NEW ids, NEW m, Bound(q, m)
  PROVE  \/ IdOf(q, ids, m) \in graph.nodes
         \/ \E i \in DOMAIN q.nodes : IdOf(q, ids, m) = ids[i]
<1>1. CASE Proposed(q, m) # {}
  <2>1. Len(q.nodes) \in Nat /\ Proposed(q, m) \in SUBSET (1..Len(q.nodes))
    BY DEF Proposed
  <2>2. /\ Max(Proposed(q, m)) \in Proposed(q, m)
        /\ \A j \in Proposed(q, m) : j <= Max(Proposed(q, m))
    BY <1>1, <2>1, MaxOfNumbers
  <2>3. (CHOOSE i \in Proposed(q, m) : \A j \in Proposed(q, m) : j <= i) \in Proposed(q, m)
    BY <2>2
  <2> QED  BY <1>1, <2>3 DEF IdOf, Proposed
<1>2. CASE Proposed(q, m) = {}
  <2>1. Bearers(m) \in SUBSET Node /\ Bearers(m) # {}
    BY <1>2, XGraphFacts DEF Bound, Bearers
  <2>2. \E n \in Bearers(m) : \A o \in Bearers(m) : graph.rank[o] <= graph.rank[n]
    BY <2>1 DEF XTypes, Ranked
  <2>3. IdOf(q, ids, m)
          = CHOOSE n \in Bearers(m) : \A o \in Bearers(m) : graph.rank[o] <= graph.rank[n]
    BY <1>2, <2>1 DEF IdOf
  <2>4. IdOf(q, ids, m) \in Bearers(m)
    BY <2>2, <2>3
  <2>5. IdOf(q, ids, m) \in graph.nodes
    BY <2>4 DEF Bearers
  <2> QED  BY <2>5
<1> QED  BY <1>1, <1>2

(* The edges of an expansion join nodes of the graph and proposed nodes.   *)
LEMMA WireEnds ==
  ASSUME XTypes, NEW q, q.nodes \in Seq([name : Name, kind : Kind]), q.edges \subseteq RequestEdge,
         NEW ids \in [DOMAIN q.nodes -> Node]
  PROVE  /\ Wires(q, ids) \subseteq Edge
         /\ \A e \in Wires(q, ids) :
              /\ e.from \in graph.nodes \/ \E i \in DOMAIN q.nodes : e.from = ids[i]
              /\ e.to \in graph.nodes \/ \E i \in DOMAIN q.nodes : e.to = ids[i]
<1> DEFINE Known(n) == n \in graph.nodes \/ \E i \in DOMAIN q.nodes : n = ids[i]
<1> SUFFICES ASSUME NEW e \in Wires(q, ids)
             PROVE  e \in Edge /\ Known(e.from) /\ Known(e.to)
  OBVIOUS
<1>1. PICK d \in q.edges :
        /\ Bound(q, d.from) /\ Bound(q, d.to)
        /\ e = [from |-> IdOf(q, ids, d.from), to |-> IdOf(q, ids, d.to), port |-> d.port,
                required |-> d.required, branch |-> d.branch]
  BY DEF Wires
<1>2. Known(IdOf(q, ids, d.from)) /\ Known(IdOf(q, ids, d.to))
  BY <1>1, BoundIds
<1>3. \A n : Known(n) => n \in Node
  BY XGraphFacts
<1>4. d.port \in Port /\ d.required \in BOOLEAN /\ d.branch \in Branch \cup {None}
  BY DEF RequestEdge
<1> HIDE DEF Known
<1> QED  BY <1>1, <1>2, <1>3, <1>4 DEF Edge

-----------------------------------------------------------------------------
(* Type correctness of the steps that expand the graph.                    *)
LEMMA TakeRequestPlan ==
  ASSUME XTypes, NEW r \in Run, NEW n \in DOMAIN Request, NEW q \in Request[n],
         TakeRequest(r, n, q)
  PROVE  /\ plan' \in [Run -> Plan] /\ DOMAIN plan'[r].new = DOMAIN plan'[r].ids
         /\ \A p \in Run \ {r} : plan'[p] = plan[p]
         /\ n = programCounter[r] /\ plan'[r].node = n /\ plan'[r].rows = NewNodes(r)'
         /\ NewNodes(r)' \subseteq Fresh
         /\ plan'[r].edges = plan'[r].wires
         /\ \A e \in plan'[r].wires : /\ e.from \in graph.nodes \cup NewNodes(r)'
                                      /\ e.to \in graph.nodes \cup NewNodes(r)'
<1>1. q.nodes \in Seq([name : Name, kind : Kind]) /\ q.edges \subseteq RequestEdge
  BY RequestAssumption DEF ExpansionRequest
<1>2. Len(q.nodes) \in Nat /\ DOMAIN q.nodes = 1..Len(q.nodes)
  BY <1>1
<1>3. PICK ids \in [DOMAIN q.nodes -> Fresh] :
        plan' = [plan EXCEPT ![r] =
            [node |-> n, new |-> q.nodes, ids |-> ids, rows |-> {ids[i] : i \in DOMAIN q.nodes},
             edges |-> Wires(q, ids), wires |-> Wires(q, ids)]]
  BY DEF TakeRequest
<1>4. ids \in [DOMAIN q.nodes -> Node] /\ n \in Node \cup {None} /\ n = programCounter[r]
  BY DEF Fresh, TakeRequest, XTypes
<1>5. plan'[r] = [node |-> n, new |-> q.nodes, ids |-> ids,
                  rows |-> {ids[i] : i \in DOMAIN q.nodes},
                  edges |-> Wires(q, ids), wires |-> Wires(q, ids)]
  BY <1>3 DEF XTypes
<1>6. NewNodes(r)' = {ids[i] : i \in DOMAIN q.nodes}
  BY <1>4, <1>5 DEF NewNodes
<1>7. /\ Wires(q, ids) \subseteq Edge
      /\ \A e \in Wires(q, ids) :
           /\ e.from \in graph.nodes \/ \E i \in DOMAIN q.nodes : e.from = ids[i]
           /\ e.to \in graph.nodes \/ \E i \in DOMAIN q.nodes : e.to = ids[i]
  BY <1>1, <1>4, WireEnds
<1>8. plan'[r] \in Plan
  <2>1. ids \in Seq(Node)
    BY <1>2, <1>4
  <2>2. {ids[i] : i \in DOMAIN q.nodes} \subseteq Node
    BY <1>4
  <2> QED  BY <1>1, <1>4, <1>5, <1>7, <2>1, <2>2 DEF Plan
<1>9. plan' \in [Run -> Plan] /\ \A p \in Run \ {r} : plan'[p] = plan[p]
  BY <1>3, <1>5, <1>8 DEF XTypes
<1>10. NewNodes(r)' \subseteq Fresh
  BY <1>3, <1>6
<1>11. DOMAIN plan'[r].new = DOMAIN plan'[r].ids
  BY <1>4, <1>5
<1>12. \A e \in plan'[r].wires : /\ e.from \in graph.nodes \cup NewNodes(r)'
                                 /\ e.to \in graph.nodes \cup NewNodes(r)'
  BY <1>5, <1>6, <1>7
<1> QED  BY <1>4, <1>5, <1>6, <1>9, <1>10, <1>11, <1>12

LEMMA Entries ==
  ASSUME NEW S, NEW s \in Seq(S)
  PROVE  \A i \in DOMAIN s : s[i] \in S
OBVIOUS

(* The nodes that are written get the kinds that were asked for.           *)
LEMMA WrittenGraph ==
  ASSUME XTypes, NEW r \in Run, WriteNodes(r)
  PROVE  /\ graph' \in TaskGraph /\ Ranked(graph')
         /\ graph'.nodes = graph.nodes \cup NewNodes(r)
         /\ graph'.edges = graph.edges \cup plan[r].wires
         /\ \A n \in Node \ NewNodes(r) : graph'.kind[n] = graph.kind[n]
<1> DEFINE kinds == [n \in Node |-> IF n \in NewNodes(r) THEN ProposalFor(r, n).kind
                                    ELSE graph.kind[n]]
           caches == [n \in Node |-> IF n \in NewNodes(r) THEN ProposalFor(r, n).kind = "tool"
                                    ELSE graph.allowCache[n]]
<1>1. graph' = [graph EXCEPT !.nodes = @ \cup NewNodes(r), !.edges = @ \cup plan[r].wires,
                             !.kind = kinds, !.allowCache = caches]
  BY DEF WriteNodes, XTypes, TaskGraph
<1>2. NewNodes(r) \subseteq Node /\ plan[r].wires \subseteq Edge
  BY NewNodesAreNodes DEF XTypes, Plan
<1>3. kinds \in [Node -> Kind]
  <2>1. ASSUME NEW n \in Node, n \in NewNodes(r) PROVE ProposalFor(r, n).kind \in Kind
    <3>1. (CHOOSE i \in DOMAIN plan[r].ids : plan[r].ids[i] = n) \in DOMAIN plan[r].ids
      BY <2>1 DEF NewNodes
    <3>2. plan[r].new \in Seq([name : Name, kind : Kind]) /\ DOMAIN plan[r].new = DOMAIN plan[r].ids
      BY DEF XTypes, Plan
    <3>3. \A i \in DOMAIN plan[r].new : plan[r].new[i] \in [name : Name, kind : Kind]
      BY <3>2, Entries
    <3>4. ProposalFor(r, n) \in [name : Name, kind : Kind]
      BY <3>1, <3>2, <3>3 DEF ProposalFor
    <3> QED  BY <3>4
  <2>2. ASSUME NEW n \in Node PROVE graph.kind[n] \in Kind
    BY DEF XTypes, TaskGraph
  <2> QED  BY <2>1, <2>2
<1>4. caches \in [Node -> BOOLEAN]
  BY DEF XTypes, TaskGraph
<1> HIDE DEF kinds, caches
<1>5. /\ graph'.nodes = graph.nodes \cup NewNodes(r)
      /\ graph'.edges = graph.edges \cup plan[r].wires
      /\ graph'.kind = kinds /\ graph'.rank = graph.rank
  BY <1>1 DEF XTypes, TaskGraph
<1>6. graph' \in TaskGraph
  BY <1>1, <1>2, <1>3, <1>4 DEF XTypes, TaskGraph
<1>7. Ranked(graph')
  BY <1>5 DEF XTypes, Ranked
<1> QED  BY <1>5, <1>6, <1>7 DEF kinds
-----------------------------------------------------------------------------
(* The steps RunExecutor describes leave graph and expansions alone.       *)
LEMMA OldStepTypes ==
  ASSUME XTypes, XPosition, Next, plan' = plan
  PROVE  XTypes' /\ graph' = graph
<1> DEFINE Goal == XTypes' /\ graph' = graph
<1> USE XGraphFacts DEF XTypes, Ranked, NodeStatus, XPhase, Phase
<1>1. ASSUME NEW r \in Run, Execute(r) PROVE Goal
  BY <1>1 DEF Execute
<1>2. ASSUME NEW r \in Run, NEW n \in Node, CreateRow(r, n) PROVE Goal
  BY <1>2 DEF CreateRow
<1>3. ASSUME NEW r \in Run, MarkRunning(r) PROVE Goal
  BY <1>3 DEF MarkRunning
<1>4. ASSUME NEW r \in Run, Look(r) PROVE Goal
  BY <1>4 DEF Look
<1>5. ASSUME NEW r \in Run, NEW n \in Node, Skip(r, n) PROVE Goal
  BY <1>5 DEF Skip
<1>6. ASSUME NEW r \in Run, NEW n \in Node, Dispatch(r, n) PROVE Goal
  BY <1>6 DEF Dispatch
<1>7. ASSUME NEW r \in Run, FinishTerminal(r) PROVE Goal
  BY <1>7 DEF FinishTerminal
<1>8. ASSUME NEW r \in Run, FinishStalled(r) PROVE Goal
  BY <1>8 DEF FinishStalled
<1>9. ASSUME NEW r \in Run, FinishDrained(r) PROVE Goal
  BY <1>9 DEF FinishDrained
<1>10. ASSUME NEW r \in Run, CheckpointBefore(r) PROVE Goal
  BY <1>10 DEF CheckpointBefore
<1>11. ASSUME NEW r \in Run, CheckpointAfter(r) PROVE Goal
  BY <1>11 DEF CheckpointAfter
<1>12. ASSUME NEW r \in Run, Begin(r) PROVE Goal
  <2> DEFINE n == programCounter[r]
  <2>1. n \in Node
    BY <1>12 DEF Begin, XPosition, Place
  <2>2. attempts' = [attempts EXCEPT ![r] = [attempts[r] EXCEPT ![n] = attempts[r][n] + 1]]
    BY <1>12, <2>1 DEF Begin
  <2>3. attempts[r] \in [Node -> Nat] /\ attempts[r][n] + 1 \in Nat
    BY <2>1
  <2>4. attempts' \in [Run -> [Node -> Nat]]
    BY <2>1, <2>2, <2>3
  <2> QED  BY <1>12, <2>1, <2>4 DEF Begin
<1>13. ASSUME NEW r \in Run, Gather(r) PROVE Goal
  BY <1>13 DEF Gather
<1>14. ASSUME NEW r \in Run, GatherFails(r) PROVE Goal
  BY <1>14 DEF GatherFails
<1>15. ASSUME NEW r \in Run, CacheHit(r) PROVE Goal
  <2>1. result' \in [Run -> Content \cup {None}]
    BY <1>15 DEF CacheHit, Cached
  <2> QED  BY <1>15, <2>1 DEF CacheHit
<1>16. ASSUME NEW r \in Run, CacheMiss(r) PROVE Goal
  BY <1>16 DEF CacheMiss
<1>17. ASSUME NEW r \in Run, Reuse(r) PROVE Goal
  <2>1. \A a \in cache' : a.content \in Content \cup {None}
    BY <1>17 DEF Reuse, Store, Artifact
  <2> QED  BY <1>17, <2>1 DEF Reuse
<1>18. ASSUME NEW r \in Run, NEW c \in Content, Invoke(r, c) PROVE Goal
  BY <1>18 DEF Invoke
<1>19. ASSUME NEW r \in Run, NEW p \in Phase, InvokeRaises(r, p) PROVE Goal
  BY <1>19 DEF InvokeRaises
<1>20. ASSUME NEW r \in Run, NEW p \in Phase, EmbedRaises(r, p) PROVE Goal
  BY <1>20 DEF EmbedRaises
<1>21. ASSUME NEW r \in Run, PersistOutput(r) PROVE Goal
  <2>1. \A a \in cache' : a.content \in Content \cup {None}
    BY <1>21 DEF PersistOutput, Store, Artifact
  <2> QED  BY <1>21, <2>1 DEF PersistOutput
<1>22. ASSUME NEW r \in Run, MarkSucceeded(r) PROVE Goal
  BY <1>22 DEF MarkSucceeded
<1>23. ASSUME NEW r \in Run, MarkReused(r) PROVE Goal
  BY <1>23 DEF MarkReused
<1>24. ASSUME NEW r \in Run, HandleFatal(r) PROVE Goal
  BY <1>24 DEF HandleFatal
<1>25. ASSUME NEW r \in Run, HandleRetryable(r) PROVE Goal
  BY <1>25 DEF HandleRetryable
<1>26. ASSUME NEW r \in Run, HandleError(r) PROVE Goal
  BY <1>26 DEF HandleError
<1>27. ASSUME NEW r \in Run, FailRun(r) PROVE Goal
  BY <1>27 DEF FailRun
<1>28. ASSUME NEW r \in Run, Crash(r) PROVE Goal
  <2>1. /\ graph' = graph /\ crashes' \in Nat /\ result' \in [Run -> Content \cup {None}]
        /\ phase' \in [Run -> XPhase]
        /\ UNCHANGED <<programCounter, nodeStatus, attempts, output, cache, todo, seen>>
    BY <1>28 DEF Crash
  <2> QED  BY <2>1
<1> HIDE DEF Goal
<1>g. Goal
  BY <1>1, <1>2, <1>3, <1>4, <1>5, <1>6, <1>7, <1>8, <1>9, <1>10, <1>11, <1>12,
     <1>13, <1>14, <1>15, <1>16, <1>17, <1>18, <1>19, <1>20, <1>21, <1>22, <1>23, <1>24, <1>25,
     <1>26, <1>27, <1>28 DEF Next, Step
<1> QED  BY <1>g DEF Goal

(* What such a step may do to a row and to the place of a run.             *)
RowKept(r, n) ==
  /\ nodeStatus[r][n] \in Settled =>
       /\ nodeStatus'[r][n] = nodeStatus[r][n]
       /\ attempts'[r][n] = attempts[r][n]
       /\ nodeStatus[r][n] # "expanded" => output'[r][n] = output[r][n]
  /\ nodeStatus[r][n] = "running" => attempts'[r][n] = attempts[r][n]
  /\ nodeStatus[r][n] # "absent" => nodeStatus'[r][n] # "absent"

RowWritten(r, n) ==
  /\ nodeStatus'[r][n] = "expanded" => nodeStatus[r][n] = "expanded"
  /\ nodeStatus'[r][n] = "running" => \/ nodeStatus[r][n] = "running"
                                      \/ phase[r] = "entering" /\ n = programCounter[r]
  /\ phase[r] = "expanding" => nodeStatus'[r][n] = nodeStatus[r][n]

(* The steps that change no row.                                           *)
Quiet(r) ==
  \/ Execute(r) \/ MarkRunning(r) \/ Look(r) \/ FinishTerminal(r) \/ FinishStalled(r) \/ FinishDrained(r)
  \/ CheckpointBefore(r) \/ CheckpointAfter(r) \/ Gather(r) \/ GatherFails(r) \/ CacheHit(r) \/ CacheMiss(r)
  \/ Reuse(r) \/ PersistOutput(r) \/ FailRun(r) \/ Crash(r)
  \/ \E n \in Node : Dispatch(r, n)
  \/ \E c \in Content : Invoke(r, c)
  \/ \E p \in Phase : InvokeRaises(r, p) \/ EmbedRaises(r, p)

LEMMA QuietRows ==
  ASSUME NEW r \in Run, Quiet(r)
  PROVE  UNCHANGED <<nodeStatus, attempts, output>>
BY DEF Quiet, Execute, MarkRunning, Look, Dispatch, FinishTerminal, FinishStalled, FinishDrained, CheckpointBefore, CheckpointAfter, Gather, GatherFails, CacheHit, CacheMiss, Reuse, Invoke, InvokeRaises, EmbedRaises, PersistOutput, FailRun, Crash

LEMMA OldStepRows ==
  ASSUME XTypes, XPosition, Next
  PROVE  \A r \in Run, n \in Node : RowKept(r, n) /\ RowWritten(r, n)
<1> DEFINE Goal == \A q \in Run, m \in Node : RowKept(q, m) /\ RowWritten(q, m)
<1> USE XGraphFacts DEF XTypes, NodeStatus, RowKept, RowWritten, Settled
<1>q. ASSUME NEW r \in Run, Quiet(r) PROVE Goal
  BY <1>q, QuietRows
<1>1. ASSUME NEW r \in Run, NEW n \in Node, CreateRow(r, n) PROVE Goal
  <2>1. nodeStatus[r][n] = "absent" /\ phase[r] = "ensuring"
    BY <1>1 DEF CreateRow, XPosition, Place
  <2> QED  BY <1>1, <2>1 DEF CreateRow
<1>2. ASSUME NEW r \in Run, NEW n \in Node, Skip(r, n) PROVE Goal
  BY <1>2 DEF Skip, Skippable
<1>3. ASSUME NEW r \in Run, Begin(r) PROVE Goal
  <2> DEFINE n == programCounter[r]
  <2>1. n \in Node /\ nodeStatus[r][n] = "pending" /\ phase[r] = "entering"
    BY <1>3 DEF Begin, XPosition, Place
  <2>2. nodeStatus' = [nodeStatus EXCEPT ![r][n] = "running"] /\ output' = output
    BY <1>3 DEF Begin
  <2>3. \A q \in Run, m \in Node : <<q, m>> # <<r, n>> =>
          attempts'[q][m] = attempts[q][m] /\ nodeStatus'[q][m] = nodeStatus[q][m]
    BY <1>3, <2>1, <2>2 DEF Begin
  <2>4. nodeStatus'[r][n] = "running"
    BY <2>1, <2>2
  <2> QED  BY <2>1, <2>2, <2>3, <2>4
<1>4. ASSUME NEW r \in Run, MarkSucceeded(r) PROVE Goal
  BY <1>4 DEF MarkSucceeded, XPosition, Place
<1>5. ASSUME NEW r \in Run, MarkReused(r) PROVE Goal
  BY <1>5 DEF MarkReused, XPosition, Place
<1>6. ASSUME NEW r \in Run, HandleFatal(r) PROVE Goal
  BY <1>6 DEF HandleFatal, XPosition, Place
<1>7. ASSUME NEW r \in Run, HandleRetryable(r) PROVE Goal
  BY <1>7 DEF HandleRetryable, XPosition, Place
<1>8. ASSUME NEW r \in Run, HandleError(r) PROVE Goal
  BY <1>8 DEF HandleError, XPosition, Place
<1> HIDE DEF Goal
<1>g. Goal
  BY <1>q, <1>1, <1>2, <1>3, <1>4, <1>5, <1>6, <1>7, <1>8 DEF Next, Step, Quiet
<1> QED  BY <1>g DEF Goal

LEMMA OldStepPlaces ==
  ASSUME XTypes, Next
  PROVE  /\ \A r \in Run : phase'[r] \in {"expanding", "expanded"} =>
              phase'[r] = phase[r] /\ programCounter'[r] = programCounter[r]
         /\ crashes' = 0 => crashes = 0 /\ \A r \in Run : phase[r] = "expanding" => phase'[r] = "expanding"
<1> DEFINE Goal == /\ \A q \in Run : phase'[q] \in {"expanding", "expanded"} =>
                        phase'[q] = phase[q] /\ programCounter'[q] = programCounter[q]
                   /\ crashes' = 0 => /\ crashes = 0
                                      /\ \A q \in Run : phase[q] = "expanding" => phase'[q] = "expanding"
<1> USE DEF XTypes, Phase
<1>1. ASSUME NEW r \in Run, Execute(r) PROVE Goal
  BY <1>1 DEF Execute
<1>2. ASSUME NEW r \in Run, NEW n \in Node, CreateRow(r, n) PROVE Goal
  BY <1>2 DEF CreateRow
<1>3. ASSUME NEW r \in Run, MarkRunning(r) PROVE Goal
  BY <1>3 DEF MarkRunning
<1>4. ASSUME NEW r \in Run, Look(r) PROVE Goal
  BY <1>4 DEF Look
<1>5. ASSUME NEW r \in Run, NEW n \in Node, Skip(r, n) PROVE Goal
  BY <1>5 DEF Skip
<1>6. ASSUME NEW r \in Run, NEW n \in Node, Dispatch(r, n) PROVE Goal
  BY <1>6 DEF Dispatch
<1>7. ASSUME NEW r \in Run, FinishTerminal(r) PROVE Goal
  BY <1>7 DEF FinishTerminal
<1>8. ASSUME NEW r \in Run, FinishStalled(r) PROVE Goal
  BY <1>8 DEF FinishStalled
<1>9. ASSUME NEW r \in Run, FinishDrained(r) PROVE Goal
  BY <1>9 DEF FinishDrained
<1>10. ASSUME NEW r \in Run, CheckpointBefore(r) PROVE Goal
  BY <1>10 DEF CheckpointBefore
<1>11. ASSUME NEW r \in Run, CheckpointAfter(r) PROVE Goal
  BY <1>11 DEF CheckpointAfter
<1>12. ASSUME NEW r \in Run, Begin(r) PROVE Goal
  BY <1>12 DEF Begin
<1>13. ASSUME NEW r \in Run, Gather(r) PROVE Goal
  BY <1>13 DEF Gather
<1>14. ASSUME NEW r \in Run, GatherFails(r) PROVE Goal
  BY <1>14 DEF GatherFails
<1>15. ASSUME NEW r \in Run, CacheHit(r) PROVE Goal
  BY <1>15 DEF CacheHit
<1>16. ASSUME NEW r \in Run, CacheMiss(r) PROVE Goal
  BY <1>16 DEF CacheMiss
<1>17. ASSUME NEW r \in Run, Reuse(r) PROVE Goal
  BY <1>17 DEF Reuse
<1>18. ASSUME NEW r \in Run, NEW c \in Content, Invoke(r, c) PROVE Goal
  BY <1>18 DEF Invoke
<1>19. ASSUME NEW r \in Run, NEW p \in Phase, InvokeRaises(r, p) PROVE Goal
  BY <1>19 DEF InvokeRaises, Raises
<1>20. ASSUME NEW r \in Run, NEW p \in Phase, EmbedRaises(r, p) PROVE Goal
  BY <1>20 DEF EmbedRaises
<1>21. ASSUME NEW r \in Run, PersistOutput(r) PROVE Goal
  BY <1>21 DEF PersistOutput
<1>22. ASSUME NEW r \in Run, MarkSucceeded(r) PROVE Goal
  BY <1>22 DEF MarkSucceeded
<1>23. ASSUME NEW r \in Run, MarkReused(r) PROVE Goal
  BY <1>23 DEF MarkReused
<1>24. ASSUME NEW r \in Run, HandleFatal(r) PROVE Goal
  BY <1>24 DEF HandleFatal
<1>25. ASSUME NEW r \in Run, HandleRetryable(r) PROVE Goal
  BY <1>25 DEF HandleRetryable
<1>26. ASSUME NEW r \in Run, HandleError(r) PROVE Goal
  BY <1>26 DEF HandleError
<1>27. ASSUME NEW r \in Run, FailRun(r) PROVE Goal
  BY <1>27 DEF FailRun
<1>28. ASSUME NEW r \in Run, Crash(r) PROVE Goal
  BY <1>28 DEF Crash
<1> HIDE DEF Goal
<1>g. Goal
  BY <1>1, <1>2, <1>3, <1>4, <1>5, <1>6, <1>7, <1>8, <1>9, <1>10, <1>11, <1>12,
     <1>13, <1>14, <1>15, <1>16, <1>17, <1>18, <1>19, <1>20, <1>21, <1>22, <1>23, <1>24, <1>25,
     <1>26, <1>27, <1>28 DEF Next, Step
<1> QED  BY <1>g DEF Goal

(* What happens in a run stays in the run.                                 *)
Elsewhere(r) ==
  \A q \in Run \ {r} : /\ phase'[q] = phase[q] /\ programCounter'[q] = programCounter[q]
                       /\ todo'[q] = todo[q] /\ seen'[q] = seen[q]
                       /\ nodeStatus'[q] = nodeStatus[q]

LEMMA OldStepElsewhere ==
  ASSUME XTypes, Next
  PROVE  \E r \in Run : (Execute(r) \/ Step(r) \/ Crash(r)) /\ Elsewhere(r)
<1> USE DEF XTypes, Elsewhere
<1>1. ASSUME NEW r \in Run, Execute(r) PROVE Elsewhere(r)
  BY <1>1 DEF Execute
<1>2. ASSUME NEW r \in Run, NEW n \in Node, CreateRow(r, n) PROVE Elsewhere(r)
  BY <1>2 DEF CreateRow
<1>3. ASSUME NEW r \in Run, MarkRunning(r) PROVE Elsewhere(r)
  BY <1>3 DEF MarkRunning
<1>4. ASSUME NEW r \in Run, Look(r) PROVE Elsewhere(r)
  BY <1>4 DEF Look
<1>5. ASSUME NEW r \in Run, NEW n \in Node, Skip(r, n) PROVE Elsewhere(r)
  BY <1>5 DEF Skip
<1>6. ASSUME NEW r \in Run, NEW n \in Node, Dispatch(r, n) PROVE Elsewhere(r)
  BY <1>6 DEF Dispatch
<1>7. ASSUME NEW r \in Run, FinishTerminal(r) PROVE Elsewhere(r)
  BY <1>7 DEF FinishTerminal
<1>8. ASSUME NEW r \in Run, FinishStalled(r) PROVE Elsewhere(r)
  BY <1>8 DEF FinishStalled
<1>9. ASSUME NEW r \in Run, FinishDrained(r) PROVE Elsewhere(r)
  BY <1>9 DEF FinishDrained
<1>10. ASSUME NEW r \in Run, CheckpointBefore(r) PROVE Elsewhere(r)
  BY <1>10 DEF CheckpointBefore
<1>11. ASSUME NEW r \in Run, CheckpointAfter(r) PROVE Elsewhere(r)
  BY <1>11 DEF CheckpointAfter
<1>12. ASSUME NEW r \in Run, Begin(r) PROVE Elsewhere(r)
  BY <1>12 DEF Begin
<1>13. ASSUME NEW r \in Run, Gather(r) PROVE Elsewhere(r)
  BY <1>13 DEF Gather
<1>14. ASSUME NEW r \in Run, GatherFails(r) PROVE Elsewhere(r)
  BY <1>14 DEF GatherFails
<1>15. ASSUME NEW r \in Run, CacheHit(r) PROVE Elsewhere(r)
  BY <1>15 DEF CacheHit
<1>16. ASSUME NEW r \in Run, CacheMiss(r) PROVE Elsewhere(r)
  BY <1>16 DEF CacheMiss
<1>17. ASSUME NEW r \in Run, Reuse(r) PROVE Elsewhere(r)
  BY <1>17 DEF Reuse
<1>18. ASSUME NEW r \in Run, NEW c \in Content, Invoke(r, c) PROVE Elsewhere(r)
  BY <1>18 DEF Invoke
<1>19. ASSUME NEW r \in Run, NEW p \in Phase, InvokeRaises(r, p) PROVE Elsewhere(r)
  BY <1>19 DEF InvokeRaises
<1>20. ASSUME NEW r \in Run, NEW p \in Phase, EmbedRaises(r, p) PROVE Elsewhere(r)
  BY <1>20 DEF EmbedRaises
<1>21. ASSUME NEW r \in Run, PersistOutput(r) PROVE Elsewhere(r)
  BY <1>21 DEF PersistOutput
<1>22. ASSUME NEW r \in Run, MarkSucceeded(r) PROVE Elsewhere(r)
  BY <1>22 DEF MarkSucceeded
<1>23. ASSUME NEW r \in Run, MarkReused(r) PROVE Elsewhere(r)
  BY <1>23 DEF MarkReused
<1>24. ASSUME NEW r \in Run, HandleFatal(r) PROVE Elsewhere(r)
  BY <1>24 DEF HandleFatal
<1>25. ASSUME NEW r \in Run, HandleRetryable(r) PROVE Elsewhere(r)
  BY <1>25 DEF HandleRetryable
<1>26. ASSUME NEW r \in Run, HandleError(r) PROVE Elsewhere(r)
  BY <1>26 DEF HandleError
<1>27. ASSUME NEW r \in Run, FailRun(r) PROVE Elsewhere(r)
  BY <1>27 DEF FailRun
<1>28. ASSUME NEW r \in Run, Crash(r) PROVE Elsewhere(r)
  BY <1>28 DEF Crash
<1> HIDE DEF Elsewhere
<1> QED  BY <1>1, <1>2, <1>3, <1>4, <1>5, <1>6, <1>7, <1>8, <1>9, <1>10, <1>11, <1>12, <1>13, <1>14, <1>15, <1>16, <1>17, <1>18, <1>19, <1>20, <1>21, <1>22, <1>23, <1>24, <1>25, <1>26, <1>27, <1>28 DEF Next, Step

(* What holds a node back holds it back until it starts: upstream nodes    *)
(* stay complete, and every edge added is a late one.                      *)
LEMMA HeldBackStays ==
  ASSUME XTypes, NEW r \in Run, NEW n \in Node, HeldBack(r, n),
         \A m \in Node : RowKept(r, m), late[r] \subseteq late'[r],
         \A e \in Incoming(n)' : e \in Incoming(n) \/ e \in late'[r]
  PROVE  HeldBack(r, n)'
<1> SUFFICES ASSUME NEW e \in Incoming(n)', e \in Incoming(n)
             PROVE  nodeStatus'[r][e.from] \in Complete \/ e \in late'[r]
  BY DEF HeldBack
<1>1. CASE nodeStatus[r][e.from] \in Complete
  <2>1. e.from \in Node
    BY XGraphFacts DEF Incoming
  <2> QED  BY <1>1, <2>1 DEF RowKept, Complete, Settled
<1>2. CASE e \in late[r]
  BY <1>2
<1> QED  BY <1>1, <1>2 DEF HeldBack

LEMMA OldStepPosition ==
  ASSUME XTypes, XPosition, RunStep
  PROVE  XPosition'
<1>1. graph.nodes \subseteq Node /\ graph' = graph
  BY XGraphFacts, OldStepTypes DEF RunStep
<1>2. \A r \in Run : late'[r] = IF Looks(r) THEN {} ELSE late[r]
  BY DEF RunStep
<1>3. \A r \in Run : phase[r] # "scheduling" => late'[r] = late[r]
  BY <1>2 DEF Looks
<1>4. \A r \in Run, n \in graph.nodes :
        phase[r] # "scheduling" /\ HeldBack(r, n) => HeldBack(r, n)'
  <2> SUFFICES ASSUME NEW r \in Run, NEW n \in graph.nodes, HeldBack(r, n), phase[r] # "scheduling"
               PROVE  HeldBack(r, n)'
    OBVIOUS
  <2>1. late'[r] = late[r] /\ \A m \in Node : RowKept(r, m)
    BY <1>3, OldStepRows DEF RunStep
  <2> QED  BY <1>1, <2>1, HeldBackStays DEF Incoming
<1>5. PICK r \in Run : (Execute(r) \/ Step(r) \/ Crash(r)) /\ Elsewhere(r)
  BY OldStepElsewhere DEF RunStep
<1>6. ASSUME NEW q \in Run \ {r} PROVE Place(q)'
  <2>1. Place(q)
    BY DEF XPosition
  <2> QED  BY <1>1, <1>3, <1>4, <1>5, <2>1 DEF Elsewhere, Place
<1>7. Place(r)'
  <2> USE <1>1, <1>3, <1>4 DEF XTypes, NodeStatus, XPosition, Place
  <2>1. ASSUME Execute(r) PROVE Place(r)'
    BY <2>1 DEF Execute
  <2>2. ASSUME NEW n \in Node, CreateRow(r, n) PROVE Place(r)'
    BY <2>2 DEF CreateRow
  <2>3. ASSUME MarkRunning(r) PROVE Place(r)'
    BY <2>3 DEF MarkRunning
  <2>4. ASSUME Look(r) PROVE Place(r)'
    BY <2>4 DEF Look
  <2>5. ASSUME NEW n \in Node, Skip(r, n) PROVE Place(r)'
    BY <2>5 DEF Skip, Skippable
  <2>6. ASSUME NEW n \in Node, Dispatch(r, n) PROVE Place(r)'
    <3>1. /\ phase[r] = "choosing" /\ nodeStatus[r][n] = "pending" /\ n \in graph.nodes
          /\ \A e \in Upstream(r, n) : nodeStatus[r][e.from] \in Complete
      BY <2>6 DEF Dispatch, Ready
    <3>2. HeldBack(r, n)
      BY <3>1 DEF HeldBack, Incoming, Upstream
    <3>3. HeldBack(r, n)'
      BY <3>1, <3>2, <1>4
    <3> QED  BY <2>6, <3>1, <3>3 DEF Dispatch
  <2>7. ASSUME FinishTerminal(r) PROVE Place(r)'
    BY <2>7 DEF FinishTerminal
  <2>8. ASSUME FinishStalled(r) PROVE Place(r)'
    BY <2>8 DEF FinishStalled
  <2>9. ASSUME FinishDrained(r) PROVE Place(r)'
    BY <2>9 DEF FinishDrained
  <2>10. ASSUME CheckpointBefore(r) PROVE Place(r)'
    BY <2>10 DEF CheckpointBefore
  <2>11. ASSUME CheckpointAfter(r) PROVE Place(r)'
    BY <2>11 DEF CheckpointAfter
  <2>12. ASSUME Begin(r) PROVE Place(r)'
    BY <2>12 DEF Begin
  <2>13. ASSUME Gather(r) PROVE Place(r)'
    BY <2>13 DEF Gather
  <2>14. ASSUME GatherFails(r) PROVE Place(r)'
    BY <2>14 DEF GatherFails
  <2>15. ASSUME CacheHit(r) PROVE Place(r)'
    BY <2>15 DEF CacheHit
  <2>16. ASSUME CacheMiss(r) PROVE Place(r)'
    BY <2>16 DEF CacheMiss
  <2>17. ASSUME Reuse(r) PROVE Place(r)'
    BY <2>17 DEF Reuse
  <2>18. ASSUME NEW c \in Content, Invoke(r, c) PROVE Place(r)'
    BY <2>18 DEF Invoke
  <2>19. ASSUME NEW p \in Phase, InvokeRaises(r, p) PROVE Place(r)'
    BY <2>19 DEF InvokeRaises, Raises, CallsOut
  <2>20. ASSUME NEW p \in Phase, EmbedRaises(r, p) PROVE Place(r)'
    BY <2>20 DEF EmbedRaises
  <2>21. ASSUME PersistOutput(r) PROVE Place(r)'
    BY <2>21 DEF PersistOutput
  <2>22. ASSUME MarkSucceeded(r) PROVE Place(r)'
    BY <2>22 DEF MarkSucceeded
  <2>23. ASSUME MarkReused(r) PROVE Place(r)'
    BY <2>23 DEF MarkReused
  <2>24. ASSUME HandleFatal(r) PROVE Place(r)'
    BY <2>24 DEF HandleFatal
  <2>25. ASSUME HandleRetryable(r) PROVE Place(r)'
    BY <2>25 DEF HandleRetryable
  <2>26. ASSUME HandleError(r) PROVE Place(r)'
    BY <2>26 DEF HandleError
  <2>27. ASSUME FailRun(r) PROVE Place(r)'
    BY <2>27 DEF FailRun
  <2>28. ASSUME Crash(r) PROVE Place(r)'
    BY <2>28 DEF Crash
  <2> HIDE DEF XPosition, Place
  <2> QED  BY <1>5, <2>1, <2>2, <2>3, <2>4, <2>5, <2>6, <2>7, <2>8, <2>9, <2>10, <2>11, <2>12, <2>13, <2>14, <2>15, <2>16, <2>17, <2>18, <2>19, <2>20, <2>21, <2>22, <2>23, <2>24, <2>25, <2>26, <2>27, <2>28 DEF Step
<1> QED  BY <1>6, <1>7 DEF XPosition

LEMMA OldStepPlans ==
  ASSUME XInv, Next, plan' = plan
  PROVE  Plans' /\ ExpandedIsComplete' /\ NoLooseEnds'
<1> USE DEF XInv
<1>1. /\ graph' = graph
      /\ \A r \in Run, n \in Node : RowKept(r, n) /\ RowWritten(r, n)
  BY OldStepTypes, OldStepRows
<1>2. \A r \in Run : NewNodes(r)' = NewNodes(r) /\ NewNodes(r) \subseteq Node
  BY NewNodesAreNodes DEF NewNodes
<1>3. ASSUME NEW r \in Run, phase'[r] \in {"expanding", "expanded"}
      PROVE  phase'[r] = phase[r] /\ programCounter'[r] = programCounter[r]
  BY <1>3, OldStepPlaces
<1>4. Plans'
  <2>1. ASSUME NEW r \in Run, phase'[r] = "expanding" PROVE InWriting(r)'
    <3>1. phase[r] = "expanding" /\ programCounter'[r] = programCounter[r]
      BY <1>3, <2>1
    <3>2. InWriting(r) /\ \A n \in NewNodes(r) : nodeStatus'[r][n] = nodeStatus[r][n]
      BY <1>1, <1>2, <3>1 DEF Plans, RowWritten
    <3> QED  BY <1>1, <1>2, <3>1, <3>2 DEF InWriting
  <2>2. ASSUME NEW r \in Run, phase'[r] = "expanded"
        PROVE  plan'[r].node = programCounter'[r] /\ Written(r)'
    <3>1. plan[r].node = programCounter[r] /\ Written(r) /\ programCounter'[r] = programCounter[r]
      BY <1>3, <2>2 DEF Plans
    <3> QED  BY <1>1, <1>2, <3>1 DEF Written, RowKept
  <2> QED  BY <1>2, <2>1, <2>2 DEF Plans
<1>5. ExpandedIsComplete'
  <2> SUFFICES ASSUME NEW r \in Run, plan[r].node # None, nodeStatus'[r][plan[r].node] = "expanded"
               PROVE  /\ NewNodes(r) \subseteq graph.nodes
                      /\ plan[r].wires \subseteq graph.edges
                      /\ \A n \in NewNodes(r) : nodeStatus'[r][n] # "absent"
    BY <1>1, <1>2 DEF ExpandedIsComplete
  <2>1. plan[r].node \in Node
    BY DEF XTypes, Plan
  <2>2. nodeStatus[r][plan[r].node] = "expanded"
    BY <1>1, <2>1 DEF RowWritten
  <2> QED  BY <1>1, <1>2, <2>2 DEF ExpandedIsComplete, RowKept
<1>6. NoLooseEnds'
  BY <1>1, <1>2, OldStepPlaces DEF NoLooseEnds, Expected
<1> QED  BY <1>4, <1>5, <1>6

-----------------------------------------------------------------------------
(* The steps of an expansion leave settled rows alone as well, and start   *)
(* no node.                                                                *)
LEMMA ExpandRows ==
  ASSUME XTypes, XPosition, Plans, NEW r \in Run, Expand(r)
  PROVE  \A q \in Run, m \in Node : /\ RowKept(q, m)
                                    /\ nodeStatus'[q][m] = "running" => nodeStatus[q][m] = "running"
<1> DEFINE Goal == \A q \in Run, m \in Node :
                     /\ RowKept(q, m)
                     /\ nodeStatus'[q][m] = "running" => nodeStatus[q][m] = "running"
<1> USE DEF XTypes, RowKept, Settled
<1>1. ASSUME NEW n \in DOMAIN Request, NEW q \in Request[n], TakeRequest(r, n, q) PROVE Goal
  BY <1>1 DEF TakeRequest
<1>2. ASSUME NEW n \in Node, WriteRow(r, n) PROVE Goal
  <2>1. nodeStatus[r][n] = "absent"
    BY <1>2 DEF WriteRow, Plans, InWriting
  <2> QED  BY <1>2, <2>1 DEF WriteRow
<1>3. ASSUME NEW e \in plan[r].edges, WriteEdge(r, e) PROVE Goal
  BY <1>3 DEF WriteEdge
<1>4. ASSUME WriteNodes(r) PROVE Goal
  BY <1>4 DEF WriteNodes
<1>5. ASSUME NEW c \in Content, MarkExpanded(r, c) PROVE Goal
  BY <1>5 DEF MarkExpanded, XPosition, Place
<1> QED  BY <1>1, <1>2, <1>3, <1>4, <1>5 DEF Expand

LEMMA TakeRequestStep ==
  ASSUME XInv, NEW r \in Run, NEW n \in DOMAIN Request, NEW q \in Request[n],
         TakeRequest(r, n, q)
  PROVE  XInv'
<1> USE DEF XInv
<1>1. /\ graph' = graph /\ nodeStatus' = nodeStatus /\ programCounter' = programCounter
      /\ crashes' = crashes /\ phase' = [phase EXCEPT ![r] = "expanding"]
      /\ UNCHANGED <<attempts, output, cache, result, todo, seen, late>>
  BY DEF TakeRequest
<1>2. /\ plan' \in [Run -> Plan] /\ DOMAIN plan'[r].new = DOMAIN plan'[r].ids
      /\ \A p \in Run \ {r} : plan'[p] = plan[p]
      /\ n = programCounter[r] /\ plan'[r].node = n /\ plan'[r].rows = NewNodes(r)'
      /\ NewNodes(r)' \subseteq Fresh
      /\ plan'[r].edges = plan'[r].wires
      /\ \A e \in plan'[r].wires : /\ e.from \in graph.nodes \cup NewNodes(r)'
                                   /\ e.to \in graph.nodes \cup NewNodes(r)'
  BY TakeRequestPlan
<1>3. XTypes'
  BY <1>1, <1>2 DEF XTypes, XPhase, Ranked
<1>4. phase[r] = "invoking" /\ graph.kind[n] = "expand"
  BY DEF TakeRequest
<1>5. XPosition'
  <2>1. \A p \in Run, m \in graph.nodes : HeldBack(p, m) => HeldBack(p, m)'
    BY <1>1 DEF HeldBack, Incoming
  <2>2. ASSUME NEW p \in Run \ {r} PROVE Place(p)'
    <3>1. Place(p) /\ phase'[p] = phase[p]
      BY <1>1 DEF XPosition, XTypes
    <3> QED  BY <1>1, <2>1, <3>1 DEF Place
  <2>3. Place(r)'
    BY <1>1, <1>2, <1>4 DEF XPosition, Place, XTypes
  <2> QED  BY <2>2, <2>3 DEF XPosition
<1>6. \A p \in Run \ {r} : NewNodes(p)' = NewNodes(p)
  BY <1>2 DEF NewNodes
<1>7. \A m \in NewNodes(r)' : /\ m \notin graph.nodes /\ nodeStatus[r][m] = "absent"
                              /\ \A p \in Run : m \notin NewNodes(p)
  <2> SUFFICES ASSUME NEW m \in Fresh
               PROVE  /\ m \notin graph.nodes /\ nodeStatus[r][m] = "absent"
                      /\ \A p \in Run : m \notin NewNodes(p)
    BY <1>2
  <2> QED  BY DEF Fresh, NewNodes
<1>8. Plans'
  <2>1. \A p, o \in Run : p # o => NewNodes(p)' \cap NewNodes(o)' = {}
    BY <1>6, <1>7 DEF Plans
  <2>2. InWriting(r)'
    BY <1>1, <1>2, <1>7 DEF InWriting
  <2>3. ASSUME NEW p \in Run \ {r}, phase'[p] = "expanding" PROVE InWriting(p)'
    <3>1. InWriting(p) /\ plan'[p] = plan[p] /\ NewNodes(p)' = NewNodes(p)
      BY <1>1, <1>2, <1>6, <2>3 DEF Plans, XTypes
    <3> QED  BY <1>1, <3>1 DEF InWriting
  <2>4. ASSUME NEW p \in Run \ {r}, phase'[p] = "expanded"
        PROVE  plan'[p].node = programCounter'[p] /\ Written(p)'
    BY <1>1, <1>2, <1>6, <2>4 DEF Plans, XTypes, Written
  <2> QED  BY <1>1, <2>1, <2>2, <2>3, <2>4 DEF Plans, XTypes
<1>9. ExpandedIsComplete'
  <2>1. nodeStatus[r][n] = "running"
    BY <1>2, <1>4 DEF XPosition, Place
  <2> QED  BY <1>1, <1>2, <1>6, <2>1 DEF ExpandedIsComplete
<1>10. NoLooseEnds'
  <2>1. \A p \in Run : phase[p] = "expanding" => phase'[p] = "expanding" /\ NewNodes(p)' = NewNodes(p)
    BY <1>1, <1>4, <1>6 DEF XTypes
  <2> QED  BY <1>1, <2>1 DEF NoLooseEnds, Expected
<1> QED  BY <1>3, <1>5, <1>8, <1>9, <1>10

LEMMA WriteRowStep ==
  ASSUME XInv, NEW r \in Run, NEW n \in Node, WriteRow(r, n)
  PROVE  XInv'
<1> USE DEF XInv
<1>1. /\ graph' = graph /\ programCounter' = programCounter /\ crashes' = crashes
      /\ phase' = phase /\ UNCHANGED <<attempts, output, cache, result, todo, seen, late>>
      /\ nodeStatus' = [nodeStatus EXCEPT ![r][n] = "pending"]
      /\ plan' = [plan EXCEPT ![r].rows = plan[r].rows \ {n}]
  BY DEF WriteRow
<1>2. phase[r] = "expanding" /\ n \in plan[r].rows /\ InWriting(r)
  BY DEF WriteRow, Plans
<1>3. /\ \A p \in Run \ {r} : plan'[p] = plan[p]
      /\ \A p \in Run : /\ plan'[p].node = plan[p].node /\ plan'[p].ids = plan[p].ids
                        /\ plan'[p].new = plan[p].new /\ plan'[p].edges = plan[p].edges
                        /\ plan'[p].wires = plan[p].wires
      /\ plan'[r].rows = plan[r].rows \ {n}
  BY <1>1 DEF XTypes, Plan
<1>4. XTypes'
  <2>1. plan[r] \in Plan /\ [plan[r] EXCEPT !.rows = plan[r].rows \ {n}] \in Plan
    BY ZenonT(60) DEF XTypes, Plan
  <2>2. plan' = [plan EXCEPT ![r] = [plan[r] EXCEPT !.rows = plan[r].rows \ {n}]]
    BY <1>1 DEF XTypes
  <2>3. plan' \in [Run -> Plan]
    BY <2>1, <2>2 DEF XTypes
  <2> QED  BY <1>1, <1>3, <2>3, SMTT(30) DEF XTypes, NodeStatus, Ranked
<1>5. \A p \in Run : NewNodes(p)' = NewNodes(p)
  BY <1>3 DEF NewNodes
<1>6. n \in NewNodes(r) /\ n \notin graph.nodes /\ nodeStatus[r][n] = "absent"
  BY <1>2 DEF InWriting
<1>7. /\ nodeStatus'[r][n] = "pending"
      /\ \A p \in Run, m \in Node : <<p, m>> # <<r, n>> => nodeStatus'[p][m] = nodeStatus[p][m]
  BY <1>1 DEF XTypes
<1>8. XPosition'
  <2>1. \A p \in Run, m \in graph.nodes : HeldBack(p, m) => HeldBack(p, m)'
    <3> SUFFICES ASSUME NEW p \in Run, NEW m \in graph.nodes, HeldBack(p, m)
                 PROVE  HeldBack(p, m)'
      OBVIOUS
    <3>1. \A e \in Incoming(m) : nodeStatus[p][e.from] \in Complete => nodeStatus'[p][e.from] \in Complete
      BY <1>6, <1>7, XGraphFacts DEF Incoming, Complete
    <3> QED  BY <1>1, <3>1 DEF HeldBack, Incoming
  <2>2. \A p \in Run : programCounter[p] \in graph.nodes =>
                        nodeStatus'[p][programCounter[p]] = nodeStatus[p][programCounter[p]]
    BY <1>6, <1>7, XGraphFacts
  <2>3. \A p \in Run : phase[p] = "ensuring" => p # r
    BY <1>2
  <2>4. \A p \in Run, m \in Node : p # r => nodeStatus'[p][m] = nodeStatus[p][m]
    BY <1>7
  <2>5. ASSUME NEW p \in Run PROVE Place(p)'
    <3>1. Place(p) /\ todo[p] \subseteq Node
      BY DEF XPosition, XTypes
    <3> QED  BY <1>1, <2>1, <2>2, <2>3, <2>4, <3>1 DEF Place
  <2> QED  BY <2>5 DEF XPosition
<1>9. Plans'
  <2>1. InWriting(r)'
    <3>1. \A m \in NewNodes(r) : nodeStatus'[r][m] = "absent" <=> m \in plan'[r].rows
      BY <1>2, <1>3, <1>7, NewNodesAreNodes DEF InWriting
    <3> QED  BY <1>1, <1>2, <1>3, <1>5, <3>1 DEF InWriting
  <2>2. ASSUME NEW p \in Run \ {r}, phase[p] = "expanding" PROVE InWriting(p)'
    <3>1. InWriting(p) /\ \A m \in NewNodes(p) : nodeStatus'[p][m] = nodeStatus[p][m]
      BY <1>7, <2>2, NewNodesAreNodes DEF Plans
    <3> QED  BY <1>1, <1>3, <1>5, <3>1 DEF InWriting
  <2>3. ASSUME NEW p \in Run, phase[p] = "expanded"
        PROVE  plan'[p].node = programCounter'[p] /\ Written(p)'
    <3>1. plan[p].node = programCounter[p] /\ Written(p)
      BY <2>3 DEF Plans
    <3> QED  BY <1>1, <1>3, <1>5, <1>7, <3>1, NewNodesAreNodes DEF Written
  <2> QED  BY <1>1, <1>5, <2>1, <2>2, <2>3 DEF Plans
<1>10. ExpandedIsComplete'
  <2> SUFFICES ASSUME NEW p \in Run, plan[p].node # None, nodeStatus'[p][plan[p].node] = "expanded"
               PROVE  /\ NewNodes(p) \subseteq graph.nodes
                      /\ plan[p].wires \subseteq graph.edges
                      /\ \A m \in NewNodes(p) : nodeStatus'[p][m] # "absent"
    BY <1>1, <1>3, <1>5 DEF ExpandedIsComplete
  <2>1. plan[p].node \in Node
    BY DEF XTypes, Plan
  <2>2. nodeStatus[p][plan[p].node] = "expanded"
    BY <1>7, <2>1
  <2> QED  BY <1>7, <2>2, NewNodesAreNodes DEF ExpandedIsComplete
<1>11. NoLooseEnds'
  BY <1>1, <1>5 DEF NoLooseEnds, Expected
<1> QED  BY <1>4, <1>8, <1>9, <1>10, <1>11

LEMMA WriteEdgeStep ==
  ASSUME XInv, NEW r \in Run, NEW w \in plan[r].edges, WriteEdge(r, w)
  PROVE  XInv'
<1> USE DEF XInv
<1>1. /\ graph' = [graph EXCEPT !.edges = graph.edges \cup {w}]
      /\ programCounter' = programCounter /\ crashes' = crashes
      /\ phase' = phase /\ UNCHANGED <<nodeStatus, attempts, output, cache, result, todo, seen>>
      /\ plan' = [plan EXCEPT ![r].edges = plan[r].edges \ {w}]
      /\ \A p \in Run : late'[p] = late[p] \cup {w}
  BY DEF WriteEdge
<1>2. phase[r] = "expanding" /\ InWriting(r)
  BY DEF WriteEdge, Plans
<1>3. w \in Edge /\ w \in plan[r].wires
  BY <1>2 DEF XTypes, Plan, InWriting
<1>4. /\ graph'.nodes = graph.nodes /\ graph'.edges = graph.edges \cup {w}
      /\ graph'.kind = graph.kind /\ graph'.rank = graph.rank /\ graph' \in TaskGraph
  BY <1>1, <1>3 DEF XTypes, TaskGraph
<1>5. /\ \A p \in Run \ {r} : plan'[p] = plan[p]
      /\ plan'[r] = [plan[r] EXCEPT !.edges = plan[r].edges \ {w}]
  BY <1>1 DEF XTypes
<1>6. /\ \A p \in Run : /\ plan'[p].node = plan[p].node /\ plan'[p].ids = plan[p].ids
                        /\ plan'[p].new = plan[p].new /\ plan'[p].rows = plan[p].rows
                        /\ plan'[p].wires = plan[p].wires
      /\ plan'[r].edges = plan[r].edges \ {w}
  BY <1>5, ZenonT(60) DEF XTypes, Plan
<1>7. XTypes'
  <2>1. plan'[r] \in Plan
    <3>1. plan[r] \in Plan
      BY DEF XTypes
    <3>2. plan[r].edges \ {w} \in SUBSET Edge
      BY <3>1 DEF Plan
    <3> QED  BY <1>5, <3>1, <3>2 DEF Plan
  <2>2. plan' \in [Run -> Plan]
    BY <1>1, <2>1 DEF XTypes
  <2>3. Ranked(graph')
    BY <1>4 DEF XTypes, Ranked
  <2> QED  BY <1>1, <1>4, <1>6, <2>2, <2>3 DEF XTypes
<1>8. \A p \in Run : NewNodes(p)' = NewNodes(p)
  BY <1>6 DEF NewNodes
<1>9. XPosition'
  <2>1. \A p \in Run, m \in graph.nodes : HeldBack(p, m) => HeldBack(p, m)'
    <3> SUFFICES ASSUME NEW p \in Run, NEW m \in graph.nodes, HeldBack(p, m), NEW e \in Incoming(m)'
                 PROVE  nodeStatus[p][e.from] \in Complete \/ e \in late'[p]
      BY <1>1 DEF HeldBack
    <3>1. e = w \/ e \in Incoming(m)
      BY <1>4 DEF Incoming
    <3> QED  BY <1>1, <3>1 DEF HeldBack
  <2>2. ASSUME NEW p \in Run PROVE Place(p)'
    <3>1. Place(p)
      BY DEF XPosition
    <3> QED  BY <1>1, <1>4, <2>1, <3>1 DEF Place
  <2> QED  BY <2>2 DEF XPosition
<1>10. Plans'
  <2>1. ASSUME NEW p \in Run \ {r}, phase[p] = "expanding" PROVE InWriting(p)'
    <3>1. InWriting(p) /\ plan'[p] = plan[p]
      BY <1>5, <2>1 DEF Plans
    <3> QED  BY <1>1, <1>4, <1>8, <3>1 DEF InWriting
  <2>2. InWriting(r)'
    BY <1>1, <1>2, <1>4, <1>6, <1>8 DEF InWriting
  <2>3. ASSUME NEW p \in Run, phase[p] = "expanded"
        PROVE  plan'[p].node = programCounter'[p] /\ Written(p)'
    <3>1. plan[p].node = programCounter[p] /\ Written(p)
      BY <2>3 DEF Plans
    <3> QED  BY <1>1, <1>4, <1>6, <1>8, <3>1 DEF Written
  <2> QED  BY <1>1, <1>8, <2>1, <2>2, <2>3 DEF Plans
<1>11. ExpandedIsComplete'
  <2> SUFFICES ASSUME NEW p \in Run, plan[p].node # None, nodeStatus[p][plan[p].node] = "expanded"
               PROVE  Written(p)'
    BY <1>1, <1>6 DEF ExpandedIsComplete, Written
  <2>1. Written(p)
    BY DEF ExpandedIsComplete, Written
  <2> QED  BY <1>1, <1>4, <1>6, <1>8, <2>1 DEF Written
<1>12. NoLooseEnds'
  <2>1. \A m : Expected(m) => Expected(m)'
    BY <1>1, <1>4, <1>8 DEF Expected
  <2>2. Expected(w.from) /\ Expected(w.to)
    BY <1>2, <1>3 DEF InWriting, Expected
  <2> QED  BY <1>1, <1>4, <2>1, <2>2 DEF NoLooseEnds
<1> QED  BY <1>7, <1>9, <1>10, <1>11, <1>12

LEMMA WriteNodesStep ==
  ASSUME XInv, NEW r \in Run, WriteNodes(r)
  PROVE  XInv'
<1> USE DEF XInv
<1>1. /\ phase' = [phase EXCEPT ![r] = "expanded"] /\ plan' = plan
      /\ programCounter' = programCounter /\ crashes' = crashes
      /\ UNCHANGED <<nodeStatus, attempts, output, cache, result, todo, seen, late>>
  BY DEF WriteNodes
<1>2. /\ phase[r] = "expanding" /\ InWriting(r)
      /\ plan[r].rows = {} /\ plan[r].edges = {}
  BY DEF WriteNodes, Plans
<1>3. /\ graph' \in TaskGraph /\ Ranked(graph')
      /\ graph'.nodes = graph.nodes \cup NewNodes(r)
      /\ graph'.edges = graph.edges \cup plan[r].wires
      /\ \A n \in Node \ NewNodes(r) : graph'.kind[n] = graph.kind[n]
  BY WrittenGraph
<1>4. graph'.edges = graph.edges /\ plan[r].wires \subseteq graph.edges
  BY <1>2, <1>3 DEF InWriting
<1>5. \A n \in graph.nodes : graph'.kind[n] = graph.kind[n]
  BY <1>2, <1>3, XGraphFacts DEF InWriting
<1>6. XTypes'
  BY <1>1, <1>3 DEF XTypes, XPhase
<1>7. \A p \in Run : NewNodes(p)' = NewNodes(p)
  BY <1>1 DEF NewNodes
<1>8. XPosition'
  <2>1. \A p \in Run, m \in graph.nodes : HeldBack(p, m) => HeldBack(p, m)'
    BY <1>1, <1>4 DEF HeldBack, Incoming
  <2>2. ASSUME NEW p \in Run \ {r} PROVE Place(p)'
    <3>1. Place(p) /\ phase'[p] = phase[p]
      BY <1>1 DEF XPosition, XTypes
    <3> QED  BY <1>1, <1>3, <1>4, <1>5, <2>1, <3>1 DEF Place
  <2>3. Place(r)'
    <3>1. Place(r) /\ phase'[r] = "expanded"
      BY <1>1 DEF XPosition, XTypes
    <3> QED  BY <1>1, <1>2, <1>3, <1>5, <3>1 DEF Place
  <2> QED  BY <2>2, <2>3 DEF XPosition
<1>9. Plans'
  <2>1. Written(r)' /\ plan'[r].node = programCounter'[r]
    BY <1>1, <1>2, <1>3, <1>7 DEF InWriting, Written
  <2>2. ASSUME NEW p \in Run \ {r}, phase'[p] = "expanding" PROVE InWriting(p)'
    <3>1. InWriting(p) /\ NewNodes(p) \cap NewNodes(r) = {}
      BY <1>1, <2>2 DEF Plans, XTypes
    <3> QED  BY <1>1, <1>3, <1>7, <3>1 DEF InWriting
  <2>3. ASSUME NEW p \in Run \ {r}, phase'[p] = "expanded"
        PROVE  plan'[p].node = programCounter'[p] /\ Written(p)'
    BY <1>1, <1>3, <1>7, <2>3 DEF Plans, Written, XTypes
  <2> QED  BY <1>1, <1>7, <2>1, <2>2, <2>3 DEF Plans, XTypes
<1>10. ExpandedIsComplete'
  BY <1>1, <1>3, <1>7 DEF ExpandedIsComplete
<1>11. NoLooseEnds'
  <2>1. \A m : Expected(m) => Expected(m)'
    BY <1>1, <1>3, <1>7 DEF Expected, XTypes
  <2> QED  BY <1>1, <1>4, <2>1 DEF NoLooseEnds
<1> QED  BY <1>6, <1>8, <1>9, <1>10, <1>11

LEMMA MarkExpandedStep ==
  ASSUME XInv, NEW r \in Run, NEW c \in Content, MarkExpanded(r, c)
  PROVE  XInv'
<1> USE DEF XInv
<1>1. /\ graph' = graph /\ plan' = plan /\ programCounter' = programCounter /\ crashes' = crashes
      /\ phase' = [phase EXCEPT ![r] = "answered"]
      /\ UNCHANGED <<attempts, output, cache, todo, seen, late>>
      /\ result' \in [Run -> Content \cup {None}]
      /\ nodeStatus' = [nodeStatus EXCEPT ![r][programCounter[r]] = "expanded"]
  BY DEF MarkExpanded, XTypes
<1>2. /\ phase[r] = "expanded" /\ plan[r].node = programCounter[r] /\ Written(r)
      /\ programCounter[r] \in Node /\ nodeStatus[r][programCounter[r]] = "running"
      /\ graph.kind[programCounter[r]] = "expand"
  BY XGraphFacts DEF MarkExpanded, Plans, XPosition, Place
<1>3. /\ nodeStatus'[r][programCounter[r]] = "expanded"
      /\ \A p \in Run, m \in Node : <<p, m>> # <<r, programCounter[r]>> =>
            nodeStatus'[p][m] = nodeStatus[p][m]
  BY <1>1, <1>2 DEF XTypes
<1>4. XTypes'
  BY <1>1 DEF XTypes, XPhase, Phase, NodeStatus, Ranked
<1>5. \A p \in Run : NewNodes(p)' = NewNodes(p) /\ NewNodes(p) \subseteq Node
  BY <1>1, NewNodesAreNodes DEF NewNodes
<1>6. XPosition'
  <2>1. \A p \in Run \ {r}, m \in graph.nodes : HeldBack(p, m) => HeldBack(p, m)'
    BY <1>1, <1>3, XGraphFacts DEF HeldBack, Incoming
  <2>2. \A p \in Run \ {r} : programCounter[p] \in graph.nodes =>
          nodeStatus'[p][programCounter[p]] = nodeStatus[p][programCounter[p]]
    BY <1>3, XGraphFacts
  <2>3. ASSUME NEW p \in Run \ {r} PROVE Place(p)'
    <3>1. /\ Place(p) /\ phase'[p] = phase[p] /\ todo[p] \subseteq Node
          /\ \A m \in Node : nodeStatus'[p][m] = nodeStatus[p][m]
      BY <1>1, <1>3 DEF XPosition, XTypes
    <3> QED  BY <1>1, <2>1, <2>2, <3>1 DEF Place
  <2>4. Place(r)'
    <3>1. phase'[r] = "answered" /\ programCounter[r] \in graph.nodes
      BY <1>1, <1>2 DEF XPosition, Place, XTypes
    <3> QED  BY <1>1, <1>2, <1>3, <3>1 DEF Place
  <2> QED  BY <2>3, <2>4 DEF XPosition
<1>7. Plans'
  <2>1. ASSUME NEW p \in Run \ {r}, phase'[p] = "expanding" PROVE InWriting(p)'
    <3>1. InWriting(p)
      BY <1>1, <2>1 DEF Plans, XTypes
    <3> QED  BY <1>1, <1>3, <1>5, <3>1 DEF InWriting
  <2>2. ASSUME NEW p \in Run \ {r}, phase'[p] = "expanded"
        PROVE  plan'[p].node = programCounter'[p] /\ Written(p)'
    <3>1. plan[p].node = programCounter[p] /\ Written(p)
      BY <1>1, <2>2 DEF Plans, XTypes
    <3> QED  BY <1>1, <1>3, <1>5, <3>1 DEF Written
  <2> QED  BY <1>1, <1>5, <2>1, <2>2 DEF Plans, XTypes
<1>8. ExpandedIsComplete'
  <2> SUFFICES ASSUME NEW p \in Run, plan[p].node # None, nodeStatus'[p][plan[p].node] = "expanded"
               PROVE  Written(p)'
    BY <1>1 DEF ExpandedIsComplete, Written
  <2>1. plan[p].node \in Node
    BY DEF XTypes, Plan
  <2>2. Written(p)
    BY <1>2, <1>3, <2>1 DEF ExpandedIsComplete, Written
  <2> QED  BY <1>1, <1>3, <1>5, <2>2 DEF Written
<1>9. NoLooseEnds'
  <2>1. \A m : Expected(m) => Expected(m)'
    BY <1>1, <1>2, <1>5 DEF Expected, XTypes
  <2> QED  BY <1>1, <2>1 DEF NoLooseEnds
<1> QED  BY <1>4, <1>6, <1>7, <1>8, <1>9

-----------------------------------------------------------------------------
(* A run that has the graph to itself.  A run never executed has no rows,  *)
(* and nothing died before the first run is executed.                      *)
Untouched(r) ==
  executions[r] = 0 => /\ phase[r] = "idle" /\ runStatus[r] = "pending"
                       /\ \A n \in Node : nodeStatus[r][n] = "absent"

(* While a run is alone, its rows are those of the nodes of the graph that *)
(* have got one and of what it is about to add.                            *)
HasRows(r) ==
  /\ phase[r] = "ensuring" => todo[r] \subseteq graph.nodes
  /\ \A n \in Node : nodeStatus[r][n] # "absent" <=>
       \/ n \in graph.nodes /\ ~ (phase[r] = "ensuring" /\ n \in todo[r])
       \/ phase[r] = "expanding" /\ n \in NewNodes(r) \ plan[r].rows

(* Only the node at the counter can be unfinished.                         *)
OneBroken(r) ==
  /\ \A n \in Node : nodeStatus[r][n] \in Broken =>
       /\ n = programCounter[r]
       /\ phase[r] \notin {"ensuring", "scheduling", "choosing", "dispatched", "entering", "marked"}
  /\ phase[r] = "nodeFailed" => nodeStatus[r][programCounter[r]] = "failed"

(* Nobody draws edges while a run that is alone chooses a node.            *)
SeesAll(r) == phase[r] = "choosing" => seen[r] = graph.edges

Orderly(r) == crashes = 0 /\ HasRows(r) /\ OneBroken(r) /\ SeesAll(r)

Verdict(r) ==
  /\ runStatus[r] = "failed" => \E n \in graph.nodes : nodeStatus[r][n] \in Broken
  /\ runStatus[r] = "succeeded" => \A n \in graph.nodes : nodeStatus[r][n] \in Complete

Tidy(r) ==
  /\ Alone(r) /\ phase[r] # "idle" => runStatus[r] \in {"pending", "running"} /\ Orderly(r)
  /\ Alone(r) /\ Acyclic(graph) => Verdict(r)

Lone ==
  /\ executions \in [Run -> Nat] /\ runStatus \in [Run -> RunStatus]
  /\ (\A r \in Run : executions[r] = 0) => crashes = 0
  /\ \A r \in Run : Untouched(r) /\ Tidy(r)

LEMMA LoneInit == XInit => Lone
<1> SUFFICES ASSUME XInit PROVE Lone
  OBVIOUS
<1>1. /\ executions = [r \in Run |-> 0] /\ crashes = 0
      /\ runStatus = [r \in Run |-> "pending"] /\ phase = [r \in Run |-> "idle"]
      /\ nodeStatus = [r \in Run |-> [n \in Node |-> "absent"]]
  BY DEF XInit, Init
<1>2. ASSUME NEW r \in Run PROVE Untouched(r) /\ Tidy(r)
  BY <1>1 DEF Untouched, Tidy, Verdict
<1> QED  BY <1>1, <1>2 DEF Lone, RunStatus

(* A run alone that has nothing left to start has settled every node: one  *)
(* of the pending nodes would have no pending upstream node, none of its   *)
(* upstream nodes is missing, and none is broken.                          *)
LEMMA NothingLeftBehind ==
  ASSUME XInv, Lone, NEW r \in Run, Alone(r), Acyclic(graph), phase[r] = "choosing", NoneReady(r)
  PROVE  /\ \A n \in graph.nodes : nodeStatus[r][n] \in Complete
         /\ ~ HasPending(r)
<1> DEFINE P == {n \in graph.nodes : nodeStatus[r][n] = "pending"}
<1>1. crashes = 0 /\ HasRows(r) /\ OneBroken(r) /\ seen[r] = graph.edges
  BY DEF Lone, Tidy, Orderly, SeesAll
<1>2. \A n \in Node : /\ nodeStatus[r][n] # "absent" <=> n \in graph.nodes
                      /\ nodeStatus[r][n] \notin Broken
  BY <1>1 DEF HasRows, OneBroken
<1>3. \A q \in Run : phase[q] # "expanding"
  BY DEF Lone, Untouched, Alone
<1>4. \A e \in graph.edges : e.from \in graph.nodes
  BY <1>1, <1>3 DEF XInv, NoLooseEnds, Expected
<1>5. XTypes /\ graph.nodes \subseteq Node
  BY XGraphFacts DEF XInv
<1>6. \A n \in graph.nodes : n \notin P => nodeStatus[r][n] \in Complete
  BY <1>2, <1>5 DEF XTypes, NodeStatus, Broken, Complete
<1>7. P = {}
  <2> SUFFICES ASSUME P # {} PROVE FALSE
    OBVIOUS
  <2>1. PICK n \in P : \A e \in graph.edges : e.to = n => e.from \notin P
    <3>1. P \in SUBSET graph.nodes
      OBVIOUS
    <3> QED  BY <3>1 DEF Acyclic
  <2>2. ~ Ready(r, n)
    BY <1>5 DEF NoneReady
  <2>3. PICK e \in Incoming(n) : nodeStatus[r][e.from] \notin Complete
    BY <1>1, <2>2 DEF Ready, Upstream, Incoming
  <2> QED  BY <1>4, <1>6, <2>1, <2>3 DEF Incoming
<1> QED  BY <1>2, <1>6, <1>7 DEF HasPending

(* A step of run r leaves the other runs where they are.                   *)
OthersRest(r) ==
  \A q \in Run \ {r} : /\ executions'[q] = executions[q] /\ runStatus'[q] = runStatus[q]
                       /\ phase'[q] = phase[q] /\ nodeStatus'[q] = nodeStatus[q]

LEMMA LoneStep ==
  ASSUME Lone, NEW r \in Run, OthersRest(r), Tidy(r)',
         executions' \in [Run -> Nat], runStatus' \in [Run -> RunStatus], executions'[r] # 0
  PROVE  Lone'
<1>1. Untouched(r)'
  BY DEF Untouched
<1>2. ASSUME NEW q \in Run \ {r} PROVE Untouched(q)' /\ Tidy(q)'
  <2>1. ~ Alone(q)'
    BY DEF Alone
  <2>2. Untouched(q)'
    BY DEF Lone, Untouched, OthersRest
  <2> QED  BY <2>1, <2>2 DEF Tidy
<1> QED  BY <1>1, <1>2 DEF Lone

(* A step inside execute: the run is told nothing yet.                     *)
LEMMA InsideStep ==
  ASSUME Lone, NEW r \in Run, phase[r] # "idle", OthersRest(r),
         executions' = executions,
         runStatus' = runStatus \/ runStatus' = [runStatus EXCEPT ![r] = "running"],
         phase'[r] = "idle" \/ (Alone(r) => Orderly(r)')
  PROVE  Lone'
<1>1. executions[r] # 0 /\ runStatus' \in [Run -> RunStatus]
  BY DEF Lone, Untouched, RunStatus
<1>2. Alone(r)' <=> Alone(r)
  BY DEF Alone
<1>3. Alone(r) => runStatus'[r] \in {"pending", "running"}
  BY DEF Lone, Tidy
<1>4. Tidy(r)'
  BY <1>2, <1>3 DEF Tidy, Verdict
<1> QED  BY <1>1, <1>4, LoneStep DEF Lone

(* The last step of execute: the run is alone only if its verdict is true. *)
LEMMA FinishStep ==
  ASSUME Lone, NEW r \in Run, phase[r] # "idle", NEW s \in RunStatus,
         runStatus' = [runStatus EXCEPT ![r] = s], phase' = [phase EXCEPT ![r] = "idle"],
         executions' = executions, nodeStatus' = nodeStatus, graph' = graph,
         phase \in [Run -> XPhase],
         Alone(r) /\ Acyclic(graph) =>
           /\ s = "failed" => \E n \in graph.nodes : nodeStatus[r][n] \in Broken
           /\ s = "succeeded" => \A n \in graph.nodes : nodeStatus[r][n] \in Complete
  PROVE  Lone'
<1>1. executions[r] # 0
  BY DEF Lone, Untouched
<1>2. phase'[r] = "idle" /\ runStatus'[r] = s /\ OthersRest(r)
  BY DEF Lone, OthersRest
<1>3. Alone(r)' <=> Alone(r)
  BY DEF Alone
<1>4. Acyclic(graph') <=> Acyclic(graph)
  OBVIOUS
<1>5. Tidy(r)'
  BY <1>2, <1>3, <1>4 DEF Tidy, Verdict
<1>6. runStatus' \in [Run -> RunStatus]
  BY DEF Lone
<1> QED  BY <1>1, <1>2, <1>5, <1>6, LoneStep DEF Lone

LEMMA ExecuteLone ==
  ASSUME XInv, Lone, NEW r \in Run, Execute(r)
  PROVE  Lone'
<1>1. /\ executions' = [executions EXCEPT ![r] = executions[r] + 1] /\ crashes' = crashes
      /\ runStatus' = runStatus /\ phase' = [phase EXCEPT ![r] = "ensuring"]
      /\ nodeStatus' = nodeStatus /\ graph' = graph
      /\ todo' = [todo EXCEPT ![r] = {n \in graph.nodes : nodeStatus[r][n] = "absent"}]
  BY DEF Execute
<1>2. OthersRest(r)
  BY <1>1 DEF OthersRest, Lone, XInv, XTypes
<1>3. /\ executions' \in [Run -> Nat] /\ executions'[r] = executions[r] + 1
      /\ executions[r] \in Nat /\ phase'[r] = "ensuring"
      /\ todo'[r] = {n \in graph.nodes : nodeStatus[r][n] = "absent"}
  BY <1>1 DEF Lone, XInv, XTypes
<1>4. ASSUME Alone(r)' PROVE runStatus[r] = "pending" /\ Orderly(r)'
  <2>1. executions[r] = 0 /\ \A q \in Run \ {r} : executions[q] = 0
    BY <1>2, <1>3, <1>4 DEF Alone, OthersRest
  <2>2. /\ crashes' = 0 /\ runStatus[r] = "pending"
        /\ \A n \in Node : nodeStatus[r][n] = "absent"
    BY <1>1, <2>1 DEF Lone, Untouched
  <2>3. \A n \in Node : n \in graph.nodes => n \in todo'[r]
    BY <1>3, <2>2
  <2> QED  BY <1>1, <1>3, <2>2, <2>3 DEF Orderly, HasRows, OneBroken, SeesAll, Broken
<1>5. Tidy(r)'
  BY <1>1, <1>3, <1>4 DEF Tidy, Verdict
<1> QED  BY <1>1, <1>2, <1>3, <1>5, LoneStep DEF Lone

(* The steps inside execute keep a run that is alone orderly.              *)
LEMMA OrderlyStep ==
  ASSUME XInv, Lone, NEW r \in Run, Alone(r), Step(r), plan' = plan, phase'[r] # "idle"
  PROVE  Orderly(r)'
<1> DEFINE Goal == crashes' = crashes /\ HasRows(r)' /\ OneBroken(r)' /\ SeesAll(r)'
<1>1. phase[r] # "idle"
  BY DEF Step, CreateRow, MarkRunning, Look, Skip, Dispatch, FinishTerminal,
         FinishStalled, FinishDrained, CheckpointBefore, CheckpointAfter, Begin, Gather,
         GatherFails, CacheHit, CacheMiss, Reuse, Invoke, InvokeRaises, EmbedRaises,
         PersistOutput, MarkSucceeded, MarkReused, HandleFatal, HandleRetryable,
         HandleError, FailRun
<1>2. crashes = 0 /\ HasRows(r) /\ OneBroken(r) /\ SeesAll(r)
  BY <1>1 DEF Lone, Tidy, Orderly
<1>3. /\ graph' = graph /\ graph.nodes \subseteq Node /\ NewNodes(r)' = NewNodes(r)
      /\ phase \in [Run -> XPhase] /\ nodeStatus \in [Run -> [Node -> NodeStatus]]
      /\ programCounter \in [Run -> Node \cup {None}] /\ todo \in [Run -> SUBSET Node]
      /\ seen \in [Run -> SUBSET Edge]
  BY OldStepTypes, XGraphFacts DEF NewNodes, XInv, XTypes, Next
<1>4. Place(r)
  BY DEF XInv, XPosition
<1>5. phase[r] \notin {"idle", "ensuring", "scheduling", "choosing"} => programCounter[r] \in graph.nodes
  BY <1>4 DEF Place
<1>6. ASSUME NEW n \in Node, CreateRow(r, n) PROVE Goal
  <2>1. /\ n \in todo[r] /\ n \in graph.nodes /\ phase[r] = "ensuring" /\ phase'[r] = "ensuring"
        /\ todo'[r] = todo[r] \ {n} /\ programCounter' = programCounter /\ crashes' = crashes
        /\ nodeStatus'[r][n] = "pending"
        /\ \A m \in Node \ {n} : nodeStatus'[r][m] = nodeStatus[r][m]
    BY <1>6, <1>2, <1>3 DEF CreateRow, HasRows
  <2> QED  BY <1>2, <1>3, <2>1 DEF HasRows, OneBroken, SeesAll, Broken
<1>7. ASSUME MarkRunning(r) PROVE Goal
  BY <1>7, <1>2, <1>3 DEF MarkRunning, HasRows, OneBroken, SeesAll, Broken
<1>8. ASSUME Look(r) PROVE Goal
  BY <1>8, <1>2, <1>3 DEF Look, HasRows, OneBroken, SeesAll, Broken
<1>9. ASSUME NEW n \in Node, Skip(r, n) PROVE Goal
  BY <1>9, <1>2, <1>3 DEF Skip, Skippable, HasRows, OneBroken, SeesAll, Broken
<1>10. ASSUME NEW n \in Node, Dispatch(r, n) PROVE Goal
  BY <1>10, <1>2, <1>3 DEF Dispatch, HasRows, OneBroken, SeesAll, Broken
<1>11. ASSUME CheckpointBefore(r) PROVE Goal
  BY <1>11, <1>2, <1>3 DEF CheckpointBefore, HasRows, OneBroken, SeesAll, Broken
<1>12. ASSUME CheckpointAfter(r) PROVE Goal
  BY <1>12, <1>2, <1>3 DEF CheckpointAfter, HasRows, OneBroken, SeesAll, Broken
<1>13. ASSUME Begin(r) PROVE Goal
  <2>1. phase[r] = "entering" /\ programCounter[r] \in graph.nodes
    BY <1>13, <1>5 DEF Begin
  <2>2. /\ phase'[r] = "running" /\ programCounter' = programCounter /\ crashes' = crashes
        /\ \A m \in Node \ {programCounter[r]} : nodeStatus'[r][m] = nodeStatus[r][m]
        /\ nodeStatus'[r][programCounter[r]] = "running"
    BY <1>13, <1>3, <2>1 DEF Begin
  <2> QED  BY <1>2, <1>3, <2>1, <2>2 DEF HasRows, OneBroken, SeesAll, Broken
<1>14. ASSUME Gather(r) PROVE Goal
  BY <1>14, <1>2, <1>3 DEF Gather, HasRows, OneBroken, SeesAll, Broken
<1>15. ASSUME GatherFails(r) PROVE Goal
  BY <1>15, <1>2, <1>3 DEF GatherFails, HasRows, OneBroken, SeesAll, Broken
<1>16. ASSUME CacheHit(r) PROVE Goal
  BY <1>16, <1>2, <1>3 DEF CacheHit, HasRows, OneBroken, SeesAll, Broken
<1>17. ASSUME CacheMiss(r) PROVE Goal
  BY <1>17, <1>2, <1>3 DEF CacheMiss, HasRows, OneBroken, SeesAll, Broken
<1>18. ASSUME Reuse(r) PROVE Goal
  BY <1>18, <1>2, <1>3 DEF Reuse, HasRows, OneBroken, SeesAll, Broken
<1>19. ASSUME NEW c \in Content, Invoke(r, c) PROVE Goal
  BY <1>19, <1>2, <1>3 DEF Invoke, HasRows, OneBroken, SeesAll, Broken
<1>20. ASSUME NEW p \in Phase, InvokeRaises(r, p) PROVE Goal
  BY <1>20, <1>2, <1>3 DEF InvokeRaises, Raises, HasRows, OneBroken, SeesAll
<1>21. ASSUME NEW p \in Phase, EmbedRaises(r, p) PROVE Goal
  BY <1>21, <1>2, <1>3 DEF EmbedRaises, HasRows, OneBroken, SeesAll, Broken
<1>22. ASSUME PersistOutput(r) PROVE Goal
  BY <1>22, <1>2, <1>3 DEF PersistOutput, HasRows, OneBroken, SeesAll, Broken
<1>23. ASSUME MarkSucceeded(r) PROVE Goal
  <2>1. phase[r] = "persisted" /\ programCounter[r] \in graph.nodes
    BY <1>23, <1>5 DEF MarkSucceeded
  <2>2. /\ phase'[r] = "marked" /\ programCounter' = programCounter /\ crashes' = crashes
        /\ \A m \in Node \ {programCounter[r]} : nodeStatus'[r][m] = nodeStatus[r][m]
        /\ nodeStatus'[r][programCounter[r]] \in {"expanded", "succeeded"}
    BY <1>23, <1>3, <2>1 DEF MarkSucceeded
  <2> QED  BY <1>2, <1>3, <2>1, <2>2 DEF HasRows, OneBroken, SeesAll, Broken
<1>24. ASSUME MarkReused(r) PROVE Goal
  <2>1. phase[r] = "reused" /\ programCounter[r] \in graph.nodes
    BY <1>24, <1>5 DEF MarkReused
  <2>2. /\ phase'[r] = "marked" /\ programCounter' = programCounter /\ crashes' = crashes
        /\ \A m \in Node \ {programCounter[r]} : nodeStatus'[r][m] = nodeStatus[r][m]
        /\ nodeStatus'[r][programCounter[r]] = "succeeded"
    BY <1>24, <1>3, <2>1 DEF MarkReused
  <2> QED  BY <1>2, <1>3, <2>1, <2>2 DEF HasRows, OneBroken, SeesAll, Broken
<1>25. ASSUME HandleError(r) PROVE Goal
  <2>1. phase[r] = "error" /\ programCounter[r] \in graph.nodes
    BY <1>25, <1>5 DEF HandleError
  <2>2. /\ phase'[r] = "nodeFailed" /\ programCounter' = programCounter /\ crashes' = crashes
        /\ \A m \in Node \ {programCounter[r]} : nodeStatus'[r][m] = nodeStatus[r][m]
        /\ nodeStatus'[r][programCounter[r]] = "failed"
    BY <1>25, <1>3, <2>1 DEF HandleError
  <2> QED  BY <1>2, <1>3, <2>1, <2>2 DEF HasRows, OneBroken, SeesAll, Broken
<1> HIDE DEF Goal
<1>6a. ASSUME \/ FinishTerminal(r) \/ FinishStalled(r) \/ FinishDrained(r) \/ FailRun(r)
              \/ HandleFatal(r) \/ HandleRetryable(r)
       PROVE  Goal
  BY <1>3, <1>6a DEF FinishTerminal, FinishStalled, FinishDrained, FailRun, HandleFatal, HandleRetryable
<1>g. Goal
  BY <1>6a, <1>6, <1>7, <1>8, <1>9, <1>10, <1>11, <1>12, <1>13, <1>14, <1>15, <1>16,
     <1>17, <1>18, <1>19, <1>20, <1>21, <1>22, <1>23, <1>24, <1>25 DEF Step
<1> QED  BY <1>2, <1>g DEF Goal, Orderly

LEMMA OldStepLone ==
  ASSUME XInv, Lone, Next, plan' = plan
  PROVE  Lone'
<1>1. PICK r \in Run : (Execute(r) \/ Step(r) \/ Crash(r)) /\ Elsewhere(r)
  BY OldStepElsewhere DEF XInv
<1>2. CASE Execute(r)
  BY <1>2, ExecuteLone
<1>3. CASE FinishTerminal(r) \/ FinishStalled(r) \/ FinishDrained(r)
  <2>1. Alone(r) /\ Acyclic(graph) => /\ \A n \in graph.nodes : nodeStatus[r][n] \in Complete
                                      /\ ~ HasPending(r)
    BY <1>3, NothingLeftBehind DEF FinishTerminal, FinishStalled, FinishDrained
  <2>2. phase \in [Run -> XPhase]
    BY DEF XInv, XTypes
  <2>3. CASE FinishTerminal(r)
    BY <2>1, <2>2, <2>3, FinishStep DEF FinishTerminal, RunStatus
  <2>4. CASE FinishStalled(r)
    BY <2>1, <2>2, <2>4, FinishStep DEF FinishStalled, RunStatus
  <2>5. CASE FinishDrained(r)
    BY <2>1, <2>2, <2>5, FinishStep DEF FinishDrained, RunStatus
  <2> QED  BY <1>3, <2>3, <2>4, <2>5
<1>4. CASE FailRun(r)
  <2>1. Alone(r) => programCounter[r] \in graph.nodes /\ nodeStatus[r][programCounter[r]] \in Broken
    BY <1>4 DEF FailRun, Lone, Tidy, Orderly, OneBroken, XInv, XPosition, Place, Broken
  <2>2. phase \in [Run -> XPhase]
    BY DEF XInv, XTypes
  <2> QED  BY <1>4, <2>1, <2>2, FinishStep DEF FailRun, RunStatus
<1>5. CASE /\ Step(r) \/ Crash(r)
           /\ ~ (FinishTerminal(r) \/ FinishStalled(r) \/ FinishDrained(r) \/ FailRun(r))
  <2>1. /\ phase[r] # "idle" /\ executions' = executions
        /\ runStatus' = runStatus \/ runStatus' = [runStatus EXCEPT ![r] = "running"]
    BY <1>5 DEF Step, CreateRow, MarkRunning, Look, Skip, Dispatch, CheckpointBefore,
                CheckpointAfter, Begin, Gather, GatherFails, CacheHit, CacheMiss, Reuse,
                Invoke, InvokeRaises, EmbedRaises, PersistOutput, MarkSucceeded,
                MarkReused, HandleFatal, HandleRetryable, HandleError, Crash
  <2>2. OthersRest(r)
    BY <1>1, <2>1 DEF OthersRest, Elsewhere, Lone
  <2>3. Crash(r) => phase'[r] = "idle"
    BY DEF Crash, XInv, XTypes
  <2>4. phase'[r] = "idle" \/ (Alone(r) => Orderly(r)')
    BY <1>5, <2>3, OrderlyStep
  <2> QED  BY <2>1, <2>2, <2>4, InsideStep
<1> QED  BY <1>1, <1>2, <1>3, <1>4, <1>5

LEMMA ExpandLone ==
  ASSUME XInv, Lone, NEW r \in Run, Expand(r)
  PROVE  Lone'
<1> USE DEF XInv
<1>1. /\ phase[r] # "idle" /\ executions' = executions /\ runStatus' = runStatus
      /\ crashes' = crashes /\ programCounter' = programCounter /\ OthersRest(r)
      /\ phase'[r] \notin {"ensuring", "choosing", "nodeFailed"}
  BY DEF Expand, TakeRequest, WriteRow, WriteEdge, WriteNodes, MarkExpanded, OthersRest, XTypes
<1> SUFFICES ASSUME Alone(r) PROVE HasRows(r)' /\ OneBroken(r)'
  BY <1>1, InsideStep DEF Lone, Tidy, Orderly, SeesAll
<1>2. crashes = 0 /\ HasRows(r) /\ OneBroken(r) /\ Place(r)
  BY <1>1 DEF Lone, Tidy, Orderly, XPosition
<1>3. graph.nodes \subseteq Node /\ NewNodes(r) \subseteq Node
  BY XGraphFacts, NewNodesAreNodes
<1> DEFINE Goal == HasRows(r)' /\ OneBroken(r)'
<1>4. ASSUME NEW n \in DOMAIN Request, NEW q \in Request[n], TakeRequest(r, n, q) PROVE Goal
  <2>1. /\ phase[r] = "invoking" /\ phase'[r] = "expanding" /\ graph' = graph
        /\ nodeStatus' = nodeStatus
    BY <1>4 DEF TakeRequest, XTypes
  <2>2. plan'[r].rows = NewNodes(r)'
    BY <1>4, TakeRequestPlan
  <2> QED  BY <1>1, <1>2, <2>1, <2>2 DEF HasRows, OneBroken
<1>5. ASSUME NEW n \in Node, WriteRow(r, n) PROVE Goal
  <2>1. /\ phase[r] = "expanding" /\ phase' = phase /\ graph' = graph
        /\ n \in plan[r].rows /\ InWriting(r)
    BY <1>5 DEF WriteRow, Plans
  <2>2. plan'[r].rows = plan[r].rows \ {n} /\ plan'[r].ids = plan[r].ids
    BY <1>5 DEF WriteRow, XTypes, Plan
  <2>3. NewNodes(r)' = NewNodes(r) /\ n \in NewNodes(r)
    BY <2>1, <2>2 DEF NewNodes, InWriting
  <2>4. /\ nodeStatus'[r][n] = "pending"
        /\ \A m \in Node \ {n} : nodeStatus'[r][m] = nodeStatus[r][m]
    BY <1>5 DEF WriteRow, XTypes
  <2> QED  BY <1>1, <1>2, <2>1, <2>2, <2>3, <2>4 DEF HasRows, OneBroken, Broken
<1>6. ASSUME NEW e \in plan[r].edges, WriteEdge(r, e) PROVE Goal
  <2>1. /\ phase' = phase /\ nodeStatus' = nodeStatus /\ todo' = todo
        /\ graph'.nodes = graph.nodes
    BY <1>6 DEF WriteEdge, XTypes, TaskGraph
  <2>2. plan'[r].rows = plan[r].rows /\ plan'[r].ids = plan[r].ids
    BY <1>6 DEF WriteEdge, XTypes, Plan
  <2> QED  BY <1>1, <1>2, <2>1, <2>2 DEF HasRows, OneBroken, NewNodes
<1>7. ASSUME WriteNodes(r) PROVE Goal
  <2>1. /\ phase[r] = "expanding" /\ phase'[r] = "expanded" /\ plan[r].rows = {}
        /\ nodeStatus' = nodeStatus
    BY <1>7 DEF WriteNodes, XTypes
  <2>2. graph'.nodes = graph.nodes \cup NewNodes(r)
    BY <1>7, WrittenGraph
  <2> QED  BY <1>1, <1>2, <2>1, <2>2 DEF HasRows, OneBroken
<1>8. ASSUME NEW c \in Content, MarkExpanded(r, c) PROVE Goal
  <2>1. /\ phase[r] = "expanded" /\ phase'[r] = "answered" /\ graph' = graph
        /\ programCounter[r] \in graph.nodes
    BY <1>2, <1>8 DEF MarkExpanded, XTypes, Place
  <2>2. /\ nodeStatus'[r][programCounter[r]] = "expanded"
        /\ \A m \in Node \ {programCounter[r]} : nodeStatus'[r][m] = nodeStatus[r][m]
    BY <1>3, <1>8, <2>1 DEF MarkExpanded, XTypes
  <2> QED  BY <1>1, <1>2, <2>1, <2>2 DEF HasRows, OneBroken, Broken
<1> QED  BY <1>4, <1>5, <1>6, <1>7, <1>8 DEF Expand

-----------------------------------------------------------------------------
LEMMA XStep == XInv /\ [XNext]_xvars => XInv'
<1> SUFFICES ASSUME XInv, [XNext]_xvars PROVE XInv'
  OBVIOUS
<1>1. CASE UNCHANGED xvars
  <2>1. \A r \in Run : NewNodes(r)' = NewNodes(r)
    BY <1>1 DEF NewNodes, xvars
  <2>2. XTypes' /\ XPosition'
    BY <1>1 DEF xvars, vars, XInv, XTypes, XPosition, Place, HeldBack, Incoming
  <2> QED  BY <1>1, <2>1, <2>2 DEF xvars, vars, XInv, Plans, ExpandedIsComplete, NoLooseEnds,
                                   InWriting, Written, Expected
<1>2. CASE RunStep
  <2>1. Next /\ plan' = plan
    BY <1>2 DEF RunStep
  <2> QED  BY <1>2, <2>1, OldStepTypes, OldStepPosition, OldStepPlans DEF XInv
<1>3. ASSUME NEW r \in Run, Expand(r) PROVE XInv'
  BY <1>3, TakeRequestStep, WriteRowStep, WriteEdgeStep, WriteNodesStep, MarkExpandedStep
     DEF Expand
<1> QED  BY <1>1, <1>2, <1>3 DEF XNext

THEOREM XInvariance == XSpec => []XInv
BY XInitInv, XStep, PTL DEF XSpec

THEOREM LoneInvariance == XSpec => []Lone
<1>1. XInv /\ Lone /\ [XNext]_xvars => Lone'
  <2> SUFFICES ASSUME XInv, Lone, [XNext]_xvars PROVE Lone'
    OBVIOUS
  <2>1. CASE UNCHANGED xvars
    <3>1. \A r \in Run : NewNodes(r)' = NewNodes(r)
      BY <2>1 DEF NewNodes, xvars
    <3>2. /\ \A r \in Run : Orderly(r)' <=> Orderly(r)
          /\ executions' = executions /\ runStatus' = runStatus /\ phase' = phase
          /\ nodeStatus' = nodeStatus /\ graph' = graph /\ crashes' = crashes
      BY <2>1, <3>1 DEF xvars, vars, Orderly, HasRows, OneBroken, SeesAll
    <3> QED  BY <3>2 DEF Lone, Untouched, Tidy, Alone, Verdict
  <2>2. CASE RunStep
    BY <2>2, OldStepLone DEF RunStep
  <2>3. ASSUME NEW r \in Run, Expand(r) PROVE Lone'
    BY <2>3, ExpandLone
  <2> QED  BY <2>1, <2>2, <2>3 DEF XNext
<1> QED  BY <1>1, LoneInit, XInvariance, PTL DEF XSpec

(* A run that has a growing graph to itself fails because of a node, and   *)
(* says SUCCEEDED only when no node, old or new, was left behind, as long  *)
(* as no request has closed a cycle: nobody validates requests, and nodes  *)
(* that wait for each other stall the run with nothing broken.             *)
THEOREM LoneRunsAreSettled == XSpec => [](Acyclic(graph) => GrownRunIsSettled)
<1>1. Lone => (Acyclic(graph) => GrownRunIsSettled)
  BY DEF Lone, Tidy, Verdict, GrownRunIsSettled
<1> QED  BY <1>1, LoneInvariance, PTL

(* A row says EXPANDED only when rows, edges and nodes of the expansion    *)
(* are all there.                                                          *)
THEOREM ExpansionIsWhole == XSpec => []ExpandedIsComplete
<1>1. XInv => ExpandedIsComplete
  BY DEF XInv
<1> QED  BY <1>1, XInvariance, PTL

(* When nobody is expanding the graph and nobody died doing it, no edge    *)
(* dangles.                                                                *)
THEOREM NothingDangles == XSpec => []GraphClosedAtRest
<1>1. XInv => GraphClosedAtRest
  BY DEF XInv, NoLooseEnds, GraphClosedAtRest, Closed, Expected
<1> QED  BY <1>1, XInvariance, PTL

(* What became of a node of a growing graph is never rewritten: an         *)
(* expanded node stays expanded when its artifact is recorded.             *)
THEOREM GrownOutcomesAreFinal == XSpec => OutcomeIsFinal
<1> DEFINE Kept == \A r \in Run, n \in Node :
       /\ nodeStatus[r][n] \in Settled =>
            /\ nodeStatus'[r][n] = nodeStatus[r][n]
            /\ attempts'[r][n] = attempts[r][n]
            /\ nodeStatus[r][n] # "expanded" => output'[r][n] = output[r][n]
       /\ nodeStatus[r][n] = "running" => attempts'[r][n] = attempts[r][n]
<1>1. XInv /\ [XNext]_xvars => [Kept]_vars
  <2> SUFFICES ASSUME XInv, [XNext]_xvars PROVE Kept \/ UNCHANGED vars
    OBVIOUS
  <2>1. CASE RunStep
    BY <2>1, OldStepRows DEF XInv, RowKept, RunStep
  <2>2. ASSUME NEW r \in Run, Expand(r) PROVE Kept
    BY <2>2, ExpandRows DEF XInv, RowKept
  <2> QED  BY <2>1, <2>2 DEF XNext, xvars
<1> QED  BY <1>1, XInvariance, PTL DEF XSpec, OutcomeIsFinal

(* A node of a growing graph starts before one of its upstream nodes only  *)
(* if the edge was drawn since next_node read the edges for this choice.   *)
THEOREM GrownNodesStartInOrder == XSpec => StartsInOrder
<1> DEFINE Held == \A r \in Run, n \in Node :
       nodeStatus[r][n] # "running" /\ nodeStatus'[r][n] = "running" =>
         \A e \in Incoming(n) : nodeStatus[r][e.from] \in Complete \/ e \in late[r]
<1>1. XInv /\ [XNext]_xvars => [Held]_xvars
  <2> SUFFICES ASSUME XInv, XNext, NEW r \in Run, NEW n \in Node,
                      nodeStatus[r][n] # "running", nodeStatus'[r][n] = "running"
               PROVE  HeldBack(r, n)
    BY DEF HeldBack
  <2>1. CASE RunStep
    <3>1. phase[r] = "entering" /\ n = programCounter[r]
      BY <2>1, OldStepRows DEF XInv, RowWritten, RunStep
    <3> QED  BY <3>1 DEF XInv, XPosition, Place
  <2>2. ~ \E q \in Run : Expand(q)
    BY ExpandRows DEF XInv
  <2> QED  BY <2>1, <2>2 DEF XNext
<1> QED  BY <1>1, XInvariance, PTL DEF XSpec, StartsInOrder

=============================================================================
