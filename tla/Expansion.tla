------------------------------ MODULE Expansion ------------------------------
(***************************************************************************)
(* Runtime graph expansion: what _invoke does for a node of kind expand    *)
(* (executor.py) with apply_expansion (runtime/expansion.py), added to     *)
(* RunExecutor.  The task graph is shared by all its runs, and its nodes   *)
(* and edges are written one statement at a time while other runs read     *)
(* them: rows of the expanding run first, then the edges, then the nodes.  *)
(* (The workspace edge that records the expansion is in Session.tla.)      *)
(***************************************************************************)
EXTENDS RunExecutor

CONSTANTS
  Name,     \* node names; requests refer to nodes by name
  NameOf,   \* the names of the nodes a graph starts with
  Request   \* for each expand node, the requests its payload may hold

(* An ExpansionRequest: proposed nodes, two of which may have one name,    *)
(* and edges between names, proposed ones or those of existing nodes.      *)
RequestEdge == [from : Name, to : Name, port : Port, required : BOOLEAN,
                branch : Branch \cup {None}]

ExpansionRequest == [nodes : Seq([name : Name, kind : Kind]), edges : SUBSET RequestEdge]

ASSUME RequestAssumption == \A n \in DOMAIN Request : Request[n] \subseteq ExpansionRequest

(* Nodes of a graph are finitely many: some of them have a last one.       *)
Ranked(g) ==
  \A S \in SUBSET Node : S # {} => \E n \in S : \A o \in S : g.rank[o] <= g.rank[n]

ASSUME RankAssumption == \A g \in Graphs : Ranked(g)

VARIABLES
  name,  \* Node.name
  plan,  \* the locals of apply_expansion, for each run
  late   \* history: the edges drawn since the run last read the edges

xvars == <<vars, name, plan, late>>

(* new: the proposed nodes; ids: their ids; rows and edges: what is still  *)
(* to be written; wires: all edges of the expansion.                       *)
NoPlan == [node |-> None, new |-> <<>>, ids |-> <<>>, rows |-> {}, edges |-> {}, wires |-> {}]

(* Ids nobody has seen yet: new_id never returns one twice.                *)
Fresh == {n \in Node : /\ n \notin graph.nodes
                       /\ \A r \in Run : nodeStatus[r][n] = "absent"
                       /\ \A r \in Run : \A i \in DOMAIN plan[r].ids : plan[r].ids[i] # n}

(* name_to_id: proposed names shadow those of existing nodes, and of two   *)
(* nodes with one name the later one counts.                               *)
Proposed(q, m) == {i \in DOMAIN q.nodes : q.nodes[i].name = m}

Bearers(m) == {n \in graph.nodes : name[n] = m}

(* Seeded fault: an edge with an unknown end is written all the same.      *)
BoundFault(q, m) == m \in Name

Bound(q, m) == Proposed(q, m) # {} \/ Bearers(m) # {}

IdOf(q, ids, m) ==
  IF Proposed(q, m) # {}
    THEN ids[CHOOSE i \in Proposed(q, m) : \A j \in Proposed(q, m) : j <= i]
  ELSE IF Bearers(m) = {} THEN None
  ELSE CHOOSE n \in Bearers(m) : \A o \in Bearers(m) : graph.rank[o] <= graph.rank[n]

(* Edges with an unknown end are dropped silently.                         *)
Wires(q, ids) ==
  {[from |-> IdOf(q, ids, e.from), to |-> IdOf(q, ids, e.to), port |-> e.port,
    required |-> e.required, branch |-> e.branch] :
      e \in {d \in q.edges : Bound(q, d.from) /\ Bound(q, d.to)}}

XInit ==
  /\ Init
  /\ name = [n \in Node |-> IF n \in DOMAIN NameOf THEN NameOf[n] ELSE None]
  /\ plan = [r \in Run |-> NoPlan]
  /\ late = [r \in Run |-> {}]

(* The request is read and the new ids are chosen.  validate_expansion is  *)
(* not called.                                                             *)
TakeRequest(r, n, q) ==
  /\ phase[r] = "invoking"
  /\ n = programCounter[r]
  /\ graph.kind[n] = "expand"
  /\ \E ids \in [DOMAIN q.nodes -> Fresh] :
       /\ \A i, j \in DOMAIN q.nodes : ids[i] = ids[j] => i = j
       /\ plan' = [plan EXCEPT ![r] =
            [node |-> n, new |-> q.nodes, ids |-> ids,
             rows |-> {ids[i] : i \in DOMAIN q.nodes},
             edges |-> Wires(q, ids), wires |-> Wires(q, ids)]]
  /\ GoTo(r, "expanding")
  /\ UNCHANGED <<envVars, rowVars, runVars, checkpoints, cache, locals, result, name, late>>

(* create_run_node_state, for the expanding run only.                      *)
WriteRow(r, n) ==
  /\ phase[r] = "expanding"
  /\ n \in plan[r].rows
  /\ SetStatus(r, n, "pending")
  /\ plan' = [plan EXCEPT ![r].rows = @ \ {n}]
  /\ UNCHANGED <<envVars, runVars, attempts, notFound, selected, output, checkpoints,
                 cache, phase, locals, result, name, late>>

(* persist_task_edge: the edge is visible to every run at once.            *)
WriteEdge(r, e) ==
  /\ phase[r] = "expanding"
  /\ plan[r].rows = {}
  /\ e \in plan[r].edges
  /\ graph' = [graph EXCEPT !.edges = @ \cup {e}]
  /\ plan' = [plan EXCEPT ![r].edges = @ \ {e}]
  /\ late' = [q \in Run |-> late[q] \cup {e}]
  /\ UNCHANGED <<executions, crashes, rowVars, runVars, checkpoints, cache, phase, locals,
                 result, name>>

NewNodes(r) == {plan[r].ids[i] : i \in DOMAIN plan[r].ids}

(* The proposal a new node was made from.                                  *)
ProposalFor(r, n) == plan[r].new[CHOOSE i \in DOMAIN plan[r].ids : plan[r].ids[i] = n]

(* Seeded fault: the nodes do not wait for rows and edges.                 *)
WriteNodesFault(r) ==
  /\ phase[r] = "expanding"
  /\ graph' = [graph EXCEPT !.nodes = @ \cup NewNodes(r), !.edges = @ \cup plan[r].wires]
  /\ GoTo(r, "expanded")
  /\ UNCHANGED <<executions, crashes, rowVars, runVars, checkpoints, cache, locals, result,
                 name, plan, late>>

(* persist_task_graph: a transaction that inserts the new nodes.           *)
WriteNodes(r) ==
  /\ phase[r] = "expanding"
  /\ plan[r].rows = {} /\ plan[r].edges = {}
  /\ graph' = [graph EXCEPT
       !.nodes = @ \cup NewNodes(r),
       !.edges = @ \cup plan[r].wires,
       !.kind = [n \in Node |-> IF n \in NewNodes(r) THEN ProposalFor(r, n).kind ELSE @[n]],
       !.allowCache = [n \in Node |-> IF n \in NewNodes(r)
                                        THEN ProposalFor(r, n).kind = "tool" ELSE @[n]]]
  /\ name' = [n \in Node |-> IF n \in NewNodes(r) THEN ProposalFor(r, n).name ELSE name[n]]
  /\ GoTo(r, "expanded")
  /\ UNCHANGED <<executions, crashes, rowVars, runVars, checkpoints, cache, locals, result,
                 plan, late>>

(* The row of the expand node is saved as EXPANDED and the handler returns *)
(* the ids it created as text.                                             *)
MarkExpanded(r, c) ==
  /\ phase[r] = "expanded"
  /\ c \in Text
  /\ SetStatus(r, programCounter[r], "expanded")
  /\ result' = [result EXCEPT ![r] = c]
  /\ GoTo(r, "answered")
  /\ UNCHANGED <<envVars, runVars, attempts, notFound, selected, output, checkpoints,
                 cache, locals, name, plan, late>>

Expand(r) ==
  \/ \E n \in DOMAIN Request : \E q \in Request[n] : TakeRequest(r, n, q)
  \/ \E n \in Node : WriteRow(r, n)
  \/ \E e \in plan[r].edges : WriteEdge(r, e)
  \/ WriteNodes(r)
  \/ \E c \in Content : MarkExpanded(r, c)

Looks(r) == phase[r] = "scheduling" /\ phase'[r] = "choosing"

(* The steps of RunExecutor, of which next_node's reading sets late back.  *)
RunStep ==
  /\ Next
  /\ late' = [r \in Run |-> IF Looks(r) THEN {} ELSE late[r]]
  /\ UNCHANGED <<name, plan>>

XNext == RunStep \/ \E r \in Run : Expand(r)

XSpec == XInit /\ [][XNext]_xvars

-----------------------------------------------------------------------------
(* Properties.  OutcomeIsFinal of RunExecutor is checked here, where nodes *)
(* have one more way to be settled.                                        *)

(* A row says EXPANDED only when everything the expansion created is       *)
(* there: the rows of this run, the edges and the nodes of the graph; no   *)
(* crash in between shows otherwise.                                       *)
ExpandedIsComplete ==
  \A r \in Run : plan[r].node # None /\ nodeStatus[r][plan[r].node] = "expanded" =>
    /\ NewNodes(r) \subseteq graph.nodes
    /\ plan[r].wires \subseteq graph.edges
    /\ \A n \in NewNodes(r) : nodeStatus[r][n] # "absent"

(* A run that has the graph to itself fails because of a node, and says    *)
(* SUCCEEDED only when no node, old or new, was left behind.  (A run under *)
(* way beside it has no rows for the new nodes and may stall on them.)     *)
Alone(r) == executions[r] = 1 /\ \A q \in Run \ {r} : executions[q] = 0

GrownRunIsSettled ==
  \A r \in Run : Alone(r) =>
    /\ runStatus[r] = "failed" => \E n \in graph.nodes : nodeStatus[r][n] \in Broken
    /\ runStatus[r] = "succeeded" => \A n \in graph.nodes : nodeStatus[r][n] \in Complete

(* When nobody is expanding the graph and nobody died doing it, no edge of *)
(* the shared graph dangles.                                               *)
GraphClosedAtRest ==
  crashes = 0 /\ (\A r \in Run : phase[r] # "expanding") => Closed(graph)

(* A node of a growing graph starts before one of its upstream nodes only  *)
(* if the edge was drawn since next_node read the edges for this choice.   *)
(* All other edges hold it back: those of the graph at the start and those *)
(* any run, this one or another, had drawn before.                         *)
StartsInOrder ==
  [][\A r \in Run, n \in Node :
       nodeStatus[r][n] # "running" /\ nodeStatus'[r][n] = "running" =>
         \A e \in Incoming(n) : nodeStatus[r][e.from] \in Complete \/ e \in late[r]]_xvars

=============================================================================
