------------------------------- MODULE TaskRun -------------------------------
(***************************************************************************)
(* What executing task graphs promises, apart from how it is done: every   *)
(* run works on one node at a time and only on nodes whose upstream nodes  *)
(* are settled, a settled node stays settled, work that is cut short is    *)
(* never mistaken for work that succeeded, and a run is given up only      *)
(* because of a node that broke.  RunExecutor implements it.               *)
(***************************************************************************)
CONSTANTS Run, Node, None

VARIABLES
  nodes,     \* the nodes of the task graph
  upstream,  \* for each node, the nodes it depends on
  status,    \* for each run and node, how far the node is
  worker,    \* for each run, the node being worked on
  verdict    \* for each run, what its caller is told

vars == <<nodes, upstream, status, worker, verdict>>

Status == {"todo", "active", "done", "broken", "pruned"}
Verdict == {"new", "open", "ok", "failed"}

Startable(r, n) ==
  /\ n \in nodes
  /\ status[r][n] = "todo"
  /\ \A m \in upstream[n] : status[r][m] \in {"done", "pruned"}

Init ==
  /\ nodes \in SUBSET Node
  /\ upstream \in [Node -> SUBSET nodes]
  /\ status = [r \in Run |-> [n \in Node |-> "todo"]]
  /\ worker = [r \in Run |-> None]
  /\ verdict = [r \in Run |-> "new"]

SetStatus(r, n, s) == status' = [status EXCEPT ![r][n] = s]

SetWorker(r, n) == worker' = [worker EXCEPT ![r] = n]

SetVerdict(r, v) == verdict' = [verdict EXCEPT ![r] = v]

(* Somebody asks for the run to be executed, for the first time or again.  *)
Open(r) ==
  /\ worker[r] = None
  /\ SetVerdict(r, "open")
  /\ UNCHANGED <<nodes, upstream, status, worker>>

Start(r, n) ==
  /\ verdict[r] = "open"
  /\ worker[r] = None
  /\ Startable(r, n)
  /\ SetStatus(r, n, "active")
  /\ SetWorker(r, n)
  /\ UNCHANGED <<nodes, upstream, verdict>>

Finish(r, n) ==
  /\ worker[r] = n
  /\ SetStatus(r, n, "done")
  /\ SetWorker(r, None)
  /\ UNCHANGED <<nodes, upstream, verdict>>

(* The work failed, waits for a retry, or its process died.                *)
Break(r, n) ==
  /\ worker[r] = n
  /\ SetStatus(r, n, "broken")
  /\ SetWorker(r, None)
  /\ UNCHANGED <<nodes, upstream, verdict>>

(* A node is left out because of what an upstream node came to.            *)
Prune(r, n) ==
  /\ verdict[r] = "open"
  /\ worker[r] = None
  /\ status[r][n] = "todo"
  /\ \E m \in upstream[n] : status[r][m] \in {"done", "pruned"}
  /\ SetStatus(r, n, "pruned")
  /\ UNCHANGED <<nodes, upstream, worker, verdict>>

Succeed(r) ==
  /\ verdict[r] = "open"
  /\ worker[r] = None
  /\ \A n \in Node : ~ Startable(r, n)
  /\ SetVerdict(r, "ok")
  /\ UNCHANGED <<nodes, upstream, status, worker>>

GiveUp(r) ==
  /\ verdict[r] = "open"
  /\ worker[r] = None
  /\ \E n \in nodes : status[r][n] = "broken"
  /\ SetVerdict(r, "failed")
  /\ UNCHANGED <<nodes, upstream, status, worker>>

Next ==
  \E r \in Run :
    \/ Open(r) \/ Succeed(r) \/ GiveUp(r)
    \/ \E n \in Node : Start(r, n) \/ Finish(r, n) \/ Break(r, n) \/ Prune(r, n)

Spec == Init /\ [][Next]_vars
=============================================================================
