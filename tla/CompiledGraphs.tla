--------------------------- MODULE CompiledGraphs ---------------------------
(***************************************************************************)
(* Compilation with the planner's replies spelled out: a reply is a        *)
(* proposal, valid when Proposals accepts its dry run, and the task graph  *)
(* of a turn is what _normalize makes of it the second time.               *)
(***************************************************************************)
EXTENDS Compilation, FiniteSets

CONSTANTS
  RootPrompt, Answer,   \* the names of the injected intent and final node
  Unparsed              \* a reply in which parse_task_graph_proposal finds no proposal

P == INSTANCE Proposals

(* parse, then validate; and what compile_into_workspace saves.            *)
Acceptable(reply) == reply \notin {None, Unparsed} /\ P!Accepted(reply)
SavedGraph(t) == P!Persisted(taskGraph[t])

(* A proposal has its nodes in a list; what is accepted has been parsed    *)
(* and validated (_validate_proposal).                                     *)
IsProposal(p) == Len(p.nodes) \in Nat /\ DOMAIN p.nodes = 1..Len(p.nodes)

ASSUME ProposalAssumption == \A r \in Replies \ {None, Unparsed} : IsProposal(r)
ASSUME ValidAssumption == \A r \in Replies : Valid(r) <=> Acceptable(r)

(* The nodes an executor can complete that runs every node whose upstream  *)
(* nodes are complete and whose input arrives in its schema.               *)
Runs(g, n, done) ==
  /\ \A e \in P!Into(g, n) :
       /\ e.from \in done
       /\ LET src == P!Node(g, e.from) IN
            src.kind = "router" \/ P!CanTransform(src.out, n.in, e.via)
  /\ n.kind \in P!Processing \cup {"final"} => P!Into(g, n) # {}

Completable(g) ==
  LET done[k \in 0..Cardinality(g.nodes)] ==
        IF k = 0 THEN {} ELSE {n.id : n \in {m \in g.nodes : Runs(g, m, done[k-1])}}
  IN done[Cardinality(g.nodes)]

Executable(g) == Completable(g) = P!Ids(g) /\ \E n \in g.nodes : n.kind = "final"

UniqueNames(g) == \A m, n \in g.nodes : m.name = n.name => m = n

-----------------------------------------------------------------------------
(* A persisted task graph can be executed to its end: the dry run that was *)
(* validated and the graph that is saved are made by two calls of          *)
(* _normalize with different ids, and nothing looks at the second.         *)
PersistedIsExecutable ==
  \A t \in Turn :
    taskGraph[t] # None /\ UniqueNames(SavedGraph(t)) => Executable(SavedGraph(t))

(* The documentation's claim (llmasm-rfc.md 7.5): every required input     *)
(* port of a graph that was accepted is satisfied by an incoming edge.     *)
EveryInputIsFed ==
  \A t \in Turn :
    taskGraph[t] # None =>
      \A n \in SavedGraph(t).nodes : n.in # None => P!Into(SavedGraph(t), n) # {}
=============================================================================
