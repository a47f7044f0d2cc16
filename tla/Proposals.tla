------------------------------ MODULE Proposals ------------------------------
(***************************************************************************)
(* What Compiler._normalize (llmasm/compiler/compiler.py) makes of a       *)
(* planner's proposal, and the validators of graph/validation.py.          *)
(*                                                                         *)
(* A proposal has nodes, in order, and edges between node names:           *)
(*   [name, kind, tool, in, out]   and   [from, to, via, branch]           *)
(* via is a transform, tool the registered tool that execution.tool or the *)
(* name stands for (_infer_tool_name); None stands for what is missing.    *)
(* Ports are the default ones: a node with an input schema has port        *)
(* "input", one with an output schema port "output".                       *)
(***************************************************************************)
EXTENDS Naturals, FiniteSets, SequencesExt

CONSTANTS None, RootPrompt, Answer  \* the names of the injected intent and final node

Processing == {"tool", "model", "compress"}
Supported == Processing \cup {"intent", "router", "expand", "final"}

(* Two of the tools with their schemas, and two of the transforms.         *)
ToolSpec == [weather    |-> [in |-> "WeatherQuery", out |-> "WeatherObservation"],
             calculator |-> [in |-> "RawText", out |-> "RawText"]]
Transform == [to_json_string |-> [from |-> "*", to |-> "RawText"],
              extract_text   |-> [from |-> "ConversationRecord", to |-> "ConversationText"]]
Schema == {"ConversationRecord", "ConversationText", "Summary", "WeatherQuery", "JsonValue",
           "WeatherObservation", "FinalAnswer", "RawText", "NotFound", "RoutingDecision"}

(* A tool node without a registered tool becomes a model node.             *)
Recovered(n) ==
  IF n.kind = "tool" /\ n.tool \notin DOMAIN ToolSpec
    THEN [n EXCEPT !.kind = "model", !.tool = None] ELSE n

Or(a, b) == IF a # None THEN a ELSE b

InSchema(n) ==
  CASE n.kind = "intent" -> None
    [] n.kind = "final"  -> "Summary"
    [] n.kind = "tool"   -> Or(n.in, ToolSpec[n.tool].in)
    [] n.kind \in {"model", "compress"} -> Or(n.in, "RawText")
    [] OTHER -> n.in

OutSchema(n) ==
  CASE n.kind = "intent" -> "RawText"
    [] n.kind = "final"  -> "FinalAnswer"
    [] n.kind = "tool"   -> Or(n.out, ToolSpec[n.tool].out)
    [] n.kind \in {"model", "compress"} -> IF n.out \in {None, "FinalAnswer"} THEN "Summary" ELSE n.out
    [] OTHER -> n.out

Named(nodes) == {nodes[i].name : i \in DOMAIN nodes}
OfKind(nodes, kinds) == SelectSeq(nodes, LAMBDA n : n.kind \in kinds)
Plain(from, to) == [from |-> from, to |-> to, via |-> None, branch |-> None]
Bare(name, kind, in) == [name |-> name, kind |-> kind, tool |-> None, in |-> in, out |-> None]

(* The nodes with an intent in front, when there is none.                  *)
WithIntent(nodes) ==
  IF OfKind(nodes, {"intent"}) # <<>> THEN nodes
  ELSE <<Bare(RootPrompt, "intent", None)>> \o nodes

(* The last model or compress node from which no edge leads anywhere.      *)
Sink(nodes, edges) ==
  SelectSeq(nodes, LAMBDA n : /\ n.kind \in {"model", "compress"}
                              /\ \A e \in edges : e.from = n.name => e.to \notin Named(nodes))

(* With a final node behind it, when there is none.                        *)
WithFinal(nodes, edges) ==
  LET sinks == Sink(nodes, edges) IN
  IF OfKind(nodes, {"final"}) # <<>> THEN [nodes |-> nodes, edges |-> edges]
  ELSE [nodes |-> Append(nodes, Bare(Answer, "final", None)),
        edges |-> IF sinks = <<>> THEN edges
                  ELSE edges \cup {Plain(Last(sinks).name, Answer)}]

(* _canonical_edges: without routers, every processing node gets an edge   *)
(* from the intent unless it has one, and the first final node one from    *)
(* the last sink.                                                          *)
Wired(nodes, edges) ==
  LET finals == OfKind(nodes, {"final"})
      intent == OfKind(nodes, {"intent"})[1].name
      work   == OfKind(nodes, Processing)
      fed    == {e.to : e \in edges}
      base   == edges \cup {Plain(intent, name) : name \in Named(work) \ fed}
      sinks  == SelectSeq(work, LAMBDA n : \A e \in base : e.from # n.name)
  IN IF OfKind(nodes, {"router"}) # <<>> \/ work = <<>> THEN edges
     ELSE IF finals[1].name \in fed \/ sinks = <<>> THEN base
     ELSE base \cup {Plain(Last(sinks).name, finals[1].name)}

(* The task graph: its nodes by position, with fresh ids, or their names.  *)
(* name_to_id keeps the last node of a name; edges to unknown names go.    *)
Graph(p, fresh) ==
  LET full  == WithFinal(WithIntent([i \in DOMAIN p.nodes |-> Recovered(p.nodes[i])]), p.edges)
      nodes == full.nodes
      place(name) == CHOOSE i \in DOMAIN nodes :
                       /\ nodes[i].name = name
                       /\ \A j \in DOMAIN nodes : nodes[j].name = name => j <= i
      id(i) == IF fresh THEN i ELSE nodes[i].name
      end(name) == id(place(name))
  IN [nodes |-> {[id |-> id(i), name |-> nodes[i].name, kind |-> nodes[i].kind,
                  tool |-> nodes[i].tool, place |-> i,
                  in |-> InSchema(nodes[i]), out |-> OutSchema(nodes[i])] : i \in DOMAIN nodes},
      edges |-> {[from |-> end(e.from), to |-> end(e.to), via |-> e.via, branch |-> e.branch] :
                  e \in {d \in Wired(nodes, full.edges) : {d.from, d.to} \subseteq Named(nodes)}}]

(* What is validated has the names for ids, what is saved has fresh ids.   *)
DryRun(p) == Graph(p, FALSE)
Persisted(p) == Graph(p, TRUE)

Ids(g) == {n.id : n \in g.nodes}
Into(g, n) == {e \in g.edges : e.to = n.id}

(* nodes = {node.id: node ...}: the last node of an id.                    *)
Node(g, id) == CHOOSE n \in g.nodes : n.id = id /\ \A m \in g.nodes : m.id = id => m.place <= n.place

-----------------------------------------------------------------------------
(* The validators; each returns whether it has nothing to report.          *)

PortsSatisfied(g) ==
  /\ \A n \in g.nodes : n.kind \in Processing \cup {"final"} => Into(g, n) # {}
  /\ \A n \in g.nodes : n.kind # "intent" /\ n.in # None => Into(g, n) # {}
  /\ \A e \in g.edges : Node(g, e.from).out # None /\ Node(g, e.to).in # None

CanTransform(from, to, via) ==
  \/ from = to
  \/ /\ via \in DOMAIN Transform
     /\ Transform[via].from \in {from, "*"}
     /\ Transform[via].to = to

EdgesFit(g) ==
  \A e \in g.edges :
    LET src == Node(g, e.from)
        dst == Node(g, e.to) IN
    \/ src.kind = "router"
    \/ None \in {src.out, dst.in}
    \/ e.via \in DOMAIN Transform \cup {None} /\ CanTransform(src.out, dst.in, e.via)

SchemasKnown(g) == \A n \in g.nodes : {n.in, n.out} \subseteq Schema \cup {None}

ToolsMatch(g) ==
  \A n \in g.nodes : n.kind = "tool" => n.in = ToolSpec[n.tool].in /\ n.out = ToolSpec[n.tool].out

KindsSupported(g) == \A n \in g.nodes : n.kind \in Supported

HasFinal(g) == \E n \in g.nodes : n.kind = "final"

RoutersBranch(g) ==
  \A n \in {r \in g.nodes : r.kind = "router"} :
    LET labels == {e.branch : e \in {d \in g.edges : d.from = n.id}} IN
    n.out = "RoutingDecision" /\ None \notin labels /\ Cardinality(labels) >= 2

(* validate_acyclic's visit, when open are the nodes on the way: a node is *)
(* sound when it is not one of them and no way from it meets one.          *)
Sound(g) ==
  LET sound[open \in SUBSET Ids(g)] ==
        {id \in Ids(g) \ open :
           \A e \in g.edges : e.from = id => e.to \in sound[open \cup {id}]}
  IN sound[{}]

(* Seeded fault: only a node that waits for itself is found.               *)
NoCycleFault(g) == \A e \in g.edges : e.from # e.to

NoCycle(g) == Ids(g) \subseteq Sound(g)

(* _validate_proposal.                                                     *)
Accepted(p) ==
  LET g == DryRun(p) IN
  /\ SchemasKnown(g) /\ EdgesFit(g) /\ ToolsMatch(g) /\ KindsSupported(g)
  /\ PortsSatisfied(g) /\ HasFinal(g) /\ NoCycle(g) /\ RoutersBranch(g)
=============================================================================
