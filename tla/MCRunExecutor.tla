---------------------------- MODULE MCRunExecutor ----------------------------
(***************************************************************************)
(* Task graphs and bounds for model-checking RunExecutor.                  *)
(***************************************************************************)
EXTENDS RunClaims, TLC

CONSTANTS n1, n2, n3, n4, n5,   \* nodes
          pa, pb                \* input ports

Wire(f, t) == [from |-> f, to |-> t, port |-> pa, required |-> TRUE, branch |-> None]
OnPort(e, p) == [e EXCEPT !.port = p]
Labelled(e, b) == [e EXCEPT !.branch = b]

KindOf(f) == [n \in Node |-> IF n \in DOMAIN f THEN f[n] ELSE "unsupported"]

(* A graph with the cache default of the executor: only tool nodes.        *)
Built(kinds, edges, rank) ==
  [nodes |-> DOMAIN kinds, edges |-> edges, kind |-> KindOf(kinds),
   free |-> [n \in Node |-> FALSE],
   allowCache |-> [n \in Node |-> KindOf(kinds)[n] = "tool"],
   literal |-> [n \in Node |-> CHOOSE t \in Text : TRUE],
   rank |-> rank]

Forwards == [n \in Node |-> CASE n = n1 -> 1 [] n = n2 -> 2 [] n = n3 -> 3 [] n = n4 -> 4 [] OTHER -> 5]
Backwards == [n \in Node |-> 6 - Forwards[n]]

Free(g) == [g EXCEPT !.free = [n \in Node |-> TRUE]]

(* intent -> tool -> model -> final.                                       *)
ToolChain ==
  Built(n1 :> "intent" @@ n2 :> "tool" @@ n3 :> "model" @@ n4 :> "final",
        {Wire(n1, n2), Wire(n2, n3), Wire(n3, n4)}, Backwards)

(* The router tests' graph with its branches joined again: a final node    *)
(* below a selected and an unselected branch.                              *)
Diamond ==
  Built(n1 :> "intent" @@ n2 :> "router" @@ n3 :> "model" @@ n4 :> "model" @@ n5 :> "final",
        {Wire(n1, n2), Labelled(Wire(n2, n3), Found), Labelled(Wire(n2, n4), Missing),
         Wire(n3, n5), OnPort(Wire(n4, n5), pb)}, Backwards)

(* A tool that needs an input and has none, and a kind v0 does not run.    *)
Odd ==
  Built(n1 :> "tool" @@ n2 :> "unsupported" @@ n3 :> "compress" @@ n4 :> "final",
        {Wire(n3, n4)}, Forwards)

(* A tool whose answer goes through a deterministic router: a model        *)
(* summarises what was found, a final node reports what was not.           *)
RoutedTool ==
  Built(n1 :> "intent" @@ n2 :> "tool" @@ n3 :> "router" @@ n4 :> "compress" @@ n5 :> "final",
        {Wire(n1, n2), Wire(n2, n3), Labelled(Wire(n3, n4), Found), Wire(n2, n4),
         Labelled(Wire(n3, n5), Missing), Wire(n2, n5)}, Backwards)

(* A model below a tool and a node that runs after it: when the tool says  *)
(* NotFound the model is skipped while the other node is still pending.    *)
EarlySkip ==
  Built(n1 :> "intent" @@ n2 :> "tool" @@ n3 :> "compress" @@ n4 :> "model",
        {Wire(n1, n2), Wire(n2, n4), OnPort(Wire(n3, n4), pb)}, Forwards)

DocumentedGraphs == {ToolChain, Diamond, Odd, RoutedTool, EarlySkip}
ToolGraphs == {ToolChain}

(* Every graph on three nodes, edges pointing from n1 towards n3, with     *)
(* and without a branch label, under the most adverse node order.          *)
SmallEdges == {Wire(n1, n2), Wire(n1, n3), Wire(n2, n3)}
SmallGraphs ==
  {Free(Built(n1 :> k[1] @@ n2 :> k[2] @@ n3 :> k[3],
         (es \ ls) \cup {Labelled(e, Found) : e \in es \cap ls}, Backwards)) :
     k \in {f \in [1..3 -> {"intent", "tool", "model", "router", "final"}] :
              "intent" \notin {f[2], f[3]}},
     es \in SUBSET SmallEdges, ls \in SUBSET SmallEdges}

=============================================================================
