-------------------------- MODULE MCCompiledGraphs --------------------------
(* One turn whose planner may send any of the small proposals.             *)
EXTENDS CompiledGraphs

CONSTANT t1

Shape(kind, tool, in, out) == [kind |-> kind, tool |-> tool, in |-> in, out |-> out]

Common == {Shape("intent", None, None, None), Shape("tool", "calculator", None, None),
           Shape("model", None, None, None), Shape("final", None, None, None),
           Shape("router", None, None, "RoutingDecision"), Shape("expand", None, None, None)}

Rare == {Shape("tool", "weather", None, None), Shape("tool", None, None, None),
         Shape("tool", "calculator", "Summary", None), Shape("model", None, "Summary", "RawText"),
         Shape("compress", None, "RoutingDecision", "FinalAnswer"), Shape("router", None, None, None),
         Shape("expand", None, "RawText", "NoSchema"), Shape("goal", None, None, None)}

(* Nodes of these shapes and names.                                        *)
Nodes(shapes, names) ==
  {[i \in DOMAIN names |-> [name |-> names[i], kind |-> f[i].kind, tool |-> f[i].tool,
                            in |-> f[i].in, out |-> f[i].out]] : f \in [DOMAIN names -> shapes]}

(* At most n edges between the names, all plain, all with the transform,   *)
(* or all labelled with the name they lead to.                             *)
Edges(names, n) ==
  LET pairs == {s \in SUBSET (names \X names) : Cardinality(s) <= n} IN
  UNION {{{[from |-> d[1], to |-> d[2], via |-> None, branch |-> None] : d \in s},
          {[from |-> d[1], to |-> d[2], via |-> "to_json_string", branch |-> None] : d \in s},
          {[from |-> d[1], to |-> d[2], via |-> None, branch |-> d[2]] : d \in s}} : s \in pairs}

Plans(shapes, names, ends, n) == [nodes : Nodes(shapes, names), edges : Edges(ends, n)]

(* Every proposal of one or two nodes, which may have the same name; those *)
(* of two common nodes with edges to a node that is not there or with the  *)
(* name of the injected final node; and those of three common nodes.       *)
SmallProposals ==
  Plans(Common \cup Rare, <<"a">>, {"a"}, 1) \cup Plans(Common \cup Rare, <<"a", "b">>, {"a", "b"}, 4)
    \cup Plans(Common \cup Rare, <<"a", "a">>, {"a"}, 1) \cup Plans(Common, <<"a", "b">>, {"a", "b", "c"}, 2)
    \cup Plans(Common, <<"a", "final">>, {"a", "final"}, 4)
    \cup Plans(Common, <<"a", "b", "c">>, {"a", "b", "c"}, 3)

AnyProposal == [t \in Turn |-> SmallProposals \cup {Unparsed}]
=============================================================================
