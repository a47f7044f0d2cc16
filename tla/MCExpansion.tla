----------------------------- MODULE MCExpansion -----------------------------
(***************************************************************************)
(* Graphs and requests for model-checking Expansion.                       *)
(***************************************************************************)
EXTENDS Expansion, TLC

CONSTANTS n1, n2, s1, s2, s3,  \* nodes, of which s1..s3 are new ids
          pa,                         \* input port
          grow, answer, a, nobody   \* names

Wire(f, t) == [from |-> f, to |-> t, port |-> pa, required |-> TRUE, branch |-> None]

KindOf(f) == [n \in Node |-> IF n \in DOMAIN f THEN f[n] ELSE "unsupported"]

Forwards == [n \in Node |-> CASE n = n1 -> 1 [] n = n2 -> 2 [] n = s1 -> 7
                              [] n = s2 -> 6 [] n = s3 -> 5 [] OTHER -> 4]

(* expand -> final                                                         *)
Growing ==
  LET kinds == n1 :> "expand" @@ n2 :> "final" IN
  [nodes |-> DOMAIN kinds, edges |-> {Wire(n1, n2)}, kind |-> KindOf(kinds),
   free |-> [n \in Node |-> FALSE], allowCache |-> [n \in Node |-> FALSE],
   literal |-> [n \in Node |-> CHOOSE t \in Text : TRUE], rank |-> Forwards]

(* The same, where what the expand node has answered is reused: a later    *)
(* run takes it for its own and creates no rows for the nodes of the       *)
(* expansion.                                                              *)
CachedGrowing == [Growing EXCEPT !.allowCache[n1] = TRUE]

GrowingGraphs == {Growing, CachedGrowing}
Names == n1 :> grow @@ n2 :> answer

Call(f, t) == Wire(f, t)

New(m, k) == [name |-> m, kind |-> k]

(* A tool looked up for the final node, as in the plan's weather example.  *)
Lookup == [nodes |-> <<New(a, "tool")>>, edges |-> {Call(grow, a), Call(a, answer)}]

(* Two nodes of one name, of which only the second gets the edges, and an  *)
(* edge to a name nobody bears.                                            *)
Twins == [nodes |-> <<New(a, "final"), New(a, "router")>>,
          edges |-> {Call(grow, a), Call(a, answer), Call(a, nobody)}]

Forward == n1 :> {Lookup, Twins}

(* The two runs are interchangeable.                                       *)
Interchange == Permutations(Run)
=============================================================================
