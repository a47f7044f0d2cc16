------------------------------ MODULE RunClaims ------------------------------
(***************************************************************************)
(* Statements of the repository's documents about execute that the code in *)
(* RunExecutor does not keep.  Each has a run that shows how it breaks.    *)
(***************************************************************************)
EXTENDS RunExecutor

(* docs/llmasm-implementation-plan.md:443, docs/llmasm-rfc.md:1195: no     *)
(* model node summarises a NotFound.  A cache hit forgets the flag.        *)
NoModelBelowNotFound ==
  \A r \in Run, n \in graph.nodes :
    graph.kind[n] = "model" /\ nodeStatus[r][n] \in Started =>
      \A e \in Incoming(n) : output[r][e.from] # NotFound
=============================================================================
