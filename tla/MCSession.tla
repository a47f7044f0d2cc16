------------------------------ MODULE MCSession ------------------------------
(***************************************************************************)
(* Session for a short question, a long document and a few proposals.      *)
(***************************************************************************)
EXTENDS Session

CONSTANTS question, document, placeholder, yes, empty

N(kind, up, key, cache, summary, rank) ==
  [kind |-> kind, up |-> up, key |-> key, cache |-> cache, summary |-> summary, rank |-> rank]

Intent == N("intent", 0, "intent", FALSE, FALSE, 2)

(* A lookup whose answer is reused, a summary, graphs that grow while they *)
(* run (in the order of a list and in one of ids, which runs the final     *)
(* node they start with last), and an answer that is reused as a whole.    *)
Lookup   == <<Intent, N("tool", 1, "tool", TRUE, FALSE, 3),
              N("final", 2, "final", FALSE, FALSE, 4)>>
Summary  == <<Intent, N("model", 1, "summary", FALSE, TRUE, 3),
              N("final", 2, "final", FALSE, FALSE, 1)>>
Growing  == <<Intent, N("final", 1, "final", FALSE, FALSE, 3),
              N("expand", 1, "expand", FALSE, FALSE, 4)>>
Hasty    == <<Intent, N("final", 1, "final", FALSE, FALSE, 6),
              N("expand", 1, "expand", FALSE, FALSE, 3)>>
Reusing  == <<Intent, N("final", 1, "kept", TRUE, FALSE, 3)>>

Shapes == {Lookup, Summary, Growing, Hasty, Reusing}
ReusingShapes == {Reusing}

(* The one place where the system rests: no session is left.               *)
Over == phase = "closed" /\ sessions = MaxSessions /\ UNCHANGED vars

MCSpec == Init /\ [][Next \/ Over]_vars
=============================================================================
