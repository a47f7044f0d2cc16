--------------------------- MODULE MCConversation ---------------------------
(***************************************************************************)
(* Conversation with turns and answers as model values. Nothing tells one  *)
(* turn from another.                                                      *)
(***************************************************************************)
EXTENDS Conversation, TLC

CONSTANTS t1, t2, t3, yes, no

Interchangeable == Permutations(Turn)
=============================================================================
