---------------------------- MODULE MCCompilation ----------------------------
(* Turns whose planner gives abstract replies.                             *)
EXTENDS Compilation

CONSTANTS t1, t2, t3, told, mute, junk

(* A reply with a goal_update_text, one without, one that is rejected; the *)
(* first turn has nothing to gain from a reply without a text.             *)
AnyReply == [t \in Turn |-> IF t = t1 THEN {told, junk} ELSE {told, mute}]
Sound(reply) == reply \in {told, mute}
Wordings == {told}
=============================================================================
