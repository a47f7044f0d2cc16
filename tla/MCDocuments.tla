---------------------------- MODULE MCDocuments -----------------------------
(***************************************************************************)
(* Documents with all short texts, and what search makes of an item:       *)
(* nothing, a word overlap, a similarity or both.                          *)
(***************************************************************************)
EXTENDS Documents

ShortTexts == BoundedSeq({0, 1, 2, 4}, 5)

Found == {<<0, 0>>, <<0, 1>>, <<0, 2>>, <<2, 1>>, <<1, 0>>}
=============================================================================
