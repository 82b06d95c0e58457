------------------------------ MODULE MCClamp ------------------------------
(***************************************************************************)
(* Small instance of Clamp: up to four blocks, texts of runes of one, two  *)
(* and three bytes, limits that end before, within and after each of them. *)
(***************************************************************************)
EXTENDS Clamp

MCTexts == {<<>>, <<1>>, <<2, 0>>, <<1, 3, 0, 0>>}
MCLimits == -1..6
=============================================================================
