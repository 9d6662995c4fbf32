------------------------------ MODULE MCRender ------------------------------
(* Small instances of Render for TLC.                                      *)
EXTENDS Render, TLC

CONSTANTS r1, r2

TwoCalls == {r1, r2}
ThreeLines == 0 .. 2
(* Below the first line, backwards, over MaxClipSize, and one that is fine. *)
FourRanges == {<<-1, 0>>, <<1, 0>>, <<0, 2>>, <<0, 1>>}
=============================================================================
