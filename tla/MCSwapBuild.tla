---------------------------- MODULE MCSwapBuild ----------------------------
(* Instances of SwapBuild for TLC.                                         *)
EXTENDS SwapBuild

(* The budget is 25 s and the floor of a retry 15 s: ticks of 5 s.         *)
SomeGrosses == {7, 20, 21}
=============================================================================
