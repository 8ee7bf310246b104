------------------------------- MODULE MCPrompts -------------------------------
(***************************************************************************)
(* Instances of Prompts for TLC.                                           *)
(***************************************************************************)
EXTENDS Prompts, TLC

CONSTANTS i1, i2, i3, a1, c1, r1, r2

ThreeIds == {i1, i2, i3}
OneAgent == {a1}
OneConn == {c1}
TwoRequests == {r1, r2}
Symmetry == Permutations(ThreeIds) \cup Permutations(TwoRequests)
================================================================================
