---------------------------- MODULE MCConnections ----------------------------
(***************************************************************************)
(* Instance of Connections for TLC.                                        *)
(***************************************************************************)
EXTENDS Connections, TLC

CONSTANTS x1, x2, p1, k1, k2, s1, r1, r2

TwoRows == {x1, x2}
OnePage == {p1}
TwoTokens == {k1, k2}
OneSession == {s1}
TwoRequests == {r1, r2}
Symmetry == Permutations(TwoRequests) \cup Permutations(TwoTokens)
================================================================================
