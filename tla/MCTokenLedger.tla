----------------------------- MODULE MCTokenLedger -----------------------------
(***************************************************************************)
(* Instances of TokenLedger for TLC.                                       *)
(***************************************************************************)
EXTENDS TokenLedger, TLC

CONSTANTS s1, s2

OneSession == {s1}
TwoSessions == {s1, s2}

SmallAmounts == {1, 2}
SmallRequests == {1, 3}
OneAmount == {2}
================================================================================
