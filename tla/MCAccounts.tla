------------------------------ MODULE MCAccounts ------------------------------
(***************************************************************************)
(* Instance of Accounts for TLC.                                           *)
(***************************************************************************)
EXTENDS Accounts, TLC

CONSTANTS u1, a1, a2, c1, k1, t1, t2, t3, r1, r2

OneSuper == {u1}
TwoAdmins == {a1, a2}
OneSlug == {c1}
OneKey == {k1}
ThreeTokens == {t1, t2, t3}
TwoRequests == {r1, r2}
Symmetry == Permutations(TwoAdmins) \cup Permutations(TwoRequests)
================================================================================
