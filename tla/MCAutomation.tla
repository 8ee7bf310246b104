----------------------------- MODULE MCAutomation -----------------------------
(***************************************************************************)
(* Instances of Automation for TLC.                                        *)
(***************************************************************************)
EXTENDS Automation, TLC

CONSTANTS e1, w1, w2, m1, i1

OneManual == {m1}
OneItem == {i1}
OneEdit == {e1}
TwoWorkers == {w1, w2}
Symmetry == Permutations(TwoWorkers)
================================================================================
