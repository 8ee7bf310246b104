----------------------------- MODULE MCMigrations ------------------------------
(***************************************************************************)
(* Instance of Migrations for TLC: two commands that may run at once.      *)
(***************************************************************************)
EXTENDS Migrations, TLC

CONSTANTS n1, n2

TwoRunners == {n1, n2}
Symmetry == Permutations(TwoRunners)
================================================================================
