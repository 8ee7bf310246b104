----------------------------- MODULE MCDelivery -----------------------------
(***************************************************************************)
(* Instances of Delivery for TLC.                                          *)
(***************************************************************************)
EXTENDS Delivery, TLC

CONSTANTS i1, w1, w2, c1, c2

OneItem == {i1}
TwoWorkers == {w1, w2}
TwoCouriers == {c1, c2}
Symmetry == Permutations(Workers) \cup Permutations(Couriers)

AllFaults == {"broker", "network", "crash"}
=============================================================================
