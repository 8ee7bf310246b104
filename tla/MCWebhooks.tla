------------------------------ MODULE MCWebhooks ------------------------------
(***************************************************************************)
(* Instances of Webhooks for TLC: two events carry the same message, the   *)
(* second one with another, abusive message; both carry a comment, which   *)
(* was edited in between.                                                  *)
(***************************************************************************)
EXTENDS Webhooks, TLC

CONSTANTS e1, e2, m1, m2, c1, d1, d2, w1, w2, a1, f1, f2

TwoEvents == {e1, e2}
TwoMessages == {m1, m2}
OneComment == {c1}
TwoDeliverers == {d1, d2}
TwoWorkers == {w1, w2}
OneAgent == {a1}
TwoWorkflows == {f1, f2}
NoWorkflow == {}
OneStatus == {"RESOLVED"}

Carried == [e \in TwoEvents |-> IF e = e1 THEN {m1, c1} ELSE {m1, m2, c1}]
Swearing == {<<e2, m2>>, <<e2, c1>>}

AllFaults == {"broker", "error", "crash"}
Symmetry == {d @@ w @@ f : d \in Permutations(Deliverers), w \in Permutations(Workers),
                           f \in Permutations(MessageWorkflows)}
================================================================================
