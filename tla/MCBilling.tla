------------------------------- MODULE MCBilling -------------------------------
(***************************************************************************)
(* Instances of Billing for TLC: a monthly and a yearly plan.              *)
(***************************************************************************)
EXTENDS Billing, TLC

CONSTANTS monthly, yearly, a1, a2, r1, r2, k1, k2, x1, x2

BothPlans == {monthly, yearly}
MonthlyOnly == {monthly}
CreditOf == (monthly :> 1) @@ (yearly :> 2)
IntervalOf == (monthly :> 1) @@ (yearly :> 2)
TwoAccounts == {a1, a2}
TwoRequests == {r1, r2}
OneSeeder == {x1}
TwoScans == {k1, k2}
ActiveOrNot == {"PAST_DUE", "CANCELED"}
SecondPeriod == {2}
================================================================================
