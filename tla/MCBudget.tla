------------------------------ MODULE MCBudget ------------------------------
(* Instances of Budget for TLC. *)
EXTENDS Budget, TLC

\* what a call may be charged: a free tier and one that costs
MCCharges == 0 :> {<<1, 0>>, <<2, 0>>} @@ 1 :> {<<1, 1>>, <<2, 1>>}
=============================================================================
