----------------------------- MODULE MCBilling -----------------------------
(* A small instance of Billing for TLC: amounts 1 and 2 against totals that*)
(* both payments reach together (3), or one alone and the two exceed (2).  *)
EXTENDS Billing, TLC

CONSTANTS p1, p2

MCAmount == p1 :> 1 @@ p2 :> 2
=============================================================================
