------------------------------ MODULE MCOffice ------------------------------
(***************************************************************************)
(* Office on one small instance: two rows and two requests of each         *)
(* component; a tab that makes two calls, and a navigation.                *)
(***************************************************************************)
EXTENDS Office, TLC

CONSTANTS r1, r2, q1, q2, q3

MCTabOf == [q \in {q1, q2, q3} |-> IF q = q3 THEN 2 ELSE 1]
MCSymmetry == Permutations({r1, r2}) \cup Permutations({q1, q2})
=============================================================================
