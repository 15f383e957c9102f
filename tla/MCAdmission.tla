----------------------------- MODULE MCAdmission ----------------------------
(* Small instances of Admission for TLC. *)
EXTENDS Admission, TLC

Symmetry == Permutations(Registration) \cup Permutations(Request)
=============================================================================
