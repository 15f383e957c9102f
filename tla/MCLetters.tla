------------------------------ MODULE MCLetters -----------------------------
(* Small instances of Letters for TLC. *)
EXTENDS Letters, TLC

Symmetry == Permutations(Letter) \cup Permutations(Approval) \cup Permutations(Request)

(* Nothing depends on which letters have been approved as they are, so     *)
(* states that differ only there are one where IssuedIsApproved is not     *)
(* checked.                                                                *)
NumberingView == <<letter, approval, sequence, req, lost>>
=============================================================================
