------------------------ MODULE MCLibraryCirculation ------------------------
(* Small instances of LibraryCirculation for TLC. *)
EXTENDS LibraryCirculation, TLC

Symmetry == Permutations(Loan) \cup Permutations(Copy) \cup Permutations(Member)
            \cup Permutations(Request)
=============================================================================
