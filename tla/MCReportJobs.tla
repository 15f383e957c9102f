---------------------------- MODULE MCReportJobs ----------------------------
(* Small instances of ReportJobs for TLC. *)
EXTENDS ReportJobs, TLC

Symmetry == Permutations(Job) \cup Permutations(Worker) \cup Permutations(Request)
=============================================================================
