--------------------------- MODULE MCPendingJobs ---------------------------
(* PendingJobs for TLC. *)
EXTENDS PendingJobs, TLC

CONSTANTS j1, j2, j3, c1, c2

JobSymmetry == Permutations(Jobs) \cup Permutations(Calls)
=============================================================================
