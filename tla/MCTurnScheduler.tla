-------------------------- MODULE MCTurnScheduler --------------------------
(* TurnScheduler for TLC; the bounds are in the cfg files. *)
EXTENDS TurnScheduler, TLC

CONSTANTS r1, r2, r3, r4, w1, w2, w3, w4, w5, w6, w7, j1

\* Requests are interchangeable until they arrive, and so are the ids of what
\* they create.  Used only where no liveness property is checked.
RequestSymmetry == Permutations(Requests)
=============================================================================
