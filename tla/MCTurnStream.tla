---------------------------- MODULE MCTurnStream ----------------------------
(* TurnStream on small sets: requests, a wake-up, a few events. *)
EXTENDS TurnStream, TLC

CONSTANTS r1, r2, w1

\* Two requests and a wake-up with two events, or with an event and a break; one
\* request and a wake-up with three events and two breaks.
MCBounds == {[requests |-> 2, events |-> 2, breaks |-> 0],
             [requests |-> 2, events |-> 1, breaks |-> 1],
             [requests |-> 1, events |-> 3, breaks |-> 2]}

RequestSymmetry == Permutations(Requests)
=============================================================================
