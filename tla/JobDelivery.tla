----------------------------- MODULE JobDelivery -----------------------------
(***************************************************************************)
(* What ADR-015 promises of background jobs: the agent holds the jobs it   *)
(* has started and not been told of; it is told of a job only when the job *)
(* has finished, in the one commit that takes the job from its list; and a *)
(* job it has been told of never comes back.                               *)
(***************************************************************************)
CONSTANT Jobs

VARIABLES
    tracked,    \* the jobs the agent knows it started and has not been told of
    told,       \* the jobs it has been told of
    finished    \* the jobs whose run has ended

vars == <<tracked, told, finished>>

Init ==
    /\ tracked = {}
    /\ told = {}
    /\ finished \in SUBSET Jobs

Track ==
    /\ \E js \in SUBSET (Jobs \ told) : tracked' = tracked \cup js
    /\ UNCHANGED <<told, finished>>

Tell ==
    \E js \in SUBSET (tracked \cap finished) :
        /\ tracked' = tracked \ js
        /\ told' = told \cup js
        /\ UNCHANGED finished

Finish ==
    /\ finished' \in SUBSET Jobs
    /\ finished \subseteq finished'
    /\ UNCHANGED <<tracked, told>>

Next == Track \/ Tell \/ Finish

Spec == Init /\ [][Next]_vars
=============================================================================
