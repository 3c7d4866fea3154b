------------------------- MODULE ComputerSupervisor -------------------------
(***************************************************************************)
(* ComputerSupervisor (core/computer/app.py): the task that starts the     *)
(* session's computer app, watches it and starts it again, and stop(),     *)
(* which runs beside that task while the harness shuts down.               *)
(*                                                                         *)
(* asyncio is external: a task cancelled while it waits for a child it has *)
(* just started kills that child, in a step of its own.                    *)
(***************************************************************************)
EXTENDS Integers

CONSTANTS
    BackoffStart,   \* RESTART_BACKOFF_START_S
    BackoffMax      \* RESTART_BACKOFF_MAX_S

ASSUME BackoffAssumption ==
    /\ BackoffStart \in Nat \ {0}
    /\ BackoffMax \in Nat
    /\ BackoffStart <= BackoffMax

VARIABLES
    task,       \* where _run is
    child,      \* the child started last: "none", "running" or "exited"
    held,       \* _process is that child
    stopping,   \* _stopping
    stopper,    \* where stop() is: "idle", "terminating" or "stopped"
    backoff

supervisor == <<task, child, held, stopping, stopper, backoff>>

TaskStates == {"none", "spawning", "spawned", "watching", "sleeping", "returned", "cancelled"}

SupervisorInit ==
    /\ task = "none"
    /\ child = "none"
    /\ held = FALSE
    /\ stopping = FALSE
    /\ stopper = "idle"
    /\ backoff = BackoffStart

\* start: the task of an app the definition declares and the image carries.
StartApp ==
    /\ task = "none" /\ stopper = "idle"
    /\ task' = "spawning"
    /\ UNCHANGED <<child, held, stopping, stopper, backoff>>

\* create_subprocess_exec has made the process, and waits for its pipes.
Spawn ==
    /\ task = "spawning"
    /\ task' = "spawned"
    /\ child' = "running"
    /\ held' = FALSE
    /\ UNCHANGED <<stopping, stopper, backoff>>

SpawnReturns ==
    /\ task = "spawned"
    /\ task' = "watching"
    /\ held' = TRUE
    /\ UNCHANGED <<child, stopping, stopper, backoff>>

\* A run of a minute was healthy.
Backoffs(healthy) == IF healthy THEN BackoffStart ELSE backoff

\* Mutated: a command that cannot be started ends the task.
Pauses_Once(healthy) ==
    /\ task' = IF stopping \/ task = "spawning" THEN "returned" ELSE "sleeping"
    /\ backoff' = Backoffs(healthy)

\* After an exit or a failed start: return when stopping, else sleep.
Pauses(healthy) ==
    /\ task' = IF stopping THEN "returned" ELSE "sleeping"
    /\ backoff' = Backoffs(healthy)

\* The command cannot be started: logged, and tried again.
SpawnFails ==
    /\ task = "spawning"
    /\ Pauses(FALSE)
    /\ UNCHANGED <<child, held, stopping, stopper>>

\* The app exits, of itself or on the signal of stop().
ChildExits ==
    /\ child = "running"
    /\ child' = "exited"
    /\ UNCHANGED <<task, held, stopping, stopper, backoff>>

SeesExit ==
    /\ task = "watching"
    /\ child = "exited"
    /\ \E healthy \in BOOLEAN : Pauses(healthy)
    /\ UNCHANGED <<child, held, stopping, stopper>>

Doubled == IF backoff * 2 < BackoffMax THEN backoff * 2 ELSE BackoffMax

\* The sleep is over: the loop's condition, and another start.
WakesUp ==
    /\ task = "sleeping"
    /\ task' = IF stopping THEN "returned" ELSE "spawning"
    /\ backoff' = Doubled
    /\ UNCHANGED <<child, held, stopping, stopper>>

\* stop() drops the task: what it was waiting for raises CancelledError.
CancelsTask ==
    /\ task' = CASE task \in {"none", "returned"} -> task
                 [] task = "spawned" -> "cancelled"
                 [] OTHER -> "returned"
    /\ stopper' = "stopped"

\* stop: a process that is held and alive is asked to terminate.
Stop ==
    /\ stopper = "idle"
    /\ stopping' = TRUE
    /\ IF held /\ child = "running"
       THEN stopper' = "terminating" /\ UNCHANGED task
       ELSE CancelsTask
    /\ UNCHANGED <<child, held, backoff>>

\* Mutated: a process that does not terminate in time is left.
Killed_Left == child

\* process.kill after the five seconds
Killed == "exited"

\* The process has exited, or five seconds have passed.
StopReturns ==
    /\ stopper = "terminating"
    /\ child' = IF child = "running" THEN Killed ELSE child
    /\ CancelsTask
    /\ UNCHANGED <<held, stopping, backoff>>

\* The cancellation of a start that was in progress kills its child.
SpawnCancelled ==
    /\ task = "cancelled"
    /\ task' = "returned"
    /\ child' = "exited"
    /\ UNCHANGED <<held, stopping, stopper, backoff>>

\* The steps of the supervisor's own task, and the outside world's.
TaskStep == Spawn \/ SpawnReturns \/ SpawnFails \/ SeesExit \/ WakesUp

SupervisorNext ==
    \/ StartApp \/ TaskStep \/ ChildExits
    \/ Stop \/ StopReturns \/ SpawnCancelled

SupervisorSpec == SupervisorInit /\ [][SupervisorNext]_supervisor

-----------------------------------------------------------------------------
(* Properties *)

SupervisorTypeOK ==
    /\ task \in TaskStates
    /\ child \in {"none", "running", "exited"}
    /\ held \in BOOLEAN
    /\ stopping \in BOOLEAN
    /\ stopper \in {"idle", "terminating", "stopped"}
    /\ backoff \in BackoffStart..BackoffMax

\* Once stop has returned no app is left and none will be started, wherever the
\* task was when it was cancelled; only a start in progress still has its child
\* to kill.
NoAppLeft ==
    stopper = "stopped" =>
        /\ child = "running" => task = "cancelled"
        /\ task \notin {"spawning", "spawned", "watching", "sleeping"}

=============================================================================
