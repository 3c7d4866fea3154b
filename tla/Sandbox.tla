------------------------------ MODULE Sandbox ------------------------------
(***************************************************************************)
(* The container around a session: its start (scripts/ci/run.sh,           *)
(* api/main.py), the supervised computer app (ComputerSupervisor), the     *)
(* rewind a pod created by a restore was started for (core/restore/        *)
(* pending.py), the skill links a new Session makes in the workspace       *)
(* (core/session/skills.py), and the throttle on the reports of workspace  *)
(* changes (core/waypoint_reports/workspace.py).                           *)
(*                                                                         *)
(* A crash loses the harness and its children at any step, also between    *)
(* two file operations of a Session's construction.  It keeps the database *)
(* and the workspace, and the temporary directories unless the pod is      *)
(* replaced.  How turns run is TurnScheduler's; here a turn begins on the  *)
(* thread's head, changes files, and commits.                              *)
(***************************************************************************)
EXTENDS ComputerSupervisor, Sequences, FiniteSets, Functions

CONSTANTS
    Requests,       \* POST /session/{id}/message
    None,
    Undone,         \* what the user's undo took back
    Scratch,        \* the link of the scratch directory
    Configurations, \* [computer, rewind, skills, writes]
    Left,           \* what may be at a link's place: None, Kept or Lost
    Kept,           \* a file tree that is no link
    Lost,           \* a link of an earlier pod's session
    MaxCrashes      \* bound on crashes

ASSUME SandboxAssumption ==
    /\ None \notin Requests
    /\ Undone \notin Requests
    /\ \A c \in Configurations : \A names \in SUBSET (c.skills \cup {Scratch}) : names # None
    /\ Left \subseteq {None, Kept, Lost}
    /\ MaxCrashes \in Nat

VARIABLES
    configuration,  \* the definition, the image and the pod's environment
    container,      \* "down", "starting", "serving" or "stopping"
    crashes,
    head,           \* the thread's newest checkpoint: the turns in it
    applied,        \* _applied
    session,        \* the session in session_store: the request that built it
    pc,             \* where each request and its turn is
    lock,           \* the session whose turn_lock the turn takes
    base,           \* the head each turn began on
    failed,         \* requests whose rewind failed
    build,          \* the names the Session under construction has left to link
    links,          \* the stable links in the workspace
    tmp,            \* temporary directories, by session and name
    throttle,       \* _state: a report was sent recently; a change is waiting
    unreported,     \* a change was noted after the last report
    notices,        \* the thread holds a message the chat does not show
    lastEnd         \* how the last turn ended

restore == <<head, applied, failed>>
turns == <<pc, lock, base>>
skills == <<build, links, tmp>>
reports == <<throttle, unreported, notices, lastEnd>>
harness == <<session, restore, turns, skills, reports>>

vars == <<configuration, container, crashes, harness, supervisor>>

Names == IF configuration.skills = {} THEN {} ELSE configuration.skills \cup {Scratch}

Unthrottled == [recent |-> FALSE, waiting |-> FALSE]

Init ==
    /\ configuration \in Configurations
    /\ container = "down"
    /\ crashes = 0
    /\ head = IF configuration.rewind THEN <<Undone>> ELSE <<>>
    /\ applied = FALSE
    /\ session = None
    /\ pc = [r \in Requests |-> "unsent"]
    /\ lock = [r \in Requests |-> None]
    /\ base = [r \in Requests |-> <<>>]
    /\ failed = {}
    /\ build = None
    /\ links \in [Names -> Left]
    /\ tmp = {}
    /\ throttle = Unthrottled
    /\ unreported = FALSE
    /\ notices = FALSE
    /\ lastEnd = None
    /\ SupervisorInit

-----------------------------------------------------------------------------
(* The container *)

\* run.sh: the server is started only after the pack was fetched; without it
\* the container exits, and is started again.
Boot ==
    /\ container = "down"
    /\ container' = "starting"
    /\ UNCHANGED <<configuration, crashes, harness, supervisor>>

\* lifespan: the execution manager, then the computer app, if there is one.
Serve ==
    /\ container = "starting"
    /\ container' = "serving"
    /\ IF configuration.computer THEN StartApp ELSE UNCHANGED supervisor
    /\ UNCHANGED <<configuration, crashes, harness>>

\* What a process that ends takes with it.
HarnessLost(kept) ==
    /\ container' = "down"
    /\ applied' = FALSE
    /\ session' = None
    /\ build' = None
    /\ tmp' = IF kept THEN tmp ELSE {}
    /\ pc' = [r \in Requests |->
                IF pc[r] \in {"rewinding", "rewound", "building", "queued", "running"}
                THEN "lost" ELSE pc[r]]
    /\ throttle' = Unthrottled
    /\ unreported' = FALSE
    /\ lastEnd' = None
    /\ task' = "none" /\ child' = "none" /\ held' = FALSE
    /\ stopping' = FALSE /\ stopper' = "idle" /\ backoff' = BackoffStart
    /\ UNCHANGED <<configuration, head, failed, lock, base, links, notices>>

\* The container is killed, and with it perhaps the pod.
Crash ==
    /\ container # "down"
    /\ crashes < MaxCrashes
    /\ crashes' = crashes + 1
    /\ \E kept \in BOOLEAN : HarnessLost(kept)

\* SIGTERM: lifespan stops the computer before everything else.
Shutdown ==
    /\ container = "serving"
    /\ build = None
    /\ container' = "stopping"
    /\ Stop
    /\ UNCHANGED <<configuration, crashes, harness>>

\* shutdown_execution_manager_async, and the process ends.
Exit ==
    /\ container = "stopping"
    /\ stopper = "stopped"
    /\ task # "cancelled"
    /\ UNCHANGED crashes
    /\ \E kept \in BOOLEAN : HarnessLost(kept)

\* The event loop runs: no Session is being constructed.
LoopFree == container \in {"serving", "stopping"} /\ build = None

Supervise ==
    /\ \/ container \in {"serving", "stopping"} /\ ChildExits
       \/ LoopFree /\ (TaskStep \/ StopReturns \/ SpawnCancelled)
    /\ UNCHANGED <<configuration, container, crashes, harness>>

-----------------------------------------------------------------------------
(* A request and the rewind before it *)

Serving == container = "serving" /\ build = None

\* What a request does to the supervisor, the throttle and the container.
KeepsRest == UNCHANGED <<configuration, container, crashes, reports, supervisor>>

\* handle_message after the rewind: a turn of the session in the store, or the
\* construction of a session for one.
Proceeds(r, stored) ==
    /\ session' = stored
    /\ IF stored = None
       THEN /\ pc' = [pc EXCEPT ![r] = "building"]
            /\ build' = Names
            /\ UNCHANGED lock
       ELSE /\ pc' = [pc EXCEPT ![r] = "queued"]
            /\ lock' = [lock EXCEPT ![r] = stored]
            /\ UNCHANGED build
    /\ UNCHANGED <<base, links, tmp>>

\* Mutated: the rewind counts as applied when it begins.
Guarded_Early == TRUE

\* What _applied is while apply_checkpoint_restore is awaited.
Guarded == applied

\* apply_pending_agent_restore: nothing to do, or the rewind is awaited.
Arrive(r) ==
    /\ Serving
    /\ pc[r] = "unsent"
    /\ IF applied \/ ~configuration.rewind
       THEN Proceeds(r, session) /\ UNCHANGED applied
       ELSE /\ pc' = [pc EXCEPT ![r] = "rewinding"]
            /\ applied' = Guarded
            /\ UNCHANGED <<session, lock, base, skills>>
    /\ UNCHANGED <<head, failed>>
    /\ KeepsRest

\* apply_checkpoint_restore commits: the target, forked, is the head.
Rewind(r) ==
    /\ container \in {"serving", "stopping"}
    /\ pc[r] = "rewinding"
    /\ pc' = [pc EXCEPT ![r] = "rewound"]
    /\ head' = <<>>
    /\ UNCHANGED <<applied, failed, session, lock, base, skills>>
    /\ KeepsRest

\* It returns; the session built from the old head is dropped.
RewindReturns(r) ==
    /\ Serving
    /\ pc[r] = "rewound"
    /\ applied' = TRUE
    /\ Proceeds(r, None)
    /\ UNCHANGED <<head, failed>>
    /\ KeepsRest

\* It raises, before or after its commit: logged, and the request goes on.
RewindFails(r) ==
    /\ Serving
    /\ pc[r] \in {"rewinding", "rewound"}
    /\ failed' = failed \cup {r}
    /\ Proceeds(r, session)
    /\ UNCHANGED <<head, applied>>
    /\ KeepsRest

-----------------------------------------------------------------------------
(* The construction of a Session, which blocks the event loop *)

Builds(r) == container = "serving" /\ build # None /\ pc[r] = "building" /\ session = None

\* _isolate_skills and _create_scratch: copies in new temporary directories.
Isolate(r) ==
    /\ Builds(r)
    /\ \E n \in build : <<r, n>> \notin tmp
    /\ tmp' = tmp \cup ({r} \X Names)
    /\ UNCHANGED <<build, links, session, restore, turns>>
    /\ KeepsRest

\* Mutated: whatever is there and resolves is kept.
Stays_Resolving(n) == links[n] = Kept \/ (links[n] \in Requests /\ <<links[n], n>> \in tmp)

\* What the new link does not replace: a directory.
Stays(n) == links[n] = Kept

\* unlink: also a link that leads nowhere.
Unlink(r, n) ==
    /\ Builds(r)
    /\ n \in build /\ <<r, n>> \in tmp
    /\ links[n] # None /\ ~Stays(n)
    /\ links' = [links EXCEPT ![n] = None]
    /\ UNCHANGED <<build, tmp, session, restore, turns>>
    /\ KeepsRest

\* os.symlink
Link(r, n) ==
    /\ Builds(r)
    /\ n \in build /\ <<r, n>> \in tmp
    /\ links[n] = None \/ Stays(n)
    /\ links' = [links EXCEPT ![n] = IF @ = None THEN r ELSE @]
    /\ build' = build \ {n}
    /\ UNCHANGED <<tmp, session, restore, turns>>
    /\ KeepsRest

\* A construction that raises, while it copies the skills or anywhere else: the
\* request is answered with an error, and what was copied and linked stays.
BuildFails(r) ==
    /\ Builds(r)
    /\ \/ UNCHANGED tmp
       \/ /\ \A n \in Names : <<r, n>> \notin tmp
          /\ \E s \in SUBSET configuration.skills : tmp' = tmp \cup ({r} \X s)
    /\ pc' = [pc EXCEPT ![r] = "refused"]
    /\ build' = None
    /\ UNCHANGED <<links, session, restore, lock, base>>
    /\ KeepsRest

\* The session is in the store, and its turn's task is created.
Built(r) ==
    /\ Builds(r)
    /\ build = {}
    /\ build' = None
    /\ session' = r
    /\ pc' = [pc EXCEPT ![r] = "queued"]
    /\ lock' = [lock EXCEPT ![r] = r]
    /\ UNCHANGED <<links, tmp, restore, base>>
    /\ KeepsRest

-----------------------------------------------------------------------------
(* Turns, and what they report of the workspace *)

\* note_tool_finished: reported at once, or held back.
Noted ==
    IF throttle.recent
    THEN throttle' = [throttle EXCEPT !.waiting = TRUE] /\ unreported' = TRUE
    ELSE throttle' = [recent |-> TRUE, waiting |-> FALSE] /\ unreported' = FALSE

\* The session's lock is free; the first values event brings the history, with
\* the calls that wrote in it or none.
Begin(r) ==
    /\ LoopFree
    /\ pc[r] = "queued"
    /\ \A q \in Requests : pc[q] = "running" => lock[q] # lock[r]
    /\ pc' = [pc EXCEPT ![r] = "running"]
    /\ base' = [base EXCEPT ![r] = head]
    /\ IF configuration.writes
       THEN Noted \/ UNCHANGED <<throttle, unreported>>
       ELSE UNCHANGED <<throttle, unreported>>
    /\ UNCHANGED <<configuration, container, crashes, restore, session, lock, skills, notices,
                   lastEnd, supervisor>>

Running(r) == LoopFree /\ configuration.writes /\ pc[r] = "running"

KeepsTurn ==
    UNCHANGED <<configuration, container, crashes, restore, session, turns, skills, lastEnd,
                supervisor>>

\* A tool that can write has finished.  The messages the chat does not show are
\* filtered out and the rest is sliced by the number of all: with one in the
\* thread, the message is missed.
ToolWrites(r) ==
    /\ Running(r)
    /\ IF notices THEN unreported' = TRUE /\ UNCHANGED throttle ELSE Noted
    /\ UNCHANGED notices
    /\ KeepsTurn

\* A job's outcome, a report or a reminder is put into the thread.
NoticeDelivered(r) ==
    /\ Running(r)
    /\ notices' = TRUE
    /\ UNCHANGED <<throttle, unreported>>
    /\ KeepsTurn

\* MIN_INTERVAL_SECONDS
IntervalPasses ==
    /\ throttle.recent
    /\ throttle' = [throttle EXCEPT !.recent = FALSE]
    /\ UNCHANGED <<unreported, notices>>
    /\ KeepsTurn

\* Mutated: a turn that ends on a question does not flush.
Flushes_Done(how) == how = "done"

\* The ends async_execute flushes on.
Flushes(how) == how \in {"done", "asked"}

\* flush_workspace_change
Flushed(how) ==
    IF Flushes(how) /\ throttle.waiting
    THEN throttle' = [recent |-> TRUE, waiting |-> FALSE] /\ unreported' = FALSE
    ELSE UNCHANGED <<throttle, unreported>>

\* The turn has ended; its last commit is the thread's head.
End(r, how) ==
    /\ LoopFree
    /\ pc[r] = "running"
    /\ pc' = [pc EXCEPT ![r] = how]
    /\ head' = Append(base[r], r)
    /\ Flushed(how)
    /\ lastEnd' = how
    /\ UNCHANGED <<configuration, container, crashes, applied, failed, session, lock, base, skills,
                   notices, supervisor>>

-----------------------------------------------------------------------------
Request(r) ==
    \/ Arrive(r) \/ Rewind(r) \/ RewindReturns(r) \/ RewindFails(r)
    \/ Isolate(r) \/ BuildFails(r) \/ Built(r)
    \/ \E n \in Names : Unlink(r, n) \/ Link(r, n)
    \/ Begin(r) \/ ToolWrites(r) \/ NoticeDelivered(r)
    \/ \E how \in {"done", "asked", "failed"} : End(r, how)

Next ==
    \/ Boot \/ Serve \/ Crash \/ Shutdown \/ Exit
    \/ Supervise
    \/ \E r \in Requests : Request(r)
    \/ IntervalPasses

\* The event loop runs the supervisor's task and its timers; nothing makes the
\* app exit, start or stay.
Fairness ==
    /\ WF_vars(LoopFree /\ TaskStep /\ UNCHANGED <<configuration, container, crashes, harness>>)
    /\ \A r \in Requests :
          WF_vars(Isolate(r) \/ Built(r) \/ \E n \in Names : Unlink(r, n) \/ Link(r, n))

Spec == Init /\ [][Next]_vars /\ Fairness

-----------------------------------------------------------------------------
(* Properties *)

PCs == {"unsent", "rewinding", "rewound", "building", "refused", "queued", "running", "done",
        "asked", "failed", "lost"}

TypeOK ==
    /\ configuration \in Configurations
    /\ container \in {"down", "starting", "serving", "stopping"}
    /\ head \in Seq(Requests \cup {Undone})
    /\ applied \in BOOLEAN
    /\ session \in Requests \cup {None}
    /\ crashes \in 0..MaxCrashes
    /\ pc \in [Requests -> PCs]
    /\ lock \in [Requests -> Requests \cup {None}]
    /\ base \in [Requests -> Seq(Requests \cup {Undone})]
    /\ failed \subseteq Requests
    /\ build = None \/ build \subseteq Names
    /\ links \in [Names -> Requests \cup {None, Kept, Lost}]
    /\ tmp \subseteq Requests \X Names
    /\ throttle \in [recent : BOOLEAN, waiting : BOOLEAN]
    /\ unreported \in BOOLEAN
    /\ notices \in BOOLEAN
    /\ lastEnd \in {None, "done", "asked", "failed"}
    /\ SupervisorTypeOK

\* No turn ever begins with what the undo took back, however requests and
\* crashes fall around the rewind, unless its own rewind failed, or it follows a
\* turn whose rewind did: a later request tries again (handle_message,
\* apply_pending_agent_restore).
UndoneStaysUndone ==
    \A r \in Requests :
        pc[r] = "running" /\ Undone \in Range(base[r])
            => (Range(base[r]) \cup {r}) \cap failed # {}

\* "Guarded so a second message in the same pod does not rewind again": a rewind
\* takes back no turn that was committed after the undo, as long as none failed.
RewindTakesOnlyUndone ==
    [][failed = {} /\ head # <<>> /\ head' = <<>> => Undone \in Range(head)]_vars

\* Where the stored session's file tools read a skill, its shell finds the same
\* files: each stable link leads to the session's own copy, which exists,
\* whatever an earlier session, a crash or a restored workspace left at its
\* place; unless that is a directory of its own.
ShellSeesSkills ==
    session # None =>
        \A n \in Names : /\ <<session, n>> \in tmp
                         /\ links[n] \in {session, Kept}

\* "The last write of a turn is never the one that goes unreported": once no turn
\* runs, no change noted is held back, unless the last turn failed or messages
\* were missed.
LastWriteReported ==
    (\A r \in Requests : pc[r] # "running") /\ ~notices /\ lastEnd \in {"done", "asked"}
        => ~unreported

\* The same sentence of waypoint_reports/workspace.py, for every thread: it does
\* not hold once the thread has a message the chat does not show.
NoWriteUnreported ==
    (\A r \in Requests : pc[r] # "running") /\ lastEnd \in {"done", "asked"} => ~unreported

\* The app is started again after every exit, and tried again after every start
\* that failed, for as long as the container serves.
AppComesBack ==
    (configuration.computer /\ container = "serving" /\ child # "running")
        ~> (task \in {"spawning", "spawned"} \/ container # "serving")
=============================================================================
