--------------------------- MODULE Sandbox_proofs ---------------------------
(***************************************************************************)
(* Proofs about Sandbox, for any requests, configurations and crashes, and *)
(* about the supervisor it composes, for any backoff.                      *)
(*                                                                         *)
(* UndoInv strengthens UndoneStaysUndone by the thread's head: while it    *)
(* holds what was undone, and no turn in it had its rewind fail, no        *)
(* request has come past the rewind unless its own failed.                 *)
(*                                                                         *)
(* One Session is under construction at a time, and the links it has made  *)
(* lead to directories that exist (SkillInv).  A change noted after the    *)
(* last report is one the throttle holds back (ReportInv).                 *)
(*                                                                         *)
(* NoAppLeft says nothing of the moments before stop() has returned.       *)
(* Reach adds what stop() relies on: a running app that _process does not  *)
(* name is one whose start is still in progress, and only stop() cancels.  *)
(***************************************************************************)
EXTENDS Sandbox, TLAPS

-----------------------------------------------------------------------------
(* The supervisor *)

Reach ==
    /\ child = "running" /\ ~held => task \in {"spawned", "cancelled"}
    /\ task = "spawned" => ~held
    /\ task = "cancelled" => stopper = "stopped"

SupervisorInv == SupervisorTypeOK /\ Reach /\ NoAppLeft

\* Before the first start, and in a harness that has just been started again.
LEMMA SupervisorInitInv == SupervisorInit => SupervisorInv
<1>1. BackoffStart \in BackoffStart..BackoffMax
    BY BackoffAssumption DEF BackoffAssumption
<1> QED  BY <1>1 DEF SupervisorInit, SupervisorInv, SupervisorTypeOK, TaskStates, Reach, NoAppLeft

\* The backoff stays between its bounds.
LEMMA DoubledBounded ==
    ASSUME backoff \in BackoffStart..BackoffMax
    PROVE  Doubled \in BackoffStart..BackoffMax
BY BackoffAssumption DEF BackoffAssumption, Doubled

\* A step of the supervisor's own task, before stop() has returned.
LEMMA TaskStepInv == SupervisorInv /\ TaskStep => SupervisorInv'
<1> SUFFICES ASSUME SupervisorInv, TaskStep PROVE SupervisorInv'
    OBVIOUS
<1> USE DEF SupervisorInv, SupervisorTypeOK, TaskStates, Reach, NoAppLeft
<1>1. CASE Spawn
    BY <1>1 DEF Spawn
<1>2. CASE SpawnReturns
    BY <1>2 DEF SpawnReturns
<1>3. ASSUME NEW healthy \in BOOLEAN, Pauses(healthy)
      PROVE  /\ task' \in {"returned", "sleeping"}
             /\ backoff' \in BackoffStart..BackoffMax
    BY <1>3, BackoffAssumption DEF BackoffAssumption, Pauses, Backoffs
<1>4. CASE SpawnFails
    BY <1>4, <1>3 DEF SpawnFails
<1>5. CASE SeesExit
    BY <1>5, <1>3 DEF SeesExit
<1>6. CASE WakesUp
    BY <1>6, DoubledBounded DEF WakesUp
<1> QED  BY <1>1, <1>2, <1>4, <1>5, <1>6 DEF TaskStep

\* A step of the world, of stop(), and the first start.
LEMMA StopStepInv ==
    SupervisorInv /\ (StartApp \/ ChildExits \/ Stop \/ StopReturns \/ SpawnCancelled)
        => SupervisorInv'
<1> SUFFICES ASSUME SupervisorInv,
                    StartApp \/ ChildExits \/ Stop \/ StopReturns \/ SpawnCancelled
             PROVE  SupervisorInv'
    OBVIOUS
<1> USE DEF SupervisorInv, SupervisorTypeOK, TaskStates, Reach, NoAppLeft
<1>1. CASE StartApp
    BY <1>1 DEF StartApp
<1>2. CASE ChildExits
    BY <1>2 DEF ChildExits
<1>3. CancelsTask =>
        /\ stopper' = "stopped"
        /\ task' \in {"none", "returned", "cancelled"}
        /\ task' = "cancelled" <=> task = "spawned"
    BY DEF CancelsTask
<1>4. CASE Stop
    <2>1. CASE held /\ child = "running"
        BY <1>4, <2>1 DEF Stop
    <2>2. CASE ~(held /\ child = "running")
        BY <1>3, <1>4, <2>2 DEF Stop
    <2> QED  BY <2>1, <2>2
<1>5. CASE StopReturns
    BY <1>3, <1>5 DEF StopReturns, Killed
<1>6. CASE SpawnCancelled
    BY <1>6 DEF SpawnCancelled
<1> QED  BY <1>1, <1>2, <1>4, <1>5, <1>6

\* The invariant says nothing of what is no variable of the supervisor.
LEMMA SupervisorStutter == SupervisorInv /\ UNCHANGED supervisor => SupervisorInv'
BY DEF supervisor, SupervisorInv, SupervisorTypeOK, Reach, NoAppLeft

\* Every variable of the supervisor keeps its type; the backoff stays between
\* its first value and its bound (ComputerSupervisor._run).
THEOREM SupervisorSafe == SupervisorSpec => [](SupervisorTypeOK /\ NoAppLeft)
<1>1. SupervisorInv /\ [SupervisorNext]_supervisor => SupervisorInv'
    BY TaskStepInv, StopStepInv, SupervisorStutter DEF SupervisorNext
<1>2. SupervisorInv => SupervisorTypeOK /\ NoAppLeft
    BY DEF SupervisorInv
<1> QED  BY SupervisorInitInv, <1>1, <1>2, PTL DEF SupervisorSpec

-----------------------------------------------------------------------------
(* The undo *)

\* The head holds what the undo took back, and no failure explains it.
Spoilt == Undone \in Range(head) /\ Range(head) \cap failed = {}

Past == {"rewound", "building", "queued", "running"}

UndoInv ==
    /\ \A r \in Requests : pc[r] \in {"unsent", "rewinding", "rewound"} => r \notin failed
    /\ Spoilt => /\ ~applied
                 /\ configuration.rewind
                 /\ \A r \in Requests : pc[r] \in Past => r \in failed
    /\ UndoneStaysUndone

\* What the undo's invariant is about.
undo == <<configuration, head, applied, failed, pc, base>>

-----------------------------------------------------------------------------
(* The supervisor within the sandbox *)

\* A harness that is started again begins with a supervisor of its own.
LEMMA FreshSupervisor ==
    ASSUME task' = "none", child' = "none", held' = FALSE, stopping' = FALSE,
           stopper' = "idle", backoff' = BackoffStart
    PROVE  SupervisorInv'
<1>1. BackoffStart \in BackoffStart..BackoffMax
    BY BackoffAssumption DEF BackoffAssumption
<1> QED  BY <1>1 DEF SupervisorInv, SupervisorTypeOK, TaskStates, Reach, NoAppLeft

\* Each step of the sandbox is one of the supervisor's, replaces it, or leaves
\* it alone.
LEMMA SupervisorStep == SupervisorInv /\ [Next]_vars => SupervisorInv'
<1> SUFFICES ASSUME SupervisorInv, [Next]_vars PROVE SupervisorInv'
    OBVIOUS
<1>1. ASSUME UNCHANGED supervisor PROVE SupervisorInv'
    BY <1>1, SupervisorStutter
<1>2. CASE Boot
    BY <1>1, <1>2 DEF Boot
<1>3. CASE Serve
    BY <1>1, <1>3, StopStepInv DEF Serve
<1>4. CASE Crash \/ Exit
    BY <1>4, FreshSupervisor DEF Crash, Exit, HarnessLost
<1>5. CASE Shutdown
    BY <1>5, StopStepInv DEF Shutdown
<1>6. CASE Supervise
    BY <1>6, TaskStepInv, StopStepInv DEF Supervise
<1>7. ASSUME NEW r \in Requests, Request(r) PROVE UNCHANGED supervisor
    BY <1>7 DEF Request, Arrive, Rewind, RewindReturns, RewindFails, Isolate, BuildFails, Built,
                Unlink, Link, Begin, ToolWrites, NoticeDelivered, End, KeepsRest, KeepsTurn
<1>8. CASE IntervalPasses
    BY <1>1, <1>8 DEF IntervalPasses, KeepsTurn
<1>9. CASE UNCHANGED vars
    BY <1>1, <1>9 DEF vars
<1> QED  BY <1>1, <1>2, <1>3, <1>4, <1>5, <1>6, <1>7, <1>8, <1>9 DEF Next

-----------------------------------------------------------------------------
(* Types *)

\* Everything of TypeOK that is not the supervisor's.
HarnessTypeOK ==
    /\ configuration \in Configurations
    /\ container \in {"down", "starting", "serving", "stopping"}
    /\ head \in Seq(Requests \cup {Undone})
    /\ applied \in BOOLEAN
    /\ session \in Requests \cup {None}
    /\ crashes \in 0..MaxCrashes
    /\ pc \in [Requests -> PCs]
    /\ lock \in [Requests -> Requests \cup {None}]
    /\ base \in [Requests -> Seq(Requests \cup {Undone})]
    /\ failed \subseteq Requests
    /\ build = None \/ build \subseteq Names
    /\ links \in [Names -> Requests \cup {None, Kept, Lost}]
    /\ tmp \subseteq Requests \X Names
    /\ throttle \in [recent : BOOLEAN, waiting : BOOLEAN]
    /\ unreported \in BOOLEAN
    /\ notices \in BOOLEAN
    /\ lastEnd \in {None, "done", "asked", "failed"}

\* A pod may start on any workspace and on a thread with an undo or without.
LEMMA HarnessInit == Init => HarnessTypeOK
<1> SUFFICES ASSUME Init PROVE HarnessTypeOK
    OBVIOUS
<1>1. head \in Seq(Requests \cup {Undone})
    <2>1. /\ <<Undone>> \in Seq(Requests \cup {Undone})
          /\ <<>> \in Seq(Requests \cup {Undone})
        OBVIOUS
    <2> QED  BY <2>1 DEF Init
<1>2. links \in [Names -> Requests \cup {None, Kept, Lost}]
    BY SandboxAssumption DEF SandboxAssumption, Init
<1>3. base \in [Requests -> Seq(Requests \cup {Undone})]
    BY DEF Init
<1>4. crashes \in 0..MaxCrashes
    BY SandboxAssumption DEF SandboxAssumption, Init
<1> QED  BY <1>1, <1>2, <1>3, <1>4 DEF Init, HarnessTypeOK, PCs, Unthrottled

\* The container's steps: what a process takes with it is set anew.
LEMMA ContainerType ==
    HarnessTypeOK /\ (Boot \/ Serve \/ Crash \/ Shutdown \/ Exit \/ Supervise) => HarnessTypeOK'
<1> SUFFICES ASSUME HarnessTypeOK, Boot \/ Serve \/ Crash \/ Shutdown \/ Exit \/ Supervise
             PROVE  HarnessTypeOK'
    OBVIOUS
<1> USE DEF HarnessTypeOK, Names
<1>1. CASE Boot \/ Serve \/ Shutdown \/ Supervise
    BY <1>1, ZenonT(60) DEF Boot, Serve, Shutdown, Supervise, harness, restore, turns, skills, reports
<1>2. ASSUME NEW kept \in BOOLEAN, HarnessLost(kept), crashes' \in 0..MaxCrashes
      PROVE  HarnessTypeOK'
    BY <1>2 DEF HarnessLost, PCs, Unthrottled
<1>3. CASE Crash
    <2>1. crashes' \in 0..MaxCrashes
        BY <1>3, SandboxAssumption DEF SandboxAssumption, Crash
    <2> QED  BY <1>2, <1>3, <2>1 DEF Crash
<1>4. CASE Exit
    BY <1>2, <1>4 DEF Exit
<1> QED  BY <1>1, <1>3, <1>4

\* A request's steps up to its turn.
LEMMA RequestType ==
    ASSUME HarnessTypeOK, NEW r \in Requests,
           \/ Arrive(r) \/ Rewind(r) \/ RewindReturns(r) \/ RewindFails(r)
           \/ Isolate(r) \/ BuildFails(r) \/ Built(r)
           \/ \E n \in Names : Unlink(r, n) \/ Link(r, n)
    PROVE  HarnessTypeOK'
<1> USE DEF HarnessTypeOK, PCs, KeepsRest, reports, restore, turns, skills
<1>1. ASSUME NEW stored \in Requests \cup {None}, Proceeds(r, stored), configuration' = configuration
      PROVE  /\ session' \in Requests \cup {None}
             /\ pc' \in [Requests -> PCs]
             /\ lock' \in [Requests -> Requests \cup {None}]
             /\ base' \in [Requests -> Seq(Requests \cup {Undone})]
             /\ build' = None \/ build' \subseteq Names'
             /\ links' \in [Names' -> Requests \cup {None, Kept, Lost}]
             /\ tmp' \subseteq Requests \X Names'
    BY <1>1, ZenonT(60) DEF Proceeds, Names
<1>2. CASE Arrive(r)
    <2>1. CASE applied \/ ~configuration.rewind
        BY <1>1, <1>2, <2>1 DEF Arrive
    <2>2. CASE ~(applied \/ ~configuration.rewind)
        BY <1>2, <2>2, ZenonT(60) DEF Arrive, Guarded, Names
    <2> QED  BY <2>1, <2>2
<1>3. CASE Rewind(r)
    BY <1>3 DEF Rewind, Names
<1>4. CASE RewindReturns(r)
    BY <1>1, <1>4 DEF RewindReturns
<1>5. CASE RewindFails(r)
    BY <1>1, <1>5 DEF RewindFails
<1>6. CASE Isolate(r)
    BY <1>6 DEF Isolate, Names
<1>7. CASE BuildFails(r)
    <2>1. configuration.skills \subseteq Names
        BY DEF Names
    <2> QED  BY <1>7, <2>1 DEF BuildFails, Names
<1>8. CASE Built(r)
    BY <1>8 DEF Built, Names
<1>9. ASSUME NEW n \in Names, Unlink(r, n) PROVE HarnessTypeOK'
    BY <1>9 DEF Unlink, Names
<1>10. ASSUME NEW n \in Names, Link(r, n) PROVE HarnessTypeOK'
    <2>1. links' \in [Names -> Requests \cup {None, Kept, Lost}]
        BY <1>10 DEF Link
    <2>2. build' \subseteq Names
        BY <1>10 DEF Link, Builds
    <2> QED  BY <1>10, <2>1, <2>2 DEF Link, Names
<1> QED  BY <1>2, <1>3, <1>4, <1>5, <1>6, <1>7, <1>8, <1>9, <1>10

\* The throttle's two flags, and the record with one of them set.
LEMMA ThrottleFields ==
    ASSUME NEW t \in [recent : BOOLEAN, waiting : BOOLEAN], NEW b \in BOOLEAN
    PROVE  /\ [t EXCEPT !.waiting = b] \in [recent : BOOLEAN, waiting : BOOLEAN]
           /\ [t EXCEPT !.recent = b] \in [recent : BOOLEAN, waiting : BOOLEAN]
OBVIOUS

\* A turn's steps.
LEMMA TurnType ==
    ASSUME HarnessTypeOK, NEW r \in Requests,
           \/ Begin(r) \/ ToolWrites(r) \/ NoticeDelivered(r)
           \/ \E how \in {"done", "asked", "failed"} : End(r, how)
    PROVE  HarnessTypeOK'
<1> USE DEF HarnessTypeOK, PCs, restore, turns, skills
<1>1. Noted => throttle' \in [recent : BOOLEAN, waiting : BOOLEAN] /\ unreported' \in BOOLEAN
    <2>1. [throttle EXCEPT !.waiting = TRUE] \in [recent : BOOLEAN, waiting : BOOLEAN]
        BY ThrottleFields
    <2>2. [recent |-> TRUE, waiting |-> FALSE] \in [recent : BOOLEAN, waiting : BOOLEAN]
        OBVIOUS
    <2> QED  BY <2>1, <2>2, Zenon DEF Noted
<1>2. CASE Begin(r)
    BY <1>1, <1>2 DEF Begin, Names
<1>3. CASE ToolWrites(r) \/ NoticeDelivered(r)
    BY <1>1, <1>3, ZenonT(60) DEF ToolWrites, NoticeDelivered, KeepsTurn, Names
<1>4. ASSUME NEW how \in {"done", "asked", "failed"}, End(r, how)
      PROVE  HarnessTypeOK'
    <2>1. head' \in Seq(Requests \cup {Undone})
        BY <1>4 DEF End
    <2>2. throttle' \in [recent : BOOLEAN, waiting : BOOLEAN] /\ unreported' \in BOOLEAN
        <3>1. CASE Flushes(how) /\ throttle.waiting
            <4>1. /\ throttle' = [recent |-> TRUE, waiting |-> FALSE]
                  /\ unreported' = FALSE
                BY <1>4, <3>1 DEF End, Flushed
            <4> QED  BY <4>1
        <3>2. CASE ~(Flushes(how) /\ throttle.waiting)
            BY <1>4, <3>2 DEF End, Flushed
        <3> QED  BY <3>1, <3>2
    <2> QED  BY <1>4, <2>1, <2>2 DEF End, Names
<1> QED  BY <1>2, <1>3, <1>4

\* TypeOK is inductive.
LEMMA TypeStep == TypeOK /\ SupervisorInv /\ [Next]_vars => TypeOK'
<1> SUFFICES ASSUME TypeOK, SupervisorInv, [Next]_vars PROVE TypeOK'
    OBVIOUS
<1>1. HarnessTypeOK
    BY DEF TypeOK, HarnessTypeOK
<1>2. HarnessTypeOK'
    <2>1. CASE UNCHANGED vars
        BY <1>1, <2>1 DEF vars, harness, restore, turns, skills, reports, HarnessTypeOK, Names
    <2>2. CASE Next
        <3>1. CASE Boot \/ Serve \/ Crash \/ Shutdown \/ Exit \/ Supervise
            BY <1>1, <3>1, ContainerType
        <3>2. ASSUME NEW r \in Requests, Request(r) PROVE HarnessTypeOK'
            BY <1>1, <3>2, RequestType, TurnType DEF Request
        <3>3. CASE IntervalPasses
            <4>1. throttle' \in [recent : BOOLEAN, waiting : BOOLEAN]
                BY <1>1, <3>3, ThrottleFields DEF IntervalPasses, HarnessTypeOK
            <4> QED  BY <1>1, <3>3, <4>1
                     DEF IntervalPasses, KeepsTurn, restore, turns, skills, HarnessTypeOK, Names
        <3> QED  BY <2>2, <3>1, <3>2, <3>3 DEF Next
    <2> QED  BY <2>1, <2>2
<1>3. SupervisorTypeOK'
    BY SupervisorStep DEF SupervisorInv
<1> QED  BY <1>2, <1>3 DEF TypeOK, HarnessTypeOK

-----------------------------------------------------------------------------
(* The rewind *)

\* What a thread holds after one more turn, and before any.
LEMMA RangeAppend ==
    ASSUME NEW S, NEW s \in Seq(S), NEW e \in S
    PROVE  Range(Append(s, e)) = Range(s) \cup {e}
<1>1. DOMAIN Append(s, e) = DOMAIN s \cup {Len(s) + 1}
    OBVIOUS
<1> QED  BY <1>1 DEF Range

LEMMA RangeEmpty == Range(<<>>) = {}
<1>1. DOMAIN <<>> = {}
    OBVIOUS
<1> QED  BY <1>1 DEF Range

\* The thread of a pod that was started for an undo holds what it takes back.
LEMMA UndoInit == Init => UndoInv
<1> SUFFICES ASSUME Init PROVE UndoInv
    OBVIOUS
<1>1. ~configuration.rewind => Undone \notin Range(head)
    BY DEF Init, Range
<1>2. \A r \in Requests : pc[r] = "unsent"
    BY DEF Init
<1> QED  BY <1>1, <1>2 DEF Init, UndoInv, Spoilt, Past, UndoneStaysUndone

\* The undo's invariant does not see the rest.
LEMMA UndoStutter == UndoInv /\ UNCHANGED undo => UndoInv'
BY DEF UndoInv, UndoneStaysUndone, Spoilt, undo

\* A process that ends takes _applied and the requests with it.
LEMMA UndoLost ==
    ASSUME HarnessTypeOK, UndoInv, NEW kept \in BOOLEAN, HarnessLost(kept)
    PROVE  UndoInv'
<1>1. \A r \in Requests :
        /\ pc'[r] \notin Past /\ pc'[r] # "rewinding"
        /\ pc'[r] = "unsent" => pc[r] = "unsent"
        /\ pc'[r] = "running" => pc[r] = "running"
    BY DEF HarnessLost, HarnessTypeOK, Past
<1>2. Spoilt' = Spoilt /\ applied' = FALSE /\ configuration' = configuration
    BY DEF HarnessLost, Spoilt
<1>3. UndoneStaysUndone'
    BY <1>1 DEF UndoInv, UndoneStaysUndone, HarnessLost
<1>4. \A r \in Requests : pc'[r] \in {"unsent", "rewinding", "rewound"} => r \notin failed'
    BY <1>1 DEF UndoInv, HarnessLost, Past
<1> QED  BY <1>1, <1>2, <1>3, <1>4 DEF UndoInv

\* A request that goes on after the rewind, with what is true of it.
LEMMA UndoProceeds ==
    ASSUME HarnessTypeOK, UndoInv, NEW r \in Requests,
           NEW stored, Proceeds(r, stored),
           UNCHANGED <<configuration, head>>,
           failed' \in {failed, failed \cup {r}},
           applied' \in BOOLEAN,
           Spoilt /\ ~(r \in failed') => FALSE,
           Spoilt /\ r \in failed' => applied' = applied
    PROVE  UndoInv'
<1>1. pc'[r] \in {"building", "queued"} /\ \A q \in Requests : q # r => pc'[q] = pc[q]
    BY DEF Proceeds, HarnessTypeOK
<1>2. base' = base
    BY DEF Proceeds
<1>3. Spoilt' => Spoilt
    BY DEF Spoilt
<1>4. \A q \in Requests : pc'[q] \in {"unsent", "rewinding", "rewound"} => q \notin failed'
    BY <1>1 DEF UndoInv
<1>5. UndoneStaysUndone'
    BY <1>1, <1>2 DEF UndoInv, UndoneStaysUndone
<1>6. Spoilt' => /\ ~applied'
                 /\ configuration'.rewind
                 /\ \A q \in Requests : pc'[q] \in Past => q \in failed'
    BY <1>1, <1>3 DEF UndoInv
<1> QED  BY <1>4, <1>5, <1>6 DEF UndoInv

\* A request up to its turn: it goes past the rewind only once the head holds
\* nothing undone, or with its own rewind failed.
LEMMA UndoRequest ==
    ASSUME HarnessTypeOK, UndoInv, NEW r \in Requests,
           \/ Arrive(r) \/ Rewind(r) \/ RewindReturns(r) \/ RewindFails(r)
           \/ BuildFails(r) \/ Built(r)
    PROVE  UndoInv'
<1> USE DEF restore, turns, skills
<1>1. CASE Arrive(r)
    <2>1. CASE applied \/ ~configuration.rewind
        <3>1. ~Spoilt
            BY <2>1 DEF UndoInv
        <3> QED  BY <1>1, <2>1, <3>1, UndoProceeds DEF Arrive, KeepsRest, HarnessTypeOK
    <2>2. CASE ~(applied \/ ~configuration.rewind)
        <3>1. UNCHANGED <<configuration, head, failed, base, applied>>
            BY <1>1, <2>2 DEF Arrive, Guarded, KeepsRest
        <3>2. pc[r] = "unsent" /\ pc'[r] = "rewinding" /\ \A q \in Requests : q # r => pc'[q] = pc[q]
            BY <1>1, <2>2 DEF Arrive, HarnessTypeOK
        <3> QED  BY <3>1, <3>2 DEF UndoInv, UndoneStaysUndone, Spoilt, Past
    <2> QED  BY <2>1, <2>2
<1>2. CASE Rewind(r)
    <2>1. Range(head') = {}
        BY <1>2, RangeEmpty DEF Rewind
    <2>2. UNCHANGED <<failed, base>>
        BY <1>2 DEF Rewind
    <2>3. pc[r] = "rewinding" /\ pc'[r] = "rewound" /\ \A q \in Requests : q # r => pc'[q] = pc[q]
        BY <1>2 DEF Rewind, HarnessTypeOK
    <2> QED  BY <2>1, <2>2, <2>3 DEF UndoInv, UndoneStaysUndone, Spoilt
<1>3. CASE RewindReturns(r)
    <2>1. ~Spoilt
        BY <1>3 DEF RewindReturns, UndoInv, Past
    <2> QED  BY <1>3, <2>1, UndoProceeds DEF RewindReturns, KeepsRest
<1>4. CASE RewindFails(r)
    BY <1>4, UndoProceeds DEF RewindFails, KeepsRest, HarnessTypeOK
<1>5. CASE BuildFails(r) \/ Built(r)
    <2>1. UNCHANGED <<configuration, head, applied, failed, base>>
        BY <1>5 DEF BuildFails, Built, KeepsRest
    <2>2. /\ pc[r] = "building" /\ pc'[r] \in {"refused", "queued"}
          /\ \A q \in Requests : q # r => pc'[q] = pc[q]
        BY <1>5 DEF BuildFails, Built, Builds, HarnessTypeOK
    <2> QED  BY <2>1, <2>2 DEF UndoInv, UndoneStaysUndone, Spoilt, Past
<1> QED  BY <1>1, <1>2, <1>3, <1>4, <1>5

\* A turn begins on the head, and its commit is the head: what is undone comes
\* back only with the failure that explains it.
LEMMA UndoTurn ==
    ASSUME HarnessTypeOK, UndoInv, NEW r \in Requests,
           Begin(r) \/ \E how \in {"done", "asked", "failed"} : End(r, how)
    PROVE  UndoInv'
<1> USE DEF restore, turns, skills
<1>1. CASE Begin(r)
    <2>1. UNCHANGED <<configuration, head, applied, failed>>
        BY <1>1 DEF Begin
    <2>2. /\ pc[r] = "queued" /\ pc'[r] = "running" /\ base'[r] = head
          /\ \A q \in Requests : q # r => pc'[q] = pc[q] /\ base'[q] = base[q]
        BY <1>1 DEF Begin, HarnessTypeOK
    <2>3. Undone \in Range(head) => (Range(head) \cup {r}) \cap failed # {}
        BY <2>2 DEF UndoInv, Spoilt, Past
    <2> QED  BY <2>1, <2>2, <2>3 DEF UndoInv, UndoneStaysUndone, Spoilt, Past
<1>2. ASSUME NEW how \in {"done", "asked", "failed"}, End(r, how)
      PROVE  UndoInv'
    <2>1. UNCHANGED <<configuration, applied, failed, base>>
        BY <1>2 DEF End
    <2>2. /\ pc[r] = "running" /\ pc'[r] = how
          /\ \A q \in Requests : q # r => pc'[q] = pc[q]
        BY <1>2 DEF End, HarnessTypeOK
    <2>3. Range(head') = Range(base[r]) \cup {r}
        <3>1. base[r] \in Seq(Requests \cup {Undone})
            BY DEF HarnessTypeOK
        <3> QED  BY <1>2, <3>1, RangeAppend DEF End
    <2>4. ~Spoilt'
        BY <2>1, <2>2, <2>3, SandboxAssumption
            DEF SandboxAssumption, Spoilt, UndoInv, UndoneStaysUndone
    <2> QED  BY <2>1, <2>2, <2>4 DEF UndoInv, UndoneStaysUndone
<1> QED  BY <1>1, <1>2

\* Every step keeps the undo's invariant.
LEMMA UndoStep == HarnessTypeOK /\ UndoInv /\ [Next]_vars => UndoInv'
<1> SUFFICES ASSUME HarnessTypeOK, UndoInv, [Next]_vars PROVE UndoInv'
    OBVIOUS
<1>1. ASSUME UNCHANGED undo PROVE UndoInv'
    BY <1>1, UndoStutter
<1>2. CASE Boot \/ Serve \/ Shutdown \/ Supervise
    BY <1>1, <1>2 DEF Boot, Serve, Shutdown, Supervise, harness, restore, turns, undo
<1>3. CASE Crash \/ Exit
    BY <1>3, UndoLost DEF Crash, Exit
<1>4. ASSUME NEW r \in Requests, Request(r) PROVE UndoInv'
    <2>1. CASE Isolate(r) \/ ToolWrites(r) \/ NoticeDelivered(r)
        BY <1>1, <2>1 DEF Isolate, ToolWrites, NoticeDelivered, KeepsRest, KeepsTurn, restore,
                          turns, undo
    <2>2. ASSUME NEW n \in Names, Unlink(r, n) \/ Link(r, n) PROVE UndoInv'
        BY <1>1, <2>2 DEF Unlink, Link, KeepsRest, restore, turns, undo
    <2> QED  BY <1>4, <2>1, <2>2, UndoRequest, UndoTurn DEF Request
<1>5. CASE IntervalPasses \/ UNCHANGED vars
    BY <1>1, <1>5 DEF IntervalPasses, KeepsTurn, harness, restore, turns, undo, vars
<1> QED  BY <1>2, <1>3, <1>4, <1>5 DEF Next

-----------------------------------------------------------------------------
(* The skill links *)

\* The session under construction is the only one, while no session is stored;
\* what is no longer to be linked leads to its copies already.
SkillInv ==
    /\ \A r \in Requests : pc[r] = "building" => build # None /\ session = None
    /\ \A q, r \in Requests : pc[q] = "building" /\ pc[r] = "building" => q = r
    /\ \A r \in Requests : pc[r] = "building" =>
          \A n \in Names \ build : <<r, n>> \in tmp /\ links[n] \in {r, Kept}
    /\ ShellSeesSkills

\* What the links' invariant is about.
linking == <<configuration, session, pc, skills>>

LEMMA NoneIsNoSet == ASSUME HarnessTypeOK PROVE None # Names
<1>1. Names \in SUBSET (configuration.skills \cup {Scratch})
    BY DEF Names
<1> QED  BY <1>1, SandboxAssumption DEF SandboxAssumption, HarnessTypeOK

LEMMA SkillInit == Init => SkillInv
BY DEF Init, SkillInv, ShellSeesSkills

\* Steps that build nothing and lead no request to a construction.
LEMMA SkillOther ==
    ASSUME SkillInv, UNCHANGED <<configuration, session, skills>>,
           \A r \in Requests : pc'[r] = "building" => pc[r] = "building"
    PROVE  SkillInv'
BY DEF SkillInv, ShellSeesSkills, skills, Names

LEMMA SkillLost ==
    ASSUME HarnessTypeOK, NEW kept \in BOOLEAN, HarnessLost(kept)
    PROVE  SkillInv'
<1>1. session' = None /\ \A r \in Requests : pc'[r] # "building"
    BY DEF HarnessLost, HarnessTypeOK
<1> QED  BY <1>1 DEF SkillInv, ShellSeesSkills

\* A request goes on, with the session in the store or with a construction.
LEMMA SkillProceeds ==
    ASSUME HarnessTypeOK, SkillInv, NEW r \in Requests, NEW stored \in {session, None},
           Serving, Proceeds(r, stored), configuration' = configuration
    PROVE  SkillInv'
<1>1. build = None /\ \A q \in Requests : pc[q] # "building"
    BY DEF Serving, SkillInv
<1>2. UNCHANGED <<links, tmp>> /\ Names' = Names /\ session' = stored
    BY DEF Proceeds, Names
<1>3. CASE stored = None
    <2>1. /\ build' = Names /\ None # Names
          /\ \A q \in Requests : pc'[q] = "building" => q = r
        BY <1>1, <1>3, NoneIsNoSet DEF Proceeds, HarnessTypeOK
    <2>2. Names \ build' = {}
        BY <2>1
    <2> QED  BY <1>2, <1>3, <2>1, <2>2 DEF SkillInv, ShellSeesSkills
<1>4. CASE stored # None
    <2>1. UNCHANGED <<session, build>> /\ \A q \in Requests : pc'[q] # "building"
        BY <1>1, <1>4 DEF Proceeds, HarnessTypeOK
    <2> QED  BY <1>2, <2>1 DEF SkillInv, ShellSeesSkills
<1> QED  BY <1>3, <1>4

\* The steps of a construction: a link is made only after its copy, and where
\* something else was only after that is removed.
LEMMA SkillBuilds ==
    ASSUME HarnessTypeOK, SkillInv, NEW r \in Requests,
           \/ Isolate(r) \/ BuildFails(r) \/ Built(r)
           \/ \E n \in Names : Unlink(r, n) \/ Link(r, n)
    PROVE  SkillInv'
<1>1. /\ pc[r] = "building" /\ build # None /\ session = None
      /\ \A q \in Requests : pc[q] = "building" => q = r
    BY DEF Isolate, BuildFails, Built, Unlink, Link, Builds, SkillInv
<1>2. configuration' = configuration /\ Names' = Names
    BY DEF Isolate, BuildFails, Built, Unlink, Link, KeepsRest, Names
<1>3. \A n \in Names \ build : <<r, n>> \in tmp /\ links[n] \in {r, Kept}
    BY <1>1 DEF SkillInv
<1>4. CASE Isolate(r)
    <2>1. UNCHANGED <<build, links, session, pc>> /\ tmp \subseteq tmp'
        BY <1>4 DEF Isolate, turns
    <2> QED  BY <1>1, <1>2, <1>3, <2>1 DEF SkillInv, ShellSeesSkills
<1>5. CASE BuildFails(r)
    <2>1. session' = None /\ \A q \in Requests : pc'[q] # "building"
        BY <1>1, <1>5 DEF BuildFails, HarnessTypeOK
    <2> QED  BY <2>1 DEF SkillInv, ShellSeesSkills
<1>6. CASE Built(r)
    <2>1. /\ build = {} /\ session' = r /\ UNCHANGED <<links, tmp>>
          /\ \A q \in Requests : pc'[q] # "building"
        BY <1>1, <1>6 DEF Built, HarnessTypeOK
    <2>2. \A n \in Names : <<r, n>> \in tmp /\ links[n] \in {r, Kept}
        BY <1>3, <2>1
    <2> QED  BY <1>2, <2>1, <2>2 DEF SkillInv, ShellSeesSkills
<1>7. ASSUME NEW n \in Names, Unlink(r, n) PROVE SkillInv'
    <2>1. UNCHANGED <<build, tmp, session, pc>> /\ n \in build
        BY <1>7 DEF Unlink, turns
    <2>2. \A m \in Names : m # n => links'[m] = links[m]
        BY <1>7 DEF Unlink, HarnessTypeOK
    <2>3. \A m \in Names \ build : <<r, m>> \in tmp /\ links'[m] \in {r, Kept}
        BY <1>3, <2>1, <2>2
    <2> QED  BY <1>1, <1>2, <2>1, <2>3 DEF SkillInv, ShellSeesSkills
<1>8. ASSUME NEW n \in Names, Link(r, n) PROVE SkillInv'
    <2>1. /\ UNCHANGED <<tmp, session, pc>> /\ build' = build \ {n}
          /\ <<r, n>> \in tmp /\ links[n] \in {None, Kept}
        BY <1>8 DEF Link, Stays, turns
    <2>2. \A m \in Names : links'[m] = IF m = n /\ links[m] = None THEN r ELSE links[m]
        BY <1>8 DEF Link, HarnessTypeOK
    <2>3. \A m \in Names \ build' : <<r, m>> \in tmp /\ links'[m] \in {r, Kept}
        <3> TAKE m \in Names \ build'
        <3>1. CASE m = n
            BY <3>1, <2>1, <2>2
        <3>2. CASE m # n
            BY <3>2, <1>3, <2>1, <2>2
        <3> QED  BY <3>1, <3>2
    <2>4. build' # None
        <3>1. build \in SUBSET Names
            BY <1>1 DEF HarnessTypeOK
        <3>2. build' \in SUBSET (configuration.skills \cup {Scratch})
            BY <3>1, <2>1 DEF Names
        <3> QED  BY <3>2, SandboxAssumption DEF SandboxAssumption, HarnessTypeOK
    <2> QED  BY <1>1, <1>2, <2>1, <2>3, <2>4 DEF SkillInv, ShellSeesSkills
<1> QED  BY <1>4, <1>5, <1>6, <1>7, <1>8

\* Every step keeps the links' invariant.
LEMMA SkillStep == HarnessTypeOK /\ SkillInv /\ [Next]_vars => SkillInv'
<1> SUFFICES ASSUME HarnessTypeOK, SkillInv, [Next]_vars PROVE SkillInv'
    OBVIOUS
<1> USE DEF restore, turns
<1>1. ASSUME UNCHANGED linking PROVE SkillInv'
    BY <1>1, SkillOther DEF linking
<1>2. CASE Boot \/ Serve \/ Shutdown \/ Supervise \/ IntervalPasses \/ UNCHANGED vars
    BY <1>1, <1>2 DEF Boot, Serve, Shutdown, Supervise, IntervalPasses, KeepsTurn, vars, harness, linking
<1>3. CASE Crash \/ Exit
    BY <1>3, SkillLost DEF Crash, Exit
<1>4. ASSUME NEW r \in Requests, Request(r) PROVE SkillInv'
    <2>1. CASE Isolate(r) \/ BuildFails(r) \/ Built(r) \/ \E n \in Names : Unlink(r, n) \/ Link(r, n)
        BY <2>1, SkillBuilds
    <2>2. CASE ToolWrites(r) \/ NoticeDelivered(r)
        BY <1>1, <2>2 DEF ToolWrites, NoticeDelivered, KeepsTurn, linking
    <2>3. CASE Rewind(r) \/ Begin(r) \/ \E how \in {"done", "asked", "failed"} : End(r, how)
        <3>1. UNCHANGED <<configuration, session, skills>>
            BY <2>3 DEF Rewind, Begin, End, KeepsRest
        <3>2. \A q \in Requests : pc'[q] = "building" => pc[q] = "building"
            BY <2>3 DEF Rewind, Begin, End, HarnessTypeOK
        <3> QED  BY <3>1, <3>2, SkillOther
    <2>4. CASE Arrive(r)
        <3>1. CASE applied \/ ~configuration.rewind
            BY <2>4, <3>1, SkillProceeds DEF Arrive, KeepsRest
        <3>2. CASE ~(applied \/ ~configuration.rewind)
            <4>1. UNCHANGED <<configuration, session, skills>>
                BY <2>4, <3>2 DEF Arrive, KeepsRest
            <4>2. \A q \in Requests : pc'[q] = "building" => pc[q] = "building"
                BY <2>4, <3>2 DEF Arrive, HarnessTypeOK
            <4> QED  BY <4>1, <4>2, SkillOther
        <3> QED  BY <3>1, <3>2
    <2>5. CASE RewindReturns(r) \/ RewindFails(r)
        BY <2>5, SkillProceeds DEF RewindReturns, RewindFails, KeepsRest
    <2> QED  BY <1>4, <2>1, <2>2, <2>3, <2>4, <2>5 DEF Request
<1> QED  BY <1>2, <1>3, <1>4 DEF Next

-----------------------------------------------------------------------------
(* The reports of workspace changes *)

\* A change that was noted and not reported is held back by the throttle, where
\* the turn's end finds it, unless messages were missed.
ReportInv ==
    /\ ~notices /\ unreported => throttle.waiting
    /\ LastWriteReported

\* What the reports' invariant is about.
reporting == <<pc, throttle, unreported, notices, lastEnd>>

LEMMA ReportInit == Init => ReportInv
BY DEF Init, ReportInv, LastWriteReported

LEMMA NotedWaits ==
    ASSUME HarnessTypeOK, Noted
    PROVE  unreported' => throttle'.waiting
<1>1. throttle \in [recent : BOOLEAN, waiting : BOOLEAN]
    BY DEF HarnessTypeOK
<1>2. [throttle EXCEPT !.waiting = TRUE].waiting
    BY <1>1
<1> QED  BY <1>2, Zenon DEF Noted

\* Every step keeps the reports' invariant.
LEMMA ReportStep == HarnessTypeOK /\ ReportInv /\ [Next]_vars => ReportInv'
<1> SUFFICES ASSUME HarnessTypeOK, ReportInv, [Next]_vars PROVE ReportInv'
    OBVIOUS
<1> USE DEF turns
<1>1. ASSUME UNCHANGED <<throttle, unreported, notices, lastEnd>>,
             \A r \in Requests : pc[r] = "running" => pc'[r] = "running"
      PROVE  ReportInv'
    BY <1>1 DEF ReportInv, LastWriteReported
<1>2. CASE Boot \/ Serve \/ Shutdown \/ Supervise \/ UNCHANGED vars
    BY <1>1, <1>2 DEF Boot, Serve, Shutdown, Supervise, vars, harness, reports
<1>3. CASE Crash \/ Exit
    <2>1. unreported' = FALSE
        BY <1>3 DEF Crash, Exit, HarnessLost
    <2> QED  BY <2>1 DEF ReportInv, LastWriteReported
<1>4. CASE IntervalPasses
    <2>1. UNCHANGED <<unreported, notices, lastEnd, pc>> /\ (throttle'.waiting <=> throttle.waiting)
        <3>1. throttle \in [recent : BOOLEAN, waiting : BOOLEAN]
            BY DEF HarnessTypeOK
        <3>2. [throttle EXCEPT !.recent = FALSE].waiting = throttle.waiting
            BY <3>1
        <3> QED  BY <1>4, <3>2 DEF IntervalPasses, KeepsTurn
    <2> QED  BY <2>1 DEF ReportInv, LastWriteReported
<1>5. ASSUME NEW r \in Requests, Request(r) PROVE ReportInv'
    <2>1. CASE \/ Arrive(r) \/ Rewind(r) \/ RewindReturns(r) \/ RewindFails(r)
               \/ Isolate(r) \/ BuildFails(r) \/ Built(r)
               \/ \E n \in Names : Unlink(r, n) \/ Link(r, n)
        <3>1. UNCHANGED <<throttle, unreported, notices, lastEnd>>
            BY <2>1 DEF Arrive, Rewind, RewindReturns, RewindFails, Isolate, BuildFails, Built,
                        Unlink, Link, KeepsRest, reports
        <3>2. \A q \in Requests : pc[q] = "running" => pc'[q] = "running"
            BY <2>1 DEF Arrive, Rewind, RewindReturns, RewindFails, Isolate, BuildFails, Built,
                        Unlink, Link, Builds, Proceeds, HarnessTypeOK
        <3> QED  BY <1>1, <3>1, <3>2
    <2>2. CASE Begin(r)
        <3>1. pc'[r] = "running" /\ UNCHANGED notices
            BY <2>2 DEF Begin, HarnessTypeOK
        <3>2. Noted \/ UNCHANGED <<throttle, unreported>>
            BY <2>2 DEF Begin
        <3>3. ~notices' /\ unreported' => throttle'.waiting
            BY <3>1, <3>2, NotedWaits DEF ReportInv
        <3> QED  BY <3>1, <3>3 DEF ReportInv, LastWriteReported
    <2>3. CASE ToolWrites(r) \/ NoticeDelivered(r)
        <3>1. pc'[r] = "running"
            BY <2>3 DEF ToolWrites, NoticeDelivered, Running, KeepsTurn
        <3>2. ~notices' /\ unreported' => throttle'.waiting
            <4>1. CASE ToolWrites(r)
                BY <4>1, NotedWaits DEF ToolWrites
            <4>2. CASE NoticeDelivered(r)
                BY <4>2 DEF NoticeDelivered
            <4> QED  BY <2>3, <4>1, <4>2
        <3> QED  BY <3>1, <3>2 DEF ReportInv, LastWriteReported
    <2>4. ASSUME NEW how \in {"done", "asked", "failed"}, End(r, how)
          PROVE  ReportInv'
        <3>1. Flushed(how) /\ lastEnd' = how /\ UNCHANGED notices
            BY <2>4 DEF End
        <3>2. CASE Flushes(how) /\ throttle.waiting
            <4>1. unreported' = FALSE
                BY <3>1, <3>2 DEF Flushed
            <4> QED  BY <4>1 DEF ReportInv, LastWriteReported
        <3>3. CASE ~(Flushes(how) /\ throttle.waiting)
            <4>1. UNCHANGED <<throttle, unreported>>
                BY <3>1, <3>3 DEF Flushed
            <4>2. ~notices' /\ unreported' => ~Flushes(how)
                BY <3>1, <3>3, <4>1 DEF ReportInv
            <4>3. lastEnd' \in {"done", "asked"} => Flushes(how)
                BY <3>1 DEF Flushes
            <4> QED  BY <3>1, <4>1, <4>2, <4>3 DEF ReportInv, LastWriteReported
        <3> QED  BY <3>2, <3>3
    <2> QED  BY <1>5, <2>1, <2>2, <2>3, <2>4 DEF Request
<1> QED  BY <1>2, <1>3, <1>4, <1>5 DEF Next

-----------------------------------------------------------------------------
(* Theorems *)

\* All invariants together.
IInv == TypeOK /\ SupervisorInv /\ UndoInv /\ SkillInv /\ ReportInv

LEMMA Invariant == Spec => []IInv
<1>1. Init => IInv
    <2> SUFFICES ASSUME Init PROVE IInv
        OBVIOUS
    <2>1. HarnessTypeOK /\ UndoInv
        BY HarnessInit, UndoInit
    <2>2. SupervisorInv
        BY SupervisorInitInv DEF Init
    <2> QED  BY <2>1, <2>2, SkillInit, ReportInit DEF IInv, TypeOK, HarnessTypeOK, SupervisorInv
<1>2. IInv /\ [Next]_vars => IInv'
    <2> SUFFICES ASSUME IInv, [Next]_vars PROVE IInv'
        OBVIOUS
    <2>1. HarnessTypeOK
        BY DEF IInv, TypeOK, HarnessTypeOK
    <2> QED  BY <2>1, TypeStep, SupervisorStep, UndoStep, SkillStep, ReportStep DEF IInv
<1> QED  BY <1>1, <1>2, PTL DEF Spec

\* Every variable keeps its type, through crashes and restarts.
THEOREM TypeCorrect == Spec => []TypeOK
<1>1. IInv => TypeOK
    BY DEF IInv
<1> QED  BY <1>1, Invariant, PTL

\* No turn begins on what the undo took back, unless a rewind failed, however
\* many requests come around the rewind and however often the container is
\* started again (apply_pending_agent_restore).
THEOREM StaysUndone == Spec => []UndoneStaysUndone
<1>1. IInv => UndoneStaysUndone
    BY DEF IInv, UndoInv
<1> QED  BY <1>1, Invariant, PTL

\* A supervisor that has been stopped leaves no app, in a container that may be
\* stopped while a start, a pause or the app itself is under way
\* (ComputerSupervisor.stop).
THEOREM Stopped == Spec => []NoAppLeft
<1>1. IInv => NoAppLeft
    BY DEF IInv, SupervisorInv
<1> QED  BY <1>1, Invariant, PTL

\* Each stable link of the stored session leads to the session's own copy, which
\* exists, whatever an earlier session, a crash between two steps of a
\* construction or a restored workspace left at its place (SkillRouter, Session).
THEOREM LinksLead == Spec => []ShellSeesSkills
<1>1. IInv => ShellSeesSkills
    BY DEF IInv, SkillInv
<1> QED  BY <1>1, Invariant, PTL

\* No change noted is held back once the turns have ended, for any order of
\* writes, ends and the throttle's interval (note_tool_finished,
\* flush_workspace_change).
THEOREM WritesReported == Spec => []LastWriteReported
<1>1. IInv => LastWriteReported
    BY DEF IInv, ReportInv
<1> QED  BY <1>1, Invariant, PTL
=============================================================================
