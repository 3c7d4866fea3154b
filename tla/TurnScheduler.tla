--------------------------- MODULE TurnScheduler ---------------------------
(***************************************************************************)
(* How the harness runs the turns of one session (api/routers/sessions.py  *)
(* with Session.async_run_turn and the outline of                          *)
(* ExecutionManager.async_execute).                                        *)
(*                                                                         *)
(* Everything here runs on one asyncio event loop, so the code between two *)
(* awaits is one action.  The processes are the HTTP requests, the turn    *)
(* tasks and wake-up tasks they create, the user pressing stop, and the    *)
(* background jobs, which run elsewhere.  Sessions share nothing, so one   *)
(* session is modelled.                                                    *)
(*                                                                         *)
(* A request names everything that is created for it: request r creates    *)
(* turn task r and, when session_store has no entry, SessionState r.  The  *)
(* publishers of the turns and what they write are TurnStream's.  The      *)
(* session's agent carries the job-reporting and the computer-report       *)
(* middleware (star and composite topologies; an acrylic graph has no      *)
(* computer-report middleware).                                            *)
(***************************************************************************)
EXTENDS Integers, Sequences, FiniteSets

CONSTANTS
    Requests,      \* POST /session/{id}/message requests
    Wakes,         \* ids for wake-up tasks (bounds how many are created)
    Jobs,          \* background jobs the agent may start
    Kinds,         \* the kinds of request the clients send
    None,          \* Python's None
    MaxReports,    \* bound on the computer's reports
    MaxFails,      \* bound on exceptions
    MaxCancels,    \* bound on POST /session/{id}/cancel
    MaxBreaks,     \* bound on both together
    MaxRestores    \* bound on restores of an earlier checkpoint

(***************************************************************************)
(* text: words or attachments; answer: a resume_payload and no words;      *)
(* empty: neither (a client opening the session); started: a job/started   *)
(* notice; notice: any other system notice, the computer's reports         *)
(* included; restore: restore_checkpoint_id alone; restoretext: it, with   *)
(* words.                                                                  *)
(***************************************************************************)
AllKinds == {"text", "answer", "empty", "notice", "started", "restore", "restoretext"}

Tasks == Requests \cup Wakes

ASSUME ConstantsAssumption ==
    /\ None \notin Requests \cup Wakes
    /\ Requests \cap Wakes = {}
    /\ Kinds \subseteq AllKinds
    /\ MaxReports \in Nat
    /\ MaxFails \in Nat
    /\ MaxCancels \in Nat
    /\ MaxBreaks \in Nat
    /\ MaxRestores \in Nat

VARIABLES
    kind,        \* what request r turned out to be; "unsent" before it arrives
    restoring,   \* requests suspended in apply_checkpoint_restore
    store,       \* the SessionState in session_store, or None
    task,        \* SessionState.task
    holder,      \* the task inside SessionState.turn_lock
    waiters,     \* the tasks queued on SessionState.turn_lock, first in first out
    resume,      \* Session.resume_payload: the request that brought it
    ready,       \* tasks created and not yet started, in the event loop's order
    pc,          \* where each task is
    owner,       \* the SessionState a task was given
    input,       \* what the graph run of a task is fed
    called,      \* tasks whose run has reached its first model call
    cancelled,   \* tasks with a cancellation not yet delivered
    head,        \* the thread's latest checkpoint
    ckpts,       \* every checkpoint committed so far
    job,         \* each job's own run
    reports,     \* how many computer reports the session's notice rows hold
    delivered,   \* requests whose words or answer entered the graph
    fails, cancels, restores

requestVars == <<kind, restoring, reports>>
sessionVars == <<store, resume>>
taskVars    == <<task, pc, owner, ready>>
lockVars    == <<holder, waiters>>
runVars     == <<input, called>>
graphVars   == <<head, ckpts, job, delivered>>
counters    == <<fails, cancels, restores>>

vars == <<requestVars, sessionVars, taskVars, lockVars, runVars, cancelled, graphVars, counters>>

Ended == {"done", "failed", "cancelled"}

\* The places where a task is inside `async with state.turn_lock`.
Holding == {"preparing", "running", "checking", "report", "nothing"}

PCs == {"none", "created", "waiting"} \cup Holding \cup Ended

\* What the checkpoint of a thread holds, as far as turns depend on it: a
\* pending interrupt write, the pending_jobs channel, in its messages the jobs
\* whose outcome the agent has been told, and the mark of the computer's
\* reports it has read (computer_reports_seen).
Checkpoint == [question : BOOLEAN, pending : SUBSET Jobs, told : SUBSET Jobs,
               seen : 0..MaxReports]

NoInput == [mode |-> "none", from |-> None]

Inputs == [mode : {"none", "human", "answer", "nothing"}, from : Requests \cup {None}]

Live(t) == t # None /\ pc[t] \notin Ended \cup {"none"}

TypeOK ==
    /\ kind \in [Requests -> AllKinds \cup {"unsent", "refused"}]
    /\ restoring \in SUBSET Requests
    /\ store \in Requests \cup {None}
    /\ task \in [Requests -> Tasks \cup {None}]
    /\ holder \in [Requests -> Tasks \cup {None}]
    /\ waiters \in [Requests -> Seq(Tasks)]
    /\ resume \in [Requests -> Requests \cup {None}]
    /\ ready \in Seq(Tasks)
    /\ pc \in [Tasks -> PCs]
    /\ owner \in [Tasks -> Requests \cup {None}]
    /\ input \in [Tasks -> Inputs]
    /\ called \in SUBSET Tasks
    /\ cancelled \in SUBSET Tasks
    /\ head \in Checkpoint
    /\ ckpts \in SUBSET Checkpoint
    /\ job \in [Jobs -> {"unstarted", "running", "finished"}]
    /\ reports \in 0..MaxReports
    /\ delivered \in SUBSET Requests
    /\ fails \in 0..MaxFails
    /\ cancels \in 0..MaxCancels
    /\ restores \in 0..MaxRestores

Finished == {j \in Jobs : job[j] = "finished"}

-----------------------------------------------------------------------------
(***************************************************************************)
(* A harness process that has just started, on a thread with a history: a  *)
(* question may be open and jobs may be pending, running or finished; the  *)
(* computer's reports are counted from the last one read.                  *)
(***************************************************************************)
Init ==
    /\ kind = [r \in Requests |-> "unsent"]
    /\ restoring = {}
    /\ store = None
    /\ task = [s \in Requests |-> None]
    /\ holder = [s \in Requests |-> None]
    /\ waiters = [s \in Requests |-> <<>>]
    /\ resume = [s \in Requests |-> None]
    /\ ready = <<>>
    /\ pc = [t \in Tasks |-> "none"]
    /\ owner = [t \in Tasks |-> None]
    /\ input = [t \in Tasks |-> NoInput]
    /\ called = {}
    /\ cancelled = {}
    /\ job \in [Jobs -> {"unstarted", "running", "finished"}]
    /\ \E q \in BOOLEAN :
         head = [question |-> q,
                 pending |-> {j \in Jobs : job[j] # "unstarted"},
                 told |-> {},
                 seen |-> 0]
    /\ ckpts = {head}
    /\ reports = 0
    /\ delivered = {}
    /\ fails = 0
    /\ cancels = 0
    /\ restores = 0

-----------------------------------------------------------------------------
(* Helpers of the handlers *)

Commit(cp) ==
    /\ head' = cp
    /\ ckpts' = ckpts \cup {cp}

\* q without its first t; the queues hold a task at most once.
Without(q, t) ==
    IF \E i \in 1..Len(q) : q[i] = t
    THEN LET i == CHOOSE i \in 1..Len(q) : q[i] = t
         IN  SubSeq(q, 1, i - 1) \o SubSeq(q, i + 1, Len(q))
    ELSE q

\* _schedule_wake: nothing when SessionState.task is not done, else a new
\* wake-up task.  tk and p are task and pc as the caller has already changed
\* them.
ScheduleWake(s, tk, p) ==
    LET busy == tk[s] # None /\ p[tk[s]] \notin Ended \cup {"none"}
        free == {w \in Wakes : p[w] = "none"}
        w == CHOOSE x \in free : TRUE
    IN  IF busy
        THEN /\ task' = tk
             /\ pc' = p
             /\ UNCHANGED <<owner, ready>>
        ELSE /\ free # {}
             /\ task' = [tk EXCEPT ![s] = w]
             /\ pc' = [p EXCEPT ![w] = "created"]
             /\ owner' = [owner EXCEPT ![w] = s]
             /\ ready' = Append(ready, w)

\* state.task = asyncio.create_task(_run_turn_async(...)), whatever the task
\* it replaces is doing.
CreateTurn(r, s) ==
    /\ task' = [task EXCEPT ![s] = r]
    /\ pc' = [pc EXCEPT ![r] = "created"]
    /\ owner' = [owner EXCEPT ![r] = s]
    /\ ready' = Append(ready, r)

-----------------------------------------------------------------------------
(* handle_message *)

\* handle_message from the session_store lookup to its end; current is the
\* entry it finds there.
Dispatch(r, k, current) ==
    LET s == IF current = None THEN r ELSE current IN
    /\ store' = s
    /\ resume' = IF k = "answer" THEN [resume EXCEPT ![s] = r] ELSE resume
    /\ \/ k \in {"text", "answer", "restoretext"} /\ CreateTurn(r, s)
       \/ k = "notice" /\ ScheduleWake(s, task, pc)
       \/ k = "empty" /\ current = None /\ ScheduleWake(s, task, pc)
       \/ k = "empty" /\ current # None /\ UNCHANGED taskVars
    /\ UNCHANGED <<lockVars, runVars, cancelled, graphVars, counters>>

\* A request that restores nothing.  apply_pending_agent_restore does not
\* suspend in a process that was not started to restore a checkpoint.
HandleMessage(r) ==
    \E k \in Kinds \cap {"text", "answer", "empty"} :
        /\ kind[r] = "unsent"
        /\ kind' = [kind EXCEPT ![r] = k]
        /\ Dispatch(r, k, store)
        /\ UNCHANGED <<restoring, reports>>

\* A system notice asks for a wake-up whatever it says: a report of the computer,
\* which the agent reads in the notice's row; a job's completion or failure, which
\* the job's run has recorded already, sent once or again; or anything else.
HandleNotice(r) ==
    /\ "notice" \in Kinds
    /\ kind[r] = "unsent"
    /\ kind' = [kind EXCEPT ![r] = "notice"]
    /\ \/ reports < MaxReports /\ reports' = reports + 1
       \/ UNCHANGED reports
    /\ Dispatch(r, "notice", store)
    /\ UNCHANGED restoring

\* A job/started notice writes its chat row and returns.
HandleStarted(r) ==
    /\ "started" \in Kinds
    /\ kind[r] = "unsent"
    /\ kind' = [kind EXCEPT ![r] = "started"]
    /\ UNCHANGED <<restoring, reports, sessionVars, taskVars, lockVars, runVars, cancelled,
                   graphVars, counters>>

\* The first part of a restore, up to the checkpointer's last await: the
\* target is copied to a new checkpoint, which becomes the head.  A pending
\* interrupt is a write attached to the old checkpoint and is not copied.
RestoreApplies(r) ==
    /\ restores < MaxRestores
    /\ kind[r] = "unsent"
    /\ \E k \in Kinds \cap {"restore", "restoretext"} : kind' = [kind EXCEPT ![r] = k]
    /\ \E c \in ckpts : Commit([c EXCEPT !.question = FALSE])
    /\ restoring' = restoring \cup {r}
    /\ restores' = restores + 1
    /\ UNCHANGED <<reports, sessionVars, taskVars, lockVars, runVars, cancelled, job,
                   delivered, fails, cancels>>

\* The rest of it: session_store.pop, and the turn when there are words and a
\* Session accepts the agent definition.
RestoreReturns(r) ==
    /\ r \in restoring
    /\ restoring' = restoring \ {r}
    /\ \/ /\ store' = None
          /\ UNCHANGED <<resume, taskVars, lockVars, runVars, cancelled, graphVars,
                         counters>>
       \/ /\ kind[r] = "restoretext"
          /\ Dispatch(r, kind[r], None)
    /\ UNCHANGED <<kind, reports>>

\* A request answered with 400 before it changes anything: no workspace id, a
\* restore target that does not exist, an agent definition no Session accepts.
RefuseRequest(r) ==
    /\ kind[r] = "unsent"
    /\ kind' = [kind EXCEPT ![r] = "refused"]
    /\ UNCHANGED <<restoring, reports, sessionVars, taskVars, lockVars, runVars, cancelled,
                   graphVars, counters>>

\* cancel_session: cancels SessionState.task, the last task created.
CancelSession ==
    /\ cancels < MaxCancels
    /\ fails + cancels < MaxBreaks
    /\ store # None
    /\ Live(task[store])
    /\ cancelled' = cancelled \cup {task[store]}
    /\ cancels' = cancels + 1
    /\ UNCHANGED <<requestVars, sessionVars, taskVars, lockVars, runVars, graphVars, fails,
                   restores>>

-----------------------------------------------------------------------------
(* The tasks: _run_turn_async and _wake_async *)

\* A task can take its next step: no cancellation waits to be thrown into it.
Runs(t, where) == pc[t] = where /\ t \notin cancelled

\* The first step of a task, in the order of creation.
Start(t) ==
    /\ Runs(t, "created")
    /\ ready # <<>> /\ Head(ready) = t
    /\ ready' = Tail(ready)
    /\ pc' = [pc EXCEPT ![t] = "waiting"]
    /\ waiters' = [waiters EXCEPT ![owner[t]] = Append(@, t)]
    /\ UNCHANGED <<requestVars, sessionVars, task, owner, holder, input, called, cancelled,
                   graphVars, counters>>

LockFree(s) == holder[s] = None

\* asyncio.Lock wakes its waiters in order.
Acquire(t) ==
    LET s == owner[t] IN
    /\ Runs(t, "waiting")
    /\ LockFree(s)
    /\ waiters[s] # <<>> /\ Head(waiters[s]) = t
    /\ holder' = [holder EXCEPT ![s] = t]
    /\ waiters' = [waiters EXCEPT ![s] = Tail(@)]
    /\ pc' = [pc EXCEPT ![t] = IF t \in Requests THEN "preparing" ELSE "checking"]
    /\ UNCHANGED <<requestVars, sessionVars, task, owner, ready, runVars, cancelled,
                   graphVars, counters>>

\* Mutated: plain words on a paused graph start a fresh run, as before
\* _resume_from_pending_interrupt.
BuildInput_NoFallback(t, res) ==
    LET words == t \in Requests /\ kind[t] \in {"text", "restoretext"} IN
    CASE res # None /\ head.question -> [mode |-> "answer", from |-> res]
      [] words -> [mode |-> "human", from |-> t]
      [] OTHER -> [mode |-> "nothing", from |-> None]

\* Mutated: words become a resume without has_pending_question being asked;
\* on a finished graph that is a silent no-op.
BuildInput_AlwaysResume(t, res) ==
    LET words == t \in Requests /\ kind[t] \in {"text", "restoretext"} IN
    CASE res # None /\ head.question -> [mode |-> "answer", from |-> res]
      [] res = None /\ words /\ head.question -> [mode |-> "answer", from |-> t]
      [] OTHER -> [mode |-> "nothing", from |-> None]

\* Mutated: a wake-up is fed a human message of its own.
BuildInput_WakeSpeaks(t, res) ==
    LET words == t \in Wakes \/ kind[t] \in {"text", "restoretext"} IN
    CASE res # None /\ head.question -> [mode |-> "answer", from |-> res]
      [] res = None /\ words /\ head.question -> [mode |-> "answer", from |-> t]
      [] words /\ ~head.question -> [mode |-> "human", from |-> t]
      [] OTHER -> [mode |-> "nothing", from |-> None]

\* _build_resume_input.  res is the resume payload this run consumed; a client's
\* payload carries decisions.  Only a text request has words of its own.
BuildInput(t, res) ==
    LET words == t \in Requests /\ kind[t] \in {"text", "restoretext"} IN
    CASE res # None /\ head.question -> [mode |-> "answer", from |-> res]
      [] res = None /\ words /\ head.question -> [mode |-> "answer", from |-> t]
      [] words /\ ~head.question -> [mode |-> "human", from |-> t]
      [] OTHER -> [mode |-> "nothing", from |-> None]

\* Session.async_run_turn from consume_resume to the start of the graph run.
BeginRun(t) ==
    LET s == owner[t] IN
    /\ pc' = [pc EXCEPT ![t] = "running"]
    /\ input' = [input EXCEPT ![t] = BuildInput(t, resume[s])]
    /\ resume' = [resume EXCEPT ![s] = None]

\* A turn's attachments have been downloaded and its graph run begins.
Begin(t) ==
    /\ Runs(t, "preparing")
    /\ BeginRun(t)
    /\ UNCHANGED <<requestVars, store, task, owner, ready, lockVars, called,
                   cancelled, graphVars, counters>>

\* has_unread_reports, from the mark in the checkpoint.
UnreadReports == head.seen < reports

\* Mutated: the check does not look for a pending interrupt.
SomethingToReport_OnPaused == head.pending \cap Finished # {} \/ UnreadReports

\* Mutated: the check does not ask whether the pending jobs have finished.
SomethingToReport_AnyPending == ~head.question /\ (head.pending # {} \/ UnreadReports)

\* has_something_to_report: no question open, and a pending job has finished or
\* the computer sent a report the agent has not read.
SomethingToReport == ~head.question /\ (head.pending \cap Finished # {} \/ UnreadReports)

\* The wake-up check reads the checkpoint, then the jobs' runs, then the notice
\* rows; its answer is used after the last await.  One step, because jobs only
\* finish and rows are only added.  A check that raises answers no.
CheckReads(w) ==
    /\ Runs(w, "checking")
    /\ \/ /\ pc' = [pc EXCEPT ![w] = IF SomethingToReport THEN "report" ELSE "nothing"]
          /\ UNCHANGED fails
       \/ /\ fails < MaxFails
          /\ fails + cancels < MaxBreaks
          /\ pc' = [pc EXCEPT ![w] = "nothing"]
          /\ fails' = fails + 1
    /\ UNCHANGED <<requestVars, sessionVars, task, owner, ready, lockVars, runVars, cancelled,
                   graphVars, cancels, restores>>

\* The wake-up run begins: no await separates the check's answer from
\* consume_resume.
BeginWake(w) ==
    /\ Runs(w, "report")
    /\ BeginRun(w)
    /\ UNCHANGED <<requestVars, store, task, owner, ready, lockVars, called, cancelled,
                   graphVars, counters>>

-----------------------------------------------------------------------------
(* The graph run: what it commits, as far as turns depend on it *)

\* The run was built to resume a question, and a restore has taken the question
\* back since: Command(resume) on a finished graph does nothing.
NothingToResume(t) == t \notin called /\ input[t].mode = "answer" /\ ~head.question

\* The reporting steps before a model call: the outcomes of finished jobs and the
\* computer's reports.  The first one of a run also commits the run's input, and
\* any new input closes an open question: it answers it or abandons it.
ModelCall(t) ==
    /\ Runs(t, "running")
    /\ ~NothingToResume(t)
    /\ Commit([question |-> head.question /\ t \in called,
               pending |-> head.pending \ Finished,
               told |-> head.told \cup (head.pending \cap Finished),
               seen |-> reports])
    /\ called' = called \cup {t}
    /\ delivered' = delivered \cup ({input[t].from} \ {None})
    /\ UNCHANGED <<requestVars, sessionVars, taskVars, lockVars, input, cancelled, job,
                   counters>>

\* A tool of the run starts a job; the tracking middleware adds its run id.
StartJob(t, j) ==
    /\ Runs(t, "running")
    /\ t \in called
    /\ job[j] = "unstarted"
    /\ job' = [job EXCEPT ![j] = "running"]
    /\ Commit([head EXCEPT !.pending = @ \cup {j}])
    /\ UNCHANGED <<requestVars, sessionVars, taskVars, lockVars, runVars, cancelled,
                   delivered, counters>>

\* The job's run records its outcome, or fails.
FinishJob(j) ==
    /\ job[j] = "running"
    /\ job' = [job EXCEPT ![j] = "finished"]
    /\ UNCHANGED <<requestVars, sessionVars, taskVars, lockVars, runVars, cancelled, head,
                   ckpts, delivered, counters>>

-----------------------------------------------------------------------------
(* How tasks end *)

\* Mutated: the finally block clears state.task unconditionally.
IsCurrent_Always(t) == TRUE

\* `state.task is my_task` in the finally blocks.
IsCurrent(t) == task[owner[t]] = t

\* Mutated: leaving releases the lock whoever holds it.
ReleaseLock_Unowned(t) ==
    LET s == owner[t] IN
    /\ holder' = [holder EXCEPT ![s] = None]
    /\ waiters' = [waiters EXCEPT ![s] = Without(@, t)]

\* Mutated: a task that is cancelled leaves without releasing.
ReleaseLock_Leaks(t) ==
    LET s == owner[t] IN
    /\ holder' = IF holder[s] = t /\ t \notin cancelled THEN [holder EXCEPT ![s] = None] ELSE holder
    /\ waiters' = [waiters EXCEPT ![s] = Without(@, t)]

\* Leaving `async with state.turn_lock`, or leaving its queue.
ReleaseLock(t) ==
    LET s == owner[t] IN
    /\ holder' = IF holder[s] = t THEN [holder EXCEPT ![s] = None] ELSE holder
    /\ waiters' = [waiters EXCEPT ![s] = Without(@, t)]

\* Mutated: only a wake-up checks again when it ends.
WakesNext_AfterWakesOnly(t, ranCleanly) == IsCurrent(t) /\ t \in Wakes /\ ranCleanly

\* Whether the finally block schedules a wake-up: a turn whenever it is the
\* current task, a wake-up only after ran_cleanly.
WakesNext(t, ranCleanly) == IsCurrent(t) /\ (t \in Requests \/ ranCleanly)

\* Leaving the lock and the finally block, which awaits nothing.
EndTask(t, how, ranCleanly) ==
    LET s == owner[t]
        tk == IF IsCurrent(t) THEN [task EXCEPT ![s] = None] ELSE task
        p == [pc EXCEPT ![t] = how]
    IN  /\ ReleaseLock(t)
        /\ cancelled' = cancelled \ {t}
        /\ IF WakesNext(t, ranCleanly)
           THEN ScheduleWake(s, tk, p)
           ELSE task' = tk /\ pc' = p /\ UNCHANGED <<owner, ready>>

\* The graph run ends with the agent's reply.
Complete(t) ==
    /\ Runs(t, "running")
    /\ t \in called
    /\ EndTask(t, "done", TRUE)
    /\ UNCHANGED <<requestVars, sessionVars, runVars, graphVars, counters>>

\* A resume that finds nothing to resume: the run ends as a clean one, and what
\* it was fed is lost.
CompleteUnresumed(t) ==
    /\ Runs(t, "running")
    /\ NothingToResume(t)
    /\ EndTask(t, "done", TRUE)
    /\ UNCHANGED <<requestVars, sessionVars, runVars, graphVars, counters>>

\* The graph run stops on ask_user: the interrupt is committed (durability
\* "sync") before the turn ends.
Ask(t) ==
    /\ Runs(t, "running")
    /\ t \in called
    /\ Commit([head EXCEPT !.question = TRUE])
    /\ EndTask(t, "done", TRUE)
    /\ UNCHANGED <<requestVars, sessionVars, runVars, job, delivered, counters>>

\* An exception inside the graph run.  async_execute publishes the error and
\* returns, so its caller ends the way a clean run does.
GraphFails(t) ==
    /\ Runs(t, "running")
    /\ fails < MaxFails
    /\ fails + cancels < MaxBreaks
    /\ fails' = fails + 1
    /\ EndTask(t, "failed", TRUE)
    /\ UNCHANGED <<requestVars, sessionVars, runVars, graphVars, cancels, restores>>

\* An exception in a turn before async_execute: an attachment's download, the
\* graph's construction.  consume_resume has not run.
PrepareFails(t) ==
    /\ Runs(t, "preparing")
    /\ fails < MaxFails
    /\ fails + cancels < MaxBreaks
    /\ fails' = fails + 1
    /\ EndTask(t, "failed", FALSE)
    /\ UNCHANGED <<requestVars, sessionVars, runVars, graphVars, cancels, restores>>

\* The same in a wake-up run.
WakeFails(w) ==
    /\ Runs(w, "report")
    /\ fails < MaxFails
    /\ fails + cancels < MaxBreaks
    /\ fails' = fails + 1
    /\ EndTask(w, "failed", FALSE)
    /\ UNCHANGED <<requestVars, sessionVars, runVars, graphVars, cancels, restores>>

\* The wake-up check said no.
SkipWake(w) ==
    /\ Runs(w, "nothing")
    /\ EndTask(w, "done", FALSE)
    /\ UNCHANGED <<requestVars, sessionVars, runVars, graphVars, counters>>

\* CancelledError reaches a task that has started.
CancelDelivered(t) ==
    /\ t \in cancelled
    /\ pc[t] \in Holding \cup {"waiting"}
    /\ EndTask(t, "cancelled", FALSE)
    /\ UNCHANGED <<requestVars, sessionVars, runVars, graphVars, counters>>

\* CancelledError reaches a task before its first step: the coroutine's body,
\* its finally block included, never runs.  A done task left in
\* SessionState.task is what None is to every reader of it.
CancelledUnstarted(t) ==
    /\ t \in cancelled
    /\ pc[t] = "created"
    /\ ready' = Without(ready, t)
    /\ pc' = [pc EXCEPT ![t] = "cancelled"]
    /\ task' = IF IsCurrent(t) THEN [task EXCEPT ![owner[t]] = None] ELSE task
    /\ cancelled' = cancelled \ {t}
    /\ UNCHANGED <<requestVars, sessionVars, owner, lockVars, runVars, graphVars,
                   counters>>

-----------------------------------------------------------------------------
Request(r) ==
    \/ HandleMessage(r)
    \/ HandleNotice(r)
    \/ HandleStarted(r)
    \/ RestoreApplies(r)
    \/ RestoreReturns(r)
    \/ RefuseRequest(r)

TaskStep(t) ==
    \/ Start(t)
    \/ Acquire(t)
    \/ ModelCall(t)
    \/ \E j \in Jobs : StartJob(t, j)
    \/ Complete(t)
    \/ CompleteUnresumed(t)
    \/ Ask(t)
    \/ GraphFails(t)
    \/ PrepareFails(t)
    \/ CancelDelivered(t)
    \/ CancelledUnstarted(t)

WakeStep(w) ==
    \/ CheckReads(w)
    \/ BeginWake(w)
    \/ WakeFails(w)
    \/ SkipWake(w)

\* Every request has been handled and every task has ended; a client may still
\* send nothing more for ever.
Quiet ==
    /\ \A r \in Requests : kind[r] # "unsent"
    /\ restoring = {}
    /\ \A t \in Tasks : ~Live(t)
    /\ UNCHANGED vars

Next ==
    \/ \E r \in Requests : Request(r)
    \/ CancelSession
    \/ \E t \in Tasks : TaskStep(t)
    \/ \E t \in Requests : Begin(t)
    \/ \E w \in Wakes : WakeStep(w)
    \/ \E j \in Jobs : FinishJob(j)
    \/ Quiet

\* What the event loop guarantees: a task that can go on does, a cancellation
\* is delivered, a handler returns from its await, and a graph run ends (the
\* recursion limit bounds its steps).
Advance(t) ==
    \/ Start(t)
    \/ Acquire(t)
    \/ t \in Requests /\ Begin(t)
    \/ t \in Wakes /\ (CheckReads(t) \/ BeginWake(t) \/ SkipWake(t))
    \/ t \notin called /\ ModelCall(t)
    \/ Complete(t)
    \/ CompleteUnresumed(t)
    \/ CancelDelivered(t)
    \/ CancelledUnstarted(t)

Fairness ==
    /\ \A t \in Tasks : WF_vars(Advance(t))
    /\ \A r \in Requests : WF_vars(RestoreReturns(r))

Spec == Init /\ [][Next]_vars

FairSpec == Spec /\ Fairness

-----------------------------------------------------------------------------
(* Properties *)

\* The turn_lock admits one task of its SessionState at a time, whatever is
\* queued, cancelled, failed or restored meanwhile (_run_turn_async,
\* _wake_async).
LockExclusion ==
    \A t, u \in Tasks :
        pc[t] \in Holding /\ pc[u] \in Holding /\ owner[t] = owner[u] => t = u

\* "This lock forces one turn to fully commit before the next begins"
\* (SessionState): no two runs of the session's thread overlap, whichever
\* SessionState they belong to.
TurnsSerialised ==
    \A t, u \in Tasks : pc[t] \in Holding /\ pc[u] \in Holding => t = u

\* A wake-up never runs on a paused graph: between its check and its first
\* commit no turn can have opened a question (_wake_async decides under the
\* lock).
WakeSparesQuestion ==
    \A w \in Wakes : pc[w] = "running" /\ w \notin called => ~head.question

\* A wake-up run never calls the model with nothing new: a finished job or a
\* report of the computer is still untold when the run reaches its first model
\* call (_wake_async, has_something_to_report).
WakeHasNews ==
    \A w \in Wakes :
        pc[w] = "running" /\ w \notin called =>
            head.pending \cap Finished # {} \/ UnreadReports

\* While a turn or a wake-up is queued on the lock, SessionState.task is a task
\* that has not ended: the finally blocks clear it only when it is their own,
\* so _schedule_wake sees that the session is busy and the queued task stays
\* referenced.  Until the user presses stop, which ends the last task created
\* and leaves the ones before it without a reference.
QueuedTurnReferenced ==
    cancels = 0 => \A t \in Tasks : pc[t] = "waiting" => Live(task[owner[t]])

\* The words or attachments of every turn that ran to its end entered the
\* graph: no turn quietly proceeds without what the user sent.
MessageReachesGraph ==
    \A r \in Requests :
        kind[r] \in {"text", "restoretext"} /\ pc[r] = "done" => r \in delivered

\* Only an answer closes an open question: no run feeds a paused graph an input
\* that abandons it.
QuestionClosedByAnswer ==
    [][head.question /\ ~head'.question =>
         \E t \in Tasks : t \in called' \ called /\ input[t].mode = "answer"]_vars

\* Every turn that is created ends: the lock and its queue are left on every
\* path, so nobody waits for ever.
TurnsEnd == \A t \in Tasks : pc[t] = "created" ~> pc[t] \in Ended

\* A job that has finished while the session's current turn runs is told to the
\* agent without any further request, by that turn, by one queued behind it or
\* by the wake-up check of the last of them; unless a question is open by
\* then, or one of the runs failed or was stopped.
ReportedAfterTurn ==
    \A j \in Jobs : \A f \in 0..MaxFails : \A c \in 0..MaxCancels :
        (/\ j \in head.pending \cap Finished
         /\ \E r \in Requests : pc[r] = "running" /\ IsCurrent(r)
         /\ fails = f /\ cancels = c)
        ~> (j \in head.told \/ head.question \/ fails # f \/ cancels # c)

\* ADR-015, when an idle agent is told: once the notice of a report has been
\* handled, a run tells the agent; unless a question is open, or a run failed or
\* was stopped.
NoticeWakesAgent ==
    \A n \in 1..MaxReports : \A f \in 0..MaxFails : \A c \in 0..MaxCancels :
        (head.seen < n /\ n <= reports /\ fails = f /\ cancels = c)
        ~> (head.seen >= n \/ head.question \/ fails # f \/ cancels # c)
=============================================================================
