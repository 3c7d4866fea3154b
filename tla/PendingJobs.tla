----------------------------- MODULE PendingJobs -----------------------------
(***************************************************************************)
(* Background jobs and the agent's pending_jobs                            *)
(* (core/middleware/background_jobs/middleware.py) around the agent's loop *)
(* of model calls and tool steps.  One step runs several tool calls in     *)
(* parallel; a call is a tool, a job CLI say, or a subagent, which starts  *)
(* with a copy of the main agent's state and returns its own.              *)
(*                                                                         *)
(* The middleware is the repository's; the loop it is hooked into, the     *)
(* graph's commits and deepagents' state passing are libraries, modelled   *)
(* as the middleware and the executor use them.  Ids are kept in sets: the *)
(* order of pending_jobs only orders the notices.                          *)
(***************************************************************************)
EXTENDS Naturals, FiniteSets

CONSTANTS
    Jobs,       \* workflow runs a job CLI can start
    Calls,      \* the tool calls of one step
    MaxAborts   \* bound on turns that are stopped, fail or crash

ASSUME MaxAbortsAssumption == MaxAborts \in Nat

VARIABLES
    phase,      \* where the main agent's loop is
    pending,    \* pending_jobs in the latest checkpoint
    told,       \* jobs whose outcome message is in the latest checkpoint
    found,      \* finished jobs read by the report step, not yet committed
    call,       \* the calls of the step in progress
    run,        \* each job's row of workflow_runs
    known,      \* jobs started by calls whose step committed
    aborts

vars == <<phase, pending, told, found, call, run, known, aborts>>

\* queued is the state runs/start leaves; recorded is a run whose outcome is
\* written and whose notify step has yet to run.
Statuses == {"none", "queued", "recorded", "completed", "failed", "cancelled", "gone"}

\* ids is the pending_jobs update the call will return; started is what it
\* started itself.
NoCall == [state |-> "off", agent |-> FALSE, ids |-> {}, started |-> {}]

CallRecords == [state : {"off", "working", "asking", "returned"}, agent : BOOLEAN,
                ids : SUBSET Jobs, started : SUBSET Jobs]

TypeOK ==
    /\ phase \in {"idle", "report", "commit", "model", "tools", "paused"}
    /\ pending \in SUBSET Jobs
    /\ told \in SUBSET Jobs
    /\ found \in SUBSET Jobs
    /\ call \in [Calls -> CallRecords]
    /\ run \in [Jobs -> Statuses]
    /\ known \in SUBSET Jobs
    /\ aborts \in 0..MaxAborts

\* is_finished: its outcome is recorded, or it failed, was cancelled or no
\* longer exists.
IsFinished(status) == status \in {"recorded", "completed", "failed", "cancelled", "gone"}

FinishedJobs == {j \in Jobs : IsFinished(run[j])}

-----------------------------------------------------------------------------
Init ==
    /\ phase = "idle"
    /\ pending = {}
    /\ told = {}
    /\ found = {}
    /\ call = [c \in Calls |-> NoCall]
    /\ run = [j \in Jobs |-> "none"]
    /\ known = {}
    /\ aborts = 0

\* A turn or a wake-up run: new input, which starts at the first before_model.
StartRun ==
    /\ phase = "idle"
    /\ phase' = "report"
    /\ UNCHANGED <<pending, told, found, call, run, known, aborts>>

\* JobReportingMiddleware.abefore_model looks the pending runs up ...
ReadRuns ==
    /\ phase = "report"
    /\ found' = pending \cap FinishedJobs
    /\ phase' = "commit"
    /\ UNCHANGED <<pending, told, call, run, known, aborts>>

\* Mutated: the ids are removed by a later update than the one that tells.
Remove_Later(ids, js) == ids

\* merge_pending_jobs on {"remove": [...]}.
Remove(ids, js) == ids \ js

\* ... and returns the outcome messages and the removal, one update.
CommitReport ==
    /\ phase = "commit"
    /\ told' = told \cup found
    /\ pending' = Remove(pending, found)
    /\ found' = {}
    /\ phase' = "model"
    /\ UNCHANGED <<call, run, known, aborts>>

\* The model replies: the run ends.
ModelReplies ==
    /\ phase = "model"
    /\ phase' = "idle"
    /\ UNCHANGED <<pending, told, found, call, run, known, aborts>>

\* The model calls tools: a subagent is given the main agent's pending_jobs.
ModelCallsTools ==
    /\ phase = "model"
    /\ phase' = "tools"
    /\ \E cs \in (SUBSET Calls) \ {{}} : \E agents \in SUBSET cs :
         call' = [c \in Calls |->
                    IF c \in cs
                    THEN [state |-> "working", agent |-> c \in agents,
                          ids |-> IF c \in agents THEN pending ELSE {}, started |-> {}]
                    ELSE NoCall]
    /\ UNCHANGED <<pending, told, found, run, known, aborts>>

\* A job CLI starts jobs, in the main agent's call or inside a subagent, and
\* JobTrackingMiddleware adds every run id its result reports.
CallStartsJobs(c) ==
    /\ phase = "tools"
    /\ call[c].state = "working"
    /\ \E js \in (SUBSET {j \in Jobs : run[j] = "none"}) \ {{}} :
         /\ run' = [j \in Jobs |-> IF j \in js THEN "queued" ELSE run[j]]
         /\ call' = [call EXCEPT ![c].ids = @ \cup js, ![c].started = @ \cup js]
    /\ UNCHANGED <<phase, pending, told, found, known, aborts>>

CallReturns(c) ==
    /\ phase = "tools"
    /\ call[c].state = "working"
    /\ call' = [call EXCEPT ![c].state = "returned"]
    /\ UNCHANGED <<phase, pending, told, found, run, known, aborts>>

\* ask_user, by the main agent or inside a subagent.
CallAsks(c) ==
    /\ phase = "tools"
    /\ call[c].state = "working"
    /\ call' = [call EXCEPT ![c].state = "asking"]
    /\ UNCHANGED <<phase, pending, told, found, run, known, aborts>>

\* Mutated: pending_jobs without its merge rule, so one call's list wins.
Merge_LastWins(ids, updates) == CHOOSE u \in updates : TRUE

\* merge_pending_jobs, for every list returned in one step.
Merge(ids, updates) == ids \cup UNION updates

\* The step commits when every call has returned.
CommitTools ==
    /\ phase = "tools"
    /\ \A c \in Calls : call[c].state \in {"off", "returned"}
    /\ pending' = Merge(pending, {call[c].ids : c \in {d \in Calls : call[d].state = "returned"}})
    /\ known' = known \cup UNION {call[c].started : c \in Calls}
    /\ call' = [c \in Calls |-> NoCall]
    /\ phase' = "report"
    /\ UNCHANGED <<told, found, run, aborts>>

\* The graph pauses on the questions once nothing else of the step runs; what
\* the other calls returned waits with it, uncommitted.
Pause ==
    /\ phase = "tools"
    /\ \A c \in Calls : call[c].state # "working"
    /\ \E c \in Calls : call[c].state = "asking"
    /\ phase' = "paused"
    /\ UNCHANGED <<pending, told, found, call, run, known, aborts>>

\* Command(resume=answer) continues the paused step: ask_user returns, a
\* subagent goes on from its question.
Answer ==
    /\ phase = "paused"
    /\ phase' = "tools"
    /\ call' = [c \in Calls |->
                  IF call[c].state = "asking"
                  THEN [call[c] EXCEPT !.state = IF call[c].agent THEN "working" ELSE "returned"]
                  ELSE call[c]]
    /\ UNCHANGED <<pending, told, found, run, known, aborts>>

\* The turn is stopped, raises, or its process dies.  What its step had not
\* committed is gone: async_execute only ever feeds the graph a new input or an
\* answer, and a new input discards an unfinished step.
Abort ==
    /\ phase \in {"report", "commit", "model", "tools"}
    /\ aborts < MaxAborts
    /\ aborts' = aborts + 1
    /\ phase' = "idle"
    /\ found' = {}
    /\ call' = [c \in Calls |-> NoCall]
    /\ UNCHANGED <<pending, told, run, known>>

\* The job's own run, in another process: it ends by recording its outcome
\* (its completed status follows), by failing or by being cancelled, and its
\* row may be deleted.
RunMoves(j) ==
    /\ \E next \in Statuses :
         /\ \/ run[j] = "queued" /\ next \in {"recorded", "failed", "cancelled", "gone"}
            \/ run[j] = "recorded" /\ next \in {"completed", "gone"}
            \/ run[j] \in {"completed", "failed", "cancelled"} /\ next = "gone"
         /\ run' = [run EXCEPT ![j] = next]
    /\ UNCHANGED <<phase, pending, told, found, call, known, aborts>>

Next ==
    \/ StartRun
    \/ ReadRuns
    \/ CommitReport
    \/ ModelReplies
    \/ ModelCallsTools
    \/ \E c \in Calls : CallStartsJobs(c) \/ CallReturns(c) \/ CallAsks(c)
    \/ CommitTools
    \/ Pause
    \/ Answer
    \/ Abort
    \/ \E j \in Jobs : RunMoves(j)

Spec == Init /\ [][Next]_vars

-----------------------------------------------------------------------------
(* Properties *)

\* The middleware delivers what ADR-015 promises: the checkpoint's pending_jobs
\* and outcome messages are JobDelivery's tracked and told.
Delivery == INSTANCE JobDelivery WITH tracked <- pending, finished <- FinishedJobs

DeliverySpec == Delivery!Spec

\* Every job a committed step started is pending or told, with calls in parallel
\* each returning a list of their own: none is lost to another call's list.
CommittedJobsTracked == known \subseteq pending \cup told

\* "A removed id cannot come back" (ADR-015): no list a call may still return
\* holds a job the agent has been told of.
RemovedStaysOut == \A c \in Calls : call[c].ids \cap told = {}

\* Every job started is known to the agent once no step is in progress, so that
\* whatever starts its next run it can be told: "a tool step crashes before
\* committing: it runs again" (ADR-015).
StartedJobsTracked ==
    phase = "idle" => \A j \in Jobs : run[j] # "none" => j \in pending \cup told
=============================================================================
