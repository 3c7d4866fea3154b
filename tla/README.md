# Verification of harness-runtime

harness-runtime runs one agent per sandbox: it takes messages over HTTP, runs
turns of a LangGraph agent, streams their events to the chat through Redis, and
projects the agent's thread into the chat's table. This directory holds TLA+
modules of its control logic, TLC configurations that check them on small
instances, and TLAPS proofs for any size of the constants.

All source paths below are relative to `src/` of the repository.

## The system

| Part | Where | State | Operations |
|---|---|---|---|
| Turns of a session | `api/routers/sessions.py`, `core/session/session.py`, `core/session/execution.py` | `session_store`; per `SessionState`: `task`, `publisher`, `turn_lock`; per `Session`: the resume payload and input of the next run | `POST /session/{id}/message` (words, answer, notice, opening client, restore), `POST /session/{id}/cancel`, turn tasks, wake-up tasks |
| Graph runs | `core/execution/executor.py` | the thread's checkpoint (LangGraph, Postgres), `ExecutionState` of the run | `async_execute`, `_build_resume_input`, `has_something_to_report`, the ends of a run |
| Event handlers | `core/execution/handlers/` | `ExecutionState`: streamed text, calls in progress, message counts | one handler per kind of event: messages, tools, values, lifecycle, of the main agent and of subagents |
| Event stream | `api/publisher.py`, `core/publishers/event_publisher.py` | one Redis stream per session with an expiry; per publisher: closed, message and block open, waiting for the user | the `publish_*` operations, `close`, `_trim_sentinel`, `GET /event` |
| Chat rows | `core/persistence/message_writer.py` | the table `chat_messages` | `write_chat_messages`, `stamp_checkpoint_id`, `record_stopped_steps` |
| Background jobs | `core/middleware/background_jobs/` | `pending_jobs` in the checkpoint; the platform's `workflow_runs` | tracking a started job, merging lists, reporting and removing before each model call |
| Computer reports | `core/middleware/computer_reports.py` | `computer_reports_seen` in the checkpoint | reading the notice rows before each model call |
| Checkpoint restore | `core/restore/` | the thread's head; `_applied` of the process | restore on a request, restore at startup |
| Asking the user | `core/middleware/human_interaction/` | the pending interrupt in the checkpoint | `ask_user` |
| Reports to Waypoint | `core/waypoint_reports/` | a throttle per session | question, reply and workspace-change reports |
| Agent loop middleware | `core/middleware/todos.py`, `invalid_tool_calls.py`, `replay_snapshots.py` | derived from the messages | reminders, bounded retries, snapshots |
| Message repair | `core/middleware/structured_output/` | none | repairing the message list of a model call |
| Graph topologies | `core/graph/` | the agents and graphs built; in a graph's state, `retry_count` | choosing a topology, building agents, compiling and running a graph |
| Workspace files | `core/workspace/`, `core/persistence/message_writer.py`, `core/tools/` | the `files` channel of a thread; rows of `agent_output_files` by scope key | write, edit, read, list, grep; the projection of a turn |
| Computer | `core/computer/app.py`, `api/routers/computer.py` | the supervised application, its task | start, watch, restart, stop |
| Skills | `core/session/skills.py` | temporary directories, stable links in the workspace | isolating and linking on the construction of a `Session` |
| Container | `scripts/ci/run.sh`, `api/main.py` | the process | start, serve, shut down |
| Packs, tools, models, command line | `core/session/`, `core/tools/`, `core/llm/`, `cli.py` | none that changes during a session | loading and wiring |

How they meet:

- A request is a handler on the event loop. It changes the `SessionState` and
  creates a task; it never waits for a turn. Turn tasks and wake-up tasks queue
  on `turn_lock`. All of these, the handlers of graph events included, share
  one asyncio loop, so the code between two awaits is atomic.
- What runs elsewhere: the background jobs (a platform process), database work
  in worker threads (`asyncio.to_thread`), the Redis expiry, the clients.
- A run reads what it is fed from the `Session`, where a request may have put
  an answer since; it publishes to the publisher its task picked up when it
  started; its handlers write rows synchronously, in the order of the events.
- The jobs' outcomes and the computer's reports reach the agent only before a
  model call. A wake-up run exists to cause one when the session is idle.
- The jobs of a subagent reach the agent that reports them through the state of
  every agent in between, so the stacks that the builders make decide it.
- Sessions share the rows of `agent_output_files`; what one may see of another
  is decided by the key a row is written under and the query that reads it.
- A container's start, its shutdown and a crash surround all of it: they take
  the process, the application and perhaps the temporary directories with them
  and leave the database and the workspace.

What is hard here:

- Shared `SessionState` fields that one task sets and another reads later:
  `task` (who is referenced, who schedules the wake-up), `publisher` (who
  closes whose), the resume payload (who consumes whose answer).
- Decisions from a checkpoint read before an await: whether a question is open,
  whether something is to be reported.
- Cancellation at any await, exceptions on any path, restores that replace the
  `SessionState` under a running turn.
- Liveness: whoever ends last must check for finished jobs again.
- A stream that all publishers of a session share, with an expiry that only the
  next close changes.
- Projections written from snapshots whose writes may fail, counted by numbers
  that restart with each run, or carrying an older copy of a file.
- Decisions derived again and again from a message list that others extend:
  how often was retried, whether there was a reminder, which calls are open.
- Code that reads one structure in two passes that must agree: budget nodes and
  the routers to them, a scope's key and its queries, links and copies.
- Guards that are set after an await (`_applied`), and starts that a stop or a
  crash cuts short.

Every such point is listed with its line under `hazards` in `PROJECT.json`,
with the properties that cover it.

## The modules

| Module | Of | Checked by | Proved in |
|---|---|---|---|
| `TurnScheduler` | turns, wake-ups, restores, stops, what runs are fed | `MCTurnScheduler`: `TurnSafety`, `TurnLive`, `TurnRestore`, `TurnStolenAnswer` | `TurnScheduler_proofs` |
| `JobDelivery` | what ADR-015 promises of jobs, abstractly | implemented by `PendingJobs` | |
| `PendingJobs` | `pending_jobs` and its middleware in the agent's loop | `MCPendingJobs`: `PendingJobs` | `PendingJobs_proofs` |
| `TurnStream` | publishers, handlers' frames, the stream and its expiry | `MCTurnStream`: `TurnStream` | `TurnStream_proofs` |
| `ChatRows` | chat rows, stamps, stopped steps, computer reports | `ChatRows` | `ChatRows_proofs` |
| `AgentLoop` | the checks around the model, what is delivered to it, message repair | `MCAgentLoop`: `AgentLoop` | `AgentLoop_proofs` |
| `GraphRouting` | the graph an acrylic definition compiles to, and its runs | through `AgentTree` | `AgentTree_proofs` |
| `AgentTree` | the agents the builders make; composes `GraphRouting` | `MCGraphs`: `Graphs` | `AgentTree_proofs` |
| `WorkspaceFiles` | files of sessions in the database, their scopes and projection | `MCWorkspaceFiles`: `WorkspaceFiles` | `WorkspaceFiles_proofs` |
| `ComputerSupervisor` | the supervised application | through `Sandbox` | `Sandbox_proofs` |
| `Sandbox` | start and end of the container, rewind at startup, skill links, workspace reports; composes `ComputerSupervisor` | `MCSandbox`: `Sandbox`, `SandboxRewind` | `Sandbox_proofs` |
| `Ordered` | sets of numbers in order, for `TurnStream`, `ChatRows` and `AgentLoop` | through them | where it is needed |

The `MC` modules declare model values, definitions to explore and symmetries. In
each module, an operator marked `Mutated:` stands before the definition it would
replace; it is a plausible bug with which the property it is meant for fails.

### TurnScheduler

One session. A request is a constant; it names the turn task and the
`SessionState` it may create. `store`, `task`, `holder`, `waiters`, `resume` are
`session_store`, `SessionState.task`, the lock with its first-in-first-out queue
and `Session.resume_payload`; `ready` is the order in which the loop starts new
tasks; `head` is what a checkpoint holds as far as turns depend on it: a pending
interrupt, `pending_jobs`, the jobs told and the mark of the computer's reports
(`seen`); `reports` counts the reports whose notices have been handled. `Init`
is a process that has just started on a thread with a history.

- `HandleMessage`, `HandleNotice`, `HandleStarted`, `RestoreApplies` with
  `RestoreReturns`, `RefuseRequest`: `handle_message`. Restoring awaits, so it
  is two steps; the rest of a request is one. Any notice but `job/started` asks
  for a wake-up, whatever it is about and however often it comes.
- `CancelSession`: the stop button, which cancels `state.task`; the
  cancellation is delivered later (`CancelDelivered`, `CancelledUnstarted`).
- `Start`, `Acquire`, `Begin`, `ModelCall`, `StartJob`, and the ends
  `Complete`, `Ask`, `GraphFails`, `PrepareFails`: `_run_turn_async` around
  `async_execute`; `BuildInput` is `_build_resume_input`. `CompleteUnresumed` is
  a run that was built to resume a question which a restore has taken back
  since: the resume does nothing and its words are lost (`NothingToResume`).
- `CheckReads`, `BeginWake`, `SkipWake`, `WakeFails`: `_wake_async`, with the
  check's read and its decision apart; `SomethingToReport` is a finished job or
  an unread report.
- `EndTask`: the `finally` blocks (`IsCurrent`, `ReleaseLock`, `WakesNext`).

Abstractions: the agent has both reporting middlewares, as the orchestrators of
a composite and a star do, while an acrylic graph has none; a report is in its
table when its notice is handled; checkpoint forks of overlapping runs are one head; preparing a run
(attachments, input) is one place in which anything may fail; a read error of
the pending-question check is left out; a wake-up id is used once.

### PendingJobs and JobDelivery

The agent's loop: a step runs several tool calls in parallel, each a tool or a
subagent that starts with a copy of `pending_jobs` and returns its own list. The
reads of `workflow_runs` (`ReadRuns`) and the commit of what they found
(`CommitReport`) are apart; a turn may be stopped, fail or crash in any phase
but a pause (`Abort`), which discards the step. `JobDelivery` says: a job is told once, only when finished,
in the commit that takes it from the list, and never comes back; `DeliverySpec`
is that specification under `tracked <- pending, finished <- FinishedJobs`.

### TurnStream

A publisher is a record with what it has written so far (`out`) and the flags
that decide its next frames; each `publish_*` operation is a function on it.
`stream` and `expiry` are the session's Redis key. A turn takes the session's
publisher when its task starts (`Start`), so two turns may share one. Each
handler is an action that publishes (`RootText`, `RootMessageFinish`,
`SubagentText`, ...), each way a turn ends publishes its last frames and closes
(`Ask`, `Finish` and `Stamped`, `GraphFails`, `PrepareFails`, `CancelRun`,
`CancelEarly`). `MinutePasses` is the expiry a finished turn sets. `FirstCommit`
is the graph's first commit, which closes the question that was open (`asked`)
and comes after the frame that says the run has started: a turn may end between
the two, and leaves the question open (`EndedEarly`).

Abstractions: any queued turn may get the lock next; time is the nondeterminism
of `MinutePasses`; frames no property tells apart are `"other"`; Redis failures
and the day's expiry are left out; a notice's own frame is left out. `GET
/event` forwards what it reads and passes over sentinels, so no reader is
modelled.

### ChatRows

The thread grows by commits of the graph (`Send`, `DeliverReports`, `Model`,
`Tool`, `Interrupt`, `SubagentStep`); each emits a snapshot, which the executor
handles later, in order (`HandleValues`). A write is one transaction that adds
all its new rows or fails (`Transaction`); numbering and conflict handling are
those of `write_chat_messages` (`Base`, `Written`). `Finish` reads the last
checkpoint and sends the stamp to a worker thread; `Stamp` runs it, also after
a stop. `Cancel` is a stop with `record_stopped_steps`. `Notice` is a notice's
row, `ReadReports` and `DeliverReports` the two halves of `abefore_model`.

Abstractions: a checkpoint is the number of messages in it; every subagent has
three messages; at most one tool call is in progress; other middleware's hidden
messages are as reports; rows of other sources and the truncation of rows by a
restore belong to the platform's SDK.

### AgentLoop

The thread of one agent (`messages`) over several runs; `node` is where a run
is. langchain runs the hooks before a model call in the order of the stack and
those after it in reverse, and a jump back to the model skips the rest.

- `Deliver` and `Wake`: job outcomes and computer reports put before the call.
- `Model`: any answer of valid calls, invalid calls and calls without an id.
- `RetryInvalid`: `InvalidToolCallRetryMiddleware.after_model`, which counts
  the streak of invalid responses back over the messages (`Streak`).
- `Remind`: `TodoMiddleware.after_model`, which walks back to the last input
  (`RemindedThisRun`).
- `Tools`: the calls run; `write_todos` among them changes whether the list has
  open items (`open`).
- `Payload`: the list as it is sent. `Repaired` is the loop of
  `sanitize_openai_messages`, what it has after each number of messages;
  `Sanitized` is one message through it, `Wires` the thread as it goes on the
  wire, `Closing` the answers made up at the end.
- `Stop`: in any phase, which leaves calls without results in the thread.

Abstractions: a message is its kind and its calls' ids; the todo list is whether
it has open items; how a reminder or an error is worded is left out. `start` and
`delivered` are for the properties and the bound.

### GraphRouting and AgentTree

`GraphRouting` is `AcrylicTopologyBuilder`: `NodesOf` has the nodes it adds, the
budget nodes derived from the edges among them; `Compiles` when LangGraph
accepts the graph; `Group`, `Chosen` and `Default` are the router of a source's
conditional edges, `PlainTargets` the edges beside it. A condition that reads
`retry_count` is the set of counts it may hold at (`counts`), so an upper bound,
a lower one or a single count are alike. `Superstep` runs all scheduled nodes on
the counter before it; `Conflict` is two writers of a counter the state's schema
declares in one superstep (a budget node, or an agent, which gives the count
back); a counter it does not declare is dropped and the run goes on. `NextTurn`
keeps the counter, as the checkpoint does.

`AgentTree` is `build_agent_from_definition` and the builders: `Choose` the
topology; `BuildSpecialist`, `BuildSubgraph` and `BuildStarSubagent` one node of
the definition each, in its order (`todo`); `BuildRoot` the orchestrator; `BuildGraph` an acrylic
definition, which `GraphRouting` compiles. An agent is its place in the tree,
its middleware as far as properties tell it apart, its backend, and whether it
has tools of the definition, a checkpointer and permissions. Its other steps are those of `GraphRouting`.

Abstractions: what a node answers is nondeterministic, so a condition that asks
anything but the counter may be true or not; prompts, tool lists and model clients
are left out; a definition is a constant.

### WorkspaceFiles

`channel` is `state["files"]` of each session's thread, `rows` is
`agent_output_files`. `ScopeKey` is the key of a write, `ListedKeys` and
`ReadKeys` the two queries of `DBBackend`; `Reads`, `Listed` and `Greps` are its
operations as seen by an agent. `Write`, `Edit`, `ToolWrite`, and `Delegate`,
`SubagentWrite`, `Return` are the writers; `RootEvent`, `SubagentWrite` and
`SubagentEvent` project (`Project`), which may be refused: a subagent's event
projects all it has, the copies it was given among them. `Begin`, `End` and
`Stop` are turns.

A path is a root and a name (`Roots`, `Name`): a write takes off the root of the
workspace, of the home directory or a slash, so that several files of a channel
may share a row, and the last one in the dict keeps it (`Upserts` leaves the
order open). A read takes off the root of the workspace only (`ReadKeys`), and a
listing puts it on (`AgentPath`).

Abstractions: a content is a number, `authors` says who wrote it; a name is
inside or outside `.global/`; `_query_db` may return any row of the scope
(the code takes the one created last). `settled` and `missed` are for
`TurnProjected`.

### ComputerSupervisor and Sandbox

`ComputerSupervisor` is the task `_run` between its awaits (`task`), its child,
`_process` (`held`), `_stopping` and `_backoff`, and `stop()` beside it
(`stopper`). A task cancelled while it waits for a new child kills it in a step
of its own (`SpawnCancelled`).

`Sandbox` is the container: `Boot`, `Serve`, `Shutdown`, `Exit` and `Crash`,
which may strike between any two steps and loses everything of the process
(`HarnessLost`). A request rewinds (`Arrive`, `Rewind`, `RewindReturns`,
`RewindFails`: `apply_pending_agent_restore`), constructs a `Session` when none
is stored (`Isolate`, `Unlink`, `Link`, `BuildFails`, `Built`: the copies and
links of `core/session/skills.py`; a construction may fail anywhere; it does not
await, so the event loop waits for it, but a crash does not), and its turn runs (`Begin`,
`ToolWrites`, `NoticeDelivered`, `End`) under the throttle of workspace reports
(`IntervalPasses`, `Noted`, `Flushed`).

Abstractions: the thread's head is the list of turns in it; turns of different
sessions' locks may overlap, as in `TurnScheduler`; a turn commits when it ends;
the pack, which `run.sh` fetches first, is only that the server starts after it.

## The runs

| Run | What it shows | Bounds |
|---|---|---|
| `TurnSafety` | No two runs overlap; a wake-up spares an open question and has news; words reach the graph; only answers close questions; without a stop the `SessionState` references a live task while others queue | 3 requests, 6 wake-ups, a job, a report, one exception or one stop |
| `TurnLive` | Every turn ends; a job finished during a turn is told without another request | 2 requests, 4 wake-ups, a job, one exception, one stop |
| `TurnRestore` | A `SessionState`'s lock admits one task, restores included | 2 requests of all kinds but answers, which reach the lock as a text does, 6 wake-ups, one restore, exception and stop |
| `PendingJobs` | No committed job is lost, none returns, and `JobDelivery` is implemented | 2 calls, 2 jobs, one abort |
| `TurnStream` | A question stays on the stream unless a turn ends before its first commit, a turn that ended said so, nothing new follows a terminal event, text goes to an open block of an open message, a result stands before its terminal event | 2 requests and a wake-up with 2 events, or with 1 event and a break (an exception or a stop), or 1 request and a wake-up with 3 events and 2 breaks |
| `ChatRows` | Rows in thread order, failed writes healed, a stop closes the turn's calls, reports read once, stamps hold their message | 2 turns, 5 messages, a notice, one exception, stop and failed transaction |
| `AgentLoop` | The checks after the model cannot keep a run going, an open list is reminded of, the repaired list answers every call once and drops nothing | 2 calls in a response, 1 retry, 7 messages, 1 delivery |
| `Graphs` | Routers lead to nodes that exist, loops share a budget and end, jobs reach the reporter, no permissions on a shell | graphs of up to 3 nodes, trees of up to 2 specialists with a subagent, conditions that hold below one, below two, at one or from two on, a counter up to 5 |
| `WorkspaceFiles` | What is listed can be read, scopes are kept apart, a turn that ended has left each of its files in the row of its name, with its content or that of a file that shares the row | 4 sessions (two builders, a playground, a guest in it) of which any two take part, 3 paths, two of which share a row, 2 contents, one refused write |
| `Sandbox` | The undone stays undone, skill links lead to copies, the last write is reported, no application is left, one comes back | 2 requests, 2 crashes, three configurations |
| `TurnStolenAnswer` | violation: a queued message's run takes the answer of another request and drops its own words | 3 requests |
| `SandboxRewind` | violation: a second first request rewinds over the first one's turn | 2 requests, no crash |

Why the bounds are enough for what they are about:

- An overlap needs two tasks, and the interesting three are one that runs, one
  that queues and one that arrives. Wake-ups are created by ends of tasks and by
  notices; with the bounds above no more are ever wanted, so the bound never
  blocks `ScheduleWake`.
- Three events of the stream (text, end, text) show a block reopened; two turns
  and a wake-up share publishers and closes in every way.
- Five rows' messages are a turn with a call, its result and a reply and a
  message of the next turn; the first write that fails is healed by the second.
- Seven messages of the agent's loop are two runs with a delivery and a retry
  given up, or a reminder in each, or a stopped run with open calls before one
  that goes on. The code's bound is two retries; one has the same cases, and
  two runs give up in seven messages.
- Graphs of three nodes have two loops that share the counter, a loop nested in
  another, and a fan beside one; limits of one and two tell a loop ended by its
  own limit from one ended by another's spending, and a condition from two on one
  that a count opens from one that it closes.
- Two contents are an old and a new one of a file, or those of two files that
  share a row; two builders, a playground session and a guest are all relations
  two sessions can have, and each property is about two sessions at most.
- Two crashes interrupt a construction and the one that follows it.

With larger bounds the runs exceed a few minutes.

What the runs leave out, and why:

- `TurnSafety` has no `answer` requests, because with them the answer may be
  stolen (`TurnStolenAnswer`); words that answer an open question are there.
- `QuestionKept` excludes turns that shared a publisher, and sessions in which a
  turn ended before its first commit: such a turn closes the stream with the
  minute's expiry although the question still waits (`QuestionReplayed`, below).
- `StopClosesCalls` is about at most one failed transaction; with two, the
  user's message may be recorded behind a subagent's call.
- `StampHoldsMessage` excludes stops, since the stamp a stop leaves in its
  thread may hit the next turn's rows.
- `BudgetHolds` is about sequential definitions whose conditions count only when
  they read the counter, whatever they ask of it, `RunEnds` about those whose
  state declares it and whose cycles all go through conditions that hold at no
  count from some on; `RoutedNodesExist` about definitions that name their
  own nodes. Others are in the run and do what the code does with them.
- `JobsReachReporter` leaves out the agents of nested graphs, which have no
  tracking (`SubagentsTrack`, below), and agents without tools of the definition.
- `TurnProjected` says that a row has the content of one of the files that share
  it: which one is the order of a dict, and the other's content is in no row.
- `UndoneStaysUndone` excludes turns whose rewind failed and what follows them:
  the code logs the failure and goes on.
- `LastWriteReported` excludes threads with a message the chat does not show,
  where the values handler misses writes (`NoWriteUnreported`, below), and a last turn that
  failed, which does not flush.

`CHECK_DEADLOCK FALSE` is set where the bounded inputs are used up in the end:
`AgentLoop`, `ChatRows`, and the runs of `MCGraphs`, `MCSandbox`, `MCTurnStream`
and `MCWorkspaceFiles`. In the others deadlock is checked: `Quiet` is the only state
of rest of `TurnScheduler`.

### Fairness

`FairSpec` of `TurnScheduler` assumes weak fairness of the task steps that the
event loop guarantees: a runnable task goes on, a free lock is given to its
queue, a cancellation is delivered, an awaiting request handler returns, and a
graph run ends, which `RECURSION_LIMIT` and the timeouts of model and tool calls
bound. Nothing is assumed of clients, of jobs finishing or of exceptions.

`AgentTree` assumes that a graph that runs goes on (`Superstep`, or the conflict
that ends it), which LangGraph does. `Sandbox` assumes that the event loop runs
the supervisor's task and its timers and that a `Session`'s construction, which
is sequential code, goes on; nothing makes the application exit, start or stay,
or a request arrive.

## The findings

The two `violation` runs state what a text of the repository says and show the
code doing otherwise; `findings` in `PROJECT.json` quotes the texts. Each is a
schedule of ordinary requests.

Eight more properties are stated in the modules and checked by no run, because
they do not hold of the code; TLC finds a short behaviour against each when it is
put into the configuration named:

| Property | Module, configuration | What happens instead |
|---|---|---|
| `NoticeWakesAgent` | `TurnScheduler`, `TurnLive` with one report and no exception or stop | a notice handled while a wake-up check is past its reads wakes nobody |
| `StartedJobsTracked` | `PendingJobs`, `PendingJobs` | a job started by a step that a stop discards is in no list |
| `RunReplayable` | `TurnStream`, `TurnStream` | the last close's 60 seconds take a running turn's events |
| `StampedByOwnTurn` | `ChatRows`, `ChatRows` | a failed turn's rows get the next turn's checkpoint |
| `QuestionReplayed` | `TurnStream`, `TurnStream` | a turn that is stopped or fails between the frame that says it has started and the graph's first commit closes the stream with the minute's expiry, while the question it found still waits; `api/publisher.py:30` says "the question is replayed to every client that connects while it waits" |
| `SubagentsTrack` | `AgentTree`, `Graphs` | `build_node_middleware` has no job tracking, so that the agents of a nested graph have none; ADR-015 says "on the main agent and on every subagent" |
| `NoWriteUnreported` | `Sandbox`, `Sandbox` | the values handler slices the filtered messages by the number of the unfiltered ones: once a hidden message is in the thread, a turn ends with its last write unreported; `core/waypoint_reports/workspace.py:24` says it never does |
| `GrepAgreesWithRead` | `WorkspaceFiles`, `WorkspaceFiles` | a row of an older content is found beside the session's own file |

## The proofs

Every theorem is about the specification with all its constants free; the
assumptions are those the modules name (`ConstantsAssumption`,
`GraphsAssumption`, `DefinitionsAssumption`, `ScopesAssumption`,
`SandboxAssumption`, `BackoffAssumption`): that sorts of ids are disjoint,
bounds are natural numbers and definitions have the shape their schema gives
them. TLC evaluates each of them in a run.

`TurnScheduler_proofs`, for any sets of requests, wake-ups and jobs:

- `TypeCorrect`, `Exclusion` (`LockExclusion`) with any number of restores,
  stops and exceptions;
- `Serialised` (`TurnsSerialised`), `SparesQuestion` (`WakeSparesQuestion`) and
  `HasNews` (`WakeHasNews`), assuming `MaxRestores = 0`;
- `ReachesGraph` (`MessageReachesGraph`) and `ClosedByAnswer`
  (`QuestionClosedByAnswer`), assuming that and that no request is an answer
  without words: `TurnStolenAnswer` shows what such an answer does, and a
  restore may take away the question a run was built to answer;
- `QueuedReferenced` (`QueuedTurnReferenced`), with no assumption.

The inductive invariant is `IInv`: types; `LockInv`, that the holder of a lock
is exactly the task whose place is inside it; `FreshInv`, that ids not yet used
are nowhere; and `OneSession`, that without restores the tasks belong to one
`SessionState`. `LockExclusion` alone is not inductive, as it says nothing of
who the lock thinks its holder is. `WakeInv` adds that a wake-up that has read
"something to report" still finds it: the lock keeps turns out, jobs only
finish and reports only come. The steps are grouped by lemma: requests, task steps, wake-up steps;
`EndTaskEffect`, `ScheduleWakeEffect` and `DispatchEffect` say once what the
operators shared by the actions do.

`FedInv` follows a message from its request to the graph: a turn has words of
its own, they are its input, and they are delivered from its first model call
on; `ResumeInv`, that no run resumes a question that is no longer open, so that
none ends with its words undelivered. `AnswerInv` says that a turn before its first model call on a paused graph
is fed the answer; without restores nobody else can pause or answer the graph
meanwhile. `QueueInv` is about the two queues before the lock, the event loop's
ready tasks and the lock's waiters: at or behind every task in them, in its own
queue or in the one it goes through before, stands the task `SessionState.task`
names. A stop breaks that, and `QueuedTurnReferenced` claims it only until then.

`PendingJobs_proofs`: `TypeCorrect`, `StaysOut` (`RemovedStaysOut`), `Tracked`
(`CommittedJobsTracked`) and `Delivers`, the refinement of `JobDelivery`. The
invariant is `Ledger`: what is pending, told, in a call's list, found or known
are disjoint or contained as the delivery needs, and no call is open between
steps.

`TurnStream_proofs`: `ResultFirst` (`ResultBeforeTerminal`), `NothingNew`
(`NothingNewAfterTerminal`), `EndsSaid` (`EndedTurnsSaySo`), `DeltasReadable`
(`DeltasInOpenBlocks`) and `QuestionStays` (`QuestionKept`), for any number
of turns, events and breaks. First each publisher operation is described by what
it adds to what was written: frames that end nothing (`QuietStep`), such frames and
a result (`ResultStep`), or a result and the terminal event it matches
(`EndStep`); the lemmas `QuietKeeps`, `ResultKeeps` and `EndKeeps` say what each
does to the order of the frames. `OwnInv` says which publisher a turn writes to
and that what comes after the lock is inside it;
`EndInv` says whose the open publisher with a terminal event may be: only the
stamping turn's, and it is inside the lock. Without it a turn that shares the
publisher could write on.

`DeltasReadable` needs `Tidy`: the publisher's flags say which block and which
message are open at the end of what it wrote. `QuestionStays` is about the
stream, not a publisher: the turn that asked has ended, and while its question
waits the run inside the lock has not committed its input (`WaitsInv`), since the first commit
closes the question (`QuestionCommits`) and only a turn that is inside the lock
or has ended has committed (`CommittedInv`). A turn that ends after its first
commit therefore ends with no older question open; and neither trimming
(`TrimKeeps`: sentinels only) nor a close of an earlier turn takes the question
away (`KeptInv`).

`ChatRows_proofs`: `TypeCorrect`, `ThreadOrder` (`RowsInThreadOrder`),
`ReadOnce` (`ReportsReadOnce`), `CheckpointHoldsMessage` (`StampHoldsMessage`),
`WritesHeal` (`WriteHeals`) and `StopCloses` (`StopClosesCalls`), for any number
of turns, messages, exceptions, stops and failed transactions. `TypeInv` gives
the shape of everything: what stands in the thread, which snapshot an event is,
what a row holds. On it:

- `OrderInv`: the main agent's rows have no gap except for reports. A
  transaction numbers all it adds between the last row before and the next, so
  that order needs that no message is recorded before one that went before it.
- `ReadInv`: the mark, what was read and is not committed, and what is left to
  read divide the notices' sequence numbers.
- `StampInv`: as long as nothing is stopped, a stamp in its worker thread is of
  the turn that waits for it.
- `CloseInv`: `record_stopped_steps` looks back to the user's last row, so that
  a subagent's call is closed only if it is recorded behind the user's message
  it belongs to. The events that carry the message are two or more before the
  subagent's first (`Promised`), and one failed transaction cannot lose both.
  With two failed transactions it can: the call is then recorded first, stands
  before the user's row, and a stop leaves it open. `StopClosesCalls` therefore
  says `dbFails <= 1`.

`AgentLoop_proofs`: `TypeCorrect`, `ChecksEnd` (`HooksCannotLoop`), `Reminded`
(`OpenListReminded`), `Accepted` (`PayloadPaired`) and `NothingLost`
(`NothingDropped`), for any calls, retries, messages and deliveries. The thread grows at its end, so that for each kind of message its
newest position and the number after a position are known after a step from what
they were before (`NewestAppend`, `CountAppend`, `OthersAdded`). `RunInv` bounds
the invalid responses of a run by `MaxRetries + 1` for each message but the last
that broke a streak, and the streak since; and the reminders by the reports, and
one more while the newest reminder is newer than the newest input. `LoopInv`
adds that a run that goes on has a retry to spare.

The payload is what a loop makes of a thread of any length, so that the last two
need induction over the thread. `UpTo` gives it without a predicate as a
parameter: a set that has 0 and with each number below n the next has all up to
n, since a proper initial part of the interval could otherwise be mapped one to
one into itself without 0. `RepairedSteps` says that the loop takes one message
after another, `RepairedPrefix` that what it did with the first does not depend
on the rest. By `UpTo`:

- `Paired` holds of the loop after each message (`PairedRepaired`), of any list
  of messages: every call but the pending ones has one answer, the pending ones
  are of the last assistant's message with only answers behind it, and no answer
  is without its call. `PairedAnswer`, `PairedTurn` and `PairedClosing` are the
  three things the loop does.
- `Kept` holds of it (`KeptRepaired`) in threads in which each result answers a
  call that is pending when it comes (`Answered`). That is the inductive
  invariant of the thread: results are added only behind the response that made
  their calls, all in one step (`AnsweredResults`), and what comes later changes
  nothing of what was pending before (`AnsweredMore`).

`AgentTree_proofs` is about `GraphRouting` and the trees it is composed in.
`Routed` (`RoutedNodesExist`) and `BudgetKept` (`BudgetHolds`) hold of a graph
with any nodes and edges. `Routed` compares the two passes of
the builder: `ScheduledExist` follows each way a node may schedule to the node
that was added for it. `BudgetKept` needs `SpentInv`: a sequential definition
has one active node (`Alone`), some condition may hold at the count before the
present one, and while a budget node is active at the present one. `Routes` is that a session's graph
implements `RoutingSpec`, from which `TreeRouted` and `TreeBudgetKept` follow;
`Permissions` (`PermissionsAccepted`) and `JobsReach` (`JobsReachReporter`) hold
for any definitions. `BuilderInv` says which builder is at work; `TodoInv` that what is still to be built is of the definition;
`Above` that an agent with tools tracks its jobs unless it is of a nested graph,
is at most two below the orchestrator, and what is between tracks them too,
while the tree is built; `Reported` that what is built and
orchestrated has an orchestrator that reports.

`WorkspaceFiles_proofs`: `TypeCorrect`, `Isolated` (`ScopeIsolation`),
`ListedReadable` (`ListedIsReadable`) and `LeftInDatabase` (`TurnProjected`), for
any sessions, apps, files and subagents. `Ledger` says that every
content in a session's channel, in a copy of its subagents or in the turn's last
files is its own, and that a row is under the key its writer's scope gives it;
`KeysShared` is the heart: a key that one session writes and another reads makes
them share. `ProjectionInv` says when the rows of a session that runs agree with
its channel: its last root event came after its last change, was not refused,
and no subagent is at work. What a subagent projects of its older copies spoils
the rows, but it cannot end without returning its files, and the return is a
change. `NotedInv` says that whatever the turn's events have noted is in the
channel or comes back with a subagent: the last event projects nothing that the
session does not hold, so that a shared row keeps a content of a file it holds.

`Sandbox_proofs`: `TypeCorrect`, `StaysUndone` (`UndoneStaysUndone`), `LinksLead`
(`ShellSeesSkills`), `WritesReported` (`LastWriteReported`) and
`Stopped` (`NoAppLeft`), for any requests and any number of crashes; and
`SupervisorSafe`, types and `NoAppLeft` of the supervisor by itself. `Reach` is
what `stop()` relies on: a running application that `_process` does not name is
one whose start is in progress. `IInv` has
the types, the supervisor's invariant, each of whose steps is the supervisor's
own or a new process's, and `UndoInv`: while the thread holds what was undone and
no turn in it had its rewind fail (`Spoilt`), no request has come past the
rewind unless its own failed. `SkillInv`: one `Session` is under construction at
a time, none is stored meanwhile, and what it has linked so far leads to its own
directories or to a tree that is no link. `ReportInv`: a change noted after the
last report is one the throttle holds back, which the turn's end flushes.

`Ascending` and `MaxOf` of `Ordered` choose by the number of smaller elements;
`RankBelow`, `AscendingLists` and `MaxOfBounds` (in `ChatRows_proofs`) and
`AscendingCovers` (in `TurnStream_proofs`) say what they return, from the
library's theorems about cardinality.

Out of the provers' reach and model-checked only is liveness: `TurnsEnd`,
`ReportedAfterTurn`, `RunEnds`, `AppComesBack`.

Every other property that a passing run checks is stated by a theorem.

## Not modelled

- The tool middleware (`core/middleware/url_fetch_middleware`, `core/tools`
  apart from the artifacts they write): one subprocess or HTTP call per tool
  call, with no state of its own.
- `core/llm`: construction of client objects.
- `replay_snapshots.py`: it asks for a snapshot in the background, never waits
  for it and decides nothing.
- The S3 client and the router of the shared folder: requests of one object
  each. Sessions on a real disk are in `AgentTree` as far as their backend
  decides what is built.
- The proxying of the computer's router and the wait for a port; the
  authentication of requests; the command line; spans and logs.
- Parsing of packs, tools and definitions; prompts; the schema of a structured
  answer; the validation of a question.
- Redis failures, and the day's expiry of a question.

LangGraph, langchain, deepagents, Redis, Postgres and asyncio are external and
modelled as the code uses them.

## Plan

In order:

1. The handlers' mapping of namespaces to tool calls, with subagents of equal
   names; property: a result is shown under the call that made it.
2. A Redis failure in `close`, which skips the wake-up check behind it, composed
   with `TurnScheduler`'s liveness.
3. Larger instances: two jobs in `TurnLive`, two retries in `AgentLoop`.
