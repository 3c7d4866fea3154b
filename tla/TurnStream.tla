----------------------------- MODULE TurnStream -----------------------------
(***************************************************************************)
(* What the turns of one session write to its event stream                 *)
(* (api/publisher.py, core/publishers/event_publisher.py), from the events *)
(* of the graph that the handlers turn into frames (core/execution) to the *)
(* ways a turn ends (ExecutionManager.async_execute, _run_turn_async,      *)
(* _wake_async).                                                           *)
(*                                                                         *)
(* The stream is one Redis key per session: every publisher of the session *)
(* appends to it, and every close sets the key's expiry.  Publishers live  *)
(* in the SessionState, where a request leaves a new one and a turn picks  *)
(* one up when its task starts; so two turns may hold the same one.        *)
(*                                                                         *)
(* The order in which queued turns get the lock, and who may wake up when, *)
(* is TurnScheduler's; here any queued turn may be next.                   *)
(***************************************************************************)
EXTENDS Naturals, Sequences, FiniteSets, Ordered

CONSTANTS
    Requests,     \* POST /session/{id}/message requests
    Wakes,        \* wake-up runs
    None,         \* Python's None
    Bounds        \* bounds to explore: requests sent, the graph's events over
                  \* all runs, and exceptions and presses of the stop button

Turns == Requests \cup Wakes

ASSUME ConstantsAssumption ==
    /\ None \notin Turns
    /\ Requests \cap Wakes = {}
    /\ Bounds \subseteq [requests : Nat, events : Nat, breaks : Nat]

VARIABLES
    stream,     \* the entries of the session's stream that are still there
    expiry,     \* the expiry set on its key
    publisher,  \* SessionState.publisher
    task,       \* SessionState.task
    holder,     \* the turn inside SessionState.turn_lock
    pc,         \* where each turn is
    pub,        \* the publisher a turn picked up
    pubs,       \* each SSEEventPublisher
    run,        \* each run's ExecutionState
    asked,      \* the turn whose question the checkpoint holds open, or None
    committed,  \* the turns whose run made the graph's first commit
    events, breaks,
    bounds

vars == <<stream, expiry, publisher, task, holder, pc, pub, pubs, run, asked, committed,
          events, breaks, bounds>>

MaxEvents == bounds.events

MaxBreaks == bounds.breaks

\* Frames: a content block has an index, a result its subtype, the terminal
\* lifecycle event its outcome.
Subtypes == {"interrupted", "success", "error_during_execution", "cancelled"}

Outcomes == {"completed", "failed", "cancelled"}

Frame(what, detail) == [what |-> what, detail |-> detail]

Whats == {"started", "message-start", "block-start", "delta", "block-finish", "message-finish",
          "other", "result", "terminal"}

Frames == [what : Whats, detail : {"", "text", "tool"} \cup Subtypes \cup Outcomes]

\* What close() appends after the last frame.
Sentinel == Frame("sentinel", "")

\* An SSEEventPublisher; out is what it has written so far.
NewPublisher ==
    [closed |-> FALSE, awaiting |-> FALSE, message |-> FALSE, block |-> FALSE, out |-> <<>>]

PublisherRecords ==
    [closed : BOOLEAN, awaiting : BOOLEAN, message : BOOLEAN, block : BOOLEAN, out : Seq(Frames)]

\* What ExecutionState holds of a run: whether text was streamed, and the tool
\* calls of the message in progress.
NewRun == [streamed |-> FALSE, calls |-> 0]

RunRecords == [streamed : BOOLEAN, calls : 0..MaxEvents]

PCs == {"unsent", "noturn", "created", "waiting", "preparing", "running", "stamping", "ended"}

Entries == [by : Turns, frame : Frames \cup {Sentinel}]

TypeOK ==
    /\ stream \in Seq(Entries)
    /\ expiry \in {"none", "minute", "day"}
    /\ publisher \in Turns \cup {None}
    /\ task \in Turns \cup {None}
    /\ holder \in Turns \cup {None}
    /\ pc \in [Turns -> PCs]
    /\ pub \in [Turns -> Turns \cup {None}]
    /\ pubs \in [Turns -> PublisherRecords]
    /\ run \in [Turns -> RunRecords]
    /\ asked \in Turns \cup {None}
    /\ committed \subseteq Turns
    /\ events \in 0..MaxEvents
    /\ breaks \in 0..MaxBreaks
    /\ bounds \in Bounds

Init ==
    /\ stream = <<>>
    /\ expiry = "none"
    /\ publisher = None
    /\ task = None
    /\ holder = None
    /\ pc = [t \in Turns |-> "unsent"]
    /\ pub = [t \in Turns |-> None]
    /\ pubs = [t \in Turns |-> NewPublisher]
    /\ run = [t \in Turns |-> NewRun]
    /\ asked = None
    /\ committed = {}
    /\ events = 0
    /\ breaks = 0
    /\ bounds \in Bounds

-----------------------------------------------------------------------------
(* SSEEventPublisher: each operation as a function on the publisher *)

\* _write: dropped once the publisher is closed.
Write(p, frames) ==
    [closed |-> p.closed, awaiting |-> p.awaiting, message |-> p.message, block |-> p.block,
     out |-> IF p.closed THEN p.out ELSE p.out \o frames]

Flags(p, message, block) ==
    [closed |-> p.closed, awaiting |-> p.awaiting, message |-> message, block |-> block,
     out |-> p.out]

\* The frames that open and close the text block, when there is one to.
OpenMessage(p) == IF p.message THEN <<>> ELSE <<Frame("message-start", "")>>
OpenBlock(p) == IF p.block THEN <<>> ELSE <<Frame("block-start", "text")>>
FinishBlock(p) == IF p.block THEN <<Frame("block-finish", "text")>> ELSE <<>>

\* publish_stream_event_text
StreamText(p) ==
    Flags(Write(p, OpenMessage(p) \o OpenBlock(p) \o <<Frame("delta", "text")>>), TRUE, TRUE)

\* A tool_use block of publish_assistant: its block's start and finish, and the
\* start of its tool.
ToolFrames == <<Frame("block-start", "tool"), Frame("block-finish", "tool"), Frame("other", "")>>

Repeat(frames, n) == [i \in 1..(n * Len(frames)) |-> frames[((i - 1) % Len(frames)) + 1]]

\* publish_assistant, with calls tool_use blocks.
Assistant(p, calls) ==
    Flags(Write(p, FinishBlock(p) \o Repeat(ToolFrames, calls)), p.message, FALSE)

\* Mutated: the message in progress is not reset.
MessageFinish_NoReset(p) ==
    Flags(Write(p, FinishBlock(p) \o IF p.message THEN <<Frame("message-finish", "")>> ELSE <<>>),
          p.message, p.block)

\* publish_message_finish
MessageFinish(p) ==
    Flags(Write(p, FinishBlock(p) \o IF p.message THEN <<Frame("message-finish", "")>> ELSE <<>>),
          FALSE, FALSE)

\* publish_result: "the last result decides".
Result(p, subtype) ==
    [closed |-> p.closed, awaiting |-> subtype = "interrupted", message |-> FALSE, block |-> FALSE,
     out |-> Write(p, <<Frame("message-finish", ""), Frame("result", subtype)>>).out]

\* Mutated: the lifecycle event first.
TurnEnd_Swapped(p, subtype, outcome) == Result(Write(p, <<Frame("terminal", outcome)>>), subtype)

\* publish_turn_end
TurnEnd(p, subtype, outcome) == Write(Result(p, subtype), <<Frame("terminal", outcome)>>)

\* publish_message_finish and publish_turn_end after it, as _publish_final_result
\* does them; what was streamed is published as an assistant message first,
\* except after an error.
FinalResult(p, streamed, isError) ==
    IF isError
    THEN TurnEnd(MessageFinish(p), "error_during_execution", "failed")
    ELSE TurnEnd(MessageFinish(IF streamed THEN Assistant(p, 0) ELSE p), "success", "completed")

\* _publish_interrupt
Interrupt(p, streamed) ==
    TurnEnd(IF streamed THEN Assistant(p, 0) ELSE p, "interrupted", "completed")

\* Mutated: close() does not remember that it was called.
Closed_Open(p) == p

\* What close() leaves of the publisher.
Closed(p) ==
    [closed |-> TRUE, awaiting |-> p.awaiting, message |-> p.message, block |-> p.block,
     out |-> p.out]

-----------------------------------------------------------------------------
(* The session's stream *)

\* What p's owner appends when it goes from pubs[o] to q.
Appended(o, q) ==
    [i \in 1..(Len(q.out) - Len(pubs[o].out)) |->
        [by |-> o, frame |-> q.out[Len(pubs[o].out) + i]]]

\* The turn publishes: its publisher becomes q.
Publishes(t, q) ==
    /\ pubs' = [pubs EXCEPT ![pub[t]] = q]
    /\ stream' = stream \o Appended(pub[t], q)
    /\ UNCHANGED expiry

\* Mutated: every turn's stream expires after a minute.
CloseExpiry_Minute(p) == "minute"

\* Which TTL close() sets.
CloseExpiry(p) == IF p.awaiting THEN "day" ELSE "minute"

\* The turn publishes and closes its publisher, if it still is open.
PublishesAndCloses(t, q) ==
    /\ pubs' = [pubs EXCEPT ![pub[t]] = Closed(q)]
    /\ stream' = IF q.closed THEN stream
                 ELSE stream \o Appended(pub[t], q) \o <<[by |-> pub[t], frame |-> Sentinel]>>
    /\ expiry' = IF q.closed THEN expiry ELSE CloseExpiry(q)

\* _trim_sentinel: the sentinels among the last ten entries.
TrimSentinel(s) ==
    LET kept == {i \in DOMAIN s : i + 10 <= Len(s) \/ s[i].frame # Sentinel}
    IN  [i \in 1..Cardinality(kept) |-> s[Ascending(kept)[i]]]

\* A minute after a close the key is gone, whatever was added since: only a
\* later close sets its expiry again.  A question's day is not modelled.
MinutePasses ==
    /\ expiry = "minute"
    /\ stream' = <<>>
    /\ expiry' = "none"
    /\ UNCHANGED <<publisher, task, holder, pc, pub, pubs, run, asked, committed, events, breaks>>

-----------------------------------------------------------------------------
(* Requests and the tasks they create *)

\* handle_message: a new publisher for the session, and a turn when there is
\* something to say; a notice or an opening client creates none.
HandleMessage(r) ==
    /\ pc[r] = "unsent"
    /\ Cardinality({q \in Requests : pc[q] # "unsent"}) < bounds.requests
    /\ stream' = TrimSentinel(stream)
    /\ publisher' = r
    /\ \/ /\ pc' = [pc EXCEPT ![r] = "created"]
          /\ task' = r
       \/ /\ pc' = [pc EXCEPT ![r] = "noturn"]
          /\ UNCHANGED task
    /\ UNCHANGED <<expiry, holder, pub, pubs, run, asked, committed, events, breaks>>

\* The first step of a turn's task reads state.publisher: that of the last
\* request, which need not be the turn's own.
Start(r) ==
    /\ pc[r] = "created"
    /\ pc' = [pc EXCEPT ![r] = "waiting"]
    /\ pub' = [pub EXCEPT ![r] = publisher]
    /\ UNCHANGED <<stream, expiry, publisher, task, holder, pubs, run, asked, committed, events, breaks>>

Acquire(r) ==
    /\ pc[r] = "waiting"
    /\ holder = None
    /\ holder' = r
    /\ pc' = [pc EXCEPT ![r] = "preparing"]
    /\ UNCHANGED <<stream, expiry, publisher, task, pub, pubs, run, asked, committed, events, breaks>>

\* A wake-up whose check found something: it has the lock, and its publisher
\* becomes the session's.  It was created while no task was live; a request may
\* have taken its place in state.task since.
WakeBegins(w) ==
    /\ pc[w] = "unsent"
    /\ holder = None
    /\ asked = None
    /\ holder' = w
    /\ stream' = TrimSentinel(stream)
    /\ publisher' = w
    /\ pub' = [pub EXCEPT ![w] = w]
    /\ task' = IF task = None THEN w ELSE task
    /\ pc' = [pc EXCEPT ![w] = "preparing"]
    /\ UNCHANGED <<expiry, pubs, run, asked, committed, events, breaks>>

\* async_execute begins: it publishes that it did, before what it is fed is
\* built and the graph is entered.
Begin(t) ==
    /\ pc[t] = "preparing"
    /\ pc' = [pc EXCEPT ![t] = "running"]
    /\ Publishes(t, Write(pubs[pub[t]], <<Frame("started", "")>>))
    /\ UNCHANGED <<publisher, task, holder, pub, run, asked, committed, events, breaks>>

\* The first checkpoint the graph commits answers or abandons the question that
\* was open: a message's, before its first step; a resumed run's, after it.
FirstCommit(t) ==
    /\ pc[t] = "running"
    /\ t \notin committed
    /\ committed' = committed \cup {t}
    /\ asked' = None
    /\ UNCHANGED <<stream, expiry, publisher, task, holder, pc, pub, pubs, run, events, breaks>>

-----------------------------------------------------------------------------
(* The graph's events, each through its handler *)

\* An event of t's run takes its publisher to q and its ExecutionState to
\* streamed and calls.
Handles(t, q, streamed, calls) ==
    /\ pc[t] = "running"
    /\ events < MaxEvents
    /\ events' = events + 1
    /\ Publishes(t, q)
    /\ run' = [run EXCEPT ![t] = [streamed |-> streamed, calls |-> calls]]
    /\ UNCHANGED <<publisher, task, holder, pc, pub, asked, committed, breaks>>

\* RootMessageHandler: text of the main agent.
RootText(t) == Handles(t, StreamText(pubs[pub[t]]), TRUE, run[t].calls)

\* A tool call of the message in progress; published when the message ends.
RootToolCall(t) == Handles(t, pubs[pub[t]], run[t].streamed, run[t].calls + 1)

RootMessageFinish(t) ==
    Handles(t,
            MessageFinish(IF run[t].calls > 0 THEN Assistant(pubs[pub[t]], run[t].calls)
                          ELSE pubs[pub[t]]),
            run[t].streamed, 0)

\* SubagentMessageHandler and SubagentToolsHandler: a subagent's tool calls and
\* results go out as text of the chat, at any moment.
SubagentText(t) == Handles(t, StreamText(pubs[pub[t]]), run[t].streamed, run[t].calls)

\* Frames that leave the message in progress alone.
Others(t, frames) == Handles(t, Write(pubs[pub[t]], frames), run[t].streamed, run[t].calls)

\* RootToolsHandler: a tool's output or result.
RootTool(t) == Others(t, <<Frame("other", "")>>)

\* LifecycleHandler and SubagentLifecycleHandler: a subagent started or ended.
SubagentLifecycle(t) == Others(t, <<Frame("other", "")>>)

\* RootValuesHandler: new messages are a checkpoint frame and a values frame.
NewMessages == <<Frame("other", ""), Frame("other", "")>>

RootValues(t) == Others(t, NewMessages)

-----------------------------------------------------------------------------
(* How a turn ends *)

\* The finally block: state.task, and the lock.
Leaves(t) ==
    /\ pc' = [pc EXCEPT ![t] = "ended"]
    /\ holder' = IF holder = t THEN None ELSE holder
    /\ task' = IF task = t THEN None ELSE task
    /\ UNCHANGED <<publisher, pub, run>>

\* RootValuesHandler: the graph stopped on ask_user.  The event may bring new
\* messages, which are published first.
Ask(t) ==
    /\ pc[t] = "running"
    /\ asked' = t
    /\ committed' = committed \cup {t}
    /\ \E messages \in {<<>>, NewMessages} :
          PublishesAndCloses(t, Interrupt(Write(pubs[pub[t]], messages), run[t].streamed))
    /\ Leaves(t)
    /\ UNCHANGED <<events, breaks>>

\* The stream drained, every step committed: the final result, then the
\* checkpoint is stamped.
Finish(t) ==
    /\ pc[t] = "running"
    /\ t \in committed
    /\ pc' = [pc EXCEPT ![t] = "stamping"]
    /\ Publishes(t, FinalResult(pubs[pub[t]], run[t].streamed, FALSE))
    /\ UNCHANGED <<publisher, task, holder, pub, run, asked, committed, events, breaks>>

Stamped(t) ==
    /\ pc[t] = "stamping"
    /\ PublishesAndCloses(t, pubs[pub[t]])
    /\ Leaves(t)
    /\ UNCHANGED <<asked, committed, events, breaks>>

\* An exception in the graph or a handler, published by async_execute.
GraphFails(t) ==
    /\ pc[t] = "running"
    /\ breaks < MaxBreaks
    /\ breaks' = breaks + 1
    /\ PublishesAndCloses(t, FinalResult(pubs[pub[t]], run[t].streamed, TRUE))
    /\ Leaves(t)
    /\ UNCHANGED <<asked, committed, events>>

\* Mutated: the task's own exception handler publishes nothing.
FailureOf_Silent(p) == p

\* What an exception before async_execute publishes.
FailureOf(p) == Result(p, "error_during_execution")

PrepareFails(t) ==
    /\ pc[t] = "preparing"
    /\ breaks < MaxBreaks
    /\ breaks' = breaks + 1
    /\ PublishesAndCloses(t, FailureOf(pubs[pub[t]]))
    /\ Leaves(t)
    /\ UNCHANGED <<asked, committed, events>>

\* CancelledError in async_execute, which ends the turn and raises it again for
\* the task's own handler.
CancelRun(t) ==
    /\ pc[t] \in {"running", "stamping"}
    /\ task = t
    /\ breaks < MaxBreaks
    /\ breaks' = breaks + 1
    /\ PublishesAndCloses(t, Result(TurnEnd(pubs[pub[t]], "cancelled", "cancelled"), "cancelled"))
    /\ Leaves(t)
    /\ UNCHANGED <<asked, committed, events>>

\* CancelledError in a turn that waits for the lock or prepares its run.
CancelEarly(t) ==
    /\ pc[t] \in {"waiting", "preparing"}
    /\ task = t
    /\ breaks < MaxBreaks
    /\ breaks' = breaks + 1
    /\ PublishesAndCloses(t, Result(pubs[pub[t]], "cancelled"))
    /\ Leaves(t)
    /\ UNCHANGED <<asked, committed, events>>

\* CancelledError before the task's first step: nothing of it runs.
CancelUnstarted(r) ==
    /\ pc[r] = "created"
    /\ task = r
    /\ breaks < MaxBreaks
    /\ breaks' = breaks + 1
    /\ Leaves(r)
    /\ UNCHANGED <<stream, expiry, pubs, asked, committed, events>>

-----------------------------------------------------------------------------
GraphEvent(t) ==
    \/ RootText(t) \/ RootToolCall(t) \/ RootMessageFinish(t) \/ RootTool(t) \/ RootValues(t)
    \/ SubagentText(t) \/ SubagentLifecycle(t)

Step ==
    \/ \E r \in Requests : HandleMessage(r) \/ Start(r) \/ Acquire(r) \/ CancelUnstarted(r)
    \/ \E w \in Wakes : WakeBegins(w)
    \/ \E t \in Turns : \/ Begin(t) \/ FirstCommit(t) \/ GraphEvent(t)
                        \/ Ask(t) \/ Finish(t) \/ Stamped(t)
                        \/ GraphFails(t) \/ PrepareFails(t)
                        \/ CancelRun(t) \/ CancelEarly(t)
    \/ MinutePasses

Next == Step /\ UNCHANGED bounds

Spec == Init /\ [][Next]_vars

-----------------------------------------------------------------------------
(* Properties *)

\* The frames of publisher o from i to j, exclusive, hold none of whats.
NoneBetween(o, i, j, whats) ==
    \A k \in (i + 1)..(j - 1) : pubs[o].out[k].what \notin whats

\* A client can append every text delta to a block: the block is open and so is
\* its message, however text of subagents, tool calls and the ends of messages
\* interleave (publish_stream_event_text, publish_assistant,
\* publish_message_finish).
DeltasInOpenBlocks ==
    \A o \in Turns : \A i \in DOMAIN pubs[o].out :
        pubs[o].out[i].what = "delta" =>
            /\ \E j \in 1..(i - 1) :
                 /\ pubs[o].out[j] = Frame("block-start", "text")
                 /\ NoneBetween(o, j, i, {"block-finish", "message-finish"})
            /\ \E j \in 1..(i - 1) :
                 /\ pubs[o].out[j].what = "message-start"
                 /\ NoneBetween(o, j, i, {"message-finish"})

\* The result that says what the terminal lifecycle event closes.
Matching(outcome) ==
    CASE outcome = "completed" -> {"interrupted", "success"}
      [] outcome = "failed" -> {"error_during_execution"}
      [] outcome = "cancelled" -> {"cancelled"}

\* "Its result frame, then the lifecycle event that closes it"
\* (publish_turn_end): a client that stops at the terminal event has the
\* question, the reply or the error the turn ended with.
ResultBeforeTerminal ==
    \A o \in Turns : \A i \in DOMAIN pubs[o].out :
        pubs[o].out[i].what = "terminal" =>
            /\ i > 1
            /\ pubs[o].out[i - 1].what = "result"
            /\ pubs[o].out[i - 1].detail \in Matching(pubs[o].out[i].detail)

\* No question, reply or error comes after a terminal event of its publisher: a
\* client that stopped there misses none.  (A stopped turn says so twice.)
NothingNewAfterTerminal ==
    \A o \in Turns : \A i, j \in DOMAIN pubs[o].out :
        /\ pubs[o].out[i].what = "terminal"
        /\ i < j
        => pubs[o].out[j].detail \notin Subtypes \ {"cancelled"}

\* A turn whose task started and ended has said so on the stream, unless another
\* turn closed the publisher they share.
EndedTurnsSaySo ==
    \A t \in Turns :
        /\ pc[t] = "ended" /\ pub[t] # None
        /\ \A u \in Turns \ {t} : pub[u] # pub[t]
        => \E i \in DOMAIN pubs[pub[t]].out : pubs[pub[t]].out[i].what = "result"

\* The question t stopped on is on the stream.
QuestionOnStream(t) ==
    \E i \in DOMAIN stream :
        stream[i] = [by |-> pub[t], frame |-> Frame("result", "interrupted")]

\* A turn that ended, stopped or failed, before the graph's first commit: what
\* was asked before it still waits.
EndedEarly(t) == pc[t] = "ended" /\ pub[t] # None /\ t \notin committed

\* "The question is replayed to every client that connects while it waits"
\* (publisher.py), as long as the turn that asked had a publisher of its own and
\* no turn ended before its first commit: neither what requests trim nor what
\* earlier turns' closes still expire removes it.
QuestionKept ==
    /\ asked # None
    /\ \A t \in Turns \ {asked} : pub[t] # pub[asked] /\ ~EndedEarly(t)
    => QuestionOnStream(asked)

\* The same of every turn, which is what publisher.py says.  It is not so: a turn
\* that is stopped or fails before its first commit closes the stream with the
\* TTL of a finished turn, over a question that still waits.
QuestionReplayed ==
    /\ asked # None
    /\ \A t \in Turns \ {asked} : pub[t] # pub[asked]
    => QuestionOnStream(asked)

\* "How long a turn's events stay replayable after it ends": until it ends, they
\* all are.
RunReplayable ==
    \A t \in Turns :
        pc[t] = "running" =>
            Cardinality({i \in DOMAIN stream : stream[i].by = pub[t] /\ stream[i].frame # Sentinel})
              = Len(pubs[pub[t]].out)
=============================================================================
