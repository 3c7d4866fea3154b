------------------------------ MODULE ChatRows ------------------------------
(***************************************************************************)
(* The chat's rows of one session: what the harness projects of the        *)
(* agent's thread into chat_messages (core/persistence/message_writer.py), *)
(* fed by the values events of the graph (RootValuesHandler,               *)
(* SubagentValuesHandler), the notices a request brings, the stop button   *)
(* and the checkpoint stamp at a turn's end; and the computer's reports,   *)
(* which the agent reads back from the notice rows (computer_reports.py).  *)
(*                                                                         *)
(* The graph commits a step and emits an event; the executor handles the   *)
(* events later, in order.  Every write is one transaction and may fail.   *)
(* A checkpoint is identified by the number of messages it holds.          *)
(***************************************************************************)
EXTENDS Integers, Sequences, FiniteSets, Ordered

CONSTANTS
    None,          \* Python's None
    MaxTurns,      \* bound on turns
    MaxMessages,   \* bound on the thread's messages
    MaxNotices,    \* bound on notices
    MaxFails,      \* bound on exceptions in the graph
    MaxCancels,    \* bound on presses of the stop button
    MaxDbFails     \* bound on transactions that fail

ASSUME ConstantsAssumption ==
    /\ None \notin Int
    /\ {MaxTurns, MaxMessages, MaxNotices, MaxFails, MaxCancels, MaxDbFails} \subseteq Nat

VARIABLES
    thread,     \* the messages of the thread's last checkpoint
    seen,       \* computer_reports_seen in it
    asked,      \* whether an interrupt is pending in it
    rows,       \* the session's chat_messages
    turn,       \* the last turn that started
    phase,      \* the turn: "idle", "running" or "stamping"
    node,       \* what the graph does next
    found,      \* what before_model read and has not committed
    events,     \* values events emitted and not handled
    counted,    \* values_messages_count, of the main agent and of each subagent
    stamps,     \* checkpoint stamps in a worker thread
    notices, fails, cancels, dbFails

counters == <<notices, fails, cancels, dbFails>>

vars == <<thread, seen, asked, rows, turn, phase, node, found, events, counted, stamps,
          notices, fails, cancels, dbFails>>

\* Messages of the main agent have an id <<i>>, with i their place in the
\* thread; those of the subagent that call <<i>> runs have <<i, k>>, and the row
\* that closes a stopped call c has <<0>> \o c.  A notice has none.
Ids == Seq(Nat)

NoId == <<>>

Kinds == {"human", "call", "result", "reply", "report", "notice"}

\* about is the call a result answers, or the sequence of a delivered report;
\* born is the turn that committed the message.
Message(id, kind, about) == [id |-> id, kind |-> kind, about |-> about]

Sources == {"deepagents", "subagent", "notification"}

RowRecords ==
    [seq : Nat, id : Ids, kind : Kinds, about : Ids, source : Sources, checkpoint : Nat]

\* A subagent's messages: its task, a call and the call's result.
SubagentMessages(i) ==
    <<Message(<<i, 1>>, "human", NoId), Message(<<i, 2>>, "call", NoId),
      Message(<<i, 3>>, "result", <<i, 2>>)>>

\* Events: a snapshot of the main agent's messages (of = 0) or of the subagent
\* of call <<of>>; and the one that carries the interrupt.
Root == 0

EventRecords == [of : 0..MaxMessages, n : 0..(MaxMessages + 3), interrupt : BOOLEAN]

ThreadMessages ==
    [id : Ids, kind : Kinds, about : Ids, born : 1..MaxTurns]

TypeOK ==
    /\ thread \in Seq(ThreadMessages)
    /\ Len(thread) <= MaxMessages
    /\ seen \in Nat \cup {-1}
    /\ asked \in BOOLEAN
    /\ rows \in SUBSET RowRecords
    /\ turn \in 0..MaxTurns
    /\ phase \in {"idle", "running", "stamping"}
    /\ node \in {"none", "report", "deliver", "model", "tool", "ask", "done"}
    /\ found \in [reports : SUBSET Nat, last : Nat \cup {None}]
    /\ events \in Seq(EventRecords)
    /\ counted \in [0..MaxMessages -> 0..(MaxMessages + 3)]
    /\ stamps \in SUBSET [turn : 1..MaxTurns, checkpoint : 1..MaxMessages]
    /\ notices \in 0..MaxNotices
    /\ fails \in 0..MaxFails
    /\ cancels \in 0..MaxCancels
    /\ dbFails \in 0..MaxDbFails

NothingFound == [reports |-> {}, last |-> None]

NothingCounted == [of \in 0..MaxMessages |-> 0]

Init ==
    /\ thread = <<>>
    /\ seen = -1
    /\ asked = FALSE
    /\ rows = {}
    /\ turn = 0
    /\ phase = "idle"
    /\ node = "none"
    /\ found = NothingFound
    /\ events = <<>>
    /\ counted = NothingCounted
    /\ stamps = {}
    /\ notices = 0
    /\ fails = 0
    /\ cancels = 0
    /\ dbFails = 0

-----------------------------------------------------------------------------
(* write_chat_messages *)

\* SELECT COALESCE(MAX(sequence), -1) + 1
NextSequence == MaxOf({r.seq : r \in rows} \cup {-1}) + 1

\* Mutated: the caller's count is trusted.
Base_Offset(next, offset) == offset

\* "Keep the caller's offset when it is already ahead".
Base(next, offset) == IF offset > next THEN offset ELSE next

\* A message the session has recorded is skipped (ON CONFLICT DO NOTHING).
Recorded(id) == id # NoId /\ \E r \in rows : r.id = id

\* The rows written of messages, whose i-th takes the i-th number from the base
\* whether it is new or not.
Written(messages, offset, source) ==
    {[seq |-> Base(NextSequence, offset) + (i - 1), id |-> messages[i].id,
      kind |-> messages[i].kind, about |-> messages[i].about, source |-> source,
      checkpoint |-> 0] :
     i \in {j \in DOMAIN messages : ~Recorded(messages[j].id)}}

\* A transaction that adds new rows, or fails and adds none.
Transaction(new) ==
    \/ rows' = rows \cup new /\ UNCHANGED dbFails
    \/ /\ dbFails < MaxDbFails
       /\ dbFails' = dbFails + 1
       /\ UNCHANGED rows

-----------------------------------------------------------------------------
(* Turns and the graph's steps *)

\* A step of the graph commits messages and emits their snapshot.
Commit(messages) ==
    /\ Len(thread) + Len(messages) <= MaxMessages
    /\ thread' = thread \o messages
    /\ events' = Append(events,
                    [of |-> Root, n |-> Len(thread) + Len(messages), interrupt |-> FALSE])

\* The message a step commits, at the end of the thread.
NextMessage(kind, about, t) ==
    [id |-> <<Len(thread) + 1>>, kind |-> kind, about |-> about, born |-> t]

\* A user's message.  On a paused graph it is the answer: the step that asked
\* runs again and commits it as the call's result.
Send ==
    /\ phase = "idle"
    /\ turn < MaxTurns
    /\ turn' = turn + 1
    /\ phase' = "running"
    /\ counted' = NothingCounted
    /\ \/ /\ asked
          /\ node' = "tool"
          /\ UNCHANGED <<thread, events>>
       \/ /\ ~asked
          /\ node' = "report"
          /\ Commit(<<NextMessage("human", NoId, turn + 1)>>)
    /\ UNCHANGED <<seen, asked, rows, found, stamps, counters>>

Notices == {r \in rows : r.source = "notification"}

\* unread_reports
Unread(mark) == {r \in Notices : r.seq > mark /\ r.kind = "report"}

\* A wake-up run, which brings no message.
Wake ==
    /\ phase = "idle"
    /\ turn < MaxTurns
    /\ ~asked
    /\ thread # <<>>
    /\ Unread(seen) # {}
    /\ turn' = turn + 1
    /\ phase' = "running"
    /\ counted' = NothingCounted
    /\ node' = "report"
    /\ UNCHANGED <<thread, seen, asked, rows, found, events, stamps, counters>>

\* abefore_model reads the notices after the mark, in a worker thread.
ReadReports ==
    /\ phase = "running"
    /\ node = "report"
    /\ found' = [reports |-> {r.seq : r \in Unread(seen)},
                 last |-> LET new == {r.seq : r \in {x \in Notices : x.seq > seen}}
                          IN  IF new = {} THEN None ELSE MaxOf(new)]
    /\ node' = "deliver"
    /\ UNCHANGED <<thread, seen, asked, rows, turn, phase, events, counted, stamps, counters>>

\* Mutated: the mark is the last notice there is when the step commits.
Mark_AtCommit(f) == IF Notices = {} THEN seen ELSE MaxOf({r.seq : r \in Notices})

\* "Every notice row read moves the mark".
Mark(f) == IF f.last = None THEN seen ELSE f.last

\* _deliver: the reports read and the mark, committed together.
DeliverReports ==
    /\ phase = "running"
    /\ node = "deliver"
    /\ node' = "model"
    /\ seen' = Mark(found)
    /\ IF found.reports = {}
       THEN UNCHANGED <<thread, events>>
       ELSE Commit([i \in 1..Cardinality(found.reports) |->
                      [id |-> <<Len(thread) + i>>, kind |-> "report",
                       about |-> <<Ascending(found.reports)[i]>>, born |-> turn]])
    /\ found' = NothingFound
    /\ UNCHANGED <<asked, rows, turn, phase, counted, stamps, counters>>

\* A model call: a reply ends the run, a call goes to its tool or asks the user.
Model ==
    /\ phase = "running"
    /\ node = "model"
    /\ \/ Commit(<<NextMessage("reply", NoId, turn)>>) /\ node' = "done"
       \/ Commit(<<NextMessage("call", NoId, turn)>>) /\ node' \in {"tool", "ask"}
    /\ UNCHANGED <<seen, asked, rows, turn, phase, found, counted, stamps, counters>>

\* The call in progress: the last one without a result.
LastCall == MaxOf({i \in DOMAIN thread : thread[i].kind = "call"})

\* A subagent of the call in progress gets its next message.
SubagentStep ==
    /\ phase = "running"
    /\ node = "tool"
    /\ ~asked
    /\ LET sent == {e.n : e \in {events[j] : j \in DOMAIN events} \cap
                                [of : {LastCall}, n : 0..3, interrupt : {FALSE}]}
           k == MaxOf(sent \cup {counted[LastCall]})
       IN  /\ k < 3
           /\ events' = Append(events, [of |-> LastCall, n |-> k + 1, interrupt |-> FALSE])
    /\ UNCHANGED <<thread, seen, asked, rows, turn, phase, node, found, counted, stamps, counters>>

\* The tool's result; that of ask_user is the user's answer.
Tool ==
    /\ phase = "running"
    /\ node = "tool"
    /\ Commit(<<NextMessage("result", <<LastCall>>, turn)>>)
    /\ node' = "report"
    /\ asked' = FALSE
    /\ UNCHANGED <<seen, rows, turn, phase, found, counted, stamps, counters>>

\* ask_user interrupts: the pause is saved, and its event is the run's last.
Interrupt ==
    /\ phase = "running"
    /\ node = "ask"
    /\ asked' = TRUE
    /\ node' = "none"
    /\ events' = Append(events, [of |-> Root, n |-> Len(thread), interrupt |-> TRUE])
    /\ UNCHANGED <<thread, seen, rows, turn, phase, found, counted, stamps, counters>>

-----------------------------------------------------------------------------
(* The values handlers *)

\* What the chat shows of the snapshot: not the reports.
Visible(e) ==
    IF e.of = Root
    THEN LET shown == {i \in 1..e.n : thread[i].kind # "report"}
         IN  [i \in 1..Cardinality(shown) |-> thread[Ascending(shown)[i]]]
    ELSE SubSeq(SubagentMessages(e.of), 1, e.n)

\* Mutated: only what this run has not counted yet is written.
Batch_New(e) == SubSeq(Visible(e), counted[e.of] + 1, Len(Visible(e)))

\* What is written of a snapshot: all of it.
Batch(e) == Visible(e)

\* RootValuesHandler and SubagentValuesHandler; an interrupt ends the turn.
HandleValues ==
    /\ phase = "running"
    /\ events # <<>>
    /\ LET e == Head(events)
       IN  /\ IF e.n > counted[e.of]
              THEN /\ counted' = [counted EXCEPT ![e.of] = e.n]
                   /\ Transaction(Written(Batch(e), counted[e.of],
                                          IF e.of = Root THEN "deepagents" ELSE "subagent"))
              ELSE UNCHANGED <<counted, rows, dbFails>>
           /\ phase' = IF e.interrupt THEN "idle" ELSE phase
    /\ events' = Tail(events)
    /\ UNCHANGED <<thread, seen, asked, turn, node, found, stamps, notices, fails, cancels>>

-----------------------------------------------------------------------------
(* How a turn ends *)

\* Mutated: the checkpoint before the last one.
LatestCheckpoint_Parent == Len(thread) - 1

\* What aget_state returns when the stream has drained.
LatestCheckpoint == Len(thread)

\* The stream drained: the stamp goes to a worker thread, and the turn waits.
Finish ==
    /\ phase = "running"
    /\ node = "done"
    /\ events = <<>>
    /\ phase' = "stamping"
    /\ node' = "none"
    /\ stamps' = stamps \cup {[turn |-> turn, checkpoint |-> LatestCheckpoint]}
    /\ UNCHANGED <<thread, seen, asked, rows, turn, found, events, counted, counters>>

\* stamp_checkpoint_id on a row.
Stamped(r, c) ==
    [seq |-> r.seq, id |-> r.id, kind |-> r.kind, about |-> r.about, source |-> r.source,
     checkpoint |-> IF r.checkpoint = 0 THEN c ELSE r.checkpoint]

\* The update runs, also when its turn was stopped meanwhile.
Stamp(s) ==
    /\ s \in stamps
    /\ stamps' = stamps \ {s}
    /\ \/ rows' = {Stamped(r, s.checkpoint) : r \in rows} /\ UNCHANGED dbFails
       \/ /\ dbFails < MaxDbFails
          /\ dbFails' = dbFails + 1
          /\ UNCHANGED rows
    /\ phase' = IF phase = "stamping" /\ s.turn = turn THEN "idle" ELSE phase
    /\ UNCHANGED <<thread, seen, asked, turn, node, found, events, counted, notices, fails, cancels>>

\* The run is over: what it had read or emitted is gone with it.
Over ==
    /\ phase' = "idle"
    /\ node' = "none"
    /\ found' = NothingFound
    /\ events' = <<>>
    /\ UNCHANGED <<thread, seen, asked, turn, counted, stamps, notices>>

\* An exception in the graph or a handler.
Fail ==
    /\ phase = "running"
    /\ fails < MaxFails
    /\ fails' = fails + 1
    /\ Over
    /\ UNCHANGED <<rows, cancels, dbFails>>

\* Mutated: a subagent's task counts as a message of the user.
IsUserRow_Any(r) == r.kind = "human"

\* role = 'user' AND source <> 'subagent'
IsUserRow(r) == r.kind = "human" /\ r.source # "subagent"

\* The rows after the user's last message.
CurrentRows ==
    LET user == {r.seq : r \in {x \in rows : IsUserRow(x)}}
    IN  {r \in rows : r.seq > MaxOf(user \cup {-1})}

\* _unanswered_calls, of one source, in order.
UnansweredCalls(source) ==
    LET open == {r \in CurrentRows : /\ r.kind = "call"
                                     /\ r.source = source
                                     /\ \A x \in CurrentRows : x.about # r.id}
    IN  [i \in 1..Cardinality(open) |->
            (CHOOSE r \in open : r.seq = Ascending({x.seq : x \in open})[i]).id]

\* record_stopped_steps: the results that close them.
StoppedRows(source) ==
    LET calls == UnansweredCalls(source)
    IN  [i \in DOMAIN calls |-> Message(<<0>> \o calls[i], "result", calls[i])]

\* The stop button, for a run or its stamp.  The calls of the main agent and
\* those of its subagents are closed by a transaction each.
Cancel ==
    /\ phase \in {"running", "stamping"}
    /\ cancels < MaxCancels
    /\ cancels' = cancels + 1
    /\ LET root == Written(StoppedRows("deepagents"), 0, "deepagents")
           sub(before) == Written(StoppedRows("subagent"), NextSequence + before, "subagent")
       IN  \/ /\ rows' = rows \cup root \cup sub(Cardinality(root))
              /\ UNCHANGED dbFails
           \/ /\ dbFails < MaxDbFails
              /\ dbFails' = dbFails + 1
              /\ rows' \in {rows, rows \cup root, rows \cup sub(0)}
    /\ Over
    /\ UNCHANGED fails

\* _write_notice_row, in a request of its own at any moment.
Notice ==
    /\ notices < MaxNotices
    /\ notices' = notices + 1
    /\ \E kind \in {"notice", "report"} :
          Transaction(Written(<<Message(NoId, kind, NoId)>>, 0, "notification"))
    /\ UNCHANGED <<thread, seen, asked, turn, phase, node, found, events, counted, stamps,
                   fails, cancels>>

-----------------------------------------------------------------------------
Graph ==
    \/ ReadReports \/ DeliverReports \/ Model \/ SubagentStep \/ Tool \/ Interrupt

Next ==
    \/ Send \/ Wake \/ Graph \/ HandleValues
    \/ Finish \/ (\E s \in stamps : Stamp(s)) \/ Fail \/ Cancel
    \/ Notice

Spec == Init /\ [][Next]_vars

-----------------------------------------------------------------------------
(* Properties *)

\* The main agent's rows stand in the order of its thread, however late a
\* message was recorded.
RowsInThreadOrder ==
    \A r, s \in rows :
        /\ Len(r.id) = 1 /\ Len(s.id) = 1
        /\ r.id[1] < s.id[1]
        => r.seq < s.seq

\* A values event that is written leaves no visible message of its snapshot
\* without a row, those of writes that failed and of turns that were stopped
\* or failed before included (RootValuesHandler, write_chat_messages).
WriteHeals ==
    [][\A of \in 0..MaxMessages :
         /\ counted'[of] > counted[of]
         /\ dbFails' = dbFails
         => \A m \in {Visible(Head(events))[i] : i \in DOMAIN Visible(Head(events))} :
              \E r \in rows' : r.id = m.id]_vars

\* Every report the mark has passed was given to the agent, none twice, though
\* notices arrive between reading and committing and runs die in between
\* (ComputerReportMiddleware).
ReportsReadOnce ==
    /\ \A r \in Notices : r.kind = "report" /\ r.seq <= seen =>
         \E i \in DOMAIN thread : thread[i].kind = "report" /\ thread[i].about = <<r.seq>>
    /\ \A i, j \in DOMAIN thread :
         /\ thread[i].kind = "report" /\ thread[j].kind = "report"
         /\ thread[i].about = thread[j].about
         => i = j

\* The turn a row of an agent's message belongs to.
Born(r) == thread[r.id[1]].born

\* A stop closes every call of the turn that the chat shows, also those of
\* subagents (record_stopped_steps), when at most one transaction has failed:
\* with two, the user's message may be recorded behind a subagent's call.
StopClosesCalls ==
    [][cancels' > cancels /\ dbFails' = dbFails /\ dbFails <= 1
       => \A r \in rows' : r.kind = "call" /\ Born(r) = turn =>
            \E x \in rows' : x.kind = "result" /\ x.about = r.id]_vars

\* Restoring to a row's checkpoint keeps the row's message, as long as no stop
\* leaves a stamp behind in its worker thread (stamp_checkpoint_id).
StampHoldsMessage ==
    cancels = 0 =>
        \A r \in rows : Len(r.id) > 0 /\ r.checkpoint # 0 => r.id[1] <= r.checkpoint

\* "Every row for this session still missing a checkpoint id belongs to the turn
\* that just finished" (stamp_checkpoint_id): a row is stamped by its own turn.
StampedByOwnTurn ==
    \A r \in rows : Len(r.id) > 0 /\ r.id[1] # 0 /\ r.checkpoint # 0 =>
        thread[r.checkpoint].born = Born(r)
=============================================================================
