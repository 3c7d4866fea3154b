----------------------------- MODULE AgentLoop -----------------------------
(***************************************************************************)
(* The loop of one agent around its model, as the middleware of the        *)
(* repository shapes it: what is delivered before a model call (outcomes   *)
(* of jobs, the computer's reports), the two checks after it that send the *)
(* agent back (InvalidToolCallRetryMiddleware, TodoMiddleware), and the    *)
(* repair of the message list on its way to the model                      *)
(* (sanitize_openai_messages).                                             *)
(*                                                                         *)
(* The agent's thread outlives its runs: a run may be stopped in any       *)
(* phase, which leaves calls without results.  langchain's agent graph is  *)
(* external: the hooks before a model call run in the order of the stack,  *)
(* those after it in reverse, and a jump to the model skips the rest.      *)
(***************************************************************************)
EXTENDS Integers, Sequences, FiniteSets, SequencesExt, Ordered

CONSTANTS
    Calls,          \* tool call ids of one response
    NoCallId,       \* an invalid call whose response gave it no id
    MaxRetries,     \* MAX_RETRIES
    MaxMessages,    \* bound on the thread's messages
    MaxDeliveries   \* bound on outcomes and reports delivered

ASSUME ConstantsAssumption ==
    /\ NoCallId \notin Calls
    /\ IsFiniteSet(Calls)
    /\ {MaxRetries, MaxMessages, MaxDeliveries} \subseteq Nat

VARIABLES
    messages,   \* the agent's thread
    open,       \* whether its todo list has open items
    node,       \* where the run is; "idle" or "stopped" between runs
    start,      \* the thread's length when the run began
    delivered   \* outcomes and reports delivered so far

vars == <<messages, open, node, start, delivered>>

\* "human" is a user's words or a task; "outcome", "report" and "reminder" are
\* notices in the user's position; "ai" carries valid and invalid calls; "tool"
\* answers the call in valid.
Kinds == {"human", "outcome", "report", "reminder", "ai", "tool"}

MessageRecords ==
    [kind : Kinds, valid : SUBSET Calls, invalid : SUBSET (Calls \cup {NoCallId})]

Words(kind) == [kind |-> kind, valid |-> {}, invalid |-> {}]

Response(valid, invalid) == [kind |-> "ai", valid |-> valid, invalid |-> invalid]

Result(call) == [kind |-> "tool", valid |-> {call}, invalid |-> {}]

TypeOK ==
    /\ messages \in Seq(MessageRecords)
    /\ Len(messages) <= MaxMessages
    /\ open \in BOOLEAN
    /\ node \in {"idle", "stopped", "before", "model", "after", "tools"}
    /\ start \in 0..MaxMessages
    /\ delivered \in 0..MaxDeliveries

Init ==
    /\ messages = <<>>
    /\ open = FALSE
    /\ node = "idle"
    /\ start = 0
    /\ delivered = 0

-----------------------------------------------------------------------------
(* What the hooks see of the thread *)

LastIndexOf(Test(_)) == MaxOf({i \in DOMAIN messages : Test(messages[i])} \cup {0})

\* _only_invalid
OnlyInvalid(m) == m.kind = "ai" /\ m.invalid # {} /\ m.valid = {}

\* Mutated: the error sent back for an invalid call ends the streak.
BreaksStreak_Replies(m) == ~OnlyInvalid(m)

\* What ends a streak of invalid responses: anything but a tool message.
BreaksStreak(m) == m.kind # "tool" /\ ~OnlyInvalid(m)

\* "Consecutive responses of nothing but invalid calls, counting this one."
Streak == Cardinality({i \in DOMAIN messages :
                          i > LastIndexOf(BreaksStreak) /\ OnlyInvalid(messages[i])})

\* A run's input as the reminder tells it: any message in the user's position
\* that is neither a reminder nor a job's outcome, a computer's report included.
IsInput(m) == m.kind \in {"human", "report"}

IsReminder(m) == m.kind = "reminder"

\* Mutated: a reminder of an earlier run counts.
RemindedThisRun_Ever == \E i \in DOMAIN messages : IsReminder(messages[i])

\* _reminded_this_run
RemindedThisRun == LastIndexOf(IsReminder) > LastIndexOf(IsInput)

-----------------------------------------------------------------------------
(* The message list on its way to the model *)

\* Mutated: invalid calls are left out of what is sent.
Wire_Valid(m) ==
    [role |-> CASE m.kind = "ai" -> "assistant" [] m.kind = "tool" -> "tool" [] OTHER -> "user",
     calls |-> m.valid]

\* _convert_message_to_dict: an assistant's calls, valid or not, with their ids.
Wire(m) ==
    [role |-> CASE m.kind = "ai" -> "assistant" [] m.kind = "tool" -> "tool" [] OTHER -> "user",
     calls |-> (m.valid \cup m.invalid) \ {NoCallId}]

Synthetic(call) == [role |-> "synthetic", calls |-> {call}]

\* The synthetic answers to the calls still open.
Closing(calls) == LET order == SetToSeq(calls) IN [i \in DOMAIN order |-> Synthetic(order[i])]

\* Mutated: only an assistant's turn closes what is open.
Sanitized_Assistant(state, m) ==
    CASE m.role = "assistant" ->
            [out |-> Append(state.out \o Closing(state.pending), m), pending |-> m.calls]
      [] m.role = "tool" /\ m.calls \subseteq state.pending ->
            [out |-> Append(state.out, m), pending |-> state.pending \ m.calls]
      [] m.role = "tool" /\ ~(m.calls \subseteq state.pending) -> state
      [] OTHER -> [out |-> Append(state.out, m), pending |-> state.pending]

\* One message through sanitize_openai_messages; pending is open_ids.
Sanitized(state, m) ==
    CASE m.role = "tool" /\ m.calls \subseteq state.pending ->
            [out |-> Append(state.out, m), pending |-> state.pending \ m.calls]
      [] m.role = "tool" /\ ~(m.calls \subseteq state.pending) -> state
      [] OTHER ->
            [out |-> Append(state.out \o Closing(state.pending), m), pending |-> m.calls]

\* The loop of sanitize_openai_messages: what it has after the first n messages.
Repaired(wire) ==
    LET state[n \in 0..Len(wire)] ==
            IF n = 0 THEN [out |-> <<>>, pending |-> {}] ELSE Sanitized(state[n - 1], wire[n])
    IN  state

\* The thread as _convert_message_to_dict makes it.
Wires == [i \in DOMAIN messages |-> Wire(messages[i])]

\* sanitize_openai_messages of the whole thread.
Payload ==
    LET end == Repaired(Wires)[Len(messages)]
    IN  end.out \o Closing(end.pending)

-----------------------------------------------------------------------------
(* A run *)

Room(n) == Len(messages) + n <= MaxMessages

Add(new) == Room(Len(new)) /\ messages' = messages \o new

\* A user's words begin a run.
Send ==
    /\ node \in {"idle", "stopped"}
    /\ Add(<<Words("human")>>)
    /\ node' = "before"
    /\ start' = Len(messages)
    /\ UNCHANGED <<open, delivered>>

\* A wake-up begins a run of a thread with a history, without words of its own.
Wake ==
    /\ node \in {"idle", "stopped"}
    /\ messages # <<>>
    /\ delivered < MaxDeliveries
    /\ \E kind \in {"outcome", "report"} : Add(<<Words(kind)>>)
    /\ delivered' = delivered + 1
    /\ node' = "model"
    /\ start' = Len(messages)
    /\ UNCHANGED open

\* The before_model hooks, in the order of the stack: finished jobs' outcomes,
\* then the computer's reports.
Deliver ==
    /\ node = "before"
    /\ \E new \in {<<>>, <<Words("outcome")>>, <<Words("report")>>,
                   <<Words("outcome"), Words("report")>>} :
          /\ delivered + Len(new) <= MaxDeliveries
          /\ delivered' = delivered + Len(new)
          /\ Add(new)
    /\ node' = "model"
    /\ UNCHANGED <<open, start>>

\* The model answers: a final answer, valid calls, invalid ones, or both.
Model ==
    /\ node = "model"
    /\ \E valid \in SUBSET Calls :
         \E invalid \in SUBSET ((Calls \ valid) \cup {NoCallId}) :
            Add(<<Response(valid, invalid)>>)
    /\ node' = "after"
    /\ UNCHANGED <<open, start, delivered>>

LastMessage == messages[Len(messages)]

\* Whether the retry middleware sends the agent back: not past the bound, and
\* only with an answer to a call that has an id.
Retries ==
    /\ OnlyInvalid(LastMessage)
    /\ Streak <= MaxRetries
    /\ LastMessage.invalid \ {NoCallId} # {}

\* InvalidToolCallRetryMiddleware.after_model, the first of the two to run; its
\* jump skips the other.
RetryInvalid ==
    /\ node = "after"
    /\ Retries
    /\ LET order == SetToSeq(LastMessage.invalid \ {NoCallId})
       IN  Add([i \in DOMAIN order |-> Result(order[i])])
    /\ node' = "before"
    /\ UNCHANGED <<open, start, delivered>>

\* "Only a final answer: a reply with tool calls (valid or not) is still working."
IsFinal(m) == m.kind = "ai" /\ m.valid = {} /\ m.invalid = {}

\* TodoMiddleware.after_model
Remind ==
    /\ node = "after"
    /\ ~Retries
    /\ IsFinal(LastMessage) /\ open /\ ~RemindedThisRun
    /\ Add(<<Words("reminder")>>)
    /\ node' = "before"
    /\ UNCHANGED <<open, start, delivered>>

\* Neither sends it back: to the tools, or the run is over.
GoOn ==
    /\ node = "after"
    /\ ~Retries
    /\ ~(IsFinal(LastMessage) /\ open /\ ~RemindedThisRun)
    /\ node' = IF LastMessage.valid # {} THEN "tools" ELSE "idle"
    /\ UNCHANGED <<messages, open, start, delivered>>

\* The valid calls run, write_todos perhaps among them (_write_todos).
Tools ==
    /\ node = "tools"
    /\ LET order == SetToSeq(LastMessage.valid)
       IN  Add([i \in DOMAIN order |-> Result(order[i])])
    /\ open' \in BOOLEAN
    /\ node' = "before"
    /\ UNCHANGED <<start, delivered>>

\* The stop button, or an exception: the thread keeps what was committed.
Stop ==
    /\ node \notin {"idle", "stopped"}
    /\ node' = "stopped"
    /\ UNCHANGED <<messages, open, start, delivered>>

Next ==
    \/ Send \/ Wake \/ Deliver \/ Model \/ RetryInvalid \/ Remind \/ GoOn \/ Tools \/ Stop

Spec == Init /\ [][Next]_vars

-----------------------------------------------------------------------------
(* Properties *)

OfRun(Test(_)) == Cardinality({i \in start+1..Len(messages) : Test(messages[i])})

\* The two checks cannot keep a run going: after MAX_RETRIES responses of
\* nothing but invalid calls in a row it ends, and the reminder is given once
\* per input of the run, where a computer's report counts as an input
\* ("it can never loop", todos.py and invalid_tool_calls.py).
HooksCannotLoop ==
    /\ OfRun(OnlyInvalid) <=
         (MaxRetries + 1) * OfRun(LAMBDA m : m.kind # "tool" /\ ~OnlyInvalid(m))
    /\ OfRun(IsReminder) <= 1 + OfRun(LAMBDA m : m.kind = "report")

\* An agent whose run ends with a final answer and open items has been reminded
\* of them since the last input, whatever earlier runs left in the thread
\* (TodoMiddleware.after_model).
OpenListReminded ==
    [][node' = "idle" /\ node # "idle" /\ open /\ IsFinal(LastMessage)
       => \E i \in DOMAIN messages :
            /\ IsReminder(messages[i])
            /\ \A j \in i..Len(messages) : ~IsInput(messages[j])]_vars

\* The messages after position i up to the next that is no answer.
AnswersTo(p, i) ==
    {j \in DOMAIN p : /\ j > i
                      /\ \A k \in i+1..j : p[k].role \in {"tool", "synthetic"}}

\* What the model is sent is a list its API accepts: each call an assistant
\* makes is answered exactly once before anything else follows, also when a
\* stop, a give-up or a mixed response left calls unanswered, and no result
\* stands without its call (sanitize_openai_messages).
PayloadPaired ==
    node = "model" =>
        LET p == Payload
        IN  /\ \A i \in DOMAIN p : p[i].role = "assistant" =>
                 /\ \A c \in p[i].calls :
                      Cardinality({j \in AnswersTo(p, i) : c \in p[j].calls}) = 1
                 /\ Cardinality(AnswersTo(p, i)) = Cardinality(p[i].calls)
            /\ \A j \in DOMAIN p : p[j].role \in {"tool", "synthetic"} =>
                 \E i \in DOMAIN p : p[i].role = "assistant" /\ j \in AnswersTo(p, i)

\* How many of the first j messages of p the repair did not make up.
Genuine(p, j) == Cardinality({k \in 1..j : p[k].role # "synthetic"})

\* The repair adds and never loses: without the answers made up, the payload is
\* the thread, message by message; no result of a tool and no error sent back
\* for an invalid call is dropped as an orphan.
NothingDropped ==
    node = "model" =>
        LET p == Payload
        IN  /\ Genuine(p, Len(p)) = Len(messages)
            /\ \A j \in DOMAIN p : p[j].role # "synthetic" => p[j] = Wires[Genuine(p, j)]
=============================================================================
