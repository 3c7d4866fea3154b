------------------------ MODULE TurnScheduler_proofs ------------------------
(***************************************************************************)
(* Proofs about TurnScheduler, for every set of requests, wake-ups and     *)
(* jobs and every bound.                                                   *)
(*                                                                         *)
(* A task inside turn_lock is the lock's holder, and without a restore     *)
(* there is one SessionState (IInv); the rest is built on that.  A message *)
(* is in the graph once its turn has fed it (FedInv), a question that is   *)
(* open is what the turn before its first model call was fed the answer    *)
(* to (AnswerInv), and the two queues before the lock, the loop's and the  *)
(* lock's own, hold SessionState.task behind every other task (QueueInv).  *)
(***************************************************************************)
EXTENDS TurnScheduler, SequenceTheorems, TLAPS

-----------------------------------------------------------------------------
(* The inductive invariant *)

\* A task that was created belongs to a SessionState, and one inside the lock
\* is the lock's holder.
LockInv ==
    \A t \in Tasks :
        /\ pc[t] # "none" => owner[t] \in Requests
        /\ pc[t] \in Holding => holder[owner[t]] = t

\* The turn task of a request does not exist before the request is dispatched.
FreshInv ==
    \A r \in Requests :
        /\ kind[r] = "unsent" => pc[r] = "none" /\ r \notin restoring
        /\ r \in restoring => pc[r] = "none"

\* Without restores, session_store's entry is never replaced.
OneSession ==
    MaxRestores = 0 =>
        /\ restoring = {}
        /\ \A t \in Tasks : pc[t] # "none" => owner[t] = store

IInv == TypeOK /\ LockInv /\ FreshInv /\ OneSession

\* What a wake-up check saw still holds until the first model call of its run.
WakeInv ==
    MaxRestores = 0 =>
        \A w \in Wakes :
            pc[w] = "report" \/ (pc[w] = "running" /\ w \notin called) => SomethingToReport

-----------------------------------------------------------------------------
(* The helpers of the handlers *)

LEMMA WithoutType ==
    ASSUME NEW S, NEW q \in Seq(S), NEW t
    PROVE  Without(q, t) \in Seq(S)
<1>1. CASE \E i \in 1..Len(q) : q[i] = t
  <2> DEFINE k == CHOOSE i \in 1..Len(q) : q[i] = t
  <2>1. k \in 1..Len(q) BY <1>1
  <2>2. Len(q) \in Nat BY LenProperties
  <2> HIDE DEF k
  <2>3. SubSeq(q, 1, k - 1) \in Seq(S)
    <3>1. \A i \in 1..(k - 1) : q[i] \in S BY <2>1, <2>2, ElementOfSeq
    <3> QED BY <2>1, <2>2, <3>1, SubSeqProperties
  <2>4. SubSeq(q, k + 1, Len(q)) \in Seq(S)
    <3>1. \A i \in (k + 1)..Len(q) : q[i] \in S BY <2>1, <2>2, ElementOfSeq
    <3> QED BY <2>1, <2>2, <3>1, SubSeqProperties
  <2>5. SubSeq(q, 1, k - 1) \o SubSeq(q, k + 1, Len(q)) \in Seq(S)
    BY <2>3, <2>4, ConcatProperties
  <2> QED BY <1>1, <2>5 DEF Without, k
<1>2. CASE ~ \E i \in 1..Len(q) : q[i] = t
  BY <1>2 DEF Without
<1> QED BY <1>1, <1>2

\* _schedule_wake creates at most one task, of an id not used before.
LEMMA ScheduleWakeEffect ==
    ASSUME TypeOK, NEW s \in Requests,
           NEW tk \in [Requests -> Tasks \cup {None}], NEW p \in [Tasks -> PCs],
           ready \in Seq(Tasks), ScheduleWake(s, tk, p)
    PROVE  /\ task' \in [Requests -> Tasks \cup {None}]
           /\ pc' \in [Tasks -> PCs]
           /\ owner' \in [Tasks -> Requests \cup {None}]
           /\ ready' \in Seq(Tasks)
           /\ \A t \in Tasks :
                \/ pc'[t] = p[t] /\ owner'[t] = owner[t]
                \/ t \in Wakes /\ p[t] = "none" /\ pc'[t] = "created" /\ owner'[t] = s
<1> DEFINE busy == tk[s] # None /\ p[tk[s]] \notin Ended \cup {"none"}
           free == {x \in Wakes : p[x] = "none"}
           w == CHOOSE x \in free : TRUE
<1>1. CASE busy
  BY <1>1 DEF ScheduleWake, TypeOK
<1>2. CASE ~busy
  <2>1. /\ free # {}
        /\ task' = [tk EXCEPT ![s] = w]
        /\ pc' = [p EXCEPT ![w] = "created"]
        /\ owner' = [owner EXCEPT ![w] = s]
        /\ ready' = Append(ready, w)
    BY <1>2 DEF ScheduleWake
  <2>2. w \in free BY <2>1
  <2>3. w \in Wakes /\ w \in Tasks /\ p[w] = "none" BY <2>2 DEF Tasks
  <2> HIDE DEF w
  <2> QED BY <2>1, <2>3 DEF TypeOK, PCs
<1> QED BY <1>1, <1>2

\* The end of a task touches no other task except one it may create.
LEMMA EndTaskEffect ==
    ASSUME TypeOK, NEW t \in Tasks, owner[t] \in Requests,
           NEW how \in Ended, NEW clean,
           EndTask(t, how, clean)
    PROVE  /\ task' \in [Requests -> Tasks \cup {None}]
           /\ pc' \in [Tasks -> PCs]
           /\ owner' \in [Tasks -> Requests \cup {None}]
           /\ ready' \in Seq(Tasks)
           /\ holder' \in [Requests -> Tasks \cup {None}]
           /\ waiters' \in [Requests -> Seq(Tasks)]
           /\ cancelled' \in SUBSET Tasks
           /\ pc'[t] = how /\ owner'[t] = owner[t]
           /\ \A u \in Tasks \ {t} :
                \/ pc'[u] = pc[u] /\ owner'[u] = owner[u]
                \/ u \in Wakes /\ pc[u] = "none" /\ pc'[u] = "created" /\ owner'[u] = owner[t]
           /\ \A r \in Requests :
                holder'[r] = holder[r] \/ (holder[r] = t /\ holder'[r] = None)
<1> DEFINE s == owner[t]
           tk == IF IsCurrent(t) THEN [task EXCEPT ![s] = None] ELSE task
           p == [pc EXCEPT ![t] = how]
<1>1. /\ ReleaseLock(t)
      /\ cancelled' = cancelled \ {t}
      /\ IF WakesNext(t, clean)
         THEN ScheduleWake(s, tk, p)
         ELSE task' = tk /\ pc' = p /\ UNCHANGED <<owner, ready>>
  BY DEF EndTask
<1>2. tk \in [Requests -> Tasks \cup {None}] /\ p \in [Tasks -> PCs] /\ p[t] = how
  BY DEF TypeOK, PCs, Ended
<1>3. /\ task' \in [Requests -> Tasks \cup {None}]
      /\ pc' \in [Tasks -> PCs]
      /\ owner' \in [Tasks -> Requests \cup {None}]
      /\ ready' \in Seq(Tasks)
      /\ \A u \in Tasks :
           \/ pc'[u] = p[u] /\ owner'[u] = owner[u]
           \/ u \in Wakes /\ p[u] = "none" /\ pc'[u] = "created" /\ owner'[u] = s
  <2> HIDE DEF tk, p
  <2>1. CASE WakesNext(t, clean)
    <3>1. ScheduleWake(s, tk, p) BY <1>1, <2>1
    <3>2. s \in Requests /\ ready \in Seq(Tasks) BY DEF TypeOK
    <3> QED BY <1>2, <3>1, <3>2, ScheduleWakeEffect
  <2>2. CASE ~WakesNext(t, clean)
    BY <1>1, <1>2, <2>2 DEF TypeOK
  <2> QED BY <2>1, <2>2
<1>4. pc'[t] = how /\ owner'[t] = owner[t]
  BY <1>2, <1>3 DEF Ended
<1>5. \A u \in Tasks \ {t} :
        \/ pc'[u] = pc[u] /\ owner'[u] = owner[u]
        \/ u \in Wakes /\ pc[u] = "none" /\ pc'[u] = "created" /\ owner'[u] = owner[t]
  BY <1>3 DEF TypeOK
<1>6. cancelled' \in SUBSET Tasks
  BY <1>1 DEF TypeOK
<1>7. /\ holder' \in [Requests -> Tasks \cup {None}]
      /\ \A r \in Requests : holder'[r] = holder[r] \/ (holder[r] = t /\ holder'[r] = None)
  BY <1>1 DEF ReleaseLock, TypeOK
<1>8. waiters' \in [Requests -> Seq(Tasks)]
  <2>1. waiters' = [waiters EXCEPT ![s] = Without(@, t)] BY <1>1 DEF ReleaseLock
  <2>2. waiters \in [Requests -> Seq(Tasks)] BY DEF TypeOK
  <2>3. Without(waiters[s], t) \in Seq(Tasks) BY <2>2, WithoutType
  <2> QED BY <2>1, <2>2, <2>3
<1> QED BY <1>3, <1>4, <1>5, <1>6, <1>7, <1>8

\* handle_message's last part creates at most one task and no holder.
LEMMA DispatchEffect ==
    ASSUME TypeOK, NEW r \in Requests, NEW k, NEW current \in Requests \cup {None},
           pc[r] = "none", Dispatch(r, k, current)
    PROVE  LET s == IF current = None THEN r ELSE current
           IN  /\ task' \in [Requests -> Tasks \cup {None}]
               /\ pc' \in [Tasks -> PCs]
               /\ owner' \in [Tasks -> Requests \cup {None}]
               /\ ready' \in Seq(Tasks)
               /\ store' = s /\ s \in Requests
               /\ resume' \in [Requests -> Requests \cup {None}]
               /\ \A t \in Tasks :
                    \/ pc'[t] = pc[t] /\ owner'[t] = owner[t]
                    \/ /\ t \in Wakes \cup {r} /\ pc[t] = "none"
                       /\ pc'[t] = "created" /\ owner'[t] = s
<1> DEFINE s == IF current = None THEN r ELSE current
<1>1. s \in Requests OBVIOUS
<1>2. /\ store' = s
      /\ resume' \in [Requests -> Requests \cup {None}]
  BY DEF Dispatch, TypeOK, Tasks
<1>3. \/ CreateTurn(r, s) \/ ScheduleWake(s, task, pc) \/ UNCHANGED taskVars
  BY DEF Dispatch
<1> HIDE DEF s
<1>4. /\ task' \in [Requests -> Tasks \cup {None}]
      /\ pc' \in [Tasks -> PCs]
      /\ owner' \in [Tasks -> Requests \cup {None}]
      /\ ready' \in Seq(Tasks)
      /\ \A t \in Tasks :
           \/ pc'[t] = pc[t] /\ owner'[t] = owner[t]
           \/ t \in Wakes \cup {r} /\ pc[t] = "none" /\ pc'[t] = "created" /\ owner'[t] = s
  <2>1. CASE CreateTurn(r, s)
    BY <1>1, <2>1 DEF CreateTurn, TypeOK, Tasks, PCs
  <2>2. CASE ScheduleWake(s, task, pc)
    <3>1. /\ task \in [Requests -> Tasks \cup {None}]
          /\ pc \in [Tasks -> PCs]
          /\ ready \in Seq(Tasks)
      BY DEF TypeOK
    <3> QED BY <1>1, <2>2, <3>1, ScheduleWakeEffect
  <2>3. CASE UNCHANGED taskVars
    BY <2>3 DEF taskVars, TypeOK
  <2> QED BY <1>3, <2>1, <2>2, <2>3
<1> QED BY <1>1, <1>2, <1>4 DEF s

-----------------------------------------------------------------------------
(* Each action preserves the types *)

USE DEF requestVars, sessionVars, taskVars, lockVars, runVars, graphVars, counters

\* Every action that ends a task, seen from the invariants.
TaskEnds(t) ==
    \/ Complete(t) \/ CompleteUnresumed(t) \/ Ask(t) \/ GraphFails(t) \/ PrepareFails(t)
    \/ CancelDelivered(t)
    \/ t \in Wakes /\ (WakeFails(t) \/ SkipWake(t))

LEMMA TaskEndsIsEndTask ==
    ASSUME TypeOK, LockInv, NEW t \in Tasks, TaskEnds(t)
    PROVE  /\ pc[t] \in Holding \cup {"waiting"} /\ owner[t] \in Requests
           /\ UNCHANGED <<requestVars, store, resume, called, input>>
           /\ \E how \in Ended, clean \in BOOLEAN :
                EndTask(t, how, clean)
<1>1. pc[t] \in Holding \cup {"waiting"}
  BY DEF TaskEnds, Complete, CompleteUnresumed, Ask, GraphFails, PrepareFails, CancelDelivered,
         WakeFails, SkipWake, Runs, Holding
<1>2. owner[t] \in Requests
  BY <1>1 DEF LockInv, Holding
<1>3. UNCHANGED <<requestVars, store, resume, called, input>>
  BY DEF TaskEnds, Complete, CompleteUnresumed, Ask, GraphFails, PrepareFails, CancelDelivered,
         WakeFails, SkipWake
<1>5. {"done", "failed", "cancelled"} \subseteq Ended
  BY DEF Ended
<1>6. \/ EndTask(t, "done", TRUE) \/ EndTask(t, "failed", TRUE)
      \/ EndTask(t, "failed", FALSE) \/ EndTask(t, "cancelled", FALSE)
      \/ EndTask(t, "done", FALSE)
  BY DEF TaskEnds, Complete, CompleteUnresumed, Ask, GraphFails, PrepareFails, CancelDelivered,
         WakeFails, SkipWake
<1>7. \E how \in Ended, clean \in BOOLEAN :
        EndTask(t, how, clean)
  BY <1>5, <1>6
<1> QED BY <1>1, <1>2, <1>3, <1>7

LEMMA BuildInputType ==
    ASSUME TypeOK, NEW t \in Tasks, NEW res \in Requests \cup {None}
    PROVE  BuildInput(t, res) \in Inputs
BY DEF BuildInput, Inputs, TypeOK

\* What a step does that Next allows, one disjunct per shape of the proof below.
LEMMA NextCases ==
    ASSUME Next
    PROVE  \/ \E r \in Requests : Request(r)
           \/ CancelSession
           \/ \E t \in Tasks : \/ TaskEnds(t) \/ Start(t) \/ Acquire(t) \/ ModelCall(t)
                               \/ CancelledUnstarted(t)
                               \/ \E j \in Jobs : StartJob(t, j)
           \/ \E t \in Requests : Begin(t)
           \/ \E w \in Wakes : CheckReads(w) \/ BeginWake(w)
           \/ \E j \in Jobs : FinishJob(j)
           \/ UNCHANGED vars
BY DEF Next, TaskStep, WakeStep, TaskEnds, Quiet, Tasks

LEMMA TypeRequest ==
    ASSUME TypeOK, FreshInv, NEW r \in Requests, Request(r)
    PROVE  TypeOK'
<1> USE ConstantsAssumption
<1>1. CASE HandleMessage(r)
  <2>1. PICK k \in Kinds \cap {"text", "answer", "empty"} :
          /\ kind[r] = "unsent"
          /\ kind' = [kind EXCEPT ![r] = k]
          /\ Dispatch(r, k, store)
          /\ UNCHANGED <<restoring, reports>>
    BY <1>1 DEF HandleMessage
  <2>2. pc[r] = "none" BY <2>1 DEF FreshInv
  <2>3. store \in Requests \cup {None} BY DEF TypeOK
  <2>4. /\ task' \in [Requests -> Tasks \cup {None}]
        /\ pc' \in [Tasks -> PCs]
        /\ owner' \in [Tasks -> Requests \cup {None}]
        /\ ready' \in Seq(Tasks)
        /\ store' \in Requests
        /\ resume' \in [Requests -> Requests \cup {None}]
    BY <2>1, <2>2, <2>3, DispatchEffect
  <2>5. UNCHANGED <<lockVars, runVars, cancelled, graphVars, counters>>
    BY <2>1 DEF Dispatch
  <2>6. kind' \in [Requests -> AllKinds \cup {"unsent", "refused"}]
    BY <2>1 DEF TypeOK, AllKinds
  <2> QED BY <2>1, <2>4, <2>5, <2>6 DEF TypeOK
<1>2. CASE HandleNotice(r)
  <2>1. /\ kind[r] = "unsent"
        /\ kind' = [kind EXCEPT ![r] = "notice"]
        /\ Dispatch(r, "notice", store)
        /\ UNCHANGED restoring
        /\ reports' \in 0..MaxReports
    BY <1>2 DEF HandleNotice, TypeOK
  <2>2. pc[r] = "none" BY <2>1 DEF FreshInv
  <2>3. store \in Requests \cup {None} BY DEF TypeOK
  <2>4. /\ task' \in [Requests -> Tasks \cup {None}]
        /\ pc' \in [Tasks -> PCs]
        /\ owner' \in [Tasks -> Requests \cup {None}]
        /\ ready' \in Seq(Tasks)
        /\ store' \in Requests
        /\ resume' \in [Requests -> Requests \cup {None}]
    BY <2>1, <2>2, <2>3, DispatchEffect
  <2>5. UNCHANGED <<lockVars, runVars, cancelled, graphVars, counters>>
    BY <2>1 DEF Dispatch
  <2>6. kind' \in [Requests -> AllKinds \cup {"unsent", "refused"}]
    BY <2>1 DEF TypeOK, AllKinds
  <2> QED BY <2>1, <2>4, <2>5, <2>6 DEF TypeOK
<1>3. CASE HandleStarted(r)
  BY <1>3 DEF HandleStarted, TypeOK, AllKinds
<1>4. CASE RestoreApplies(r)
  <2>1. /\ kind' \in [Requests -> AllKinds \cup {"unsent", "refused"}]
        /\ restoring' \in SUBSET Requests
        /\ restores' \in 0..MaxRestores
    BY <1>4 DEF RestoreApplies, TypeOK, AllKinds
  <2>2. head' \in Checkpoint /\ ckpts' \in SUBSET Checkpoint
    <3>1. PICK c \in ckpts : Commit([c EXCEPT !.question = FALSE])
      BY <1>4 DEF RestoreApplies
    <3>2. c \in Checkpoint BY DEF TypeOK
    <3>3. [c EXCEPT !.question = FALSE] \in Checkpoint BY <3>2 DEF Checkpoint
    <3> QED BY <3>1, <3>3 DEF Commit, TypeOK
  <2> QED BY <1>4, <2>1, <2>2 DEF RestoreApplies, TypeOK
<1>5. CASE RestoreReturns(r)
  <2>1. CASE /\ store' = None
             /\ UNCHANGED <<resume, taskVars, lockVars, runVars, cancelled, graphVars,
                            counters>>
    BY <1>5, <2>1 DEF RestoreReturns, TypeOK
  <2>2. CASE kind[r] = "restoretext" /\ Dispatch(r, kind[r], None)
    <3>1. pc[r] = "none" BY <1>5 DEF FreshInv, RestoreReturns
    <3>2. /\ task' \in [Requests -> Tasks \cup {None}]
          /\ pc' \in [Tasks -> PCs]
          /\ owner' \in [Tasks -> Requests \cup {None}]
          /\ ready' \in Seq(Tasks)
          /\ store' \in Requests
          /\ resume' \in [Requests -> Requests \cup {None}]
      BY <2>2, <3>1, DispatchEffect
    <3>3. UNCHANGED <<lockVars, runVars, cancelled, graphVars, counters>>
      BY <2>2 DEF Dispatch
    <3> QED BY <1>5, <3>2, <3>3 DEF RestoreReturns, TypeOK
  <2> QED BY <1>5, <2>1, <2>2 DEF RestoreReturns
<1>6. CASE RefuseRequest(r)
  BY <1>6 DEF RefuseRequest, TypeOK
<1> QED BY <1>1, <1>2, <1>3, <1>4, <1>5, <1>6 DEF Request

LEMMA TypeTask ==
    ASSUME TypeOK, LockInv, NEW t \in Tasks,
           \/ TaskEnds(t) \/ Start(t) \/ Acquire(t) \/ ModelCall(t)
           \/ CancelledUnstarted(t)
           \/ \E j \in Jobs : StartJob(t, j)
    PROVE  TypeOK'
<1> USE ConstantsAssumption
<1>1. CASE TaskEnds(t)
  <2>1. /\ owner[t] \in Requests
        /\ UNCHANGED <<requestVars, store, resume, called, input>>
        /\ \E how \in Ended, clean \in BOOLEAN :
             EndTask(t, how, clean)
    BY <1>1, TaskEndsIsEndTask
  <2>2. PICK how \in Ended, clean \in BOOLEAN :
          EndTask(t, how, clean)
    BY <2>1
  <2>3. /\ task' \in [Requests -> Tasks \cup {None}]
        /\ pc' \in [Tasks -> PCs]
        /\ owner' \in [Tasks -> Requests \cup {None}]
        /\ ready' \in Seq(Tasks)
        /\ holder' \in [Requests -> Tasks \cup {None}]
        /\ waiters' \in [Requests -> Seq(Tasks)]
        /\ cancelled' \in SUBSET Tasks
    BY <2>1, <2>2, EndTaskEffect
  <2>5. /\ job' = job /\ delivered' = delivered
        /\ fails' \in 0..MaxFails
        /\ UNCHANGED <<cancels, restores>>
    <3>1. /\ job' = job /\ delivered' = delivered
          /\ UNCHANGED <<cancels, restores>>
      BY <1>1 DEF TaskEnds, Complete, CompleteUnresumed, Ask, GraphFails, PrepareFails, CancelDelivered,
         WakeFails, SkipWake
    <3>3. fails' = fails \/ (fails < MaxFails /\ fails' = fails + 1)
      BY <1>1 DEF TaskEnds, Complete, CompleteUnresumed, Ask, GraphFails, PrepareFails, CancelDelivered,
         WakeFails, SkipWake
    <3>5. fails' \in 0..MaxFails BY <3>3 DEF TypeOK
    <3> QED BY <3>1, <3>5
  <2>6. head' \in Checkpoint /\ ckpts' \in SUBSET Checkpoint
    <3>1. (head' = head /\ ckpts' = ckpts) \/ Commit([head EXCEPT !.question = TRUE])
      BY <1>1 DEF TaskEnds, Complete, CompleteUnresumed, Ask, GraphFails, PrepareFails, CancelDelivered,
         WakeFails, SkipWake
    <3>2. [head EXCEPT !.question = TRUE] \in Checkpoint BY DEF TypeOK, Checkpoint
    <3> QED BY <3>1, <3>2 DEF Commit, TypeOK
  <2> QED BY <2>1, <2>3, <2>5, <2>6 DEF TypeOK
<1>2. CASE Start(t)
  <2>1. owner[t] \in Requests BY <1>2 DEF Start, Runs, LockInv
  <2>2. ready' \in Seq(Tasks) BY <1>2, HeadTailProperties DEF Start, TypeOK
  <2>3. waiters' \in [Requests -> Seq(Tasks)]
    <3>1. waiters[owner[t]] \in Seq(Tasks) BY <2>1 DEF TypeOK
    <3>2. Append(waiters[owner[t]], t) \in Seq(Tasks) BY <3>1
    <3>3. waiters' = [waiters EXCEPT ![owner[t]] = Append(@, t)] BY <1>2 DEF Start
    <3> QED BY <3>2, <3>3 DEF TypeOK
  <2>5. pc' \in [Tasks -> PCs] BY <1>2 DEF Start, TypeOK, PCs
  <2> QED BY <1>2, <2>2, <2>3, <2>5 DEF Start, TypeOK
<1>3. CASE Acquire(t)
  <2>1. owner[t] \in Requests BY <1>3 DEF Acquire, Runs, LockInv
  <2>2. waiters' \in [Requests -> Seq(Tasks)]
    <3>1. waiters[owner[t]] \in Seq(Tasks) /\ waiters[owner[t]] # <<>>
      BY <1>3, <2>1 DEF TypeOK, Acquire
    <3>2. Tail(waiters[owner[t]]) \in Seq(Tasks) BY <3>1, HeadTailProperties
    <3>3. waiters' = [waiters EXCEPT ![owner[t]] = Tail(@)] BY <1>3 DEF Acquire
    <3> QED BY <3>2, <3>3 DEF TypeOK
  <2>3. holder' \in [Requests -> Tasks \cup {None}] BY <1>3 DEF Acquire, TypeOK
  <2>4. pc' \in [Tasks -> PCs] BY <1>3 DEF Acquire, TypeOK, PCs, Holding
  <2> QED BY <1>3, <2>2, <2>3, <2>4 DEF Acquire, TypeOK
<1>4. CASE ModelCall(t)
  <2>1. /\ called' \in SUBSET Tasks
        /\ delivered' \in SUBSET Requests
    BY <1>4 DEF ModelCall, TypeOK, Inputs
  <2>2. head' \in Checkpoint /\ ckpts' \in SUBSET Checkpoint
    <3> DEFINE cp == [question |-> head.question /\ t \in called,
                      pending |-> head.pending \ Finished,
                      told |-> head.told \cup (head.pending \cap Finished),
                      seen |-> reports]
    <3>1. /\ head.question \in BOOLEAN /\ reports \in 0..MaxReports
          /\ head.pending \in SUBSET Jobs /\ head.told \in SUBSET Jobs
      BY DEF TypeOK, Checkpoint
    <3>2. (head.question /\ t \in called) \in BOOLEAN OBVIOUS
    <3>3. cp \in Checkpoint BY <3>1, <3>2 DEF Checkpoint
    <3>4. Commit(cp) BY <1>4 DEF ModelCall
    <3> HIDE DEF cp
    <3> QED BY <3>3, <3>4 DEF Commit, TypeOK
  <2> QED BY <1>4, <2>1, <2>2 DEF ModelCall, TypeOK
<1>5. CASE CancelledUnstarted(t)
  <2>1. owner[t] \in Requests BY <1>5 DEF CancelledUnstarted, LockInv
  <2>2. ready' \in Seq(Tasks) BY <1>5, WithoutType DEF CancelledUnstarted, TypeOK
  <2>3. task' \in [Requests -> Tasks \cup {None}]
    BY <1>5, <2>1 DEF CancelledUnstarted, TypeOK
  <2>4. pc' \in [Tasks -> PCs] BY <1>5 DEF CancelledUnstarted, TypeOK, PCs, Ended
  <2> QED BY <1>5, <2>2, <2>3, <2>4 DEF CancelledUnstarted, TypeOK
<1>6. ASSUME NEW j \in Jobs, StartJob(t, j) PROVE TypeOK'
  <2>1. head' \in Checkpoint /\ ckpts' \in SUBSET Checkpoint
    <3>1. [head EXCEPT !.pending = @ \cup {j}] \in Checkpoint BY DEF TypeOK, Checkpoint
    <3> QED BY <1>6, <3>1 DEF StartJob, Commit, TypeOK
  <2>2. job' \in [Jobs -> {"unstarted", "running", "finished"}] BY <1>6 DEF StartJob, TypeOK
  <2> QED BY <1>6, <2>1, <2>2 DEF StartJob, TypeOK
<1> QED BY <1>1, <1>2, <1>3, <1>4, <1>5, <1>6

LEMMA TypeWakeAndBegin ==
    ASSUME TypeOK, LockInv, NEW t \in Tasks,
           \/ t \in Requests /\ Begin(t)
           \/ t \in Wakes /\ (CheckReads(t) \/ BeginWake(t))
    PROVE  TypeOK'
<1> USE ConstantsAssumption
<1>1. owner[t] \in Requests
  BY DEF Begin, CheckReads, BeginWake, Runs, LockInv
<1>2. ASSUME BeginRun(t)
      PROVE  /\ pc' \in [Tasks -> PCs]
             /\ input' \in [Tasks -> Inputs]
             /\ resume' \in [Requests -> Requests \cup {None}]
  <2>1. resume[owner[t]] \in Requests \cup {None} BY <1>1 DEF TypeOK
  <2>2. BuildInput(t, resume[owner[t]]) \in Inputs BY <2>1, BuildInputType
  <2> QED BY <1>2, <2>2 DEF BeginRun, TypeOK, PCs, Holding
<1>3. CASE t \in Requests /\ Begin(t)
  BY <1>2, <1>3 DEF Begin, TypeOK
<1>4. CASE t \in Wakes /\ CheckReads(t)
  <2>1. pc' \in [Tasks -> PCs] BY <1>4 DEF CheckReads, TypeOK, PCs, Holding
  <2>2. fails' \in 0..MaxFails BY <1>4 DEF CheckReads, TypeOK
  <2> QED BY <1>4, <2>1, <2>2 DEF CheckReads, TypeOK
<1>5. CASE t \in Wakes /\ BeginWake(t)
  <2>2. BeginRun(t) BY <1>5 DEF BeginWake
  <2> QED BY <1>2, <1>5, <2>2 DEF BeginWake, TypeOK
<1> QED BY <1>3, <1>4, <1>5

LEMMA TypeStep ==
    ASSUME IInv, [Next]_vars
    PROVE  TypeOK'
<1> USE DEF IInv
<1>1. CASE CancelSession
  <2>1. cancelled' \in SUBSET Tasks /\ cancels' \in 0..MaxCancels
    BY <1>1, ConstantsAssumption DEF CancelSession, TypeOK, Live
  <2> QED BY <1>1, <2>1 DEF CancelSession, TypeOK
<1>2. ASSUME NEW j \in Jobs, FinishJob(j) PROVE TypeOK'
  BY <1>2 DEF FinishJob, TypeOK
<1>3. CASE UNCHANGED vars
  BY <1>3 DEF vars, TypeOK
<1>4. ASSUME NEW t \in Requests, Begin(t) PROVE TypeOK'
  BY <1>4, TypeWakeAndBegin DEF Tasks
<1>5. ASSUME NEW w \in Wakes, CheckReads(w) \/ BeginWake(w) PROVE TypeOK'
  BY <1>5, TypeWakeAndBegin DEF Tasks
<1> QED BY <1>1, <1>2, <1>3, <1>4, <1>5, NextCases, TypeRequest, TypeTask

-----------------------------------------------------------------------------
(* Each action preserves the lock's invariant *)

ControlInv == LockInv /\ FreshInv /\ OneSession

\* A task that moves on without entering or leaving the lock.
LEMMA MoveStep ==
    ASSUME IInv, NEW t \in Tasks, pc[t] # "none", NEW v \in PCs \ {"none"},
           pc' = [pc EXCEPT ![t] = v], v \in Holding => pc[t] \in Holding,
           UNCHANGED <<owner, holder, store, kind, restoring>>
    PROVE  ControlInv'
<1>1. \A u \in Tasks : pc'[u] = IF u = t THEN v ELSE pc[u]
  BY DEF IInv, TypeOK
<1>2. LockInv' BY <1>1 DEF IInv, LockInv
<1>3. FreshInv' BY <1>1 DEF IInv, FreshInv, Tasks
<1>4. OneSession' BY <1>1 DEF IInv, OneSession
<1> QED BY <1>2, <1>3, <1>4 DEF ControlInv

\* A handler's last part.
LEMMA DispatchStep ==
    ASSUME IInv, NEW r \in Requests, NEW k, NEW current \in Requests \cup {None},
           pc[r] = "none", kind'[r] # "unsent", r \notin restoring',
           \A q \in Requests \ {r} : kind'[q] = kind[q] /\ (q \in restoring' <=> q \in restoring),
           MaxRestores = 0 => current = store /\ restoring' = {},
           Dispatch(r, k, current)
    PROVE  ControlInv'
<1> DEFINE s == IF current = None THEN r ELSE current
<1>1. /\ store' = s /\ s \in Requests
      /\ \A t \in Tasks :
           \/ pc'[t] = pc[t] /\ owner'[t] = owner[t]
           \/ t \in Wakes \cup {r} /\ pc[t] = "none" /\ pc'[t] = "created" /\ owner'[t] = s
  BY DispatchEffect DEF IInv
<1>2. holder' = holder BY DEF Dispatch
<1>3. LockInv' BY <1>1, <1>2 DEF IInv, LockInv, Holding
<1>4. FreshInv'
  BY <1>1, ConstantsAssumption DEF IInv, FreshInv, Tasks
<1>5. OneSession'
  <2>1. SUFFICES ASSUME MaxRestores = 0, NEW t \in Tasks, pc'[t] # "none"
                 PROVE  owner'[t] = store'
    BY DEF OneSession
  <2>2. CASE pc'[t] = pc[t] /\ owner'[t] = owner[t]
    <3>1. owner[t] = store /\ owner[t] \in Requests BY <2>1, <2>2 DEF IInv, OneSession, LockInv
    <3>2. store # None BY <3>1, ConstantsAssumption
    <3>3. store' = store BY <1>1, <2>1, <3>2
    <3> QED BY <2>2, <3>1, <3>3
  <2>3. CASE pc[t] = "none" /\ pc'[t] = "created" /\ owner'[t] = s
    BY <1>1, <2>3
  <2> QED BY <1>1, <2>2, <2>3
<1> QED BY <1>3, <1>4, <1>5 DEF ControlInv

LEMMA ControlRequest ==
    ASSUME IInv, NEW r \in Requests, Request(r)
    PROVE  ControlInv'
<1> USE DEF IInv
<1>0. store \in Requests \cup {None} /\ DOMAIN kind = Requests BY DEF TypeOK
<1>1. CASE HandleMessage(r)
  <2>1. PICK k \in Kinds \cap {"text", "answer", "empty"} :
          /\ kind[r] = "unsent"
          /\ kind' = [kind EXCEPT ![r] = k]
          /\ Dispatch(r, k, store)
          /\ UNCHANGED <<restoring, reports>>
    BY <1>1 DEF HandleMessage
  <2>2. pc[r] = "none" /\ r \notin restoring BY <2>1 DEF FreshInv
  <2>3. kind'[r] # "unsent" /\ \A q \in Requests \ {r} : kind'[q] = kind[q]
    BY <1>0, <2>1
  <2>4. MaxRestores = 0 => restoring = {} BY DEF OneSession
  <2> QED BY <1>0, <2>1, <2>2, <2>3, <2>4, DispatchStep
<1>2. CASE HandleNotice(r)
  <2>1. /\ kind[r] = "unsent"
        /\ kind' = [kind EXCEPT ![r] = "notice"]
        /\ Dispatch(r, "notice", store)
        /\ UNCHANGED restoring
    BY <1>2 DEF HandleNotice
  <2>2. pc[r] = "none" /\ r \notin restoring BY <2>1 DEF FreshInv
  <2>3. kind'[r] # "unsent" /\ \A q \in Requests \ {r} : kind'[q] = kind[q]
    BY <1>0, <2>1
  <2>4. MaxRestores = 0 => restoring = {} BY DEF OneSession
  <2> QED BY <1>0, <2>1, <2>2, <2>3, <2>4, DispatchStep
<1>3. CASE HandleStarted(r) \/ RefuseRequest(r)
  <2>1. \A q \in Requests : kind'[q] = "unsent" => kind[q] = "unsent"
    BY <1>0, <1>3 DEF HandleStarted, RefuseRequest
  <2>2. UNCHANGED <<restoring, store, pc, owner, holder>>
    BY <1>3 DEF HandleStarted, RefuseRequest
  <2> QED BY <2>1, <2>2 DEF ControlInv, LockInv, FreshInv, OneSession
<1>4. CASE RestoreApplies(r)
  <2>1. restores \in Nat /\ MaxRestores # 0
    BY <1>4, ConstantsAssumption DEF RestoreApplies, TypeOK
  <2>2. kind[r] = "unsent" /\ restoring' = restoring \cup {r}
        /\ UNCHANGED <<store, pc, owner, holder>>
    BY <1>4 DEF RestoreApplies
  <2>3. PICK k \in Kinds \cap {"restore", "restoretext"} : kind' = [kind EXCEPT ![r] = k]
    BY <1>4 DEF RestoreApplies
  <2>4. \A q \in Requests : kind'[q] = "unsent" => kind[q] = "unsent" /\ q # r
    BY <1>0, <2>3
  <2> QED BY <2>1, <2>2, <2>4 DEF ControlInv, LockInv, FreshInv, OneSession
<1>5. CASE RestoreReturns(r)
  <2>1. r \in restoring /\ restoring' = restoring \ {r} /\ kind' = kind
    BY <1>5 DEF RestoreReturns
  <2>2. MaxRestores # 0 BY <2>1 DEF OneSession
  <2>3. pc[r] = "none" /\ kind[r] # "unsent" BY <2>1 DEF FreshInv
  <2>4. CASE UNCHANGED <<taskVars, lockVars>>
    BY <2>1, <2>2, <2>4 DEF ControlInv, LockInv, FreshInv, OneSession
  <2>5. CASE Dispatch(r, kind[r], None)
    BY <2>1, <2>2, <2>3, <2>5, DispatchStep
  <2> QED BY <1>5, <2>4, <2>5 DEF RestoreReturns
<1> QED BY <1>1, <1>2, <1>3, <1>4, <1>5 DEF Request

LEMMA ControlTask ==
    ASSUME IInv, NEW t \in Tasks,
           \/ TaskEnds(t) \/ Start(t) \/ Acquire(t) \/ ModelCall(t)
           \/ CancelledUnstarted(t)
           \/ \E j \in Jobs : StartJob(t, j)
    PROVE  ControlInv'
<1> USE DEF IInv
<1>1. CASE TaskEnds(t)
  <2>1. /\ pc[t] \in Holding \cup {"waiting"} /\ owner[t] \in Requests
        /\ UNCHANGED <<requestVars, store>>
        /\ \E how \in Ended, clean \in BOOLEAN :
             EndTask(t, how, clean)
    BY <1>1, TaskEndsIsEndTask
  <2>2. PICK how \in Ended, clean \in BOOLEAN :
          EndTask(t, how, clean)
    BY <2>1
  <2>3. /\ pc'[t] = how /\ owner'[t] = owner[t]
        /\ \A u \in Tasks \ {t} :
             \/ pc'[u] = pc[u] /\ owner'[u] = owner[u]
             \/ u \in Wakes /\ pc[u] = "none" /\ pc'[u] = "created" /\ owner'[u] = owner[t]
        /\ \A r \in Requests : holder'[r] = holder[r] \/ (holder[r] = t /\ holder'[r] = None)
    <3>1. TypeOK /\ owner[t] \in Requests BY <2>1
    <3> HIDE DEF IInv
    <3> QED BY <2>2, <3>1, EndTaskEffect
  <2>4. how \notin Holding \cup {"none"} /\ pc[t] # "none" BY <2>1 DEF Ended, Holding
  <2>5. LockInv'
    <3>1. SUFFICES ASSUME NEW u \in Tasks
                   PROVE  /\ pc'[u] # "none" => owner'[u] \in Requests
                          /\ pc'[u] \in Holding => holder'[owner'[u]] = u
      BY DEF LockInv
    <3>2. CASE u = t BY <2>1, <2>3, <2>4, <3>2
    <3>3. CASE u # t /\ pc'[u] = pc[u] /\ owner'[u] = owner[u]
      BY <2>3, <3>3 DEF LockInv, Holding
    <3>4. CASE pc'[u] = "created" /\ owner'[u] = owner[t]
      BY <2>1, <3>4 DEF Holding
    <3> QED BY <2>3, <3>2, <3>3, <3>4
  <2>6. FreshInv' BY <2>1, <2>3, <2>4, ConstantsAssumption DEF FreshInv, Tasks
  <2>7. OneSession'
    BY <2>1, <2>3, <2>4 DEF OneSession
  <2> QED BY <2>5, <2>6, <2>7 DEF ControlInv
<1>2. CASE Start(t)
  <2>1. pc[t] # "none" /\ "waiting" \in PCs \ {"none"} /\ "waiting" \notin Holding
    BY <1>2 DEF Start, Runs, PCs, Holding
  <2> QED BY <1>2, <2>1, MoveStep DEF Start
<1>3. CASE Acquire(t)
  <2>1. /\ pc[t] = "waiting" /\ holder[owner[t]] = None
        /\ holder' = [holder EXCEPT ![owner[t]] = t]
        /\ pc' = [pc EXCEPT ![t] = IF t \in Requests THEN "preparing" ELSE "checking"]
        /\ UNCHANGED <<owner, store, kind, restoring>>
    BY <1>3 DEF Acquire, Runs, LockFree
  <2>2. owner[t] \in Requests BY <2>1 DEF LockInv
  <2>3. \A u \in Tasks \ {t} : pc'[u] = pc[u] BY <2>1 DEF TypeOK
  <2>4. pc'[t] # "none" BY <2>1 DEF TypeOK
  <2>5. \A r \in Requests : holder'[r] = IF r = owner[t] THEN t ELSE holder[r]
    BY <2>1 DEF TypeOK
  <2>6. LockInv'
    BY <2>1, <2>2, <2>3, <2>5, ConstantsAssumption DEF LockInv, Tasks, Holding
  <2>7. FreshInv' BY <2>1, <2>3, <2>4 DEF FreshInv, Tasks
  <2>8. OneSession' BY <2>1, <2>3 DEF OneSession
  <2> QED BY <2>6, <2>7, <2>8 DEF ControlInv
<1>4. CASE CancelledUnstarted(t)
  <2>1. pc[t] # "none" /\ "cancelled" \in PCs \ {"none"} /\ "cancelled" \notin Holding
    BY <1>4 DEF CancelledUnstarted, PCs, Holding, Ended
  <2> QED BY <1>4, <2>1, MoveStep DEF CancelledUnstarted
<1>5. CASE ModelCall(t) \/ \E j \in Jobs : StartJob(t, j)
  <2>1. UNCHANGED <<kind, restoring, store, pc, owner, holder>>
    BY <1>5 DEF ModelCall, StartJob
  <2> QED BY <2>1 DEF ControlInv, LockInv, FreshInv, OneSession
<1> QED BY <1>1, <1>2, <1>3, <1>4, <1>5

LEMMA ControlStep ==
    ASSUME IInv, [Next]_vars
    PROVE  ControlInv'
<1>1. ASSUME NEW t \in Requests, Begin(t) PROVE ControlInv'
  <2>1. t \in Tasks /\ pc[t] # "none" /\ "running" \in PCs \ {"none"} /\ pc[t] \in Holding
    BY <1>1 DEF Begin, Runs, PCs, Holding, Tasks
  <2> QED BY <1>1, <2>1, MoveStep DEF Begin, BeginRun
<1>2. ASSUME NEW w \in Wakes, CheckReads(w) PROVE ControlInv'
  <2>1. w \in Tasks /\ pc[w] # "none" /\ {"report", "nothing"} \subseteq PCs \ {"none"}
        /\ pc[w] \in Holding
    BY <1>2 DEF CheckReads, Runs, PCs, Holding, Tasks
  <2>2. PICK v \in {"report", "nothing"} : pc' = [pc EXCEPT ![w] = v]
    BY <1>2 DEF CheckReads
  <2>3. UNCHANGED <<owner, holder, store, kind, restoring>> BY <1>2 DEF CheckReads
  <2> QED BY <2>1, <2>2, <2>3, MoveStep
<1>3. ASSUME NEW w \in Wakes, BeginWake(w) PROVE ControlInv'
  <2>1. w \in Tasks /\ pc[w] # "none" /\ "running" \in PCs \ {"none"} /\ pc[w] \in Holding
    BY <1>3 DEF BeginWake, Runs, PCs, Holding, Tasks
  <2> QED BY <1>3, <2>1, MoveStep DEF BeginWake, BeginRun
<1>4. CASE CancelSession \/ (\E j \in Jobs : FinishJob(j)) \/ UNCHANGED vars
  <2>1. UNCHANGED <<kind, restoring, store, pc, owner, holder>>
    BY <1>4 DEF CancelSession, FinishJob, vars
  <2> QED BY <2>1 DEF IInv, ControlInv, LockInv, FreshInv, OneSession
<1> QED BY <1>1, <1>2, <1>3, <1>4, NextCases, ControlRequest, ControlTask

-----------------------------------------------------------------------------
(* The theorems *)

LEMMA InitIInv ==
    ASSUME Init
    PROVE  IInv
<1> USE ConstantsAssumption
<1>1. head \in Checkpoint BY DEF Init, Checkpoint
<1>2. TypeOK
  BY <1>1 DEF Init, TypeOK, AllKinds, PCs, Inputs, NoInput
<1>3. LockInv /\ FreshInv /\ OneSession
  BY DEF Init, LockInv, FreshInv, OneSession, Holding, Tasks
<1> QED BY <1>2, <1>3 DEF IInv

LEMMA Invariance == Spec => []IInv
<1>1. Init => IInv
  BY InitIInv
<1>2. IInv /\ [Next]_vars => IInv'
  BY TypeStep, ControlStep DEF IInv, ControlInv
<1> QED BY <1>1, <1>2, PTL DEF Spec

\* Every variable keeps its type, for any number of requests, wake-ups, jobs,
\* exceptions, stops and restores.
THEOREM TypeCorrect == Spec => []TypeOK
<1>1. IInv => TypeOK
  BY DEF IInv
<1> QED BY <1>1, Invariance, PTL

\* The turn lock excludes: two tasks of one SessionState are never inside
\* `async with state.turn_lock` together, restores, stops and exceptions included.
THEOREM Exclusion == Spec => []LockExclusion
<1>1. IInv => LockExclusion
  BY DEF IInv, LockInv, LockExclusion, Holding
<1> QED BY <1>1, Invariance, PTL

\* The promise of SessionState's comment: as long as no checkpoint is restored,
\* no two runs of the session's thread overlap.
THEOREM Serialised ==
    ASSUME MaxRestores = 0
    PROVE  Spec => []TurnsSerialised
<1>1. IInv => TurnsSerialised
  BY DEF IInv, LockInv, OneSession, TurnsSerialised, Holding
<1> QED BY <1>1, Invariance, PTL

-----------------------------------------------------------------------------
(* Wake-up runs *)

\* w is between a check that said yes and the first model call of its run.
Decided(w) == pc[w] = "report" \/ (pc[w] = "running" /\ w \notin called)

LEMMA ReportKept ==
    ASSUME SomethingToReport, head' = head,
           \A j \in Jobs : job[j] = "finished" => job'[j] = "finished",
           UnreadReports => UnreadReports'
    PROVE  SomethingToReport'
BY DEF SomethingToReport, Finished

\* A step that leaves w where it was, and the head and the jobs as they were.
LEMMA DecidedKept ==
    ASSUME MaxRestores = 0, WakeInv, NEW w \in Wakes, Decided(w)',
           pc'[w] = pc[w], w \in called' <=> w \in called, head' = head,
           \A j \in Jobs : job[j] = "finished" => job'[j] = "finished",
           UnreadReports => UnreadReports'
    PROVE  SomethingToReport'
BY ReportKept DEF Decided, WakeInv

LEMMA WakeRequest ==
    ASSUME IInv, WakeInv, MaxRestores = 0, NEW w \in Wakes, Decided(w)',
           NEW r \in Requests, Request(r)
    PROVE  SomethingToReport'
<1>1. ~RestoreApplies(r)
  BY ConstantsAssumption DEF RestoreApplies, IInv, TypeOK
<1>2. ~RestoreReturns(r)
  BY DEF RestoreReturns, IInv, OneSession
<1>3. UNCHANGED <<called, head, job>> /\ (reports' = reports \/ reports' = reports + 1)
  BY <1>1, <1>2 DEF Request, HandleMessage, HandleNotice, HandleStarted, RefuseRequest, Dispatch
<1>3a. UnreadReports => UnreadReports'
  <2>1. head.seen \in Nat /\ reports \in Nat
    BY ConstantsAssumption DEF IInv, TypeOK, Checkpoint
  <2> QED BY <1>3, <2>1 DEF UnreadReports
<1>4. pc'[w] = pc[w]
  <2>1. CASE HandleStarted(r) \/ RefuseRequest(r)
    BY <2>1 DEF HandleStarted, RefuseRequest
  <2>2. CASE HandleMessage(r) \/ HandleNotice(r)
    <3>1. PICK k : Dispatch(r, k, store) BY <2>2 DEF HandleMessage, HandleNotice
    <3>2. kind[r] = "unsent" BY <2>2 DEF HandleMessage, HandleNotice
    <3>3. pc[r] = "none" BY <3>2 DEF IInv, FreshInv
    <3>4. TypeOK /\ store \in Requests \cup {None} BY DEF IInv, TypeOK
    <3>5. \A t \in Tasks : pc'[t] = pc[t] \/ pc'[t] = "created"
      BY <3>1, <3>3, <3>4, DispatchEffect
    <3> QED BY <3>5 DEF Decided, Tasks
  <2> QED BY <1>1, <1>2, <2>1, <2>2 DEF Request
<1> QED BY <1>3, <1>3a, <1>4, DecidedKept

LEMMA WakeTask ==
    ASSUME IInv, WakeInv, MaxRestores = 0, NEW w \in Wakes, Decided(w)',
           NEW t \in Tasks,
           \/ TaskEnds(t) \/ Start(t) \/ Acquire(t) \/ ModelCall(t)
           \/ CancelledUnstarted(t)
           \/ \E j \in Jobs : StartJob(t, j)
    PROVE  SomethingToReport'
<1>0. w \in Tasks /\ TypeOK BY DEF Tasks, IInv
<1>1. TurnsSerialised
  BY DEF IInv, LockInv, OneSession, TurnsSerialised, Holding
<1>2. CASE TaskEnds(t)
  <2>1. /\ owner[t] \in Requests
        /\ called' = called
        /\ \E how \in Ended, clean \in BOOLEAN :
             EndTask(t, how, clean)
    BY <1>2, TaskEndsIsEndTask DEF IInv
  <2>2. PICK how \in Ended, clean \in BOOLEAN :
          EndTask(t, how, clean)
    BY <2>1
  <2>3. pc'[t] = how /\ \A u \in Tasks \ {t} : pc'[u] = pc[u] \/ pc'[u] = "created"
    <3>1. TypeOK /\ owner[t] \in Requests BY <1>0, <2>1
    <3>2. /\ pc'[t] = how
          /\ \A u \in Tasks \ {t} :
               \/ pc'[u] = pc[u] /\ owner'[u] = owner[u]
               \/ u \in Wakes /\ pc[u] = "none" /\ pc'[u] = "created" /\ owner'[u] = owner[t]
      BY <2>2, <3>1, EndTaskEffect
    <3> QED BY <3>2
  <2>4. w # t BY <2>3 DEF Decided, Ended
  <2>5. pc'[w] = pc[w] BY <1>0, <2>3, <2>4 DEF Decided
  <2>6. pc[w] \in Holding BY <2>5 DEF Decided, Holding
  <2>7. ~Ask(t) BY <1>0, <1>1, <2>4, <2>6 DEF Ask, Runs, TurnsSerialised, Holding
  <2>8. UNCHANGED <<head, job, reports>>
    BY <1>2, <2>7 DEF TaskEnds, Complete, CompleteUnresumed, GraphFails, PrepareFails, CancelDelivered,
         WakeFails, SkipWake
  <2> QED BY <2>1, <2>5, <2>8, DecidedKept DEF UnreadReports
<1>3. CASE Start(t) \/ Acquire(t) \/ CancelledUnstarted(t)
  <2>1. /\ pc'[t] \notin {"report", "running"}
        /\ \A u \in Tasks \ {t} : pc'[u] = pc[u]
        /\ UNCHANGED <<called, head, job, reports>>
    BY <1>0, <1>3 DEF Start, Acquire, CancelledUnstarted, TypeOK
  <2>2. pc'[w] = pc[w] BY <1>0, <2>1 DEF Decided
  <2> QED BY <2>1, <2>2, DecidedKept DEF UnreadReports
<1>4. CASE ModelCall(t) \/ \E j \in Jobs : StartJob(t, j)
  <2>1. pc[t] = "running" /\ pc' = pc /\ t \in called'
    BY <1>4 DEF ModelCall, StartJob, Runs
  <2>2. pc[w] \in Holding BY <2>1 DEF Decided, Holding
  <2>3. w = t BY <1>0, <1>1, <2>1, <2>2 DEF TurnsSerialised, Holding
  <2> QED BY <2>1, <2>3 DEF Decided
<1> QED BY <1>2, <1>3, <1>4

LEMMA WakeStepKeeps ==
    ASSUME IInv, WakeInv, [Next]_vars
    PROVE  WakeInv'
<1> SUFFICES ASSUME MaxRestores = 0, NEW w \in Wakes, Decided(w)'
             PROVE  SomethingToReport'
  BY DEF WakeInv, Decided
<1>0. w \in Tasks /\ TypeOK BY DEF Tasks, IInv
<1>1. ASSUME NEW t \in Requests, Begin(t) PROVE SomethingToReport'
  <2>1. pc'[w] = pc[w] /\ UNCHANGED <<called, head, job, reports>>
    BY <1>0, <1>1, ConstantsAssumption DEF Begin, BeginRun, TypeOK
  <2> QED BY <2>1, DecidedKept DEF UnreadReports
<1>2. ASSUME NEW x \in Wakes, CheckReads(x) PROVE SomethingToReport'
  <2>1. UNCHANGED <<called, head, job, reports>> BY <1>2 DEF CheckReads
  <2>2. CASE x = w
    <3>1. SomethingToReport BY <1>0, <1>2, <2>1, <2>2 DEF CheckReads, Decided, TypeOK
    <3> QED BY <2>1, <3>1, ReportKept DEF UnreadReports
  <2>3. CASE x # w
    <3>1. pc'[w] = pc[w] BY <1>0, <1>2, <2>3 DEF CheckReads, TypeOK
    <3> QED BY <2>1, <3>1, DecidedKept DEF UnreadReports
  <2> QED BY <2>2, <2>3
<1>3. ASSUME NEW x \in Wakes, BeginWake(x) PROVE SomethingToReport'
  <2>1. pc[x] = "report" /\ UNCHANGED <<called, head, job, reports>> BY <1>3 DEF BeginWake, Runs
  <2>2. CASE x = w
    <3>1. SomethingToReport BY <2>1, <2>2 DEF WakeInv
    <3> QED BY <2>1, <3>1, ReportKept DEF UnreadReports
  <2>3. CASE x # w
    <3>1. pc'[w] = pc[w] BY <1>0, <1>3, <2>3 DEF BeginWake, BeginRun, TypeOK
    <3> QED BY <2>1, <3>1, DecidedKept DEF UnreadReports
  <2> QED BY <2>2, <2>3
<1>4. CASE CancelSession \/ (\E j \in Jobs : FinishJob(j)) \/ UNCHANGED vars
  <2>1. /\ UNCHANGED <<pc, called, head, reports>>
        /\ \A j \in Jobs : job[j] = "finished" => job'[j] = "finished"
    BY <1>0, <1>4 DEF CancelSession, FinishJob, vars, TypeOK
  <2> QED BY <2>1, DecidedKept DEF UnreadReports
<1> QED BY <1>1, <1>2, <1>3, <1>4, NextCases, WakeRequest, WakeTask

LEMMA WakeInvariance == Spec => []WakeInv
<1>1. Init => WakeInv
  BY DEF Init, WakeInv, Tasks
<1>2. IInv /\ WakeInv /\ [Next]_vars => WakeInv'
  BY WakeStepKeeps
<1> QED BY <1>1, <1>2, Invariance, PTL DEF Spec

\* ADR-015, "never starts a run on a paused graph": as long as no checkpoint is
\* restored, no question is open when a wake-up run reaches its first model call.
THEOREM SparesQuestion ==
    ASSUME MaxRestores = 0
    PROVE  Spec => []WakeSparesQuestion
<1>1. WakeInv => WakeSparesQuestion
  BY DEF WakeInv, WakeSparesQuestion, SomethingToReport
<1> QED BY <1>1, WakeInvariance, PTL

\* ADR-015, "a wake-up run never calls the model with nothing new": as long as no
\* checkpoint is restored, a finished job or a report of the computer is untold
\* when a wake-up run reaches its first model call.
THEOREM HasNews ==
    ASSUME MaxRestores = 0
    PROVE  Spec => []WakeHasNews
<1>1. WakeInv => WakeHasNews
  BY DEF WakeInv, WakeHasNews, SomethingToReport
<1> QED BY <1>1, WakeInvariance, PTL

-----------------------------------------------------------------------------
(* What a turn is fed, when no client sends a bare answer *)

\* Only a request with words, or with an answer, has a turn task.
LEMMA DispatchTurn ==
    ASSUME TypeOK, NEW r \in Requests, NEW k, NEW current \in Requests \cup {None},
           pc[r] = "none", Dispatch(r, k, current), pc'[r] # "none"
    PROVE  k \in {"text", "answer", "restoretext"}
<1> DEFINE s == IF current = None THEN r ELSE current
<1>1. SUFFICES ASSUME ScheduleWake(s, task, pc) \/ UNCHANGED taskVars
               PROVE  FALSE
  BY DEF Dispatch
<1>2. r \in Tasks /\ r \notin Wakes /\ s \in Requests
  BY ConstantsAssumption DEF Tasks
<1>3. pc # pc'
  BY <1>2
<1>4. ScheduleWake(s, task, pc)
  BY <1>1, <1>3 DEF taskVars
<1>5. /\ task \in [Requests -> Tasks \cup {None}]
      /\ pc \in [Tasks -> PCs]
      /\ ready \in Seq(Tasks)
  BY DEF TypeOK
<1> HIDE DEF s
<1>6. \A t \in Tasks : pc'[t] = pc[t] \/ t \in Wakes
  BY <1>2, <1>4, <1>5, ScheduleWakeEffect
<1> QED BY <1>2, <1>6

\* A request touches no run, and creates its own turn or a wake-up.
LEMMA RequestEffect ==
    ASSUME IInv, NEW r \in Requests, Request(r)
    PROVE  /\ UNCHANGED <<called, input, job, delivered, holder, waiters, cancelled, cancels>>
           /\ \A t \in Tasks :
                \/ pc'[t] = pc[t] /\ owner'[t] = owner[t]
                \/ t \in Wakes \cup {r} /\ pc[t] = "none" /\ pc'[t] = "created"
           /\ pc'[r] # pc[r] => kind'[r] \in {"text", "restoretext"} \cup (Kinds \cap {"answer"})
           /\ \A q \in Requests : kind'[q] = kind[q] \/ pc[q] = "none"
           /\ "answer" \notin Kinds => resume' = resume
           /\ MaxRestores = 0 => head' = head
<1>0. /\ TypeOK /\ FreshInv /\ DOMAIN kind = Requests /\ store \in Requests \cup {None}
      /\ r \in Tasks
  BY DEF IInv, TypeOK, Tasks
<1>1. ASSUME NEW k, NEW current \in Requests \cup {None}, Dispatch(r, k, current),
             pc[r] = "none"
      PROVE  /\ UNCHANGED <<called, input, graphVars, lockVars, cancelled, counters>>
             /\ \A t \in Tasks :
                  \/ pc'[t] = pc[t] /\ owner'[t] = owner[t]
                  \/ t \in Wakes \cup {r} /\ pc[t] = "none" /\ pc'[t] = "created"
             /\ pc'[r] # pc[r] => k \in {"text", "answer", "restoretext"}
             /\ k # "answer" => resume' = resume
  <2>1. UNCHANGED <<called, input, graphVars, lockVars, cancelled, counters>>
        /\ (k # "answer" => resume' = resume)
    BY <1>1 DEF Dispatch
  <2>2. \A t \in Tasks :
          \/ pc'[t] = pc[t] /\ owner'[t] = owner[t]
          \/ t \in Wakes \cup {r} /\ pc[t] = "none" /\ pc'[t] = "created"
    BY <1>0, <1>1, DispatchEffect
  <2>3. pc'[r] # pc[r] => k \in {"text", "answer", "restoretext"}
    BY <1>0, <1>1, DispatchTurn
  <2> QED BY <2>1, <2>2, <2>3
<1>2. CASE HandleMessage(r)
  <2>1. PICK k \in Kinds \cap {"text", "answer", "empty"} :
          /\ kind[r] = "unsent"
          /\ kind' = [kind EXCEPT ![r] = k]
          /\ Dispatch(r, k, store)
    BY <1>2 DEF HandleMessage
  <2>2. pc[r] = "none" BY <1>0, <2>1 DEF FreshInv
  <2>3. kind'[r] = k /\ \A q \in Requests \ {r} : kind'[q] = kind[q] BY <1>0, <2>1
  <2> QED BY <1>0, <1>1, <2>1, <2>2, <2>3
<1>3. CASE HandleNotice(r)
  <2>1. /\ kind[r] = "unsent"
        /\ kind' = [kind EXCEPT ![r] = "notice"]
        /\ Dispatch(r, "notice", store)
    BY <1>3 DEF HandleNotice
  <2>2. pc[r] = "none" BY <1>0, <2>1 DEF FreshInv
  <2>3. kind'[r] = "notice" /\ \A q \in Requests \ {r} : kind'[q] = kind[q] BY <1>0, <2>1
  <2> QED BY <1>0, <1>1, <2>1, <2>2, <2>3
<1>4. CASE HandleStarted(r) \/ RefuseRequest(r)
  <2>1. pc[r] = "none" BY <1>0, <1>4 DEF FreshInv, HandleStarted, RefuseRequest
  <2>2. \A q \in Requests \ {r} : kind'[q] = kind[q]
    BY <1>0, <1>4 DEF HandleStarted, RefuseRequest
  <2> QED BY <1>4, <2>1, <2>2 DEF HandleStarted, RefuseRequest
<1>5. CASE RestoreApplies(r)
  <2>1. kind[r] = "unsent" /\ restores \in Nat /\ restores < MaxRestores
    BY <1>0, <1>5 DEF RestoreApplies, TypeOK
  <2>2. pc[r] = "none" BY <1>0, <2>1 DEF FreshInv
  <2>3. PICK k \in Kinds \cap {"restore", "restoretext"} : kind' = [kind EXCEPT ![r] = k]
    BY <1>5 DEF RestoreApplies
  <2>4. \A q \in Requests \ {r} : kind'[q] = kind[q] BY <1>0, <2>3
  <2>5. MaxRestores # 0 BY <2>1, ConstantsAssumption
  <2> QED BY <1>5, <2>2, <2>4, <2>5 DEF RestoreApplies
<1>6. CASE RestoreReturns(r)
  <2>1. kind' = kind /\ pc[r] = "none" BY <1>0, <1>6 DEF RestoreReturns, FreshInv
  <2>2. CASE UNCHANGED <<resume, taskVars, lockVars, runVars, cancelled, graphVars, counters>>
    BY <2>1, <2>2 DEF taskVars
  <2>3. CASE kind[r] = "restoretext" /\ Dispatch(r, kind[r], None)
    BY <1>1, <2>1, <2>3
  <2> QED BY <1>6, <2>2, <2>3 DEF RestoreReturns
<1> QED BY <1>2, <1>3, <1>4, <1>5, <1>6 DEF Request

\* The end of a task ends no other; a turn is done only after a model call or
\* with nothing to resume, and only a question changes the thread.
LEMMA TaskEndsEffect ==
    ASSUME IInv, NEW t \in Tasks, TaskEnds(t)
    PROVE  /\ UNCHANGED <<requestVars, store, resume, called, input, job, delivered>>
           /\ pc[t] \in Holding \cup {"waiting"} /\ pc'[t] \in Ended
           /\ \A u \in Tasks \ {t} :
                \/ pc'[u] = pc[u] /\ owner'[u] = owner[u]
                \/ u \in Wakes /\ pc[u] = "none" /\ pc'[u] = "created"
           /\ t \in Requests /\ pc'[t] = "done" =>
                t \in called \/ (pc[t] = "running" /\ NothingToResume(t))
           /\ head' = head \/ (pc[t] = "running" /\ head'.question)
<1>0. TypeOK /\ LockInv BY DEF IInv
<1>1. /\ pc[t] \in Holding \cup {"waiting"} /\ owner[t] \in Requests
      /\ UNCHANGED <<requestVars, store, resume, called, input>>
      /\ \E how \in Ended, clean \in BOOLEAN : EndTask(t, how, clean)
  BY <1>0, TaskEndsIsEndTask
<1>2. ASSUME NEW how \in Ended, NEW clean, EndTask(t, how, clean)
      PROVE  /\ pc'[t] = how
             /\ \A u \in Tasks \ {t} :
                  \/ pc'[u] = pc[u] /\ owner'[u] = owner[u]
                  \/ u \in Wakes /\ pc[u] = "none" /\ pc'[u] = "created"
  BY <1>0, <1>1, <1>2, EndTaskEffect
<1>3. /\ pc'[t] \in Ended
      /\ \A u \in Tasks \ {t} :
           \/ pc'[u] = pc[u] /\ owner'[u] = owner[u]
           \/ u \in Wakes /\ pc[u] = "none" /\ pc'[u] = "created"
  BY <1>1, <1>2
<1>4. job' = job /\ delivered' = delivered
  BY DEF TaskEnds, Complete, CompleteUnresumed, Ask, GraphFails, PrepareFails, CancelDelivered,
         WakeFails, SkipWake
<1>5. ASSUME t \in Requests, pc'[t] = "done"
      PROVE  t \in called \/ (pc[t] = "running" /\ NothingToResume(t))
  <2>1. {"failed", "cancelled"} \subseteq Ended BY DEF Ended
  <2>2. CASE Complete(t) \/ Ask(t) \/ CompleteUnresumed(t)
    BY <2>2 DEF Complete, Ask, CompleteUnresumed, Runs
  <2>3. CASE GraphFails(t) \/ PrepareFails(t) \/ CancelDelivered(t)
    <3>1. \/ EndTask(t, "failed", TRUE) \/ EndTask(t, "failed", FALSE)
          \/ EndTask(t, "cancelled", FALSE)
      BY <2>3 DEF GraphFails, PrepareFails, CancelDelivered
    <3>2. pc'[t] = "failed" \/ pc'[t] = "cancelled" BY <1>2, <2>1, <3>1
    <3> QED BY <1>5, <3>2
  <2> QED BY <1>5, <2>2, <2>3, ConstantsAssumption DEF TaskEnds
<1>6. head' = head \/ (pc[t] = "running" /\ head'.question)
  <2>1. CASE Ask(t)
    <3>1. head' = [head EXCEPT !.question = TRUE] /\ pc[t] = "running"
      BY <2>1 DEF Ask, Commit, Runs
    <3> QED BY <1>0, <3>1 DEF TypeOK, Checkpoint
  <2>2. CASE ~Ask(t)
    BY <2>2 DEF TaskEnds, Complete, CompleteUnresumed, GraphFails, PrepareFails, CancelDelivered, WakeFails,
         SkipWake
  <2> QED BY <2>1, <2>2
<1> QED BY <1>1, <1>3, <1>4, <1>5, <1>6

\* Only the first model call of a run closes a question.
LEMMA ModelCallCloses ==
    ASSUME MaxRestores = 0, IInv, [Next]_vars, head.question, ~head'.question
    PROVE  \E t \in Tasks : ModelCall(t) /\ t \notin called
<1>0. TypeOK
  BY DEF IInv
<1>1. ASSUME NEW r \in Requests, Request(r) PROVE FALSE
  BY <1>1, RequestEffect
<1>2. ASSUME NEW t \in Tasks, TaskEnds(t) PROVE FALSE
  BY <1>2, TaskEndsEffect
<1>3. ASSUME NEW t \in Tasks, NEW j \in Jobs, StartJob(t, j) PROVE FALSE
  <2>1. head' = [head EXCEPT !.pending = @ \cup {j}] BY <1>3 DEF StartJob, Commit
  <2> QED BY <1>0, <2>1 DEF TypeOK, Checkpoint
<1>4. ASSUME NEW t \in Tasks, ModelCall(t) PROVE t \notin called
  BY <1>4 DEF ModelCall, Commit
<1>5. ASSUME NEW t \in Tasks, Start(t) \/ Acquire(t) \/ CancelledUnstarted(t) PROVE FALSE
  BY <1>5 DEF Start, Acquire, CancelledUnstarted
<1>6. ASSUME NEW t \in Tasks, Begin(t) \/ CheckReads(t) \/ BeginWake(t) PROVE FALSE
  BY <1>6 DEF Begin, CheckReads, BeginWake
<1>7. CASE CancelSession \/ (\E j \in Jobs : FinishJob(j)) \/ UNCHANGED vars
  BY <1>7 DEF CancelSession, FinishJob, vars
<1> QED BY <1>1, <1>2, <1>3, <1>4, <1>5, <1>6, <1>7, NextCases DEF Tasks

\* A run that was built to resume a question finds it open until its first model
\* call.
ResumeInv == \A t \in Tasks : pc[t] = "running" => ~NothingToResume(t)

LEMMA ResumeStep ==
    ASSUME MaxRestores = 0, IInv, ResumeInv, [Next]_vars
    PROVE  ResumeInv'
<1> SUFFICES ASSUME NEW t \in Tasks, pc'[t] = "running", t \notin called',
                    input'[t].mode = "answer"
             PROVE  head'.question
  BY DEF ResumeInv, NothingToResume
<1>0. TypeOK
  BY DEF IInv
<1>1. TurnsSerialised
  BY DEF IInv, LockInv, OneSession, TurnsSerialised, Holding
<1>2. ASSUME pc[t] = "running", t \notin called, input'[t] = input[t] PROVE head'.question
  <2>1. head.question BY <1>2 DEF ResumeInv, NothingToResume
  <2>2. SUFFICES ASSUME ~head'.question PROVE FALSE
    OBVIOUS
  <2>3. PICK u \in Tasks : ModelCall(u) /\ u \notin called BY <2>1, <2>2, ModelCallCloses
  <2>4. pc[u] = "running" /\ u \in called' BY <2>3 DEF ModelCall, Runs
  <2> QED BY <1>1, <1>2, <2>4 DEF TurnsSerialised, Holding
<1>3. ASSUME BeginRun(t), head' = head, pc[t] # "none" PROVE head'.question
  <2>1. input'[t] = BuildInput(t, resume[owner[t]]) BY <1>0, <1>3 DEF BeginRun, TypeOK
  <2>2. BuildInput(t, resume[owner[t]]).mode = "answer" BY <2>1
  <2> QED BY <1>3, <2>2 DEF BuildInput
<1>4. ASSUME NEW r \in Requests, Request(r) PROVE head'.question
  <2>1. UNCHANGED <<called, input>> /\ (pc'[t] = pc[t] \/ pc'[t] = "created")
    BY <1>4, RequestEffect
  <2> QED BY <1>2, <2>1
<1>5. ASSUME NEW u \in Tasks, TaskEnds(u) PROVE head'.question
  <2>1. /\ UNCHANGED <<called, input>> /\ pc'[u] \in Ended
        /\ \A x \in Tasks \ {u} : pc'[x] = pc[x] \/ pc'[x] = "created"
    BY <1>5, TaskEndsEffect
  <2> QED BY <1>2, <2>1 DEF Ended
<1>6. ASSUME NEW u \in Tasks, Start(u) \/ Acquire(u) \/ CancelledUnstarted(u)
      PROVE  head'.question
  <2>1. /\ UNCHANGED <<called, input>> /\ pc'[u] # "running"
        /\ \A x \in Tasks \ {u} : pc'[x] = pc[x]
    BY <1>0, <1>6 DEF Start, Acquire, CancelledUnstarted, TypeOK
  <2> QED BY <1>2, <2>1
<1>7. ASSUME NEW u \in Tasks, ModelCall(u) \/ \E j \in Jobs : StartJob(u, j)
      PROVE  head'.question
  <2>1. UNCHANGED <<pc, input>> /\ called \subseteq called' BY <1>7 DEF ModelCall, StartJob
  <2> QED BY <1>2, <2>1
<1>8. ASSUME NEW u \in Tasks,
             (u \in Requests /\ Begin(u)) \/ (u \in Wakes /\ BeginWake(u))
      PROVE  head'.question
  <2>1. BeginRun(u) /\ UNCHANGED <<head, called>> /\ pc[u] # "none"
    BY <1>8 DEF Begin, BeginWake, Runs
  <2>2. CASE u = t BY <1>3, <2>1, <2>2
  <2>3. CASE u # t
    <3>1. pc'[t] = pc[t] /\ input'[t] = input[t] BY <1>0, <2>1, <2>3 DEF BeginRun, TypeOK
    <3> QED BY <1>2, <2>1, <3>1
  <2> QED BY <2>2, <2>3
<1>9. ASSUME NEW w \in Wakes, CheckReads(w) PROVE head'.question
  <2>1. pc'[t] = pc[t] BY <1>0, <1>9 DEF CheckReads, TypeOK
  <2> QED BY <1>2, <1>9, <2>1 DEF CheckReads
<1>10. CASE CancelSession \/ (\E j \in Jobs : FinishJob(j)) \/ UNCHANGED vars
  <2>1. UNCHANGED <<pc, called, input>> BY <1>10 DEF CancelSession, FinishJob, vars
  <2> QED BY <1>2, <2>1
<1> QED BY <1>4, <1>5, <1>6, <1>7, <1>8, <1>9, <1>10, NextCases DEF Tasks

LEMMA ResumeInvariance ==
    ASSUME MaxRestores = 0
    PROVE  Spec => []ResumeInv
<1>1. Init => ResumeInv
  BY DEF Init, ResumeInv
<1>2. IInv /\ ResumeInv /\ [Next]_vars => ResumeInv'
  BY ResumeStep
<1> QED BY <1>1, <1>2, Invariance, PTL DEF Spec

\* A turn has words of its own, is fed them as its input, and they are in the
\* graph from its first model call on.
FedInv ==
    /\ \A s \in Requests : resume[s] = None
    /\ \A r \in Requests :
         /\ pc[r] # "none" => kind[r] \in {"text", "restoretext"}
         /\ pc[r] = "running" => input[r].from = r
         /\ r \in called => r \in delivered
         /\ pc[r] = "done" => r \in called

LEMMA FedStep ==
    ASSUME "answer" \notin Kinds, IInv, ResumeInv, FedInv, [Next]_vars
    PROVE  FedInv'
<1>0. TypeOK /\ Requests \subseteq Tasks /\ Requests \cap Wakes = {} /\ None \notin Requests
  BY ConstantsAssumption DEF IInv, Tasks
<1>1. ASSUME NEW r \in Requests, Request(r) PROVE FedInv'
  <2>1. /\ UNCHANGED <<called, input, delivered, resume>>
        /\ \A t \in Tasks :
             \/ pc'[t] = pc[t]
             \/ t \in Wakes \cup {r} /\ pc[t] = "none" /\ pc'[t] = "created"
        /\ pc'[r] # pc[r] => kind'[r] \in {"text", "restoretext"}
        /\ \A q \in Requests : kind'[q] = kind[q] \/ pc[q] = "none"
    BY <1>1, RequestEffect
  <2> QED BY <1>0, <2>1 DEF FedInv
<1>2. ASSUME NEW t \in Tasks, TaskEnds(t) PROVE FedInv'
  <2>1. /\ UNCHANGED <<kind, resume, called, input, delivered>>
        /\ pc[t] # "none" /\ pc'[t] \in Ended
        /\ \A u \in Tasks \ {t} : pc'[u] = pc[u] \/ u \in Wakes
        /\ t \in Requests /\ pc'[t] = "done" => t \in called
    BY <1>2, TaskEndsEffect DEF Holding, ResumeInv
  <2>2. \A r \in Requests : pc'[r] = pc[r] \/ r = t BY <1>0, <2>1
  <2> QED BY <2>1, <2>2 DEF FedInv, Ended
<1>3. ASSUME NEW t \in Tasks, Start(t) \/ Acquire(t) \/ CancelledUnstarted(t) PROVE FedInv'
  <2>1. /\ UNCHANGED <<kind, resume, called, input, delivered>>
        /\ pc[t] # "none" /\ pc'[t] \notin {"running", "done"}
        /\ \A u \in Tasks \ {t} : pc'[u] = pc[u]
    BY <1>0, <1>3 DEF Start, Acquire, CancelledUnstarted, Runs, TypeOK
  <2> QED BY <1>0, <2>1 DEF FedInv
<1>4. ASSUME NEW t \in Tasks, ModelCall(t) PROVE FedInv'
  <2>1. /\ UNCHANGED <<kind, resume, pc, input>> /\ pc[t] = "running"
        /\ called' = called \cup {t}
        /\ delivered' = delivered \cup ({input[t].from} \ {None})
    BY <1>4 DEF ModelCall, Runs
  <2>2. t \in Requests => t \in delivered' BY <1>0, <2>1 DEF FedInv
  <2> QED BY <2>1, <2>2 DEF FedInv
<1>5. ASSUME NEW t \in Tasks, NEW j \in Jobs, StartJob(t, j) PROVE FedInv'
  BY <1>5 DEF StartJob, FedInv
<1>6. ASSUME NEW t \in Tasks, BeginRun(t), t \in Requests => pc[t] = "preparing",
             UNCHANGED <<kind, called, delivered>>
      PROVE  FedInv'
  <2>1. /\ \A u \in Tasks : pc'[u] = IF u = t THEN "running" ELSE pc[u]
        /\ \A s \in Requests : resume'[s] = None
        /\ \A u \in Tasks : input'[u] = IF u = t THEN BuildInput(t, resume[owner[t]]) ELSE input[u]
    BY <1>0, <1>6 DEF BeginRun, TypeOK, FedInv
  <2>2. ASSUME t \in Requests PROVE input'[t].from = t
    <3>1. kind[t] \in {"text", "restoretext"} BY <1>6, <2>2 DEF FedInv
    <3>2. owner[t] \in Requests BY <1>6, <2>2 DEF IInv, LockInv
    <3>3. resume[owner[t]] = None BY <3>2 DEF FedInv
    <3>4. BuildInput(t, None).from = t BY <2>2, <3>1 DEF BuildInput
    <3> QED BY <2>1, <3>3, <3>4
  <2> QED BY <1>0, <1>6, <2>1, <2>2 DEF FedInv
<1>7. ASSUME NEW t \in Requests, Begin(t) PROVE FedInv'
  BY <1>0, <1>6, <1>7 DEF Begin, Runs
<1>8. ASSUME NEW w \in Wakes, BeginWake(w) PROVE FedInv'
  BY <1>0, <1>6, <1>8 DEF BeginWake, Tasks
<1>9. ASSUME NEW w \in Wakes, CheckReads(w) PROVE FedInv'
  <2>1. \A r \in Requests : pc'[r] = pc[r] BY <1>0, <1>9 DEF CheckReads, TypeOK
  <2> QED BY <1>9, <2>1 DEF CheckReads, FedInv
<1>10. CASE CancelSession \/ (\E j \in Jobs : FinishJob(j)) \/ UNCHANGED vars
  BY <1>10 DEF CancelSession, FinishJob, vars, FedInv
<1> QED BY <1>1, <1>2, <1>3, <1>4, <1>5, <1>7, <1>8, <1>9, <1>10, NextCases

LEMMA FedInvariance ==
    ASSUME MaxRestores = 0, "answer" \notin Kinds
    PROVE  Spec => []FedInv
<1>1. Init => FedInv
  BY DEF Init, FedInv, Tasks
<1>2. IInv /\ ResumeInv /\ FedInv /\ [Next]_vars => FedInv'
  BY FedStep
<1> QED BY <1>1, <1>2, Invariance, ResumeInvariance, PTL DEF Spec

\* The words of a turn that ran to its end are in the graph, with any number of
\* stops and exceptions, as long as no checkpoint is restored, which may leave a
\* resume with nothing to resume, and no client sends an answer without words: a
\* run that consumes another's answer is the case TurnStolenAnswer.cfg shows.
THEOREM ReachesGraph ==
    ASSUME MaxRestores = 0, "answer" \notin Kinds
    PROVE  Spec => []MessageReachesGraph
<1>1. FedInv => MessageReachesGraph
  BY DEF FedInv, MessageReachesGraph
<1> QED BY <1>1, FedInvariance, PTL

-----------------------------------------------------------------------------
(* What closes a question *)

\* A turn that has not reached the model and finds a question open is fed the
\* answer to it.
AnswerInv ==
    \A r \in Requests :
        pc[r] = "running" /\ r \notin called /\ head.question => input[r].mode = "answer"

\* A step that leaves the turn and the question as they were.
LEMMA AnswerKept ==
    ASSUME AnswerInv, NEW r \in Requests, pc'[r] = "running", r \notin called',
           head'.question, pc[r] = "running", r \notin called, head.question, input' = input
    PROVE  input'[r].mode = "answer"
BY DEF AnswerInv

LEMMA AnswerStep ==
    ASSUME "answer" \notin Kinds, MaxRestores = 0, IInv, FedInv, AnswerInv, [Next]_vars
    PROVE  AnswerInv'
<1> SUFFICES ASSUME NEW r \in Requests, (pc[r] = "running" /\ r \notin called /\ head.question)'
             PROVE  input'[r].mode = "answer"
  BY DEF AnswerInv
<1>0. TypeOK /\ r \in Tasks /\ r \notin Wakes
  BY ConstantsAssumption DEF IInv, Tasks
<1>1. TurnsSerialised
  BY DEF IInv, LockInv, OneSession, TurnsSerialised, Holding
<1>2. ASSUME NEW q \in Requests, Request(q) PROVE input'[r].mode = "answer"
  <2>1. /\ UNCHANGED <<called, input, head>>
        /\ pc'[r] = pc[r] \/ pc'[r] = "created"
    BY <1>0, <1>2, RequestEffect
  <2> QED BY <2>1, AnswerKept
<1>3. ASSUME NEW t \in Tasks, TaskEnds(t) PROVE input'[r].mode = "answer"
  <2>1. /\ UNCHANGED <<called, input>>
        /\ pc'[t] \in Ended
        /\ \A u \in Tasks \ {t} : pc'[u] = pc[u] \/ pc'[u] = "created"
        /\ head' = head \/ (pc[t] = "running" /\ head'.question)
    BY <1>3, TaskEndsEffect
  <2>2. r # t /\ pc[r] = "running" BY <1>0, <2>1 DEF Ended
  <2>3. pc[t] # "running" BY <1>0, <1>1, <2>2 DEF TurnsSerialised, Holding
  <2> QED BY <2>1, <2>2, <2>3, AnswerKept
<1>4. ASSUME NEW t \in Tasks, Start(t) \/ Acquire(t) \/ CancelledUnstarted(t)
      PROVE  input'[r].mode = "answer"
  <2>1. /\ UNCHANGED <<called, input, head>>
        /\ pc'[t] # "running" /\ \A u \in Tasks \ {t} : pc'[u] = pc[u]
    BY <1>0, <1>4 DEF Start, Acquire, CancelledUnstarted, TypeOK
  <2> QED BY <1>0, <2>1, AnswerKept
<1>5. ASSUME NEW t \in Tasks, ModelCall(t) \/ \E j \in Jobs : StartJob(t, j)
      PROVE  input'[r].mode = "answer"
  <2>1. pc[t] = "running" /\ pc' = pc /\ t \in called'
    BY <1>5 DEF ModelCall, StartJob, Runs
  <2>2. r = t BY <1>0, <1>1, <2>1 DEF TurnsSerialised, Holding
  <2> QED BY <2>1, <2>2
<1>6. ASSUME NEW t \in Requests, Begin(t) PROVE input'[r].mode = "answer"
  <2>1. BeginRun(t) /\ UNCHANGED <<called, head>> /\ pc[t] = "preparing" /\ t \in Tasks
    BY <1>6 DEF Begin, Runs, Tasks
  <2>2. CASE r = t
    <3>1. owner[t] \in Requests /\ kind[t] \in {"text", "restoretext"}
      BY <2>1 DEF IInv, LockInv, FedInv
    <3>2. resume[owner[t]] = None BY <3>1 DEF FedInv
    <3>3. input'[t] = BuildInput(t, None) BY <1>0, <2>1, <3>2 DEF BeginRun, TypeOK
    <3>4. BuildInput(t, None).mode = "answer" BY <2>1, <3>1 DEF BuildInput
    <3> QED BY <2>2, <3>3, <3>4
  <2>3. CASE r # t
    <3>1. pc'[r] = pc[r] /\ input'[r] = input[r] BY <1>0, <2>1, <2>3 DEF BeginRun, TypeOK
    <3> QED BY <2>1, <3>1 DEF AnswerInv
  <2> QED BY <2>2, <2>3
<1>7. ASSUME NEW w \in Wakes, CheckReads(w) \/ BeginWake(w) PROVE input'[r].mode = "answer"
  <2>1. pc'[r] = pc[r] /\ input'[r] = input[r] /\ UNCHANGED <<called, head>>
    BY <1>0, <1>7 DEF CheckReads, BeginWake, BeginRun, TypeOK
  <2> QED BY <2>1 DEF AnswerInv
<1>8. CASE CancelSession \/ (\E j \in Jobs : FinishJob(j)) \/ UNCHANGED vars
  <2>1. UNCHANGED <<pc, called, head, input>>
    BY <1>8 DEF CancelSession, FinishJob, vars
  <2> QED BY <2>1, AnswerKept
<1> QED BY <1>2, <1>3, <1>4, <1>5, <1>6, <1>7, <1>8, NextCases

\* "Only an answer closes an open question": as long as no checkpoint is restored
\* and no client sends an answer without words, the run that takes a question off
\* the thread is one that was fed the user's reply to it.
THEOREM ClosedByAnswer ==
    ASSUME MaxRestores = 0, "answer" \notin Kinds
    PROVE  Spec => QuestionClosedByAnswer
<1>1. Init => AnswerInv
  BY DEF Init, AnswerInv, Tasks
<1>2. IInv /\ FedInv /\ AnswerInv /\ [Next]_vars => AnswerInv'
  BY AnswerStep
<1>3. ASSUME IInv, WakeInv, AnswerInv, [Next]_vars, head.question, ~head'.question
      PROVE  \E t \in Tasks : t \in called' \ called /\ input[t].mode = "answer"
  <2>1. PICK t \in Tasks : ModelCall(t) /\ t \notin called
    BY <1>3, ModelCallCloses
  <2>2. pc[t] = "running" /\ t \in called' BY <2>1 DEF ModelCall, Runs
  <2>3. t \notin Wakes BY <1>3, <2>1, <2>2 DEF WakeInv, SomethingToReport
  <2>4. input[t].mode = "answer" BY <1>3, <2>1, <2>2, <2>3 DEF AnswerInv, Tasks
  <2> QED BY <2>1, <2>2, <2>4
<1>4. IInv /\ WakeInv /\ AnswerInv /\ [Next]_vars =>
        [head.question /\ ~head'.question =>
           \E t \in Tasks : t \in called' \ called /\ input[t].mode = "answer"]_vars
  BY <1>3
<1> QED
  BY <1>1, <1>2, <1>4, Invariance, WakeInvariance, FedInvariance, PTL
     DEF Spec, QuestionClosedByAnswer

-----------------------------------------------------------------------------
(* The queues in front of the lock, until the user presses stop *)

InReady(t) == \E i \in 1..Len(ready) : ready[i] = t

Queued(t) == t \in Tasks /\ pc[t] \in {"created", "waiting"}

\* The queues hold the tasks that wait, each once; and at or behind every one of
\* them, in its own queue or in the one before it, stands SessionState.task: the
\* last task created is the last to reach the lock.
ReadyInv ==
    \A i \in 1..Len(ready) :
        /\ pc[ready[i]] = "created"
        /\ \E j \in i..Len(ready) : ready[j] = task[owner[ready[i]]]
        /\ \A j \in 1..Len(ready) : ready[i] = ready[j] => i = j

WaitersInv ==
    \A s \in Requests : \A i \in 1..Len(waiters[s]) :
        /\ pc[waiters[s][i]] = "waiting" /\ owner[waiters[s][i]] = s
        /\ InReady(task[s]) \/ \E j \in i..Len(waiters[s]) : waiters[s][j] = task[s]
        /\ \A j \in 1..Len(waiters[s]) : waiters[s][i] = waiters[s][j] => i = j

WaitingInv ==
    \A t \in Tasks :
        pc[t] = "waiting" => \E i \in 1..Len(waiters[owner[t]]) : waiters[owner[t]][i] = t

\* SessionState.task is a task created for that SessionState.
CurrentInv ==
    \A s \in Requests : task[s] # None => owner[task[s]] = s /\ pc[task[s]] # "none"

QueueInv == cancelled = {} /\ ReadyInv /\ WaitersInv /\ WaitingInv /\ CurrentInv

LEMMA AppendIndex ==
    ASSUME NEW S, NEW q \in Seq(S), NEW x \in S
    PROVE  /\ Len(q) \in Nat
           /\ Append(q, x) \in Seq(S)
           /\ Len(Append(q, x)) = Len(q) + 1
           /\ \A i \in 1..Len(q) : Append(q, x)[i] = q[i] /\ q[i] \in S
           /\ Append(q, x)[Len(q) + 1] = x
BY AppendProperties, ElementOfSeq, LenProperties

LEMMA TailIndex ==
    ASSUME NEW S, NEW q \in Seq(S), q # <<>>
    PROVE  /\ Len(q) \in Nat /\ Len(q) >= 1 /\ Head(q) = q[1]
           /\ Tail(q) \in Seq(S)
           /\ Len(Tail(q)) = Len(q) - 1
           /\ \A i \in 1..(Len(q) - 1) : Tail(q)[i] = q[i + 1]
BY HeadTailProperties, LenProperties, EmptySeq

LEMMA SeqIndex ==
    ASSUME NEW S, NEW q \in Seq(S)
    PROVE  Len(q) \in Nat /\ \A i \in 1..Len(q) : q[i] \in S
BY ElementOfSeq, LenProperties

\* Where the queues are as they were, and SessionState.task where it is queued.
LEMMA QueueKept ==
    ASSUME IInv, QueueInv, ready' = ready, waiters' = waiters, cancelled' = {},
           owner' = owner,
           \A s \in Requests : task'[s] = task[s] \/ (task'[s] = None /\ ~Queued(task[s])),
           \A t \in Tasks : /\ Queued(t) => pc'[t] = pc[t]
                            /\ pc'[t] \in {"none", "waiting"} => pc[t] = pc'[t]
    PROVE  QueueInv'
<1>0. /\ ready \in Seq(Tasks) /\ waiters \in [Requests -> Seq(Tasks)]
      /\ \A t \in Tasks : pc[t] # "none" => owner[t] \in Requests
  BY DEF IInv, TypeOK, LockInv
<1>1. Len(ready) \in Nat /\ \A i \in 1..Len(ready) : ready[i] \in Tasks
  BY <1>0, SeqIndex
<1>2. \A s \in Requests : Len(waiters[s]) \in Nat /\ \A i \in 1..Len(waiters[s]) : waiters[s][i] \in Tasks
  BY <1>0, SeqIndex
<1>3. \A i \in 1..Len(ready) :
        /\ owner[ready[i]] \in Requests /\ Queued(task[owner[ready[i]]]) /\ Queued(ready[i])
  <2>1. TAKE i \in 1..Len(ready)
  <2>2. PICK j \in i..Len(ready) : ready[j] = task[owner[ready[i]]] BY DEF QueueInv, ReadyInv
  <2>3. j \in 1..Len(ready) BY <1>1, <2>2
  <2> QED BY <1>0, <1>1, <2>2, <2>3 DEF QueueInv, ReadyInv, Queued
<1>4. \A s \in Requests : \A i \in 1..Len(waiters[s]) : Queued(task[s]) /\ Queued(waiters[s][i])
  <2>1. TAKE s \in Requests
  <2>2. TAKE i \in 1..Len(waiters[s])
  <2>3. ASSUME InReady(task[s]) PROVE Queued(task[s])
    BY <1>1, <2>3 DEF InReady, QueueInv, ReadyInv, Queued
  <2>4. ASSUME NEW j \in i..Len(waiters[s]), waiters[s][j] = task[s] PROVE Queued(task[s])
    <3>1. j \in 1..Len(waiters[s]) BY <1>2
    <3> QED BY <1>2, <2>4, <3>1 DEF QueueInv, WaitersInv, Queued
  <2>5. Queued(waiters[s][i]) BY <1>2 DEF QueueInv, WaitersInv, Queued
  <2>6. InReady(task[s]) \/ \E j \in i..Len(waiters[s]) : waiters[s][j] = task[s]
    BY DEF QueueInv, WaitersInv
  <2> QED BY <2>3, <2>4, <2>5, <2>6
<1>5. ReadyInv'
  BY <1>1, <1>3 DEF QueueInv, ReadyInv
<1>6. WaitersInv'
  <2>1. ASSUME NEW s \in Requests, NEW i \in 1..Len(waiters[s])
        PROVE  /\ pc'[waiters[s][i]] = "waiting" /\ owner'[waiters[s][i]] = s
               /\ InReady(task[s])' \/ \E j \in i..Len(waiters[s]) : waiters[s][j] = task'[s]
               /\ \A j \in 1..Len(waiters[s]) : waiters[s][i] = waiters[s][j] => i = j
    <3>1. Queued(task[s]) /\ Queued(waiters[s][i]) /\ task'[s] = task[s] BY <1>4
    <3>2. waiters[s][i] \in Tasks BY <1>2
    <3>3. InReady(task[s])' <=> InReady(task[s]) BY <3>1 DEF InReady
    <3> QED BY <3>1, <3>2, <3>3 DEF QueueInv, WaitersInv, Queued
  <2> QED BY <2>1 DEF WaitersInv
<1>7. WaitingInv'
  BY DEF QueueInv, WaitingInv
<1>8. CurrentInv'
  BY DEF IInv, TypeOK, QueueInv, CurrentInv
<1> QED BY <1>5, <1>6, <1>7, <1>8 DEF QueueInv

\* A new task joins the end of the queue and becomes SessionState.task.
LEMMA QueueGrows ==
    ASSUME IInv, QueueInv, NEW x \in Tasks, NEW s \in Requests, pc[x] = "none",
           ready' = Append(ready, x), waiters' = waiters, cancelled' = {},
           task'[s] = x, pc'[x] = "created", owner'[x] = s,
           \A z \in Requests \ {s} :
             task'[z] = task[z] \/ (task'[z] = None /\ ~Queued(task[z])),
           \A t \in Tasks \ {x} : /\ Queued(t) => pc'[t] = pc[t]
                                  /\ pc'[t] \in {"none", "waiting"} => pc[t] = pc'[t]
                                  /\ owner'[t] = owner[t]
    PROVE  QueueInv'
<1>0. /\ ready \in Seq(Tasks) /\ waiters \in [Requests -> Seq(Tasks)]
      /\ \A t \in Tasks : pc[t] # "none" => owner[t] \in Requests
  BY DEF IInv, TypeOK, LockInv
<1> DEFINE n == Len(ready)
<1>1. /\ n \in Nat /\ Len(ready') = n + 1 /\ ready'[n + 1] = x
      /\ \A i \in 1..n : ready'[i] = ready[i] /\ ready[i] \in Tasks
  BY <1>0, AppendIndex
<1>2. \A z \in Requests : Len(waiters[z]) \in Nat /\ \A i \in 1..Len(waiters[z]) : waiters[z][i] \in Tasks
  BY <1>0, SeqIndex
<1>3. \A i \in 1..n : ready[i] # x /\ Queued(ready[i]) /\ owner[ready[i]] \in Requests
  BY <1>0, <1>1 DEF QueueInv, ReadyInv, Queued
<1>4. \A z \in Requests : \A i \in 1..Len(waiters[z]) : waiters[z][i] # x /\ Queued(waiters[z][i])
  BY <1>2 DEF QueueInv, WaitersInv, Queued
<1> HIDE DEF n
<1>5. ASSUME NEW i \in 1..(n + 1)
      PROVE  /\ pc'[ready'[i]] = "created"
             /\ \E j \in i..(n + 1) : ready'[j] = task'[owner'[ready'[i]]]
             /\ \A j \in 1..(n + 1) : ready'[i] = ready'[j] => i = j
  <2>1. CASE i = n + 1
    <3>1. ready'[i] = x /\ i \in i..(n + 1) BY <1>1, <2>1
    <3>2. \A j \in 1..(n + 1) : ready'[j] = x => j = n + 1 BY <1>1, <1>3
    <3> QED BY <2>1, <3>1, <3>2
  <2>2. CASE i \in 1..n
    <3>1. pc[ready[i]] = "created" /\ \A j \in 1..n : ready[i] = ready[j] => i = j
      BY <2>2 DEF QueueInv, ReadyInv, n
    <3>2. pc'[ready'[i]] = "created" /\ owner'[ready'[i]] = owner[ready[i]]
      BY <1>1, <1>3, <2>2, <3>1
    <3>3. \A j \in 1..(n + 1) : ready'[i] = ready'[j] => i = j
      BY <1>1, <1>3, <2>2, <3>1
    <3>4. CASE owner[ready[i]] = s
      <4>1. n + 1 \in i..(n + 1) BY <1>1, <2>2
      <4> QED BY <1>1, <3>2, <3>3, <3>4, <4>1
    <3>5. CASE owner[ready[i]] # s
      <4>1. PICK j \in i..n : ready[j] = task[owner[ready[i]]] BY <2>2 DEF QueueInv, ReadyInv, n
      <4>2. j \in 1..n /\ j \in i..(n + 1) BY <1>1, <2>2, <4>1
      <4>3. ready'[j] = task'[owner'[ready'[i]]]
        BY <1>1, <1>3, <2>2, <3>2, <3>5, <4>1, <4>2
      <4> QED BY <3>2, <3>3, <4>2, <4>3
    <3> QED BY <3>4, <3>5
  <2> QED BY <1>1, <2>1, <2>2
<1>6. ASSUME NEW z \in Requests, NEW i \in 1..Len(waiters[z])
      PROVE  /\ pc'[waiters[z][i]] = "waiting" /\ owner'[waiters[z][i]] = z
             /\ InReady(task[z])' \/ \E j \in i..Len(waiters[z]) : waiters[z][j] = task'[z]
             /\ \A j \in 1..Len(waiters[z]) : waiters[z][i] = waiters[z][j] => i = j
  <2>0. waiters[z][i] \in Tasks \ {x} BY <1>2, <1>4
  <2>1. /\ pc'[waiters[z][i]] = "waiting" /\ owner'[waiters[z][i]] = z
        /\ \A j \in 1..Len(waiters[z]) : waiters[z][i] = waiters[z][j] => i = j
    BY <1>4, <2>0 DEF QueueInv, WaitersInv, Queued
  <2>2. CASE z = s
    <3>1. Len(ready') \in 1..Len(ready') /\ ready'[Len(ready')] = task'[z] BY <1>1, <2>2
    <3> QED BY <2>1, <3>1 DEF InReady
  <2>3. CASE z # s
    <3>1. ASSUME NEW k \in 1..n, ready[k] = task[z] PROVE InReady(task[z])'
      <4>1. Queued(task[z]) BY <1>3, <3>1
      <4>2. k \in 1..Len(ready') /\ ready'[k] = task'[z] BY <1>1, <2>3, <3>1, <4>1
      <4> QED BY <4>2 DEF InReady
    <3>2. ASSUME NEW j \in i..Len(waiters[z]), waiters[z][j] = task[z]
          PROVE  waiters[z][j] = task'[z]
      <4>1. j \in 1..Len(waiters[z]) BY <1>2
      <4>2. Queued(task[z]) BY <1>4, <3>2, <4>1
      <4> QED BY <2>3, <3>2, <4>2
    <3>3. InReady(task[z]) \/ \E j \in i..Len(waiters[z]) : waiters[z][j] = task[z]
      BY DEF QueueInv, WaitersInv
    <3> QED BY <2>1, <3>1, <3>2, <3>3 DEF InReady, n
  <2> QED BY <2>2, <2>3
<1>7. WaitingInv'
  BY DEF QueueInv, WaitingInv, Queued
<1>8. ReadyInv'
  <2>1. Len(ready') = n + 1 BY <1>1
  <2>2. SUFFICES ASSUME NEW i \in 1..Len(ready')
                 PROVE  /\ pc'[ready'[i]] = "created"
                        /\ \E j \in i..Len(ready') : ready'[j] = task'[owner'[ready'[i]]]
                        /\ \A j \in 1..Len(ready') : ready'[i] = ready'[j] => i = j
    BY DEF ReadyInv
  <2>3. i \in 1..(n + 1) BY <2>1
  <2>4. /\ pc'[ready'[i]] = "created"
        /\ \E j \in i..(n + 1) : ready'[j] = task'[owner'[ready'[i]]]
        /\ \A j \in 1..(n + 1) : ready'[i] = ready'[j] => i = j
    BY <1>5, <2>3
  <2> QED BY <2>1, <2>4
<1>9. WaitersInv'
  <2>1. SUFFICES ASSUME NEW z \in Requests, NEW i \in 1..Len(waiters[z])
                 PROVE  /\ pc'[waiters[z][i]] = "waiting" /\ owner'[waiters[z][i]] = z
                        /\ InReady(task[z])' \/ \E j \in i..Len(waiters[z]) : waiters[z][j] = task'[z]
                        /\ \A j \in 1..Len(waiters[z]) : waiters[z][i] = waiters[z][j] => i = j
    BY DEF WaitersInv
  <2> QED BY <1>6
<1>10. CurrentInv'
  <2>1. SUFFICES ASSUME NEW z \in Requests, task'[z] # None
                 PROVE  owner'[task'[z]] = z /\ pc'[task'[z]] # "none"
    BY DEF CurrentInv
  <2>2. CASE z = s BY <2>2
  <2>3. CASE z # s
    <3>1. task'[z] = task[z] /\ task[z] \in Tasks BY <2>1, <2>3 DEF IInv, TypeOK
    <3>2. owner[task[z]] = z /\ pc[task[z]] # "none" BY <2>1, <3>1 DEF QueueInv, CurrentInv
    <3> QED BY <3>1, <3>2
  <2> QED BY <2>2, <2>3
<1> QED BY <1>7, <1>8, <1>9, <1>10 DEF QueueInv

LEMMA QueueSchedule ==
    ASSUME IInv, QueueInv, NEW s \in Requests,
           NEW tk \in [Requests -> Tasks \cup {None}], NEW p \in [Tasks -> PCs],
           \A z \in Requests : tk[z] = task[z] \/ (tk[z] = None /\ ~Queued(task[z])),
           \A t \in Tasks : /\ Queued(t) => p[t] = pc[t]
                            /\ p[t] \in {"none", "waiting"} => pc[t] = p[t],
           ScheduleWake(s, tk, p), waiters' = waiters, cancelled' = {}
    PROVE  QueueInv'
<1> DEFINE busy == tk[s] # None /\ p[tk[s]] \notin Ended \cup {"none"}
           free == {x \in Wakes : p[x] = "none"}
           w == CHOOSE x \in free : TRUE
<1>0. owner \in [Tasks -> Requests \cup {None}]
  BY DEF IInv, TypeOK
<1>1. CASE busy
  <2>1. task' = tk /\ pc' = p /\ UNCHANGED <<owner, ready>> BY <1>1 DEF ScheduleWake
  <2> QED BY <2>1, QueueKept
<1>2. CASE ~busy
  <2>1. /\ free # {}
        /\ task' = [tk EXCEPT ![s] = w]
        /\ pc' = [p EXCEPT ![w] = "created"]
        /\ owner' = [owner EXCEPT ![w] = s]
        /\ ready' = Append(ready, w)
    BY <1>2 DEF ScheduleWake
  <2>2. w \in free BY <2>1
  <2>3. w \in Tasks /\ p[w] = "none" BY <2>2 DEF Tasks
  <2> HIDE DEF w
  <2>4. pc[w] = "none" BY <2>3
  <2>5. /\ task'[s] = w /\ pc'[w] = "created" /\ owner'[w] = s
        /\ \A z \in Requests \ {s} : task'[z] = tk[z]
        /\ \A t \in Tasks \ {w} : pc'[t] = p[t] /\ owner'[t] = owner[t]
    BY <1>0, <2>1, <2>3
  <2>6. \A z \in Requests \ {s} : task'[z] = task[z] \/ (task'[z] = None /\ ~Queued(task[z]))
    BY <2>5
  <2>7. \A t \in Tasks \ {w} : /\ Queued(t) => pc'[t] = pc[t]
                               /\ pc'[t] \in {"none", "waiting"} => pc[t] = pc'[t]
                               /\ owner'[t] = owner[t]
    BY <2>5
  <2> QED BY <2>1, <2>3, <2>4, <2>5, <2>6, <2>7, QueueGrows
<1> QED BY <1>1, <1>2

LEMMA QueueRequest ==
    ASSUME IInv, QueueInv, NEW r \in Requests, Request(r)
    PROVE  QueueInv'
<1>0. /\ TypeOK /\ FreshInv /\ r \in Tasks /\ store \in Requests \cup {None}
      /\ task \in [Requests -> Tasks \cup {None}] /\ pc \in [Tasks -> PCs]
      /\ owner \in [Tasks -> Requests \cup {None}]
  BY DEF IInv, TypeOK, Tasks
<1>1. UNCHANGED <<waiters, cancelled>> /\ cancelled' = {}
  BY RequestEffect DEF QueueInv
<1>2. ASSUME UNCHANGED taskVars PROVE QueueInv'
  BY <1>1, <1>2, QueueKept DEF taskVars
<1>3. ASSUME NEW k, NEW current \in Requests \cup {None}, Dispatch(r, k, current), pc[r] = "none"
      PROVE  QueueInv'
  <2> DEFINE s == IF current = None THEN r ELSE current
  <2>1. s \in Requests OBVIOUS
  <2>2. CreateTurn(r, s) \/ ScheduleWake(s, task, pc) \/ UNCHANGED taskVars
    BY <1>3 DEF Dispatch
  <2> HIDE DEF s
  <2>3. CASE CreateTurn(r, s)
    <3>1. /\ ready' = Append(ready, r)
          /\ task'[s] = r /\ pc'[r] = "created" /\ owner'[r] = s
          /\ \A z \in Requests \ {s} : task'[z] = task[z]
          /\ \A t \in Tasks \ {r} : pc'[t] = pc[t] /\ owner'[t] = owner[t]
      BY <1>0, <2>1, <2>3 DEF CreateTurn
    <3> QED BY <1>0, <1>1, <1>3, <2>1, <3>1, QueueGrows
  <2>4. CASE ScheduleWake(s, task, pc)
    BY <1>0, <1>1, <2>1, <2>4, QueueSchedule
  <2> QED BY <1>2, <2>2, <2>3, <2>4
<1>4. CASE HandleMessage(r) \/ HandleNotice(r)
  <2>1. PICK k : Dispatch(r, k, store) BY <1>4 DEF HandleMessage, HandleNotice
  <2>2. pc[r] = "none" BY <1>0, <1>4 DEF HandleMessage, HandleNotice, FreshInv
  <2> QED BY <1>0, <1>3, <2>1, <2>2
<1>5. CASE RestoreReturns(r)
  <2>1. pc[r] = "none" BY <1>0, <1>5 DEF RestoreReturns, FreshInv
  <2>2. UNCHANGED taskVars \/ Dispatch(r, kind[r], None) BY <1>5 DEF RestoreReturns
  <2> QED BY <1>2, <1>3, <2>1, <2>2
<1>6. CASE HandleStarted(r) \/ RestoreApplies(r) \/ RefuseRequest(r)
  BY <1>2, <1>6 DEF HandleStarted, RestoreApplies, RefuseRequest
<1> QED BY <1>4, <1>5, <1>6 DEF Request

LEMMA QueueTaskEnds ==
    ASSUME IInv, QueueInv, NEW t \in Tasks, TaskEnds(t)
    PROVE  QueueInv'
<1>0. /\ TypeOK /\ LockInv /\ task \in [Requests -> Tasks \cup {None}] /\ pc \in [Tasks -> PCs]
      /\ waiters \in [Requests -> Seq(Tasks)]
  BY DEF IInv, TypeOK
<1>1. pc[t] \in Holding /\ owner[t] \in Requests
  <2>1. ~CancelDelivered(t) BY DEF CancelDelivered, QueueInv
  <2>2. pc[t] \in Holding
    BY <2>1 DEF TaskEnds, Complete, CompleteUnresumed, Ask, GraphFails, PrepareFails, WakeFails, SkipWake, Runs,
         Holding
  <2> QED BY <1>0, <2>2 DEF LockInv, Holding
<1>2. PICK how \in Ended, clean \in BOOLEAN : EndTask(t, how, clean)
  BY <1>0, TaskEndsIsEndTask
<1> DEFINE s == owner[t]
           tk == IF IsCurrent(t) THEN [task EXCEPT ![s] = None] ELSE task
           p == [pc EXCEPT ![t] = how]
<1>3. /\ ReleaseLock(t)
      /\ cancelled' = cancelled \ {t}
      /\ \/ ScheduleWake(s, tk, p)
         \/ task' = tk /\ pc' = p /\ UNCHANGED <<owner, ready>>
  BY <1>2 DEF EndTask
<1>4. cancelled' = {} BY <1>3 DEF QueueInv
<1>5. waiters' = waiters
  <2>1. \A i \in 1..Len(waiters[s]) : waiters[s][i] # t
    BY <1>1 DEF QueueInv, WaitersInv, Holding
  <2>2. Without(waiters[s], t) = waiters[s] BY <2>1 DEF Without
  <2> QED BY <1>0, <1>3, <2>2 DEF ReleaseLock
<1>6. ~Queued(t) /\ how \notin {"none", "created", "waiting"} /\ how \in PCs
  BY <1>1 DEF Queued, Holding, Ended, PCs
<1>7. tk \in [Requests -> Tasks \cup {None}] /\ p \in [Tasks -> PCs]
  BY <1>0, <1>6
<1>8. \A z \in Requests : tk[z] = task[z] \/ (tk[z] = None /\ ~Queued(task[z]))
  BY <1>0, <1>1, <1>6 DEF IsCurrent
<1>9. \A u \in Tasks : /\ Queued(u) => p[u] = pc[u]
                       /\ p[u] \in {"none", "waiting"} => pc[u] = p[u]
  BY <1>0, <1>6
<1> HIDE DEF s, tk, p
<1>10. CASE ScheduleWake(s, tk, p)
  <2>1. s \in Requests BY <1>1 DEF s
  <2> QED BY <1>4, <1>5, <1>7, <1>8, <1>9, <1>10, <2>1, QueueSchedule
<1>11. CASE task' = tk /\ pc' = p /\ UNCHANGED <<owner, ready>>
  BY <1>4, <1>5, <1>8, <1>9, <1>11, QueueKept
<1> QED BY <1>3, <1>10, <1>11

\* A task moves from the event loop's queue to the lock's.
LEMMA QueueStart ==
    ASSUME IInv, QueueInv, NEW t \in Tasks, Start(t)
    PROVE  QueueInv'
<1> DEFINE s == owner[t]
           n == Len(ready)
           m == Len(waiters[s])
<1>0. /\ ready \in Seq(Tasks) /\ waiters \in [Requests -> Seq(Tasks)] /\ pc \in [Tasks -> PCs]
      /\ \A u \in Tasks : pc[u] # "none" => owner[u] \in Requests
  BY DEF IInv, TypeOK, LockInv
<1>1. /\ pc[t] = "created" /\ ready # <<>> /\ Head(ready) = t /\ ready' = Tail(ready)
      /\ pc' = [pc EXCEPT ![t] = "waiting"]
      /\ waiters' = [waiters EXCEPT ![s] = Append(@, t)]
      /\ UNCHANGED <<task, owner, cancelled>> /\ s \in Requests
  BY <1>0 DEF Start, Runs
<1>2. /\ n \in Nat /\ n >= 1 /\ ready[1] = t /\ Len(ready') = n - 1
      /\ \A i \in 1..(n - 1) : ready'[i] = ready[i + 1]
      /\ \A i \in 1..n : ready[i] \in Tasks
  BY <1>0, <1>1, TailIndex, SeqIndex
<1>3. /\ m \in Nat /\ Len(waiters'[s]) = m + 1 /\ waiters'[s][m + 1] = t
      /\ \A i \in 1..m : waiters'[s][i] = waiters[s][i] /\ waiters[s][i] \in Tasks
      /\ \A z \in Requests \ {s} : waiters'[z] = waiters[z]
  <2>1. waiters[s] \in Seq(Tasks) BY <1>0, <1>1
  <2>2. waiters'[s] = Append(waiters[s], t) BY <1>0, <1>1
  <2>3. \A z \in Requests \ {s} : waiters'[z] = waiters[z] BY <1>0, <1>1
  <2> QED BY <2>1, <2>2, <2>3, AppendIndex
<1>4. \A u \in Tasks \ {t} : pc'[u] = pc[u]
  BY <1>0, <1>1
<1>4a. pc'[t] = "waiting"
  BY <1>0, <1>1
<1>5. \A z \in Requests : Len(waiters[z]) \in Nat /\ \A i \in 1..Len(waiters[z]) : waiters[z][i] \in Tasks
  BY <1>0, SeqIndex
<1>6. \A k \in 2..n : ready[k] # t
  BY <1>2 DEF QueueInv, ReadyInv
\* Where a SessionState.task of the old queue is now.
<1>7. ASSUME NEW z \in Requests, InReady(task[z])
      PROVE  task[z] = t \/ \E k \in 1..(n - 1) : ready'[k] = task[z]
  <2>1. PICK k \in 1..n : ready[k] = task[z] BY <1>7 DEF InReady
  <2>2. CASE k = 1 BY <1>2, <2>1, <2>2
  <2>3. CASE k \in 2..n
    <3>1. k - 1 \in 1..(n - 1) /\ ready'[k - 1] = task[z] BY <1>2, <2>1, <2>3
    <3> QED BY <3>1
  <2> QED BY <1>2, <2>2, <2>3
<1> HIDE DEF n, m, s
<1>8. ReadyInv'
  <2>1. SUFFICES ASSUME NEW i \in 1..(n - 1)
                 PROVE  /\ pc'[ready'[i]] = "created"
                        /\ \E j \in i..(n - 1) : ready'[j] = task[owner[ready'[i]]]
                        /\ \A j \in 1..(n - 1) : ready'[i] = ready'[j] => i = j
    BY <1>1, <1>2 DEF ReadyInv
  <2>2. i + 1 \in 2..n /\ i + 1 \in 1..n /\ ready'[i] = ready[i + 1] BY <1>2
  <2>3. /\ pc[ready[i + 1]] = "created"
        /\ \E j \in (i + 1)..n : ready[j] = task[owner[ready[i + 1]]]
        /\ \A j \in 1..n : ready[i + 1] = ready[j] => i + 1 = j
    BY <2>2 DEF QueueInv, ReadyInv, n
  <2>4. pc'[ready'[i]] = "created" BY <1>2, <1>4, <1>6, <2>2, <2>3
  <2>5. PICK j \in (i + 1)..n : ready[j] = task[owner[ready[i + 1]]] BY <2>3
  <2>6. j - 1 \in i..(n - 1) /\ ready'[j - 1] = ready[j] BY <1>2, <2>2, <2>5
  <2>7. \A l \in 1..(n - 1) : ready'[i] = ready'[l] => i = l
    <3>1. TAKE l \in 1..(n - 1)
    <3>2. l + 1 \in 1..n /\ ready'[l] = ready[l + 1] BY <1>2
    <3> QED BY <1>2, <2>2, <2>3, <3>2
  <2> QED BY <2>2, <2>4, <2>5, <2>6, <2>7
<1>9. InReady(task[s])
  <2>1. 1 \in 1..n BY <1>2
  <2> QED BY <1>2, <2>1 DEF QueueInv, ReadyInv, InReady, n, s
<1>10. ASSUME NEW z \in Requests, task[z] = t PROVE z = s
  BY <1>10, ConstantsAssumption DEF QueueInv, CurrentInv, Tasks, s
<1>11. ASSUME NEW z \in Requests, NEW i \in 1..Len(waiters[z])
       PROVE  /\ pc'[waiters[z][i]] = "waiting" /\ owner[waiters[z][i]] = z
              /\ waiters[z][i] # t
              /\ \A j \in 1..Len(waiters[z]) : waiters[z][i] = waiters[z][j] => i = j
              /\ \/ z = s
                 \/ \E k \in 1..(n - 1) : ready'[k] = task[z]
                 \/ \E j \in i..Len(waiters[z]) : waiters[z][j] = task[z]
  <2>1. /\ pc[waiters[z][i]] = "waiting" /\ owner[waiters[z][i]] = z /\ waiters[z][i] \in Tasks
        /\ \A j \in 1..Len(waiters[z]) : waiters[z][i] = waiters[z][j] => i = j
        /\ InReady(task[z]) \/ \E j \in i..Len(waiters[z]) : waiters[z][j] = task[z]
    BY <1>5 DEF QueueInv, WaitersInv
  <2>2. waiters[z][i] # t BY <1>1, <2>1
  <2> QED BY <1>4, <1>7, <1>10, <2>1, <2>2
<1>12. WaitersInv'
  <2>0. ASSUME NEW z \in Requests, NEW k \in 1..(n - 1), ready'[k] = task[z]
        PROVE  InReady(task[z])'
    <3>1. k \in 1..Len(ready') /\ task'[z] = task[z] BY <1>1, <1>2
    <3> QED BY <2>0, <3>1 DEF InReady
  <2>1. SUFFICES ASSUME NEW z \in Requests, NEW i \in 1..Len(waiters'[z])
                 PROVE  /\ pc'[waiters'[z][i]] = "waiting" /\ owner[waiters'[z][i]] = z
                        /\ \/ \E k \in 1..(n - 1) : ready'[k] = task[z]
                           \/ \E j \in i..Len(waiters'[z]) : waiters'[z][j] = task[z]
                        /\ \A j \in 1..Len(waiters'[z]) : waiters'[z][i] = waiters'[z][j] => i = j
    <3>1. SUFFICES ASSUME NEW z \in Requests, NEW i \in 1..Len(waiters'[z])
                   PROVE  /\ pc'[waiters'[z][i]] = "waiting" /\ owner'[waiters'[z][i]] = z
                          /\ \/ InReady(task[z])'
                             \/ \E j \in i..Len(waiters'[z]) : waiters'[z][j] = task'[z]
                          /\ \A j \in 1..Len(waiters'[z]) : waiters'[z][i] = waiters'[z][j] => i = j
      BY DEF WaitersInv
    <3>2. owner' = owner /\ task' = task BY <1>1
    <3>3. /\ pc'[waiters'[z][i]] = "waiting" /\ owner[waiters'[z][i]] = z
          /\ \A j \in 1..Len(waiters'[z]) : waiters'[z][i] = waiters'[z][j] => i = j
      BY <2>1
    <3>4. \/ \E k \in 1..(n - 1) : ready'[k] = task[z]
          \/ \E j \in i..Len(waiters'[z]) : waiters'[z][j] = task[z]
      BY <2>1
    <3> QED BY <2>0, <3>2, <3>3, <3>4
  <2>2. CASE z # s
    <3>1. waiters'[z] = waiters[z] /\ i \in 1..Len(waiters[z]) BY <1>3, <2>2
    <3>2. /\ pc'[waiters[z][i]] = "waiting" /\ owner[waiters[z][i]] = z
          /\ \A j \in 1..Len(waiters[z]) : waiters[z][i] = waiters[z][j] => i = j
          /\ \/ \E k \in 1..(n - 1) : ready'[k] = task[z]
             \/ \E j \in i..Len(waiters[z]) : waiters[z][j] = task[z]
      BY <1>11, <2>2, <3>1
    <3> QED BY <3>1, <3>2
  <2>3. CASE z = s
    <3>1. i \in 1..(m + 1) /\ m + 1 \in i..(m + 1) BY <1>3, <2>3
    <3>2. \A j \in 1..m : waiters'[s][j] # t BY <1>1, <1>3, <1>11 DEF m
    <3>3. /\ pc'[waiters'[s][i]] = "waiting" /\ owner[waiters'[s][i]] = s
          /\ \A j \in 1..(m + 1) : waiters'[s][i] = waiters'[s][j] => i = j
      <4>1. CASE i = m + 1 BY <1>3, <1>4a, <3>2, <4>1 DEF s
      <4>2. CASE i \in 1..m
        <5>1. s \in Requests /\ i \in 1..Len(waiters[s]) BY <1>1, <4>2 DEF m
        <5>2. /\ pc'[waiters[s][i]] = "waiting" /\ owner[waiters[s][i]] = s
              /\ \A j \in 1..Len(waiters[s]) : waiters[s][i] = waiters[s][j] => i = j
          BY <1>11, <5>1
        <5> QED BY <1>3, <3>2, <4>2, <5>2, SMTT(60) DEF m
      <4> QED BY <1>3, <3>1, <4>1, <4>2
    <3>4. \/ \E k \in 1..(n - 1) : ready'[k] = task[s]
          \/ \E j \in i..(m + 1) : waiters'[s][j] = task[s]
      <4>1. task[s] = t => \E j \in i..(m + 1) : waiters'[s][j] = task[s] BY <1>3, <3>1
      <4> QED BY <1>1, <1>7, <1>9, <4>1
    <3> QED BY <1>3, <2>3, <3>3, <3>4
  <2> QED BY <2>2, <2>3
<1>13. WaitingInv'
  <2>1. SUFFICES ASSUME NEW u \in Tasks, pc'[u] = "waiting"
                 PROVE  \E i \in 1..Len(waiters'[owner[u]]) : waiters'[owner[u]][i] = u
    BY <1>1 DEF WaitingInv
  <2>2. CASE u = t
    <3>1. m + 1 \in 1..Len(waiters'[s]) BY <1>3
    <3> QED BY <1>3, <2>2, <3>1 DEF s
  <2>3. CASE u # t
    <3>1. pc[u] = "waiting" /\ owner[u] \in Requests BY <1>0, <1>4, <2>1, <2>3
    <3>2. PICK i \in 1..Len(waiters[owner[u]]) : waiters[owner[u]][i] = u
      BY <3>1 DEF QueueInv, WaitingInv
    <3>3. i \in 1..Len(waiters'[owner[u]]) /\ waiters'[owner[u]][i] = u
      BY <1>3, <3>1, <3>2 DEF m
    <3> QED BY <3>3
  <2> QED BY <2>2, <2>3
<1>14. CurrentInv'
  BY <1>1, <1>4, <1>4a DEF QueueInv, CurrentInv, IInv, TypeOK
<1> QED BY <1>1, <1>8, <1>12, <1>13, <1>14 DEF QueueInv

\* The first of the lock's queue leaves it and holds the lock.
LEMMA QueueAcquire ==
    ASSUME IInv, QueueInv, NEW t \in Tasks, Acquire(t)
    PROVE  QueueInv'
<1> DEFINE s == owner[t]
           m == Len(waiters[s])
<1>0. /\ ready \in Seq(Tasks) /\ waiters \in [Requests -> Seq(Tasks)] /\ pc \in [Tasks -> PCs]
      /\ \A u \in Tasks : pc[u] # "none" => owner[u] \in Requests
  BY DEF IInv, TypeOK, LockInv
<1>1. /\ pc[t] = "waiting" /\ waiters[s] # <<>> /\ Head(waiters[s]) = t
      /\ waiters' = [waiters EXCEPT ![s] = Tail(@)]
      /\ UNCHANGED <<task, owner, cancelled, ready>> /\ s \in Requests
  BY <1>0 DEF Acquire, Runs
<1>2. /\ pc'[t] \in {"preparing", "checking"}
      /\ \A u \in Tasks \ {t} : pc'[u] = pc[u]
  BY <1>0 DEF Acquire
<1>3. /\ m \in Nat /\ m >= 1 /\ waiters[s][1] = t /\ Len(waiters'[s]) = m - 1
      /\ \A i \in 1..(m - 1) : waiters'[s][i] = waiters[s][i + 1]
      /\ \A z \in Requests \ {s} : waiters'[z] = waiters[z]
  <2>1. waiters[s] \in Seq(Tasks) BY <1>0, <1>1
  <2>2. waiters'[s] = Tail(waiters[s]) BY <1>0, <1>1
  <2>3. \A z \in Requests \ {s} : waiters'[z] = waiters[z] BY <1>0, <1>1
  <2>4. waiters[s] # <<>> /\ Head(waiters[s]) = t BY <1>1
  <2> HIDE DEF s
  <2>5. /\ Len(waiters[s]) \in Nat /\ Len(waiters[s]) >= 1 /\ Head(waiters[s]) = waiters[s][1]
        /\ Len(Tail(waiters[s])) = Len(waiters[s]) - 1
        /\ \A i \in 1..(Len(waiters[s]) - 1) : Tail(waiters[s])[i] = waiters[s][i + 1]
    BY <2>1, <2>4, TailIndex
  <2> QED BY <2>2, <2>3, <2>4, <2>5
<1>4. /\ \A i \in 1..Len(ready) : ready[i] \in Tasks
      /\ \A z \in Requests : \A i \in 1..Len(waiters[z]) : waiters[z][i] \in Tasks
  BY <1>0, SeqIndex
<1>5. \A z \in Requests : InReady(task[z])' <=> InReady(task[z])
  BY <1>1 DEF InReady
<1>6. ReadyInv'
  BY <1>1, <1>2, <1>4 DEF QueueInv, ReadyInv
<1>7. \A k \in 2..m : /\ waiters[s][k] # t
                      /\ pc[waiters[s][k]] = "waiting" /\ owner[waiters[s][k]] = s
                      /\ waiters[s][k] \in Tasks
  <2>1. 1 \in 1..m /\ \A k \in 2..m : k \in 1..m /\ k # 1 BY <1>3
  <2> QED BY <1>1, <1>3, <1>4, <2>1 DEF QueueInv, WaitersInv
<1> HIDE DEF m, s
<1>8. WaitersInv'
  <2>1. SUFFICES ASSUME NEW z \in Requests, NEW i \in 1..Len(waiters'[z])
                 PROVE  /\ pc'[waiters'[z][i]] = "waiting" /\ owner[waiters'[z][i]] = z
                        /\ InReady(task[z]) \/ \E j \in i..Len(waiters'[z]) : waiters'[z][j] = task[z]
                        /\ \A j \in 1..Len(waiters'[z]) : waiters'[z][i] = waiters'[z][j] => i = j
    <3>1. task' = task /\ owner' = owner BY <1>1
    <3> QED BY <1>5, <3>1 DEF WaitersInv
  <2>2. CASE z # s
    <3>1. waiters'[z] = waiters[z] /\ i \in 1..Len(waiters[z]) BY <1>3, <2>2
    <3>2. /\ pc[waiters[z][i]] = "waiting" /\ owner[waiters[z][i]] = z /\ waiters[z][i] \in Tasks
          /\ InReady(task[z]) \/ \E j \in i..Len(waiters[z]) : waiters[z][j] = task[z]
          /\ \A j \in 1..Len(waiters[z]) : waiters[z][i] = waiters[z][j] => i = j
      BY <1>4, <3>1 DEF QueueInv, WaitersInv
    <3>3. waiters[z][i] # t BY <2>2, <3>2 DEF s
    <3> QED BY <1>2, <3>1, <3>2, <3>3
  <2>3. CASE z = s
    <3>1. i + 1 \in 2..m /\ i + 1 \in 1..Len(waiters[s]) /\ i \in 1..(m - 1)
          /\ waiters'[s][i] = waiters[s][i + 1]
      BY <1>3, <2>3 DEF m
    <3>2. pc'[waiters'[s][i]] = "waiting" /\ owner[waiters'[s][i]] = s
      BY <1>2, <1>7, <3>1
    <3>3. /\ InReady(task[s]) \/ \E j \in (i + 1)..m : waiters[s][j] = task[s]
          /\ \A j \in 1..m : waiters[s][i + 1] = waiters[s][j] => i + 1 = j
      BY <1>1, <3>1 DEF QueueInv, WaitersInv, m
    <3>4. ASSUME NEW j \in (i + 1)..m, waiters[s][j] = task[s]
          PROVE  \E l \in i..(m - 1) : waiters'[s][l] = task[s]
      <4>1. j - 1 \in i..(m - 1) /\ waiters'[s][j - 1] = waiters[s][j] BY <1>3, <3>1
      <4> QED BY <3>4, <4>1
    <3>5. \A l \in 1..(m - 1) : waiters'[s][i] = waiters'[s][l] => i = l
      <4>1. TAKE l \in 1..(m - 1)
      <4>2. l + 1 \in 1..m /\ waiters'[s][l] = waiters[s][l + 1] BY <1>3
      <4> QED BY <1>3, <3>1, <3>3, <4>2
    <3>6. InReady(task[s]) \/ \E j \in i..(m - 1) : waiters'[s][j] = task[s]
      BY <3>3, <3>4
    <3> QED BY <1>3, <2>3, <3>2, <3>5, <3>6
  <2> QED BY <2>2, <2>3
<1>9. WaitingInv'
  <2>1. SUFFICES ASSUME NEW u \in Tasks, pc'[u] = "waiting"
                 PROVE  \E i \in 1..Len(waiters'[owner[u]]) : waiters'[owner[u]][i] = u
    BY <1>1 DEF WaitingInv
  <2>2. u # t /\ pc[u] = "waiting" /\ owner[u] \in Requests BY <1>0, <1>2, <2>1
  <2>3. PICK i \in 1..Len(waiters[owner[u]]) : waiters[owner[u]][i] = u
    BY <2>2 DEF QueueInv, WaitingInv
  <2>4. CASE owner[u] = s
    <3>1. i \in 2..m BY <1>3, <2>2, <2>3, <2>4 DEF m
    <3>2. i - 1 \in 1..Len(waiters'[s]) /\ waiters'[s][i - 1] = u
      BY <1>3, <2>3, <2>4, <3>1
    <3> QED BY <2>4, <3>2
  <2>5. CASE owner[u] # s
    BY <1>3, <2>2, <2>3, <2>5
  <2> QED BY <2>4, <2>5
<1>10. CurrentInv'
  BY <1>1, <1>2 DEF QueueInv, CurrentInv, IInv, TypeOK
<1> QED BY <1>1, <1>6, <1>8, <1>9, <1>10 DEF QueueInv

LEMMA QueueStep ==
    ASSUME IInv, cancels = 0 => QueueInv, [Next]_vars, cancels' = 0
    PROVE  QueueInv'
<1>0. TypeOK /\ cancels \in Nat
  BY ConstantsAssumption DEF IInv, TypeOK
<1>1. ~CancelSession
  BY <1>0 DEF CancelSession
<1>2. cancels' = cancels
  <2>1. ASSUME NEW r \in Requests, Request(r) PROVE cancels' = cancels
    BY <2>1, RequestEffect
  <2>2. ASSUME NEW t \in Tasks, TaskEnds(t) PROVE cancels' = cancels
    BY <2>2 DEF TaskEnds, Complete, CompleteUnresumed, Ask, GraphFails, PrepareFails, CancelDelivered,
         WakeFails, SkipWake
  <2>3. ASSUME NEW t \in Tasks,
               \/ Start(t) \/ Acquire(t) \/ ModelCall(t) \/ CancelledUnstarted(t)
               \/ \E j \in Jobs : StartJob(t, j)
        PROVE  cancels' = cancels
    BY <2>3 DEF Start, Acquire, ModelCall, CancelledUnstarted, StartJob
  <2>4. ASSUME NEW t \in Tasks, Begin(t) \/ CheckReads(t) \/ BeginWake(t)
        PROVE  cancels' = cancels
    BY <2>4 DEF Begin, CheckReads, BeginWake
  <2>5. CASE (\E j \in Jobs : FinishJob(j)) \/ UNCHANGED vars
    BY <2>5 DEF FinishJob, vars
  <2> QED BY <1>1, <2>1, <2>2, <2>3, <2>4, <2>5, NextCases DEF Tasks
<1>3. QueueInv
  BY <1>2
<1>4. ASSUME UNCHANGED <<ready, waiters, cancelled, owner, task>>,
             NEW t \in Tasks, pc[t] \in Holding, NEW v \in Holding, pc' = [pc EXCEPT ![t] = v]
      PROVE  QueueInv'
  <2>1. \A u \in Tasks : /\ Queued(u) => pc'[u] = pc[u]
                         /\ pc'[u] \in {"none", "waiting"} => pc[u] = pc'[u]
    BY <1>0, <1>4 DEF TypeOK, Queued, Holding
  <2> QED BY <1>3, <1>4, <2>1, QueueKept DEF QueueInv
<1>5. ASSUME NEW t \in Requests, Begin(t) PROVE QueueInv'
  <2>1. t \in Tasks /\ pc[t] \in Holding /\ "running" \in Holding
    BY <1>5 DEF Begin, Runs, Tasks, Holding
  <2> QED BY <1>4, <1>5, <2>1 DEF Begin, BeginRun
<1>6. ASSUME NEW w \in Wakes, CheckReads(w) \/ BeginWake(w) PROVE QueueInv'
  <2>1. w \in Tasks /\ pc[w] \in Holding /\ {"report", "nothing", "running"} \subseteq Holding
    BY <1>6 DEF CheckReads, BeginWake, Runs, Tasks, Holding
  <2>2. UNCHANGED <<ready, waiters, cancelled, owner, task>>
    BY <1>6 DEF CheckReads, BeginWake
  <2>3. PICK v \in {"report", "nothing", "running"} : pc' = [pc EXCEPT ![w] = v]
    BY <1>6 DEF CheckReads, BeginWake, BeginRun
  <2>4. v \in Holding BY <2>1
  <2> QED BY <1>4, <2>1, <2>2, <2>3, <2>4
<1>7. ASSUME UNCHANGED <<ready, waiters, cancelled, owner, task, pc>> PROVE QueueInv'
  BY <1>3, <1>7, QueueKept DEF QueueInv
<1>8. ASSUME NEW t \in Tasks, ModelCall(t) \/ \E j \in Jobs : StartJob(t, j) PROVE QueueInv'
  BY <1>7, <1>8 DEF ModelCall, StartJob
<1>9. ASSUME NEW t \in Tasks, CancelledUnstarted(t) PROVE FALSE
  BY <1>3, <1>9 DEF CancelledUnstarted, QueueInv
<1>10. CASE (\E j \in Jobs : FinishJob(j)) \/ UNCHANGED vars
  BY <1>7, <1>10 DEF FinishJob, vars
<1> QED
  BY <1>1, <1>3, <1>5, <1>6, <1>8, <1>9, <1>10, NextCases, QueueRequest, QueueTaskEnds,
     QueueStart, QueueAcquire

LEMMA QueueInvariance == Spec => [](cancels = 0 => QueueInv)
<1>1. ASSUME Init PROVE QueueInv
  <2>1. Len(ready) = 0 /\ \A s \in Requests : Len(waiters[s]) = 0
    BY <1>1 DEF Init
  <2>2. ReadyInv /\ WaitersInv BY <2>1 DEF ReadyInv, WaitersInv
  <2>3. WaitingInv /\ CurrentInv /\ cancelled = {}
    BY <1>1 DEF Init, WaitingInv, CurrentInv
  <2> QED BY <2>2, <2>3 DEF QueueInv
<1>2. Init => (cancels = 0 => QueueInv)
  BY <1>1
<1>3. IInv /\ (cancels = 0 => QueueInv) /\ [Next]_vars => (cancels = 0 => QueueInv)'
  BY QueueStep
<1> QED BY <1>2, <1>3, Invariance, PTL DEF Spec

\* Until the user presses stop, with any number of requests, restores and
\* exceptions: while a task waits for the lock, SessionState.task is one that has
\* not ended, so _schedule_wake sees the session is busy and cancel_session has a
\* task to stop.
THEOREM QueuedReferenced == Spec => []QueuedTurnReferenced
<1>1. ASSUME IInv, cancels = 0 => QueueInv PROVE QueuedTurnReferenced
  <2>1. SUFFICES ASSUME QueueInv, NEW t \in Tasks, pc[t] = "waiting"
                 PROVE  Live(task[owner[t]])
    BY <1>1 DEF QueuedTurnReferenced
  <2> DEFINE s == owner[t]
  <2>2. s \in Requests /\ ready \in Seq(Tasks) /\ waiters[s] \in Seq(Tasks)
    BY <1>1, <2>1 DEF IInv, TypeOK, LockInv
  <2>3. PICK i \in 1..Len(waiters[s]) : waiters[s][i] = t BY <2>1 DEF QueueInv, WaitingInv
  <2>4. InReady(task[s]) \/ \E j \in i..Len(waiters[s]) : waiters[s][j] = task[s]
    BY <2>1, <2>2, <2>3 DEF QueueInv, WaitersInv
  <2>5. ASSUME InReady(task[s]) PROVE task[s] \in Tasks /\ pc[task[s]] = "created"
    BY <2>1, <2>2, <2>5, SeqIndex DEF QueueInv, ReadyInv, InReady
  <2>6. ASSUME NEW j \in i..Len(waiters[s]), waiters[s][j] = task[s]
        PROVE  task[s] \in Tasks /\ pc[task[s]] = "waiting"
    <3>1. j \in 1..Len(waiters[s]) BY <2>2, SeqIndex
    <3> QED BY <2>1, <2>2, <2>6, <3>1, SeqIndex DEF QueueInv, WaitersInv
  <2> QED BY <2>4, <2>5, <2>6, ConstantsAssumption DEF Live, Ended, Tasks
<1>2. IInv /\ (cancels = 0 => QueueInv) => QueuedTurnReferenced
  BY <1>1
<1> QED BY <1>2, Invariance, QueueInvariance, PTL
=============================================================================
