------------------------- MODULE PendingJobs_proofs -------------------------
(***************************************************************************)
(* Proofs about PendingJobs, for any jobs, any parallel calls and any      *)
(* number of aborted turns.                                                *)
(*                                                                         *)
(* The inductive invariant Ledger says where a job's id can be: an id the  *)
(* agent was told of is in no list that can still be merged, what a report *)
(* step has read is still pending when it commits, and what a call started *)
(* is in the list it will return.                                          *)
(***************************************************************************)
EXTENDS PendingJobs, TLAPS

NoStep == phase \notin {"tools", "paused"}

Ledger ==
    /\ told \subseteq FinishedJobs
    /\ pending \cap told = {}
    /\ found \subseteq pending \cap FinishedJobs
    /\ \A c \in Calls : call[c].ids \cap told = {}
    /\ \A c \in Calls : call[c].started \subseteq call[c].ids
    /\ \A c \in Calls : call[c].state = "off" \/ NoStep => call[c].started = {} /\ call[c].ids = {}
    /\ known \subseteq pending \cup told

IInv == TypeOK /\ Ledger

\* A call's lists hold jobs.
LEMMA CallFields ==
    ASSUME NEW r \in CallRecords
    PROVE  r.ids \in SUBSET Jobs /\ r.started \in SUBSET Jobs
BY DEF CallRecords

\* TypeOK is inductive.
LEMMA TypeStep == TypeOK /\ [Next]_vars => TypeOK'
<1> SUFFICES ASSUME TypeOK, [Next]_vars PROVE TypeOK'
    OBVIOUS
<1> USE DEF TypeOK
<1>1. CASE StartRun \/ ReadRuns \/ CommitReport \/ ModelReplies \/ Pause
    BY <1>1 DEF StartRun, ReadRuns, CommitReport, Remove, ModelReplies, Pause, FinishedJobs
<1>2. CASE ModelCallsTools
    <2>1. PICK cs \in (SUBSET Calls) \ {{}}, agents \in SUBSET Calls :
            call' = [c \in Calls |->
                        IF c \in cs
                        THEN [state |-> "working", agent |-> c \in agents,
                              ids |-> IF c \in agents THEN pending ELSE {}, started |-> {}]
                        ELSE NoCall]
        BY <1>2 DEF ModelCallsTools
    <2>2. call' \in [Calls -> CallRecords]
        BY <2>1 DEF CallRecords, NoCall
    <2> QED  BY <1>2, <2>2 DEF ModelCallsTools
<1>3. ASSUME NEW c \in Calls, CallStartsJobs(c) PROVE TypeOK'
    <2>1. PICK js \in SUBSET {j \in Jobs : run[j] = "none"} :
            /\ run' = [j \in Jobs |-> IF j \in js THEN "queued" ELSE run[j]]
            /\ call' = [call EXCEPT ![c].ids = @ \cup js, ![c].started = @ \cup js]
        BY <1>3 DEF CallStartsJobs
    <2>2. js \in SUBSET Jobs
        BY <2>1
    <2>3. [state |-> call[c].state, agent |-> call[c].agent,
           ids |-> call[c].ids \cup js, started |-> call[c].started \cup js] \in CallRecords
        BY <2>2 DEF CallRecords
    <2>4. call'[c] = [state |-> call[c].state, agent |-> call[c].agent,
                      ids |-> call[c].ids \cup js, started |-> call[c].started \cup js]
        BY <2>1 DEF CallRecords
    <2>5. call' \in [Calls -> CallRecords]
        BY <2>1, <2>3, <2>4
    <2>6. run' \in [Jobs -> Statuses]
        BY <2>1 DEF Statuses
    <2> QED  BY <1>3, <2>5, <2>6 DEF CallStartsJobs
<1>4. ASSUME NEW c \in Calls, CallReturns(c) \/ CallAsks(c) PROVE TypeOK'
    <2>1. call' \in [Calls -> CallRecords]
        BY <1>4 DEF CallReturns, CallAsks, CallRecords
    <2> QED  BY <1>4, <2>1 DEF CallReturns, CallAsks
<1>5. CASE CommitTools
    <2>1. \A c \in Calls : call[c].ids \in SUBSET Jobs /\ call[c].started \in SUBSET Jobs
        BY CallFields
    <2>2. pending' \in SUBSET Jobs /\ known' \in SUBSET Jobs
        BY <1>5, <2>1 DEF CommitTools, Merge
    <2>3. call' \in [Calls -> CallRecords]
        BY <1>5 DEF CommitTools, NoCall, CallRecords
    <2> QED  BY <1>5, <2>2, <2>3 DEF CommitTools
<1>6. CASE Answer
    <2>1. call' \in [Calls -> CallRecords]
        BY <1>6 DEF Answer, CallRecords
    <2> QED  BY <1>6, <2>1 DEF Answer
<1>7. CASE Abort
    <2>1. call' \in [Calls -> CallRecords]
        BY <1>7 DEF Abort, NoCall, CallRecords
    <2>2. aborts' \in 0..MaxAborts
        BY <1>7, MaxAbortsAssumption DEF Abort
    <2> QED  BY <1>7, <2>1, <2>2 DEF Abort
<1>8. ASSUME NEW j \in Jobs, RunMoves(j) PROVE TypeOK'
    BY <1>8 DEF RunMoves
<1>9. CASE UNCHANGED vars
    BY <1>9 DEF vars
<1> QED  BY <1>1, <1>2, <1>3, <1>4, <1>5, <1>6, <1>7, <1>8, <1>9 DEF Next

\* The finished runs only grow: starting a job finishes none, and a run that has
\* finished stays so, its row being deleted included.
LEMMA FinishedGrows == TypeOK /\ [Next]_vars => FinishedJobs \subseteq FinishedJobs'
<1> SUFFICES ASSUME TypeOK, [Next]_vars PROVE FinishedJobs \subseteq FinishedJobs'
    OBVIOUS
<1>1. ASSUME NEW c \in Calls, CallStartsJobs(c) PROVE FinishedJobs \subseteq FinishedJobs'
    <2>1. PICK js \in SUBSET {j \in Jobs : run[j] = "none"} :
            run' = [j \in Jobs |-> IF j \in js THEN "queued" ELSE run[j]]
        BY <1>1 DEF CallStartsJobs
    <2> QED  BY <2>1 DEF FinishedJobs, IsFinished
<1>2. ASSUME NEW j \in Jobs, RunMoves(j) PROVE FinishedJobs \subseteq FinishedJobs'
    <2>1. PICK next \in Statuses :
            /\ \/ run[j] = "queued" /\ next \in {"recorded", "failed", "cancelled", "gone"}
               \/ run[j] = "recorded" /\ next \in {"completed", "gone"}
               \/ run[j] \in {"completed", "failed", "cancelled"} /\ next = "gone"
            /\ run' = [run EXCEPT ![j] = next]
        BY <1>2 DEF RunMoves
    <2> QED  BY <2>1 DEF FinishedJobs, IsFinished, TypeOK
<1>3. CASE UNCHANGED run
    BY <1>3 DEF FinishedJobs
<1> QED  BY <1>1, <1>2, <1>3
         DEF Next, StartRun, ReadRuns, CommitReport, ModelReplies, ModelCallsTools, CallReturns,
             CallAsks, CommitTools, Pause, Answer, Abort, vars

\* A job that is started now has not been told of.
LEMMA UnstartedUntold ==
    ASSUME Ledger, NEW js \in SUBSET {j \in Jobs : run[j] = "none"}
    PROVE  js \cap told = {}
BY DEF Ledger, FinishedJobs, IsFinished

\* Ledger is inductive, given TypeOK.
LEMMA LedgerStep == IInv /\ [Next]_vars => Ledger'
<1> SUFFICES ASSUME TypeOK, Ledger, [Next]_vars PROVE Ledger'
    BY DEF IInv
<1>0. FinishedJobs \subseteq FinishedJobs'
    BY FinishedGrows
<1>1. CASE StartRun \/ ModelReplies
    BY <1>0, <1>1 DEF StartRun, ModelReplies, Ledger, NoStep
<1>2. CASE ReadRuns
    BY <1>0, <1>2 DEF ReadRuns, Ledger, NoStep
<1>3. CASE CommitReport
    BY <1>0, <1>3 DEF CommitReport, Remove, Ledger, NoStep
<1>4. CASE ModelCallsTools
    <2>1. PICK cs \in (SUBSET Calls) \ {{}}, agents \in SUBSET Calls :
            call' = [c \in Calls |->
                        IF c \in cs
                        THEN [state |-> "working", agent |-> c \in agents,
                              ids |-> IF c \in agents THEN pending ELSE {}, started |-> {}]
                        ELSE NoCall]
        BY <1>4 DEF ModelCallsTools
    <2>2. \A c \in Calls : /\ call'[c].ids \subseteq pending
                           /\ call'[c].started = {}
                           /\ call'[c].state = "off" => call'[c].ids = {}
        BY <2>1 DEF NoCall
    <2> QED  BY <1>0, <1>4, <2>2 DEF ModelCallsTools, Ledger, NoStep
<1>5. ASSUME NEW c \in Calls, CallStartsJobs(c) PROVE Ledger'
    <2>1. PICK js \in SUBSET {j \in Jobs : run[j] = "none"} :
            call' = [call EXCEPT ![c].ids = @ \cup js, ![c].started = @ \cup js]
        BY <1>5 DEF CallStartsJobs
    <2>2. /\ call'[c].ids = call[c].ids \cup js
          /\ call'[c].started = call[c].started \cup js
          /\ call'[c].state = "working"
          /\ \A d \in Calls \ {c} : call'[d] = call[d]
        BY <1>5, <2>1 DEF CallStartsJobs, TypeOK, CallRecords
    <2>3. js \cap told = {}
        BY UnstartedUntold
    <2>4. \A d \in Calls : call'[d].ids \cap told = {} /\ call'[d].started \subseteq call'[d].ids
        BY <2>2, <2>3 DEF Ledger
    <2>5. \A d \in Calls : call'[d].state = "off" => call'[d].started = {} /\ call'[d].ids = {}
        BY <2>2 DEF Ledger
    <2> QED  BY <1>0, <1>5, <2>4, <2>5 DEF CallStartsJobs, Ledger, NoStep
<1>6. ASSUME NEW c \in Calls, CallReturns(c) \/ CallAsks(c) PROVE Ledger'
    <2>1. \A d \in Calls : /\ call'[d].ids = call[d].ids
                           /\ call'[d].started = call[d].started
                           /\ call'[d].state = "off" => call[d].state = "off"
        BY <1>6 DEF CallReturns, CallAsks, TypeOK, CallRecords
    <2> QED  BY <1>0, <1>6, <2>1 DEF CallReturns, CallAsks, Ledger, NoStep
<1>7. CASE CommitTools
    <2> DEFINE ids == UNION {call[c].ids : c \in {d \in Calls : call[d].state = "returned"}}
    <2>1. pending' = pending \cup ids
        BY <1>7 DEF CommitTools, Merge
    <2>2. ids \cap told = {}
        BY DEF Ledger
    <2>3. \A c \in Calls : call[c].started \subseteq ids
        BY <1>7 DEF CommitTools, Ledger
    <2>4. known' \subseteq pending' \cup told
        BY <1>7, <2>1, <2>3 DEF CommitTools, Ledger
    <2>5. \A c \in Calls : call'[c].ids = {} /\ call'[c].started = {}
        BY <1>7 DEF CommitTools, NoCall
    <2> HIDE DEF ids
    <2> QED  BY <1>0, <1>7, <2>1, <2>2, <2>4, <2>5 DEF CommitTools, Ledger
<1>8. CASE Pause
    BY <1>0, <1>8 DEF Pause, Ledger, NoStep
<1>9. CASE Answer
    <2>1. \A d \in Calls : /\ call'[d].ids = call[d].ids
                           /\ call'[d].started = call[d].started
                           /\ call'[d].state = "off" => call[d].state = "off"
        BY <1>9 DEF Answer, TypeOK, CallRecords
    <2> QED  BY <1>0, <1>9, <2>1 DEF Answer, Ledger, NoStep
<1>10. CASE Abort
    <2>1. \A c \in Calls : call'[c].ids = {} /\ call'[c].started = {}
        BY <1>10 DEF Abort, NoCall
    <2> QED  BY <1>0, <1>10, <2>1 DEF Abort, Ledger
<1>11. ASSUME NEW j \in Jobs, RunMoves(j) PROVE Ledger'
    BY <1>0, <1>11 DEF RunMoves, Ledger, NoStep
<1>12. CASE UNCHANGED vars
    BY <1>0, <1>12 DEF vars, Ledger, NoStep
<1> QED  BY <1>1, <1>2, <1>3, <1>4, <1>5, <1>6, <1>7, <1>8, <1>9, <1>10, <1>11, <1>12 DEF Next

\* The empty lists of a new thread satisfy both.
LEMMA InitInv == Init => IInv
BY MaxAbortsAssumption
   DEF Init, IInv, TypeOK, Ledger, NoStep, NoCall, CallRecords, Statuses, FinishedJobs, IsFinished

THEOREM Invariance == Spec => []IInv
<1>1. IInv /\ [Next]_vars => IInv'
    BY TypeStep, LedgerStep DEF IInv
<1> QED  BY InitInv, <1>1, PTL DEF Spec

\* Every variable keeps its type.
THEOREM TypeCorrect == Spec => []TypeOK
<1>1. IInv => TypeOK
    BY DEF IInv
<1> QED  BY Invariance, <1>1, PTL

\* No list a call may still return holds a job the agent was told of: the removal
\* of merge_pending_jobs is final, whatever subagents carry copies of the list.
THEOREM StaysOut == Spec => []RemovedStaysOut
<1>1. IInv => RemovedStaysOut
    BY DEF IInv, Ledger, RemovedStaysOut
<1> QED  BY Invariance, <1>1, PTL

\* Every job a committed step started is pending or told, however many calls of
\* the step return lists of their own.
THEOREM Tracked == Spec => []CommittedJobsTracked
<1>1. IInv => CommittedJobsTracked
    BY DEF IInv, Ledger, CommittedJobsTracked
<1> QED  BY Invariance, <1>1, PTL

\* A step of the middleware or of the runs is a step of JobDelivery: a commit of
\* tools tracks jobs not told of, a report's commit tells finished ones.
LEMMA DeliveryStep == IInv /\ [Next]_vars => [Delivery!Next]_(Delivery!vars)
<1> SUFFICES ASSUME TypeOK, Ledger, [Next]_vars PROVE [Delivery!Next]_(Delivery!vars)
    BY DEF IInv
<1> USE DEF Delivery!Next, Delivery!vars
<1>1. CASE CommitReport
    <2>1. found \in SUBSET (pending \cap FinishedJobs)
        BY DEF Ledger
    <2>2. FinishedJobs' = FinishedJobs
        BY <1>1 DEF CommitReport, FinishedJobs
    <2>3. pending' = pending \ found /\ told' = told \cup found
        BY <1>1 DEF CommitReport, Remove
    <2> QED  BY <2>1, <2>2, <2>3 DEF Delivery!Tell
<1>2. CASE CommitTools
    <2> DEFINE ids == UNION {call[c].ids : c \in {d \in Calls : call[d].state = "returned"}}
    <2>1. ids \in SUBSET (Jobs \ told)
        BY CallFields DEF Ledger, TypeOK
    <2>2. pending' = pending \cup ids
        BY <1>2 DEF CommitTools, Merge
    <2>3. FinishedJobs' = FinishedJobs /\ told' = told
        BY <1>2 DEF CommitTools, FinishedJobs
    <2> HIDE DEF ids
    <2> QED  BY <2>1, <2>2, <2>3 DEF Delivery!Track
<1>3. CASE UNCHANGED <<pending, told>>
    <2>1. FinishedJobs \subseteq FinishedJobs'
        BY FinishedGrows
    <2>2. FinishedJobs' \in SUBSET Jobs
        BY DEF FinishedJobs
    <2> QED  BY <1>3, <2>1, <2>2 DEF Delivery!Finish
<1> QED  BY <1>1, <1>2, <1>3
         DEF Next, StartRun, ReadRuns, ModelReplies, ModelCallsTools, CallStartsJobs, CallReturns,
             CallAsks, Pause, Answer, Abort, RunMoves, vars

\* The middleware implements JobDelivery: the agent is told of a job only once it
\* has finished, in the commit that takes its id out, and the id never comes back.
THEOREM Delivers == Spec => DeliverySpec
<1>1. Init => Delivery!Init
    BY DEF Init, Delivery!Init, FinishedJobs
<1> QED  BY Invariance, <1>1, DeliveryStep, PTL DEF Spec, DeliverySpec, Delivery!Spec
=============================================================================
