--------------------------- MODULE ChatRows_proofs ---------------------------
(***************************************************************************)
(* Proofs about ChatRows, for any number of turns, failures and messages.  *)
(*                                                                         *)
(* The shape of the thread, of the events that wait and of the rows comes  *)
(* first (TypeInv); it says what an event is a snapshot of and that a row  *)
(* holds what its message held.  The rows are in the thread's order        *)
(* because whatever is written closes every gap before it: a message that  *)
(* is recorded has all that went before it recorded, reports excepted      *)
(* (OrderInv).  A report is read once because the mark, what was read and  *)
(* not committed, and what is left to read divide the sequence (ReadInv).  *)
(* That a stop closes every call needs that a subagent's call is recorded  *)
(* behind the user's words before it, in the rows, in the events that wait *)
(* and in those still to come, with one transaction that fails anywhere    *)
(* (CloseInv).                                                             *)
(***************************************************************************)
EXTENDS ChatRows, FiniteSetTheorems, SequenceTheorems, TLAPS

-----------------------------------------------------------------------------
(* Sets in order *)

\* The ranks of a set's elements are below its cardinality, and rise.
LEMMA RankBelow ==
    ASSUME NEW S \in SUBSET Int, IsFiniteSet(S)
    PROVE  /\ Cardinality(S) \in Nat
           /\ \A x \in S : Cardinality({y \in S : y < x}) \in 0..(Cardinality(S) - 1)
           /\ \A x, z \in S : x < z => Cardinality({y \in S : y < x}) < Cardinality({y \in S : y < z})
<1>1. Cardinality(S) \in Nat BY FS_CardinalityType
<1>2. ASSUME NEW x \in S
      PROVE  /\ IsFiniteSet({y \in S : y < x})
             /\ Cardinality({y \in S : y < x}) \in 0..(Cardinality(S) - 1)
  <2> DEFINE T == {y \in S : y < x}
  <2>1. T \in SUBSET S /\ x \notin T OBVIOUS
  <2>2. IsFiniteSet(T) /\ Cardinality(T) <= Cardinality(S) /\ Cardinality(T) # Cardinality(S)
    BY <2>1, FS_Subset
  <2>3. Cardinality(T) \in Nat BY <2>2, FS_CardinalityType
  <2> QED BY <1>1, <2>2, <2>3
<1>3. ASSUME NEW x \in S, NEW z \in S, x < z
      PROVE  Cardinality({y \in S : y < x}) < Cardinality({y \in S : y < z})
  <2> DEFINE T == {y \in S : y < x}
             U == {y \in S : y < z}
  <2>0. \A y \in S : y < x => y < z BY <1>3
  <2>1. T \in SUBSET U /\ x \in U /\ x \notin T
    <3>1. x \in Int /\ ~ x < x OBVIOUS
    <3> QED BY <1>3, <2>0, <3>1
  <2>2. IsFiniteSet(U) /\ IsFiniteSet(T) BY <1>2
  <2>3. Cardinality(T) <= Cardinality(U) /\ Cardinality(T) # Cardinality(U)
    BY <2>1, <2>2, FS_Subset
  <2>4. Cardinality(T) \in Nat /\ Cardinality(U) \in Nat BY <2>2, FS_CardinalityType
  <2> QED BY <2>3, <2>4
<1> QED BY <1>1, <1>2, <1>3

\* Ascending lists every element of a finite set of integers once, in order.
LEMMA AscendingLists ==
    ASSUME NEW S \in SUBSET Int, IsFiniteSet(S)
    PROVE  /\ Cardinality(S) \in Nat
           /\ DOMAIN Ascending(S) = 1..Cardinality(S)
           /\ \A i \in 1..Cardinality(S) : Ascending(S)[i] \in S
           /\ \A x \in S : \E i \in 1..Cardinality(S) : Ascending(S)[i] = x
           /\ \A i, j \in 1..Cardinality(S) : i < j => Ascending(S)[i] < Ascending(S)[j]
<1> DEFINE n == Cardinality(S)
           Rank(x) == Cardinality({y \in S : y < x})
           f == [x \in S |-> Rank(x)]
<1>1. n \in Nat BY RankBelow
<1>2. \A x \in S : Rank(x) \in 0..(n - 1) BY RankBelow
<1>3. \A x, z \in S : x < z => Rank(x) < Rank(z) BY RankBelow
<1>4. \A x, z \in S : Rank(x) = Rank(z) => x = z
  <2>1. ASSUME NEW x \in S, NEW z \in S, Rank(x) = Rank(z), x # z PROVE FALSE
    <3>1. x < z \/ z < x BY <2>1
    <3>2. Rank(x) \in Int /\ Rank(z) \in Int BY <1>1, <1>2
    <3>3. Rank(x) < Rank(z) \/ Rank(z) < Rank(x) BY <3>1, <1>3
    <3> HIDE DEF Rank
    <3> QED BY <2>1, <3>2, <3>3
  <2> QED BY <2>1
<1>5. f \in Surjection(S, 0..(n - 1))
  <2>1. f \in Injection(S, 0..(n - 1))
    <3> HIDE DEF Rank, n
    <3> QED BY <1>2, <1>4 DEF Injection, IsInjective
  <2>2. IsFiniteSet(0..(n - 1)) /\ Cardinality(0..(n - 1)) = n
    <3> HIDE DEF n
    <3>1. 0 \in Int /\ n - 1 \in Int BY <1>1
    <3> QED BY <1>1, <3>1, FS_Interval
  <2> QED BY <2>1, <2>2, FS_Injection
<1>6. \A k \in 0..(n - 1) : \E x \in S : Rank(x) = k
  <2> HIDE DEF Rank, n
  <2> QED BY <1>5 DEF Surjection
<1>7. Ascending(S) = [i \in 1..n |-> CHOOSE x \in S : Rank(x) = i - 1] BY DEF Ascending
<1>8. \A i \in 1..n : Ascending(S)[i] \in S /\ Rank(Ascending(S)[i]) = i - 1
  <2> TAKE i \in 1..n
  <2>1. i - 1 \in 0..(n - 1) BY <1>1
  <2> HIDE DEF Rank, n
  <2>2. \E x \in S : Rank(x) = i - 1 BY <2>1, <1>6
  <2> QED BY <2>2, <1>7
<1> HIDE DEF Rank, n
<1>9. \A x \in S : \E i \in 1..n : Ascending(S)[i] = x
  <2> TAKE x \in S
  <2>1. Rank(x) + 1 \in 1..n /\ Rank(x) \in Int BY <1>1, <1>2
  <2>2. Rank(Ascending(S)[Rank(x) + 1]) = Rank(x) BY <2>1, <1>8
  <2> QED BY <2>1, <2>2, <1>4, <1>8
<1>10. \A i, j \in 1..n : i < j => Ascending(S)[i] < Ascending(S)[j]
  <2> TAKE i, j \in 1..n
  <2> HAVE i < j
  <2> DEFINE a == Ascending(S)[i]
             b == Ascending(S)[j]
  <2>1. a \in S /\ b \in S /\ Rank(a) = i - 1 /\ Rank(b) = j - 1 BY <1>8
  <2>2. Rank(a) < Rank(b) BY <2>1, <1>1
  <2>3. ~ b < a
    <3>1. b < a => Rank(b) < Rank(a) BY <2>1, <1>3
    <3>2. Rank(a) \in Int /\ Rank(b) \in Int BY <1>1, <1>2, <2>1
    <3> QED BY <3>1, <3>2, <2>2
  <2>4. a # b
    <3>1. Rank(a) \in Int BY <1>1, <1>2, <2>1
    <3> QED BY <3>1, <2>2
  <2>5. a \in Int /\ b \in Int BY <2>1
  <2> QED BY <2>3, <2>4, <2>5
<1> QED BY <1>1, <1>7, <1>8, <1>9, <1>10 DEF n

LEMMA MaxOfBounds ==
    ASSUME NEW S \in SUBSET Int, IsFiniteSet(S), S # {}
    PROVE  MaxOf(S) \in S /\ \A y \in S : y <= MaxOf(S)
<1> DEFINE n == Cardinality(S)
<1>1. /\ n \in Nat
      /\ \A i \in 1..n : Ascending(S)[i] \in S
      /\ \A x \in S : \E i \in 1..n : Ascending(S)[i] = x
      /\ \A i, j \in 1..n : i < j => Ascending(S)[i] < Ascending(S)[j]
  BY AscendingLists
<1>2. n \in 1..n
  <2>1. n # 0 BY FS_EmptySet
  <2> QED BY <1>1, <2>1
<1> HIDE DEF n
<1>3. \A y \in S : y <= Ascending(S)[n]
  <2> TAKE y \in S
  <2>1. PICK i \in 1..n : Ascending(S)[i] = y BY <1>1
  <2>2. i < n \/ i = n BY <1>1
  <2>3. Ascending(S)[n] \in Int BY <1>1, <1>2
  <2> QED BY <1>1, <1>2, <2>1, <2>2, <2>3
<1>4. \E x \in S : \A y \in S : y <= x BY <1>1, <1>2, <1>3
<1> QED BY <1>4 DEF MaxOf

\* Where the main agent's messages stand, and the turns that committed them: a
\* user's message opens its turn.
ThreadInv ==
    /\ \A i \in 1..Len(thread) :
          /\ thread[i].id = <<i>>
          /\ thread[i].born <= turn
          /\ thread[i].kind # "notice"
          /\ thread[i].kind \in {"human", "call", "reply"} => thread[i].about = NoId
    /\ \A i, j \in 1..Len(thread) : i < j =>
          /\ thread[i].born <= thread[j].born
          /\ thread[j].kind = "human" => thread[i].born < thread[j].born

IsRoot(e) == e.of = Root /\ ~e.interrupt

\* The snapshots that wait are of this run: the main agent's grow, and hold
\* more than what is counted; an interrupt is the run's last event.
EventsInv ==
    /\ counted[Root] <= Len(thread)
    /\ phase # "running" => events = <<>>
    /\ \A p \in 1..Len(events) :
          /\ events[p].of <= Len(thread)
          /\ events[p].of = Root => events[p].n <= Len(thread)
          /\ events[p].of # Root => events[p].n \in 1..3 /\ ~events[p].interrupt
          /\ IsRoot(events[p]) => events[p].n > counted[Root]
          /\ events[p].interrupt => p = Len(events) /\ node = "none"
    /\ \A p, q \in 1..Len(events) :
          p < q /\ IsRoot(events[p]) /\ IsRoot(events[q]) => events[p].n < events[q].n

\* Where the graph may stand.
NodeInv ==
    /\ node # "none" => phase = "running"
    /\ phase # "idle" => turn > 0
    /\ node # "none" \/ phase = "stamping" => thread # <<>>
    /\ node \in {"tool", "ask"} \/ asked => \E i \in 1..Len(thread) : thread[i].kind = "call"
    /\ asked => node \in {"none", "tool"}
    /\ IsFiniteSet(found.reports)

\* What a row may be: a notice, a message of the main agent, one of a
\* subagent, or the result that closes a stopped call.
NoticeRow(r) ==
    /\ r.source = "notification"
    /\ r.id = NoId
    /\ r.about = NoId
    /\ r.kind \in {"notice", "report"}

RootRow(r) ==
    /\ r.source = "deepagents"
    /\ \E j \in 1..Len(thread) :
          /\ r.id = <<j>>
          /\ r.kind = thread[j].kind
          /\ r.about = thread[j].about
          /\ thread[j].kind # "report"

SubRow(r) ==
    /\ r.source = "subagent"
    /\ \E j \in 1..Len(thread), k \in 1..3 :
          /\ r.id = <<j, k>>
          /\ r.kind = SubagentMessages(j)[k].kind
          /\ r.about = SubagentMessages(j)[k].about

StopRow(r) ==
    /\ r.source \in {"deepagents", "subagent"}
    /\ r.kind = "result"
    /\ r.about # NoId
    /\ r.id = <<0>> \o r.about

RowForm(r) == NoticeRow(r) \/ RootRow(r) \/ SubRow(r) \/ StopRow(r)

RowsInv ==
    /\ IsFiniteSet(rows)
    /\ \A r \in rows : RowForm(r)
    /\ \A r, s \in rows : r.seq = s.seq => r = s
    /\ \A x \in rows : StopRow(x) =>
          Recorded(x.about) /\ \A r \in rows : r.id = x.about => r.seq < x.seq

TypeInv == TypeOK /\ ThreadInv /\ EventsInv /\ NodeInv /\ RowsInv

\* What is recorded of the thread is closed under what comes before it.
Kept(j) == \E r \in rows : r.id = <<j>>

RecordedInv ==
    \A j \in 1..Len(thread) : Kept(j) =>
        \A i \in 1..j : thread[i].kind # "report" => Kept(i)

OrderInv == RecordedInv /\ RowsInThreadOrder

\* The mark has been given out; what was read and not committed is all there
\* is between the mark and the last notice that was read.
ReadInv ==
    /\ seen < NextSequence
    /\ \A x \in found.reports : x > seen /\ found.last # None /\ x <= found.last
    /\ found.last # None =>
          /\ found.last \in seen..(NextSequence - 1)
          /\ \A r \in Unread(seen) : r.seq <= found.last => r.seq \in found.reports
    /\ \A i \in 1..Len(thread) : thread[i].kind = "report" =>
          \E x \in 0..seen : thread[i].about = <<x>>

\* As long as no turn was stopped, a stamp is of the turn that waits for it.
StampInv ==
    cancels = 0 => \A s \in stamps :
        phase = "stamping" /\ s.turn = turn /\ s.checkpoint = Len(thread)

Human(j) == thread[j].kind = "human"

Holds(e, j) == IsRoot(e) /\ e.n >= j

\* The user's message j is recorded before the p-th event is handled, although
\* one more transaction may fail.
Promised(j, p) ==
    \/ Kept(j)
    \/ \E q \in 1..(p - 1) :
          /\ Holds(events[q], j)
          /\ dbFails = 1 \/ \E o \in 1..(p - 1) : o # q /\ Holds(events[o], j)

\* A subagent's row stands behind the messages the user had sent by then.
RowsClose ==
    \A r \in rows : \A j \in 1..Len(thread) :
        SubRow(r) /\ Human(j) /\ j <= r.id[1] =>
            Kept(j) /\ \A s \in rows : s.id = <<j>> => s.seq < r.seq

\* So will those of the events that wait,
EventsClose ==
    \A p \in 1..Len(events) : \A j \in 1..Len(thread) :
        events[p].of # Root /\ Human(j) /\ j <= events[p].of => Promised(j, p)

\* those of the events a tool that runs will emit,
ToolClose ==
    node = "tool" /\ ~asked =>
        \A j \in 1..Len(thread) : Human(j) => Promised(j, Len(events) + 1)

\* and, since a model's call brings a snapshot of its own, those of the tool
\* the model may call.
BeforeModel ==
    \/ node = "model"
    \/ node = "report" /\ Unread(seen) = {}
    \/ node = "deliver" /\ found.reports = {}

ModelClose ==
    BeforeModel =>
        dbFails = 1 \/ \A j \in 1..Len(thread) :
            Human(j) => Kept(j) \/ \E q \in 1..Len(events) : Holds(events[q], j)

CloseInv ==
    dbFails <= 1 => RowsClose /\ EventsClose /\ ToolClose /\ ModelClose

-----------------------------------------------------------------------------
(* The rows' numbers *)

\* The numbers of a finite set of rows.
LEMMA SeqsOfRows ==
    ASSUME NEW R \in SUBSET RowRecords, IsFiniteSet(R)
    PROVE  /\ {r.seq : r \in R} \in SUBSET Nat
           /\ IsFiniteSet({r.seq : r \in R})
<1> DEFINE T == {r.seq : r \in R}
           f == [r \in R |-> r.seq]
<1>1. \A r \in R : r.seq \in Nat BY DEF RowRecords
<1>2. f \in Surjection(R, T)
  <2>1. f \in [R -> T] OBVIOUS
  <2>2. \A t \in T : \E r \in R : f[r] = t OBVIOUS
  <2> QED BY <2>1, <2>2 DEF Surjection
<1>3. IsFiniteSet(T) BY <1>2, FS_Surjection
<1> QED BY <1>1, <1>3

LEMMA NextOfRows ==
    ASSUME NEW R \in SUBSET RowRecords, IsFiniteSet(R)
    PROVE  LET next == MaxOf({r.seq : r \in R} \cup {-1}) + 1
           IN  /\ next \in Nat
               /\ \A r \in R : r.seq < next
               /\ next # 0 => \E r \in R : r.seq = next - 1
<1> DEFINE T == {r.seq : r \in R}
           U == T \cup {-1}
<1>1. T \in SUBSET Nat /\ IsFiniteSet(T) BY SeqsOfRows
<1>2. IsFiniteSet(U) BY <1>1, FS_AddElement
<1>3. U \in SUBSET Int /\ U # {}
  <2> HIDE DEF T
  <2> QED BY <1>1
<1>4. MaxOf(U) \in U /\ \A y \in U : y <= MaxOf(U) BY <1>2, <1>3, MaxOfBounds
<1>5. MaxOf(U) \in Nat \cup {-1}
  <2> HIDE DEF T
  <2> QED BY <1>1, <1>4
<1>6. \A r \in R : r.seq \in U /\ r.seq \in Nat BY DEF RowRecords
<1>7. MaxOf(U) # -1 => \E r \in R : r.seq = MaxOf(U)
  <2>1. MaxOf(U) # -1 => MaxOf(U) \in T
    <3> HIDE DEF T
    <3> QED BY <1>4
  <2> QED BY <2>1
<1> HIDE DEF U
<1>8. \A r \in R : r.seq < MaxOf(U) + 1 BY <1>4, <1>5, <1>6
<1> DEFINE m == MaxOf(U)
<1> HIDE DEF m
<1>9. /\ m \in Nat \cup {-1}
      /\ m # -1 => \E r \in R : r.seq = m
      /\ \A r \in R : r.seq < m + 1
  BY <1>5, <1>7, <1>8 DEF m
<1>10. /\ m + 1 \in Nat
       /\ m + 1 # 0 => m # -1
       /\ (m + 1) - 1 = m
  BY <1>9
<1> QED BY <1>9, <1>10 DEF m, U

LEMMA NextBounds ==
    ASSUME rows \in SUBSET RowRecords, IsFiniteSet(rows)
    PROVE  /\ NextSequence \in Nat
           /\ \A r \in rows : r.seq < NextSequence
           /\ NextSequence # 0 => \E r \in rows : r.seq = NextSequence - 1
BY NextOfRows DEF NextSequence

-----------------------------------------------------------------------------
(* The rows a write adds *)

\* Rows that stand behind all there are, each with a number of its own, of
\* messages that are not recorded.
Fresh(new) ==
    /\ new \in SUBSET RowRecords
    /\ IsFiniteSet(new)
    /\ \A r \in new : r.seq >= NextSequence /\ ~Recorded(r.id) /\ r.checkpoint = 0
    /\ \A r, s \in new : r.seq = s.seq => r = s

\* The row of the i-th message.
RowAt(messages, i, offset, source) ==
    [seq |-> Base(NextSequence, offset) + (i - 1), id |-> messages[i].id,
     kind |-> messages[i].kind, about |-> messages[i].about, source |-> source,
     checkpoint |-> 0]

\* What Written(messages, ...) is of n messages.
IsWritten(messages, n, offset, source) ==
    /\ Fresh(Written(messages, offset, source))
    /\ Base(NextSequence, offset) \in Nat
    /\ Base(NextSequence, offset) >= NextSequence
    /\ \A r \in Written(messages, offset, source) : \E i \in 1..n :
          /\ r = RowAt(messages, i, offset, source)
          /\ ~Recorded(messages[i].id)
    /\ \A i \in 1..n : ~Recorded(messages[i].id) =>
          RowAt(messages, i, offset, source) \in Written(messages, offset, source)

LEMMA WrittenFresh ==
    ASSUME rows \in SUBSET RowRecords, IsFiniteSet(rows),
           NEW n \in Nat, NEW messages, DOMAIN messages = 1..n,
           \A i \in 1..n : messages[i].id \in Ids /\ messages[i].kind \in Kinds /\ messages[i].about \in Ids,
           NEW offset \in Nat, NEW source \in Sources
    PROVE  IsWritten(messages, n, offset, source)
<1> DEFINE W == Written(messages, offset, source)
           b == Base(NextSequence, offset)
           row(i) == RowAt(messages, i, offset, source)
           D == {j \in 1..n : ~Recorded(messages[j].id)}
<1>1. b \in Nat /\ b >= NextSequence BY NextBounds DEF Base
<1>2. W = {row(i) : i \in D} BY DEF Written, RowAt
<1>3. \A i \in D : row(i) \in RowRecords
  <2> TAKE i \in D
  <2>1. i \in 1..n OBVIOUS
  <2>2. b + (i - 1) \in Nat BY <1>1, <2>1
  <2> QED BY <2>1, <2>2 DEF RowAt, RowRecords
<1>4. IsFiniteSet(W)
  <2> DEFINE f == [i \in D |-> row(i)]
  <2>1. f \in Surjection(D, W)
    <3> HIDE DEF D, row, W
    <3> QED BY <1>2 DEF Surjection
  <2>2. IsFiniteSet(D)
    <3>1. IsFiniteSet(1..n) BY FS_Interval
    <3>2. D \in SUBSET (1..n) OBVIOUS
    <3> QED BY <3>1, <3>2, FS_Subset
  <2> QED BY <2>1, <2>2, FS_Surjection
<1>5. \A i \in D : /\ i \in 1..n
                   /\ row(i).seq = b + (i - 1) /\ row(i).id = messages[i].id /\ row(i).checkpoint = 0
  BY DEF RowAt
<1>6. \A r \in W : r.seq >= NextSequence /\ ~Recorded(r.id) /\ r.checkpoint = 0
  <2> TAKE r \in W
  <2>1. PICK i \in D : r = row(i) BY <1>2
  <2>2. ~Recorded(messages[i].id) BY <2>1
  <2>3. NextSequence \in Nat BY NextBounds
  <2>4. /\ i \in 1..n
        /\ row(i).seq = b + (i - 1) /\ row(i).id = messages[i].id /\ row(i).checkpoint = 0
    BY <1>5
  <2> HIDE DEF D, row, b, W
  <2>5. r.seq >= NextSequence BY <1>1, <2>1, <2>3, <2>4
  <2> QED BY <2>1, <2>2, <2>4, <2>5
<1>7. \A r, s \in W : r.seq = s.seq => r = s
  <2> SUFFICES ASSUME NEW i \in D, NEW j \in D, row(i).seq = row(j).seq PROVE row(i) = row(j)
    BY <1>2
  <2>1. i \in 1..n /\ j \in 1..n /\ b + (i - 1) = b + (j - 1) BY <1>5
  <2>2. i = j BY <1>1, <2>1
  <2> QED BY <2>2
<1>8. W \in SUBSET RowRecords BY <1>2, <1>3
<1>9. Fresh(W) BY <1>4, <1>6, <1>7, <1>8 DEF Fresh
<1>10. \A r \in W : \E i \in 1..n : r = row(i) /\ ~Recorded(messages[i].id) BY <1>2
<1>11. \A i \in 1..n : ~Recorded(messages[i].id) => row(i) \in W BY <1>2
<1> QED BY <1>1, <1>9, <1>10, <1>11 DEF IsWritten

LEMMA FreshUnion ==
    ASSUME NEW a, NEW b, Fresh(a), Fresh(b),
           \A r \in a : \A s \in b : r.seq < s.seq
    PROVE  Fresh(a \cup b)
<1>1. IsFiniteSet(a \cup b) BY FS_Union DEF Fresh
<1>2. \A r \in a \cup b : r.seq \in Nat BY DEF Fresh, RowRecords
<1>3. \A r, s \in a \cup b : r.seq = s.seq => r = s BY <1>2 DEF Fresh
<1> QED BY <1>1, <1>3 DEF Fresh

-----------------------------------------------------------------------------
(* Sequences *)

LEMMA SeqIndex ==
    ASSUME NEW S, NEW q \in Seq(S)
    PROVE  /\ Len(q) \in Nat /\ DOMAIN q = 1..Len(q)
           /\ \A i \in 1..Len(q) : q[i] \in S
           /\ q = <<>> <=> Len(q) = 0
BY ElementOfSeq, LenProperties, EmptySeq

LEMMA AppendIndex ==
    ASSUME NEW S, NEW q \in Seq(S), NEW x \in S
    PROVE  /\ Append(q, x) \in Seq(S)
           /\ Len(Append(q, x)) = Len(q) + 1
           /\ \A i \in 1..Len(q) : Append(q, x)[i] = q[i]
           /\ Append(q, x)[Len(q) + 1] = x
BY AppendProperties

LEMMA TailIndex ==
    ASSUME NEW S, NEW q \in Seq(S), q # <<>>
    PROVE  /\ Len(q) \in Nat /\ Len(q) >= 1 /\ Head(q) = q[1] /\ q[1] \in S
           /\ Tail(q) \in Seq(S)
           /\ Len(Tail(q)) = Len(q) - 1
           /\ \A i \in 1..(Len(q) - 1) : Tail(q)[i] = q[i + 1]
BY HeadTailProperties, LenProperties, EmptySeq

\* Messages a step may commit at the end of the thread, in turn t.
NewMessages(m, t) ==
    /\ m \in Seq(ThreadMessages)
    /\ Len(m) >= 1
    /\ \A i \in 1..Len(m) :
          /\ m[i].id = <<Len(thread) + i>>
          /\ m[i].born = t
          /\ m[i].kind # "notice"
          /\ m[i].kind \in {"human", "call", "reply"} => m[i].about = NoId
          /\ m[i].kind = "human" => Len(m) = 1 /\ t > turn

\* The thread keeps what it has.
ThreadGrows ==
    /\ Len(thread) <= Len(thread')
    /\ \A i \in 1..Len(thread) : thread'[i] = thread[i]

\* The event of a commit.
Snapshot(n) == [of |-> Root, n |-> n, interrupt |-> FALSE]

LEMMA CommitEffect ==
    ASSUME TypeInv, NEW t \in 1..MaxTurns, NEW m, NewMessages(m, t), Commit(m)
    PROVE  /\ Len(thread) \in Nat /\ Len(m) \in Nat
           /\ thread' \in Seq(ThreadMessages)
           /\ Len(thread') = Len(thread) + Len(m)
           /\ Len(thread') <= MaxMessages
           /\ ThreadGrows
           /\ \A i \in 1..Len(m) : thread'[Len(thread) + i] = m[i]
           /\ \A i \in (Len(thread) + 1)..Len(thread') : i - Len(thread) \in 1..Len(m) /\ thread'[i] = m[i - Len(thread)]
           /\ events' = Append(events, Snapshot(Len(thread')))
           /\ Snapshot(Len(thread')) \in EventRecords
           /\ events' \in Seq(EventRecords)
           /\ Len(events') = Len(events) + 1
           /\ \A p \in 1..Len(events) : events'[p] = events[p]
           /\ events'[Len(events) + 1] = Snapshot(Len(thread'))
<1>1. /\ thread \in Seq(ThreadMessages) /\ m \in Seq(ThreadMessages)
      /\ events \in Seq(EventRecords) /\ MaxMessages \in Nat
  BY ConstantsAssumption DEF TypeInv, TypeOK, NewMessages, ConstantsAssumption
<1>2. Len(thread) \in Nat /\ Len(m) \in Nat BY <1>1, SeqIndex
<1>3. /\ thread' = thread \o m /\ Len(thread) + Len(m) <= MaxMessages
      /\ events' = Append(events, Snapshot(Len(thread) + Len(m)))
  BY DEF Commit, Snapshot
<1>4. /\ thread' \in Seq(ThreadMessages)
      /\ Len(thread') = Len(thread) + Len(m)
      /\ \A i \in 1..(Len(thread) + Len(m)) :
            thread'[i] = IF i <= Len(thread) THEN thread[i] ELSE m[i - Len(thread)]
  BY <1>1, <1>3, ConcatProperties
<1>5. /\ ThreadGrows
      /\ \A i \in 1..Len(m) : thread'[Len(thread) + i] = m[i]
      /\ \A i \in (Len(thread) + 1)..Len(thread') : i - Len(thread) \in 1..Len(m) /\ thread'[i] = m[i - Len(thread)]
  <2>1. \A i \in 1..Len(m) :
          /\ Len(thread) + i \in 1..(Len(thread) + Len(m))
          /\ ~(Len(thread) + i <= Len(thread))
          /\ (Len(thread) + i) - Len(thread) = i
    BY <1>2
  <2>2. \A i \in (Len(thread) + 1)..(Len(thread) + Len(m)) :
          /\ i \in 1..(Len(thread) + Len(m))
          /\ ~(i <= Len(thread))
          /\ i - Len(thread) \in 1..Len(m)
    BY <1>2
  <2>3. \A i \in 1..Len(thread) : i \in 1..(Len(thread) + Len(m)) /\ i <= Len(thread) BY <1>2
  <2>4. ThreadGrows BY <1>2, <1>4, <2>3 DEF ThreadGrows
  <2>5. \A i \in 1..Len(m) : thread'[Len(thread) + i] = m[i] BY <1>4, <2>1
  <2>6. \A i \in (Len(thread) + 1)..Len(thread') : i - Len(thread) \in 1..Len(m) /\ thread'[i] = m[i - Len(thread)]
    BY <1>4, <2>2
  <2> QED BY <2>4, <2>5, <2>6
<1>6. Snapshot(Len(thread')) \in EventRecords
  BY <1>1, <1>2, <1>3, <1>4 DEF Snapshot, EventRecords, Root
<1>7. /\ events' \in Seq(EventRecords)
      /\ Len(events') = Len(events) + 1
      /\ \A p \in 1..Len(events) : events'[p] = events[p]
      /\ events'[Len(events) + 1] = Snapshot(Len(thread'))
  BY <1>1, <1>3, <1>4, <1>6, AppendIndex
<1> QED BY <1>2, <1>3, <1>4, <1>5, <1>6, <1>7

LEMMA CommitThread ==
    ASSUME TypeInv, NEW t \in 1..MaxTurns, NEW m, NewMessages(m, t), Commit(m),
           turn' = t, t >= turn
    PROVE  ThreadInv'
<1>1. /\ Len(thread) \in Nat /\ Len(m) \in Nat /\ Len(thread') = Len(thread) + Len(m)
      /\ \A i \in 1..Len(thread) : thread'[i] = thread[i]
      /\ \A i \in (Len(thread) + 1)..Len(thread') : i - Len(thread) \in 1..Len(m) /\ thread'[i] = m[i - Len(thread)]
  BY CommitEffect DEF ThreadGrows
<1>2. turn \in Int /\ t \in Int BY DEF TypeInv, TypeOK
<1>0. \A i \in 1..Len(thread) : thread[i].born \in Int
  <2>1. thread \in Seq(ThreadMessages) BY DEF TypeInv, TypeOK
  <2>2. \A i \in 1..Len(thread) : thread[i] \in ThreadMessages BY <2>1, SeqIndex
  <2> QED BY <2>2 DEF ThreadMessages
<1>3. \A i \in 1..Len(thread) :
          /\ thread[i].id = <<i>> /\ thread[i].born <= turn /\ thread[i].kind # "notice"
          /\ thread[i].kind \in {"human", "call", "reply"} => thread[i].about = NoId
  BY DEF TypeInv, ThreadInv
<1>4. \A i \in 1..Len(m) :
          /\ m[i].id = <<Len(thread) + i>> /\ m[i].born = t /\ m[i].kind # "notice"
          /\ m[i].kind \in {"human", "call", "reply"} => m[i].about = NoId
          /\ m[i].kind = "human" => Len(m) = 1 /\ t > turn
  BY DEF NewMessages
<1>5. \A i \in 1..Len(thread') : i \in 1..Len(thread) \/ i \in (Len(thread) + 1)..Len(thread')
  BY <1>1
<1>6. ASSUME NEW i \in 1..Len(thread')
      PROVE  /\ thread'[i].id = <<i>> /\ thread'[i].born <= t /\ thread'[i].kind # "notice"
             /\ thread'[i].kind \in {"human", "call", "reply"} => thread'[i].about = NoId
  <2>1. CASE i \in 1..Len(thread) BY <1>0, <1>1, <1>2, <1>3, <2>1
  <2>2. CASE i \in (Len(thread) + 1)..Len(thread')
    <3>1. i - Len(thread) \in 1..Len(m) /\ thread'[i] = m[i - Len(thread)] BY <1>1, <2>2
    <3>2. Len(thread) + (i - Len(thread)) = i BY <1>1
    <3>3. thread'[i].id = <<Len(thread) + (i - Len(thread))>> BY <1>4, <3>1
    <3>4. thread'[i].id = <<i>> BY <3>2, <3>3
    <3>5. thread'[i].born = t /\ thread'[i].kind # "notice" BY <1>4, <3>1
    <3>6. thread'[i].kind \in {"human", "call", "reply"} => thread'[i].about = NoId BY <1>4, <3>1
    <3> QED BY <1>2, <3>4, <3>5, <3>6
  <2> QED BY <1>5, <2>1, <2>2
<1>7. ASSUME NEW i \in 1..Len(thread'), NEW j \in 1..Len(thread'), i < j
      PROVE  /\ thread'[i].born <= thread'[j].born
             /\ thread'[j].kind = "human" => thread'[i].born < thread'[j].born
  <2>1. CASE j \in 1..Len(thread)
    <3>1. i \in 1..Len(thread) BY <1>1, <1>7, <2>1
    <3> QED BY <1>1, <1>7, <2>1, <3>1 DEF TypeInv, ThreadInv
  <2>2. CASE j \in (Len(thread) + 1)..Len(thread')
    <3>1. j - Len(thread) \in 1..Len(m) /\ thread'[j] = m[j - Len(thread)] BY <1>1, <2>2
    <3>2. thread'[j].born = t BY <1>4, <3>1
    <3>3. ASSUME thread'[j].kind = "human" PROVE i \in 1..Len(thread) /\ t > turn
      <4>1. Len(m) = 1 /\ t > turn BY <1>4, <3>1, <3>3
      <4> QED BY <1>1, <1>7, <4>1
    <3>4. thread'[i].born <= t BY <1>6
    <3>5. i \in 1..Len(thread) /\ t > turn => thread'[i].born < t BY <1>0, <1>1, <1>2, <1>3
    <3> QED BY <3>2, <3>3, <3>4, <3>5
  <2> QED BY <1>5, <2>1, <2>2
<1> QED BY <1>6, <1>7 DEF ThreadInv

LEMMA CommitEvents ==
    ASSUME TypeInv, NEW t \in 1..MaxTurns, NEW m, NewMessages(m, t), Commit(m),
           counted' = counted \/ (events = <<>> /\ counted' = NothingCounted),
           node # "none" \/ events = <<>>, phase' = "running"
    PROVE  EventsInv'
<1>1. /\ Len(thread) \in Nat /\ Len(m) \in Nat /\ Len(thread') = Len(thread) + Len(m)
      /\ Len(events') = Len(events) + 1
      /\ \A p \in 1..Len(events) : events'[p] = events[p]
      /\ events'[Len(events) + 1] = Snapshot(Len(thread'))
  BY CommitEffect
<1>2. Len(m) >= 1 BY DEF NewMessages
<1>3. /\ Len(events) \in Nat /\ (events = <<>> => Len(events) = 0)
      /\ \A p \in 1..Len(events) : events[p] \in EventRecords
  BY SeqIndex DEF TypeInv, TypeOK
<1>4. \A p \in 1..Len(events) : events[p].of \in Int /\ events[p].n \in Int
  BY <1>3 DEF EventRecords
<1>5. counted[Root] \in Int /\ counted'[Root] \in Int /\ counted'[Root] <= Len(thread)
  <2>1. Root \in 0..MaxMessages BY ConstantsAssumption DEF Root, ConstantsAssumption
  <2>2. counted[Root] \in 0..(MaxMessages + 3) BY <2>1 DEF TypeInv, TypeOK
  <2>3. counted[Root] <= Len(thread) BY DEF TypeInv, EventsInv
  <2>4. NothingCounted[Root] = 0 BY <2>1 DEF NothingCounted
  <2> QED BY <1>1, <2>2, <2>3, <2>4
<1>6. \A p \in 1..Len(events) :
          /\ events[p].of <= Len(thread)
          /\ events[p].of = Root => events[p].n <= Len(thread)
          /\ events[p].of # Root => events[p].n \in 1..3
          /\ IsRoot(events[p]) => events[p].n > counted'[Root]
          /\ ~events[p].interrupt
  <2> TAKE p \in 1..Len(events)
  <2>1. events # <<>> BY <1>3
  <2>2. counted' = counted /\ node # "none" BY <2>1
  <2> QED BY <2>2 DEF TypeInv, EventsInv
<1>7. \A p, q \in 1..Len(events) :
          p < q /\ IsRoot(events[p]) /\ IsRoot(events[q]) => events[p].n < events[q].n
  BY DEF TypeInv, EventsInv
<1> DEFINE s == Snapshot(Len(thread'))
<1>8. /\ s.of = 0 /\ s.n = Len(thread) + Len(m) /\ ~s.interrupt
      /\ s.n > Len(thread)
  BY <1>1, <1>2 DEF Snapshot, Root
<1> HIDE DEF s
<1>9. \A p \in 1..Len(events') : p \in 1..Len(events) \/ (p = Len(events) + 1 /\ events'[p] = s)
  BY <1>1, <1>3 DEF s
<1>10. ASSUME NEW p \in 1..Len(events')
       PROVE  /\ events'[p].of <= Len(thread')
              /\ events'[p].of = Root => events'[p].n <= Len(thread')
              /\ events'[p].of # Root => events'[p].n \in 1..3
              /\ ~events'[p].interrupt
              /\ events'[p].of = Root => events'[p].n > counted'[Root]
  <2>1. CASE p \in 1..Len(events) BY <1>1, <1>4, <1>5, <1>6, <2>1 DEF IsRoot
  <2>2. CASE p = Len(events) + 1 /\ events'[p] = s BY <1>1, <1>5, <1>8, <2>2 DEF Root
  <2> QED BY <1>9, <2>1, <2>2
<1>11. ASSUME NEW p \in 1..Len(events'), NEW q \in 1..Len(events'), p < q,
              IsRoot(events'[p]), IsRoot(events'[q])
       PROVE  events'[p].n < events'[q].n
  <2>1. p \in 1..Len(events) BY <1>1, <1>3, <1>11
  <2>2. CASE q \in 1..Len(events) BY <1>1, <1>7, <1>11, <2>1, <2>2
  <2>3. CASE q = Len(events) + 1 /\ events'[q] = s
    <3>1. events'[p].n <= Len(thread) /\ events'[p].n \in Int BY <1>1, <1>4, <1>6, <1>11, <2>1 DEF IsRoot
    <3> QED BY <1>1, <1>8, <2>3, <3>1
  <2> QED BY <1>9, <2>2, <2>3
<1>12. counted'[Root] <= Len(thread') BY <1>1, <1>5
<1> QED BY <1>10, <1>11, <1>12 DEF EventsInv, IsRoot

-----------------------------------------------------------------------------
(* The graph's steps *)

LEMMA ThreadIndex ==
    ASSUME TypeOK
    PROVE  /\ Len(thread) \in Nat /\ Len(thread) <= MaxMessages /\ MaxMessages \in Nat
           /\ DOMAIN thread = 1..Len(thread)
           /\ \A i \in 1..Len(thread) : thread[i] \in ThreadMessages
           /\ thread = <<>> <=> Len(thread) = 0
           /\ Len(events) \in Nat /\ DOMAIN events = 1..Len(events)
           /\ \A p \in 1..Len(events) : events[p] \in EventRecords
           /\ events = <<>> <=> Len(events) = 0
BY SeqIndex, ConstantsAssumption DEF TypeOK, ConstantsAssumption

LEMMA OneMessage ==
    ASSUME TypeInv, NEW t \in 1..MaxTurns, NEW kind \in {"human", "call", "result", "reply"},
           NEW about \in Ids, kind # "result" => about = NoId, kind = "human" => t > turn
    PROVE  /\ NewMessages(<<NextMessage(kind, about, t)>>, t)
           /\ Len(<<NextMessage(kind, about, t)>>) = 1
           /\ <<NextMessage(kind, about, t)>>[1].kind = kind
<1> DEFINE x == NextMessage(kind, about, t)
<1>1. Len(thread) \in Nat BY ThreadIndex DEF TypeInv
<1>2. x.id = <<Len(thread) + 1>> /\ x.kind = kind /\ x.about = about /\ x.born = t
  BY DEF NextMessage
<1>3. x \in ThreadMessages
  <2>1. <<Len(thread) + 1>> \in Ids BY <1>1 DEF Ids
  <2>2. kind \in Kinds BY DEF Kinds
  <2> QED BY <2>1, <2>2 DEF NextMessage, ThreadMessages
<1> HIDE DEF x
<1>4. <<x>> \in Seq(ThreadMessages) /\ Len(<<x>>) = 1 /\ <<x>>[1] = x BY <1>3
<1>5. NewMessages(<<x>>, t) BY <1>2, <1>4 DEF NewMessages
<1> QED BY <1>2, <1>4, <1>5 DEF x

LEMMA CallInProgress ==
    ASSUME TypeInv, \E i \in 1..Len(thread) : thread[i].kind = "call"
    PROVE  LastCall \in 1..Len(thread) /\ thread[LastCall].kind = "call"
<1> DEFINE C == {i \in DOMAIN thread : thread[i].kind = "call"}
<1>1. Len(thread) \in Nat /\ DOMAIN thread = 1..Len(thread) BY ThreadIndex DEF TypeInv
<1>2. C \in SUBSET Int /\ C # {} BY <1>1
<1>3. IsFiniteSet(C)
  <2>1. IsFiniteSet(1..Len(thread)) BY <1>1, FS_Interval
  <2>2. C \in SUBSET (1..Len(thread)) BY <1>1
  <2> QED BY <2>1, <2>2, FS_Subset
<1>4. MaxOf(C) \in C
  <2> HIDE DEF C
  <2> QED BY <1>2, <1>3, MaxOfBounds
<1> QED BY <1>1, <1>4 DEF LastCall

\* The kinds of rows, told apart by their ids.
LEMMA RowIds ==
    ASSUME NEW r \in RowRecords
    PROVE  /\ NoticeRow(r) => Len(r.id) = 0
           /\ RootRow(r) => Len(r.id) = 1 /\ r.id[1] \in 1..Len(thread) /\ r.id = <<r.id[1]>>
           /\ SubRow(r) => Len(r.id) = 2 /\ r.id[1] \in 1..Len(thread) /\ r.id[2] \in 1..3
           /\ StopRow(r) => Len(r.id) >= 2 /\ r.id[1] = 0
           /\ r.id # NoId <=> Len(r.id) > 0
<1>1. r.id \in Seq(Nat) /\ r.about \in Seq(Nat) BY DEF RowRecords, Ids
<1>2. NoticeRow(r) => Len(r.id) = 0 BY DEF NoticeRow, NoId
<1>3. RootRow(r) => Len(r.id) = 1 /\ r.id[1] \in 1..Len(thread) /\ r.id = <<r.id[1]>>
  BY DEF RootRow
<1>4. SubRow(r) => Len(r.id) = 2 /\ r.id[1] \in 1..Len(thread) /\ r.id[2] \in 1..3
  BY DEF SubRow
<1>5. ASSUME StopRow(r) PROVE Len(r.id) >= 2 /\ r.id[1] = 0
  <2>1. r.id = <<0>> \o r.about /\ r.about # <<>> BY <1>5 DEF StopRow, NoId
  <2>2. Len(r.about) \in Nat /\ Len(r.about) # 0 BY <1>1, <2>1, SeqIndex
  <2>3. <<0>> \in Seq(Nat) /\ Len(<<0>>) = 1 OBVIOUS
  <2>4. Len(<<0>> \o r.about) = 1 + Len(r.about) BY <1>1, <2>3, ConcatProperties
  <2>5. (<<0>> \o r.about)[1] = 0 BY <1>1
  <2> QED BY <2>1, <2>2, <2>4, <2>5
<1>6. r.id # NoId <=> Len(r.id) > 0
  <2>1. Len(r.id) \in Nat /\ (r.id = <<>> <=> Len(r.id) = 0) BY <1>1, SeqIndex
  <2> QED BY <2>1 DEF NoId
<1> QED BY <1>2, <1>3, <1>4, <1>5, <1>6

\* The rows stay as they are while the thread grows.
LEMMA RowsKept ==
    ASSUME TypeInv, rows' = rows, ThreadGrows, Len(thread') \in Nat
    PROVE  RowsInv' /\ (OrderInv => OrderInv')
<1>1. Len(thread) \in Nat /\ \A j \in 1..Len(thread) : j \in 1..Len(thread') /\ thread'[j] = thread[j]
  BY ThreadIndex DEF TypeInv, ThreadGrows
<1>2. \A r \in rows : RootRow(r) => RootRow(r)'
  <2> TAKE r \in rows
  <2> HAVE RootRow(r)
  <2>1. PICK j \in 1..Len(thread) :
          /\ r.id = <<j>> /\ r.kind = thread[j].kind
          /\ r.about = thread[j].about /\ thread[j].kind # "report"
    BY DEF RootRow
  <2>2. j \in 1..Len(thread') /\ thread'[j] = thread[j] BY <1>1
  <2> QED BY <2>1, <2>2 DEF RootRow
<1>3. \A r \in rows : SubRow(r) => SubRow(r)'
  <2> TAKE r \in rows
  <2> HAVE SubRow(r)
  <2>1. PICK j \in 1..Len(thread), k \in 1..3 :
          /\ r.id = <<j, k>>
          /\ r.kind = SubagentMessages(j)[k].kind
          /\ r.about = SubagentMessages(j)[k].about
    BY DEF SubRow
  <2>2. j \in 1..Len(thread') BY <1>1
  <2> QED BY <2>1, <2>2 DEF SubRow
<1>4. \A r \in rows : /\ NoticeRow(r) => NoticeRow(r)'
                      /\ StopRow(r)' <=> StopRow(r)
  BY DEF NoticeRow, StopRow
<1>5. \A r \in rows' : RowForm(r)' BY <1>2, <1>3, <1>4 DEF TypeInv, RowsInv, RowForm
<1>6. \A id : Recorded(id)' <=> Recorded(id) BY DEF Recorded
<1>7. RowsInv' BY <1>4, <1>5, <1>6 DEF TypeInv, RowsInv
<1>8. ASSUME OrderInv PROVE OrderInv'
  <2>1. RowsInThreadOrder' BY <1>8 DEF OrderInv, RowsInThreadOrder
  <2>2. \A j : Kept(j)' <=> Kept(j) BY DEF Kept
  <2>3. \A r \in rows : \A j \in Nat \ {0} : r.id = <<j>> => j \in 1..Len(thread)
    <3> TAKE r \in rows
    <3> TAKE j \in Nat \ {0}
    <3> HAVE r.id = <<j>>
    <3>1. r \in RowRecords BY DEF TypeInv, TypeOK
    <3>2. Len(r.id) = 1 /\ r.id[1] = j OBVIOUS
    <3>3. RootRow(r) BY <3>1, <3>2, RowIds DEF TypeInv, RowsInv, RowForm
    <3>4. r.id[1] \in 1..Len(thread) BY <3>1, <3>3, RowIds
    <3> QED BY <3>2, <3>4
  <2>4. RecordedInv'
    <3> SUFFICES ASSUME NEW j \in 1..Len(thread'), Kept(j), NEW i \in 1..j, thread'[i].kind # "report"
                 PROVE  Kept(i)
      BY <2>2 DEF RecordedInv
    <3>1. j \in 1..Len(thread) BY <2>3 DEF Kept
    <3>2. i \in 1..Len(thread) BY <1>1, <3>1
    <3> QED BY <1>1, <1>8, <3>1, <3>2 DEF OrderInv, RecordedInv
  <2> QED BY <2>1, <2>4 DEF OrderInv
<1> QED BY <1>7, <1>8

\* The reports DeliverReports commits.
Delivered == [i \in 1..Cardinality(found.reports) |->
                 [id |-> <<Len(thread) + i>>, kind |-> "report",
                  about |-> <<Ascending(found.reports)[i]>>, born |-> turn]]

LEMMA DeliveredNew ==
    ASSUME TypeInv, found.reports # {}, turn > 0
    PROVE  /\ NewMessages(Delivered, turn)
           /\ Len(Delivered) = Cardinality(found.reports)
           /\ \A i \in 1..Len(Delivered) :
                 Delivered[i].kind = "report" /\ Delivered[i].about = <<Ascending(found.reports)[i]>>
<1> DEFINE n == Cardinality(found.reports)
           a == Ascending(found.reports)
<1>1. /\ found.reports \in SUBSET Nat /\ IsFiniteSet(found.reports)
      /\ turn \in 1..MaxTurns /\ Len(thread) \in Nat
  BY ThreadIndex DEF TypeInv, TypeOK, NodeInv
<1>2. /\ n \in Nat /\ n # 0
      /\ \A i \in 1..n : a[i] \in found.reports
  <2>1. found.reports \in SUBSET Int BY <1>1
  <2> QED BY <1>1, <2>1, AscendingLists, FS_EmptySet
<1> HIDE DEF n, a
<1>3. Delivered = [i \in 1..n |-> [id |-> <<Len(thread) + i>>, kind |-> "report",
                                   about |-> <<a[i]>>, born |-> turn]]
  BY DEF Delivered, n, a
<1>4. \A i \in 1..n : /\ <<Len(thread) + i>> \in Ids
                      /\ <<a[i]>> \in Ids
  <2> TAKE i \in 1..n
  <2>1. Len(thread) + i \in Nat /\ a[i] \in Nat BY <1>1, <1>2
  <2> QED BY <2>1 DEF Ids
<1>5. \A i \in 1..n : Delivered[i] \in ThreadMessages
  BY <1>1, <1>3, <1>4 DEF ThreadMessages, Kinds
<1>6. DOMAIN Delivered = 1..n BY <1>3
<1>7. Delivered \in [1..n -> ThreadMessages] BY <1>3, <1>5, <1>6
<1>8. Delivered \in Seq(ThreadMessages) /\ Len(Delivered) = n BY <1>2, <1>6, <1>7
<1>9. \A i \in 1..n :
        /\ Delivered[i].id = <<Len(thread) + i>> /\ Delivered[i].kind = "report"
        /\ Delivered[i].about = <<a[i]>> /\ Delivered[i].born = turn
  BY <1>3
<1>10. NewMessages(Delivered, turn) BY <1>2, <1>8, <1>9 DEF NewMessages
<1> QED BY <1>8, <1>9, <1>10 DEF n, a

\* A commit, with what the step makes of the rest.
LEMMA CommitType ==
    ASSUME TypeInv, NEW t \in 1..MaxTurns, NEW m, NewMessages(m, t), Commit(m),
           turn' = t, t >= turn,
           counted' = counted \/ (events = <<>> /\ counted' = NothingCounted),
           node # "none" \/ events = <<>>, phase' = "running",
           node' \in {"report", "model", "tool", "ask", "done"},
           node' \in {"tool", "ask"} => m[Len(m)].kind = "call",
           ~asked \/ asked' = FALSE, asked' \in {asked, FALSE},
           seen' \in Nat \cup {-1}, found' = found \/ found' = NothingFound,
           rows' = rows, stamps' = stamps,
           notices' = notices, fails' = fails, cancels' = cancels, dbFails' = dbFails
    PROVE  TypeInv' /\ (OrderInv => OrderInv')
<1>1. /\ thread' \in Seq(ThreadMessages) /\ Len(thread') = Len(thread) + Len(m)
      /\ Len(thread') <= MaxMessages /\ ThreadGrows
      /\ events' \in Seq(EventRecords) /\ Len(thread) \in Nat /\ Len(m) \in Nat
      /\ \A i \in 1..Len(m) : thread'[Len(thread) + i] = m[i]
  BY CommitEffect
<1>2. Len(m) >= 1 BY DEF NewMessages
<1>3. ThreadInv' BY CommitThread
<1>4. EventsInv' BY CommitEvents
<1>5. RowsInv' /\ (OrderInv => OrderInv') BY <1>1, RowsKept
<1>6. /\ NothingFound \in [reports : SUBSET Nat, last : Nat \cup {None}]
      /\ IsFiniteSet(NothingFound.reports)
  BY FS_EmptySet DEF NothingFound
<1>7. NothingCounted \in [0..MaxMessages -> 0..(MaxMessages + 3)]
  BY ConstantsAssumption DEF NothingCounted, ConstantsAssumption
<1>8. /\ counted' \in [0..MaxMessages -> 0..(MaxMessages + 3)]
      /\ found' \in [reports : SUBSET Nat, last : Nat \cup {None}]
      /\ IsFiniteSet(found'.reports)
  BY <1>6, <1>7 DEF TypeInv, TypeOK, NodeInv
<1>9. /\ rows \in SUBSET RowRecords /\ MaxTurns \in Nat
      /\ stamps \in SUBSET [turn : 1..MaxTurns, checkpoint : 1..MaxMessages]
      /\ notices \in 0..MaxNotices /\ fails \in 0..MaxFails
      /\ cancels \in 0..MaxCancels /\ dbFails \in 0..MaxDbFails
      /\ asked \in BOOLEAN
  BY ConstantsAssumption DEF TypeInv, TypeOK, ConstantsAssumption
<1>10. TypeOK'
  <2>1. turn' \in 0..MaxTurns BY <1>9
  <2>2. asked' \in BOOLEAN BY <1>9
  <2>3. node' \in {"none", "report", "deliver", "model", "tool", "ask", "done"} OBVIOUS
  <2> QED BY <1>1, <1>8, <1>9, <2>1, <2>2, <2>3 DEF TypeOK
<1>11. NodeInv'
  <2>1. t > 0 OBVIOUS
  <2>2. thread' # <<>> BY <1>1, <1>2, SeqIndex
  <2>3. ASSUME node' \in {"tool", "ask"} PROVE \E i \in 1..Len(thread') : thread'[i].kind = "call"
    <3>1. Len(m) \in 1..Len(m) /\ Len(thread) + Len(m) \in 1..Len(thread') BY <1>1, <1>2
    <3> QED BY <1>1, <2>3, <3>1
  <2>4. ~asked' BY <1>9
  <2> QED BY <1>8, <2>1, <2>2, <2>3, <2>4 DEF NodeInv
<1> QED BY <1>3, <1>4, <1>5, <1>10, <1>11 DEF TypeInv

LEMMA RootCounted ==
    ASSUME TypeInv
    PROVE  /\ NothingCounted \in [0..MaxMessages -> 0..(MaxMessages + 3)]
           /\ NothingCounted[Root] = 0
           /\ counted[Root] \in Nat
           /\ Root \in 0..MaxMessages
<1>1. Root \in 0..MaxMessages /\ MaxMessages \in Nat
  BY ConstantsAssumption DEF Root, ConstantsAssumption
<1>2. counted \in [0..MaxMessages -> 0..(MaxMessages + 3)] BY DEF TypeInv, TypeOK
<1> QED BY <1>1, <1>2 DEF NothingCounted

\* A step that leaves the thread and no event.
LEMMA EventsGone ==
    ASSUME TypeInv, thread' = thread, events' = <<>>,
           counted' = counted \/ counted' = NothingCounted
    PROVE  EventsInv'
<1>1. Len(thread) \in Nat BY ThreadIndex DEF TypeInv
<1>2. counted'[Root] <= Len(thread) BY <1>1, RootCounted DEF TypeInv, EventsInv
<1>3. Len(events') = 0 BY SeqIndex
<1> QED BY <1>2, <1>3 DEF EventsInv

\* A step that leaves the thread and its events.
LEMMA EventsSame ==
    ASSUME TypeInv, thread' = thread, events' = events, counted' = counted,
           phase' = phase, node = "none" => node' = "none"
    PROVE  EventsInv'
BY DEF TypeInv, EventsInv

\* A step that emits an event, and commits nothing.
LEMMA EventsMore ==
    ASSUME TypeInv, thread' = thread, counted' = counted, phase = "running", phase' = "running",
           node # "none",
           NEW e \in EventRecords, events' = Append(events, e),
           e.of <= Len(thread), ~IsRoot(e),
           e.of = Root => e.n <= Len(thread) /\ node' = "none" /\ e.interrupt,
           e.of # Root => e.n \in 1..3 /\ ~e.interrupt
    PROVE  EventsInv' /\ events' \in Seq(EventRecords)
<1>1. /\ Len(events) \in Nat /\ events' \in Seq(EventRecords)
      /\ Len(events') = Len(events) + 1
      /\ \A p \in 1..Len(events) : events'[p] = events[p]
      /\ events'[Len(events) + 1] = e
  BY AppendIndex, ThreadIndex DEF TypeInv, TypeOK
<1>2. \A p \in 1..Len(events') : p \in 1..Len(events) \/ (p = Len(events) + 1 /\ events'[p] = e)
  BY <1>1
<1>3. \A p \in 1..Len(events) : ~events[p].interrupt BY DEF TypeInv, EventsInv
<1>4. ASSUME NEW p \in 1..Len(events')
      PROVE  /\ events'[p].of <= Len(thread')
             /\ events'[p].of = Root => events'[p].n <= Len(thread')
             /\ events'[p].of # Root => events'[p].n \in 1..3 /\ ~events'[p].interrupt
             /\ IsRoot(events'[p]) => events'[p].n > counted'[Root]
             /\ events'[p].interrupt => p = Len(events') /\ node' = "none"
  <2>1. CASE p \in 1..Len(events) BY <1>1, <1>3, <2>1 DEF TypeInv, EventsInv
  <2>2. CASE p = Len(events) + 1 /\ events'[p] = e BY <1>1, <2>2
  <2> QED BY <1>2, <2>1, <2>2
<1>5. ASSUME NEW p \in 1..Len(events'), NEW q \in 1..Len(events'), p < q,
             IsRoot(events'[p]), IsRoot(events'[q])
      PROVE  events'[p].n < events'[q].n
  <2>1. p \in 1..Len(events) /\ q \in 1..Len(events) BY <1>2, <1>5
  <2>2. events'[p] = events[p] /\ events'[q] = events[q] BY <1>1, <2>1
  <2> QED BY <1>5, <2>1, <2>2 DEF TypeInv, EventsInv
<1>6. counted'[Root] <= Len(thread') BY DEF TypeInv, EventsInv
<1> QED BY <1>1, <1>4, <1>5, <1>6 DEF EventsInv

\* The thread and the rows stay.
LEMMA SameThread ==
    ASSUME TypeInv, thread' = thread, rows' = rows, turn' \in Nat, turn' >= turn
    PROVE  ThreadInv' /\ RowsInv' /\ (OrderInv => OrderInv')
<1>1. ThreadGrows /\ Len(thread') \in Nat BY ThreadIndex DEF TypeInv, ThreadGrows
<1>2. RowsInv' /\ (OrderInv => OrderInv') BY <1>1, RowsKept
<1>3. turn \in Nat BY DEF TypeInv, TypeOK
<1>4. \A i \in 1..Len(thread) : thread[i].born \in Nat
  BY ThreadIndex DEF TypeInv, ThreadMessages
<1>5. \A i \in 1..Len(thread) : thread[i].born <= turn' BY <1>3, <1>4 DEF TypeInv, ThreadInv
<1>6. ThreadInv' BY <1>5 DEF TypeInv, ThreadInv
<1> QED BY <1>2, <1>6

LEMMA SendType == TypeInv /\ Send => TypeInv' /\ (OrderInv => OrderInv')
<1> SUFFICES ASSUME TypeInv, Send PROVE TypeInv' /\ (OrderInv => OrderInv') OBVIOUS
<1>1. turn + 1 \in 1..MaxTurns /\ turn' = turn + 1 /\ turn \in Nat /\ turn + 1 >= turn /\ turn + 1 > turn
  BY ConstantsAssumption DEF Send, TypeInv, TypeOK, ConstantsAssumption
<1>2. events = <<>> BY DEF Send, TypeInv, EventsInv
<1>3. CASE asked
  <2>1. /\ thread' = thread /\ events' = events /\ node' = "tool" /\ phase' = "running"
        /\ counted' = NothingCounted
        /\ UNCHANGED <<seen, asked, rows, found, stamps, counters>>
    BY <1>3 DEF Send
  <2>2. ThreadInv' /\ RowsInv' /\ (OrderInv => OrderInv') BY <1>1, <2>1, SameThread
  <2>3. EventsInv' BY <1>2, <2>1, EventsGone
  <2>4. turn' \in 0..MaxTurns BY <1>1
  <2>5. TypeOK' BY <2>1, <2>4, RootCounted DEF TypeInv, TypeOK, counters
  <2>6. thread # <<>>
    <3>1. Len(thread) # 0 BY <1>3 DEF TypeInv, NodeInv
    <3> QED BY <3>1, ThreadIndex DEF TypeInv
  <2>7. NodeInv' BY <1>1, <1>3, <2>1, <2>6 DEF TypeInv, NodeInv
  <2> QED BY <2>2, <2>3, <2>5, <2>7 DEF TypeInv
<1>4. CASE ~asked
  <2> DEFINE m == <<NextMessage("human", NoId, turn + 1)>>
  <2>1. /\ Commit(m) /\ node' = "report" /\ phase' = "running" /\ counted' = NothingCounted
        /\ UNCHANGED <<seen, asked, rows, found, stamps, counters>>
    BY <1>4 DEF Send
  <2>2. NoId \in Ids BY DEF NoId, Ids
  <2>3. NewMessages(m, turn + 1) BY <1>1, <2>2, OneMessage
  <2> HIDE DEF m
  <2>4. seen \in Nat \cup {-1} BY DEF TypeInv, TypeOK
  <2> QED BY <1>1, <1>2, <1>4, <2>1, <2>3, <2>4, CommitType DEF counters
<1> QED BY <1>3, <1>4

LEMMA WakeType == TypeInv /\ Wake => TypeInv' /\ (OrderInv => OrderInv')
<1> SUFFICES ASSUME TypeInv, Wake PROVE TypeInv' /\ (OrderInv => OrderInv') OBVIOUS
<1>1. turn + 1 \in 1..MaxTurns /\ turn' = turn + 1 /\ turn \in Nat /\ turn + 1 >= turn
  BY ConstantsAssumption DEF Wake, TypeInv, TypeOK, ConstantsAssumption
<1>2. events = <<>> /\ ~asked /\ thread # <<>> BY DEF Wake, TypeInv, EventsInv
<1>3. /\ phase' = "running" /\ counted' = NothingCounted /\ node' = "report"
      /\ UNCHANGED <<thread, seen, asked, rows, found, events, stamps, counters>>
  BY DEF Wake
<1>4. ThreadInv' /\ RowsInv' /\ (OrderInv => OrderInv') BY <1>1, <1>3, SameThread
<1>5. EventsInv' BY <1>2, <1>3, EventsGone
<1>6. turn' \in 0..MaxTurns BY <1>1
<1>7. TypeOK' BY <1>3, <1>6, RootCounted DEF TypeInv, TypeOK, counters
<1>8. NodeInv' BY <1>1, <1>2, <1>3 DEF TypeInv, NodeInv
<1> QED BY <1>4, <1>5, <1>7, <1>8 DEF TypeInv

\* What before_model reads.
LEMMA ReadFound ==
    ASSUME TypeInv, ReadReports
    PROVE  /\ found'.reports = {r.seq : r \in Unread(seen)}
           /\ found'.reports \in SUBSET Nat /\ IsFiniteSet(found'.reports)
           /\ found' \in [reports : SUBSET Nat, last : Nat \cup {None}]
           /\ found'.last = None => \A r \in Notices : ~ r.seq > seen
           /\ found'.last # None =>
                 /\ found'.last \in Nat
                 /\ \E r \in rows : r.seq > seen /\ r.seq = found'.last
                 /\ \A r \in Notices : r.seq > seen => r.seq <= found'.last
<1> DEFINE N == {x \in Notices : x.seq > seen}
           T == {r.seq : r \in N}
           R == {r.seq : r \in Unread(seen)}
<1>1. rows \in SUBSET RowRecords /\ IsFiniteSet(rows) BY DEF TypeInv, TypeOK, RowsInv
<1>2. N \in SUBSET rows /\ Unread(seen) \in SUBSET rows /\ N \in SUBSET RowRecords /\ Unread(seen) \in SUBSET RowRecords
  BY <1>1 DEF Notices, Unread
<1>3. IsFiniteSet(N) /\ IsFiniteSet(Unread(seen))
  <2> HIDE DEF N
  <2> QED BY <1>1, <1>2, FS_Subset
<1>4. T \in SUBSET Nat /\ IsFiniteSet(T) /\ R \in SUBSET Nat /\ IsFiniteSet(R)
  <2> HIDE DEF N
  <2> QED BY <1>2, <1>3, SeqsOfRows
<1>5. found' = [reports |-> R, last |-> IF T = {} THEN None ELSE MaxOf(T)]
  BY DEF ReadReports
<1>6. T # {} => MaxOf(T) \in T /\ \A y \in T : y <= MaxOf(T)
  <2>1. T \in SUBSET Int BY <1>4
  <2> HIDE DEF T
  <2> QED BY <1>4, <2>1, MaxOfBounds
<1>7. None \notin Nat BY ConstantsAssumption DEF ConstantsAssumption
<1>8. found'.last = None <=> T = {}
  <2> HIDE DEF T
  <2> QED BY <1>4, <1>5, <1>6, <1>7
<1>9. T = {} => \A r \in Notices : ~ r.seq > seen OBVIOUS
<1>10. T # {} => found'.last = MaxOf(T) BY <1>5
<1>11. T # {} => \E r \in N : r.seq = MaxOf(T)
  <2>1. ASSUME T # {} PROVE MaxOf(T) \in {r.seq : r \in N}
    <3> HIDE DEF N
    <3> QED BY <1>6, <2>1
  <2> QED BY <2>1
<1>12. \A r \in N : r.seq \in T OBVIOUS
<1>13. found'.last # None =>
                 /\ found'.last \in Nat
                 /\ \E r \in rows : r.seq > seen /\ r.seq = found'.last
                 /\ \A r \in Notices : r.seq > seen => r.seq <= found'.last
  <2> HAVE found'.last # None
  <2>1. T # {} /\ found'.last = MaxOf(T) BY <1>8, <1>10
  <2>2. MaxOf(T) \in Nat
    <3> HIDE DEF T
    <3> QED BY <1>4, <1>6, <2>1
  <2>3. \E r \in rows : r.seq > seen /\ r.seq = found'.last
    <3>1. PICK r \in N : r.seq = MaxOf(T) BY <1>11, <2>1
    <3>2. r \in rows /\ r.seq > seen BY <1>2
    <3> QED BY <2>1, <3>1, <3>2
  <2>4. \A r \in Notices : r.seq > seen => r.seq <= found'.last
    <3> TAKE r \in Notices
    <3> HAVE r.seq > seen
    <3>1. r.seq \in T OBVIOUS
    <3> HIDE DEF T
    <3> QED BY <1>6, <2>1, <3>1
  <2> QED BY <2>1, <2>2, <2>3, <2>4
<1>14. /\ found'.reports = R
       /\ found' \in [reports : SUBSET Nat, last : Nat \cup {None}]
  <2>1. found'.reports = R BY <1>5
  <2>2. (IF T = {} THEN None ELSE MaxOf(T)) \in Nat \cup {None}
    <3> HIDE DEF T
    <3> QED BY <1>4, <1>6
  <2> HIDE DEF R, T
  <2> QED BY <1>4, <1>5, <2>1, <2>2
<1>15. found'.last = None => \A r \in Notices : ~ r.seq > seen BY <1>8, <1>9
<1> QED BY <1>4, <1>13, <1>14, <1>15

LEMMA ReadType == TypeInv /\ ReadReports => TypeInv' /\ (OrderInv => OrderInv')
<1> SUFFICES ASSUME TypeInv, ReadReports PROVE TypeInv' /\ (OrderInv => OrderInv') OBVIOUS
<1>1. /\ phase = "running" /\ node = "report" /\ node' = "deliver"
      /\ UNCHANGED <<thread, seen, asked, rows, turn, phase, events, counted, stamps, counters>>
  BY DEF ReadReports
<1>2. turn \in Nat BY DEF TypeInv, TypeOK
<1>3. ThreadInv' /\ RowsInv' /\ (OrderInv => OrderInv') BY <1>1, <1>2, SameThread
<1>4. EventsInv' BY <1>1, EventsSame
<1>5. TypeOK' BY <1>1, ReadFound DEF TypeInv, TypeOK, counters
<1>6. NodeInv' BY <1>1, ReadFound DEF TypeInv, NodeInv
<1> QED BY <1>3, <1>4, <1>5, <1>6 DEF TypeInv

LEMMA NothingFoundType ==
    /\ NothingFound \in [reports : SUBSET Nat, last : Nat \cup {None}]
    /\ IsFiniteSet(NothingFound.reports) /\ NothingFound.reports = {} /\ NothingFound.last = None
BY FS_EmptySet DEF NothingFound

LEMMA MarkType ==
    ASSUME TypeInv
    PROVE  Mark(found) \in Nat \cup {-1}
BY DEF Mark, TypeInv, TypeOK

LEMMA DeliverType == TypeInv /\ DeliverReports => TypeInv' /\ (OrderInv => OrderInv')
<1> SUFFICES ASSUME TypeInv, DeliverReports PROVE TypeInv' /\ (OrderInv => OrderInv') OBVIOUS
<1>1. /\ phase = "running" /\ node = "deliver" /\ node' = "model" /\ found' = NothingFound
      /\ seen' = Mark(found)
      /\ UNCHANGED <<asked, rows, turn, phase, counted, stamps, counters>>
  BY DEF DeliverReports
<1>2. turn \in 1..MaxTurns /\ turn \in Nat /\ ~asked /\ thread # <<>>
  BY <1>1 DEF TypeInv, TypeOK, NodeInv
<1>3. CASE found.reports = {}
  <2>1. thread' = thread /\ events' = events BY <1>3 DEF DeliverReports
  <2>2. ThreadInv' /\ RowsInv' /\ (OrderInv => OrderInv') BY <1>1, <1>2, <2>1, SameThread
  <2>3. EventsInv' BY <1>1, <2>1, EventsSame
  <2>4. TypeOK' BY <1>1, <2>1, NothingFoundType, MarkType DEF TypeInv, TypeOK, counters
  <2>5. NodeInv' BY <1>1, <1>2, <2>1, NothingFoundType DEF TypeInv, NodeInv
  <2> QED BY <2>2, <2>3, <2>4, <2>5 DEF TypeInv
<1>4. CASE found.reports # {}
  <2>1. Commit(Delivered) BY <1>4 DEF DeliverReports, Delivered
  <2>2. NewMessages(Delivered, turn) BY <1>2, <1>4, DeliveredNew
  <2>3. seen' \in Nat \cup {-1} BY <1>1, MarkType
  <2>4. turn' = turn /\ turn >= turn /\ counted' = counted /\ phase' = "running"
        /\ rows' = rows /\ stamps' = stamps /\ asked' = asked
        /\ notices' = notices /\ fails' = fails /\ cancels' = cancels /\ dbFails' = dbFails
    BY <1>1, <1>2 DEF counters
  <2> QED BY <1>1, <1>2, <2>1, <2>2, <2>3, <2>4, CommitType
<1> QED BY <1>3, <1>4

LEMMA ModelType == TypeInv /\ Model => TypeInv' /\ (OrderInv => OrderInv')
<1> SUFFICES ASSUME TypeInv, Model PROVE TypeInv' /\ (OrderInv => OrderInv') OBVIOUS
<1>1. /\ phase = "running" /\ node = "model"
      /\ UNCHANGED <<seen, asked, rows, turn, phase, found, counted, stamps, counters>>
  BY DEF Model
<1>2. turn \in 1..MaxTurns /\ turn \in Nat /\ ~asked BY <1>1 DEF TypeInv, TypeOK, NodeInv
<1>3. NoId \in Ids BY DEF NoId, Ids
<1>4. PICK kind \in {"reply", "call"} :
        /\ Commit(<<NextMessage(kind, NoId, turn)>>)
        /\ node' \in {"done", "tool", "ask"}
        /\ node' \in {"tool", "ask"} => kind = "call"
  BY DEF Model
<1> DEFINE m == <<NextMessage(kind, NoId, turn)>>
<1>5. NewMessages(m, turn) /\ Len(m) = 1 /\ m[1].kind = kind BY <1>2, <1>3, OneMessage
<1>6. Commit(m) BY <1>4
<1> HIDE DEF m
<1>7. node' \in {"tool", "ask"} => m[Len(m)].kind = "call" BY <1>4, <1>5
<1>8. turn' = turn /\ turn >= turn /\ counted' = counted /\ phase' = "running"
        /\ rows' = rows /\ stamps' = stamps /\ asked' = asked /\ found' = found
        /\ notices' = notices /\ fails' = fails /\ cancels' = cancels /\ dbFails' = dbFails
        /\ seen' \in Nat \cup {-1}
  BY <1>1, <1>2 DEF counters, TypeInv, TypeOK
<1> QED BY <1>1, <1>2, <1>4, <1>5, <1>6, <1>7, <1>8, CommitType

\* The event a subagent's step emits.
LEMMA SubagentEvent ==
    ASSUME TypeInv, SubagentStep
    PROVE  /\ LastCall \in 1..Len(thread)
           /\ \E n \in 1..3 :
                 /\ events' = Append(events, [of |-> LastCall, n |-> n, interrupt |-> FALSE])
                 /\ [of |-> LastCall, n |-> n, interrupt |-> FALSE] \in EventRecords
<1> DEFINE sent == {e.n : e \in {events[j] : j \in DOMAIN events} \cap
                                [of : {LastCall}, n : 0..3, interrupt : {FALSE}]}
           S == sent \cup {counted[LastCall]}
           k == MaxOf(S)
<1>1. k < 3 /\ events' = Append(events, [of |-> LastCall, n |-> k + 1, interrupt |-> FALSE])
  BY DEF SubagentStep
<1>2. LastCall \in 1..Len(thread)
  BY CallInProgress DEF SubagentStep, TypeInv, NodeInv
<1>3. LastCall \in 0..MaxMessages /\ MaxMessages \in Nat
  BY <1>2, ThreadIndex DEF TypeInv
<1>4. counted[LastCall] \in 0..(MaxMessages + 3) BY <1>3 DEF TypeInv, TypeOK
<1>5. sent \in SUBSET (0..3) OBVIOUS
<1> HIDE DEF sent
<1>6. IsFiniteSet(S)
  <2>0. \A a, b \in Int : IsFiniteSet(a..b) BY FS_Interval
  <2>01. 0 \in Int /\ 3 \in Int OBVIOUS
  <2>1. IsFiniteSet(0..3) BY <2>0, <2>01, Zenon
  <2>2. IsFiniteSet(sent) BY <1>5, <2>1, FS_Subset
  <2> QED BY <2>2, FS_AddElement
<1> HIDE DEF S
<1>7. S \in SUBSET Nat /\ S \in SUBSET Int /\ S # {}
  <2>1. counted[LastCall] \in Nat BY <1>3, <1>4
  <2>2. sent \in SUBSET Nat BY <1>5
  <2>3. S \in SUBSET Nat BY <2>1, <2>2 DEF S
  <2>4. counted[LastCall] \in S BY DEF S
  <2> QED BY <2>3, <2>4
<1>8. k \in Nat BY <1>6, <1>7, MaxOfBounds
<1> HIDE DEF k
<1>9. k + 1 \in 1..3 BY <1>1, <1>8
<1>10. [of |-> LastCall, n |-> k + 1, interrupt |-> FALSE] \in EventRecords
  BY <1>3, <1>9 DEF EventRecords
<1> QED BY <1>1, <1>2, <1>9, <1>10

LEMMA SubagentType == TypeInv /\ SubagentStep => TypeInv' /\ (OrderInv => OrderInv')
<1> SUFFICES ASSUME TypeInv, SubagentStep PROVE TypeInv' /\ (OrderInv => OrderInv') OBVIOUS
<1>1. /\ phase = "running" /\ node = "tool"
      /\ UNCHANGED <<thread, seen, asked, rows, turn, phase, node, found, counted, stamps, counters>>
  BY DEF SubagentStep
<1>2. PICK n \in 1..3 :
        /\ events' = Append(events, [of |-> LastCall, n |-> n, interrupt |-> FALSE])
        /\ [of |-> LastCall, n |-> n, interrupt |-> FALSE] \in EventRecords
  BY SubagentEvent
<1>3. LastCall \in 1..Len(thread) /\ Len(thread) \in Nat BY SubagentEvent, ThreadIndex DEF TypeInv
<1> DEFINE e == [of |-> LastCall, n |-> n, interrupt |-> FALSE]
<1>4. e.of = LastCall /\ e.n = n /\ e.interrupt = FALSE /\ e \in EventRecords /\ events' = Append(events, e)
  BY <1>2
<1> HIDE DEF e
<1>5. e.of # Root /\ e.of <= Len(thread) /\ ~IsRoot(e) BY <1>3, <1>4 DEF Root, IsRoot
<1>6. EventsInv' /\ events' \in Seq(EventRecords)
  <2>1. node # "none" /\ phase' = "running" /\ thread' = thread /\ counted' = counted BY <1>1
  <2>2. e.of # Root => e.n \in 1..3 /\ ~e.interrupt BY <1>4
  <2> QED BY <1>1, <1>4, <1>5, <2>1, <2>2, EventsMore
<1>7. turn \in Nat BY DEF TypeInv, TypeOK
<1>8. ThreadInv' /\ RowsInv' /\ (OrderInv => OrderInv') BY <1>1, <1>7, SameThread
<1>9. TypeOK' BY <1>1, <1>6 DEF TypeInv, TypeOK, counters
<1>10. NodeInv' BY <1>1 DEF TypeInv, NodeInv
<1> QED BY <1>6, <1>8, <1>9, <1>10 DEF TypeInv

LEMMA ToolType == TypeInv /\ Tool => TypeInv' /\ (OrderInv => OrderInv')
<1> SUFFICES ASSUME TypeInv, Tool PROVE TypeInv' /\ (OrderInv => OrderInv') OBVIOUS
<1> DEFINE m == <<NextMessage("result", <<LastCall>>, turn)>>
<1>1. /\ phase = "running" /\ node = "tool" /\ node' = "report" /\ asked' = FALSE /\ Commit(m)
      /\ UNCHANGED <<seen, rows, turn, phase, found, counted, stamps, counters>>
  BY DEF Tool
<1>2. turn \in 1..MaxTurns /\ turn \in Nat BY <1>1 DEF TypeInv, TypeOK, NodeInv
<1>3. <<LastCall>> \in Ids
  <2>1. LastCall \in 1..Len(thread) BY <1>1, CallInProgress DEF TypeInv, NodeInv
  <2>2. LastCall \in Nat BY <2>1, ThreadIndex DEF TypeInv
  <2> QED BY <2>2 DEF Ids
<1>4. NewMessages(m, turn) BY <1>2, <1>3, OneMessage
<1> HIDE DEF m
<1>5. turn' = turn /\ turn >= turn /\ counted' = counted /\ phase' = "running"
        /\ rows' = rows /\ stamps' = stamps /\ found' = found
        /\ notices' = notices /\ fails' = fails /\ cancels' = cancels /\ dbFails' = dbFails
        /\ seen' \in Nat \cup {-1}
  BY <1>1, <1>2 DEF counters, TypeInv, TypeOK
<1> QED BY <1>1, <1>2, <1>4, <1>5, CommitType

LEMMA InterruptType == TypeInv /\ Interrupt => TypeInv' /\ (OrderInv => OrderInv')
<1> SUFFICES ASSUME TypeInv, Interrupt PROVE TypeInv' /\ (OrderInv => OrderInv') OBVIOUS
<1> DEFINE e == [of |-> Root, n |-> Len(thread), interrupt |-> TRUE]
<1>1. /\ phase = "running" /\ node = "ask" /\ asked' = TRUE /\ node' = "none"
      /\ events' = Append(events, e)
      /\ UNCHANGED <<thread, seen, rows, turn, phase, found, counted, stamps, counters>>
  BY DEF Interrupt
<1>2. Len(thread) \in 0..(MaxMessages + 3) /\ Root \in 0..MaxMessages /\ Root \in Int /\ Len(thread) \in Nat
  BY ThreadIndex, RootCounted DEF TypeInv, Root
<1>3. e \in EventRecords BY <1>2 DEF EventRecords
<1>4. e.of = Root /\ e.n = Len(thread) /\ e.interrupt BY DEF Root
<1> HIDE DEF e
<1>5. e.of <= Len(thread) /\ ~IsRoot(e) BY <1>2, <1>4 DEF IsRoot, Root
<1>6. EventsInv' /\ events' \in Seq(EventRecords)
  <2>1. node # "none" /\ phase' = "running" /\ thread' = thread /\ counted' = counted BY <1>1
  <2>2. e.of = Root => e.n <= Len(thread) /\ node' = "none" /\ e.interrupt BY <1>1, <1>2, <1>4
  <2> QED BY <1>1, <1>3, <1>4, <1>5, <2>1, <2>2, EventsMore
<1>7. turn \in Nat BY DEF TypeInv, TypeOK
<1>8. ThreadInv' /\ RowsInv' /\ (OrderInv => OrderInv') BY <1>1, <1>7, SameThread
<1>9. TypeOK' BY <1>1, <1>6 DEF TypeInv, TypeOK, counters
<1>10. NodeInv' BY <1>1 DEF TypeInv, NodeInv
<1> QED BY <1>6, <1>8, <1>9, <1>10 DEF TypeInv

LEMMA FinishType == TypeInv /\ Finish => TypeInv' /\ (OrderInv => OrderInv')
<1> SUFFICES ASSUME TypeInv, Finish PROVE TypeInv' /\ (OrderInv => OrderInv') OBVIOUS
<1>1. /\ phase = "running" /\ node = "done" /\ events = <<>> /\ phase' = "stamping" /\ node' = "none"
      /\ stamps' = stamps \cup {[turn |-> turn, checkpoint |-> Len(thread)]}
      /\ UNCHANGED <<thread, seen, asked, rows, turn, found, events, counted, counters>>
  BY DEF Finish, LatestCheckpoint
<1>2. turn \in Nat /\ turn \in 1..MaxTurns /\ thread # <<>> BY <1>1 DEF TypeInv, TypeOK, NodeInv
<1>3. ThreadInv' /\ RowsInv' /\ (OrderInv => OrderInv') BY <1>1, <1>2, SameThread
<1>4. EventsInv' BY <1>1, EventsGone
<1>5. Len(thread) \in 1..MaxMessages BY <1>2, ThreadIndex DEF TypeInv
<1>6. stamps' \in SUBSET [turn : 1..MaxTurns, checkpoint : 1..MaxMessages]
  BY <1>1, <1>2, <1>5 DEF TypeInv, TypeOK
<1>7. TypeOK' BY <1>1, <1>6 DEF TypeInv, TypeOK, counters
<1>8. NodeInv' BY <1>1, <1>2 DEF TypeInv, NodeInv
<1> QED BY <1>3, <1>4, <1>7, <1>8 DEF TypeInv

\* What Over leaves, whatever a stop writes.
LEMMA OverType ==
    ASSUME TypeInv, Over, rows' \in SUBSET RowRecords, fails' \in 0..MaxFails,
           cancels' \in 0..MaxCancels, dbFails' \in 0..MaxDbFails
    PROVE  TypeOK' /\ ThreadInv' /\ EventsInv' /\ NodeInv'
<1>1. /\ phase' = "idle" /\ node' = "none" /\ found' = NothingFound /\ events' = <<>>
      /\ UNCHANGED <<thread, seen, asked, turn, counted, stamps, notices>>
  BY DEF Over
<1>2. ThreadInv' BY <1>1 DEF TypeInv, ThreadInv
<1>3. EventsInv' BY <1>1, EventsGone
<1>4. events' \in Seq(EventRecords) BY <1>1
<1>5. TypeOK' BY <1>1, <1>4, NothingFoundType DEF TypeInv, TypeOK
<1>6. NodeInv' BY <1>1, NothingFoundType DEF TypeInv, NodeInv
<1> QED BY <1>2, <1>3, <1>5, <1>6

LEMMA FailType == TypeInv /\ Fail => TypeInv' /\ (OrderInv => OrderInv')
<1> SUFFICES ASSUME TypeInv, Fail PROVE TypeInv' /\ (OrderInv => OrderInv') OBVIOUS
<1>1. /\ fails < MaxFails /\ fails' = fails + 1 /\ Over
      /\ UNCHANGED <<rows, cancels, dbFails>>
  BY DEF Fail
<1>2. /\ fails' \in 0..MaxFails /\ rows' \in SUBSET RowRecords
      /\ cancels' \in 0..MaxCancels /\ dbFails' \in 0..MaxDbFails /\ turn \in Nat
  BY <1>1, ConstantsAssumption DEF TypeInv, TypeOK, ConstantsAssumption
<1>3. TypeOK' /\ ThreadInv' /\ EventsInv' /\ NodeInv' BY <1>1, <1>2, OverType
<1>4. thread' = thread /\ turn' = turn BY <1>1 DEF Over
<1>5. RowsInv' /\ (OrderInv => OrderInv') BY <1>1, <1>2, <1>4, SameThread
<1> QED BY <1>3, <1>5 DEF TypeInv

-----------------------------------------------------------------------------
(* The steps that write rows *)

\* Fresh rows join those there are.
LEMMA RowsAdded ==
    ASSUME TypeInv, thread' = thread, NEW new, Fresh(new), rows' = rows \cup new,
           \A r \in new : RowForm(r) /\ (StopRow(r) => Recorded(r.about))
    PROVE  RowsInv' /\ rows' \in SUBSET RowRecords
<1>1. rows \in SUBSET RowRecords /\ IsFiniteSet(rows) BY DEF TypeInv, TypeOK, RowsInv
<1>2. NextSequence \in Nat /\ \A r \in rows : r.seq < NextSequence BY <1>1, NextBounds
<1>3. new \in SUBSET RowRecords /\ IsFiniteSet(new) BY DEF Fresh
<1>4. IsFiniteSet(rows') BY <1>1, <1>3, FS_Union
<1>5. \A r \in rows, s \in new : r.seq < s.seq
  <2>1. \A r \in rows : r.seq \in Nat BY <1>1 DEF RowRecords
  <2>2. \A s \in new : s.seq \in Nat /\ s.seq >= NextSequence BY <1>3 DEF Fresh, RowRecords
  <2> QED BY <1>2, <2>1, <2>2
<1>6. \A r \in rows' : r.seq \in Nat BY <1>1, <1>3 DEF RowRecords
<1>7. ASSUME NEW r \in rows', NEW s \in rows', r.seq = s.seq PROVE r = s
  <2>1. CASE r \in rows /\ s \in rows BY <1>7, <2>1 DEF TypeInv, RowsInv
  <2>2. CASE r \in new /\ s \in new BY <1>7, <2>2 DEF Fresh
  <2>3. CASE r \in rows /\ s \in new BY <1>5, <1>6, <1>7, <2>3
  <2>4. CASE r \in new /\ s \in rows BY <1>5, <1>6, <1>7, <2>4
  <2> QED BY <2>1, <2>2, <2>3, <2>4
<1>8. \A r \in rows' : RowForm(r)'
  <2>1. \A r \in rows' : RowForm(r) BY DEF TypeInv, RowsInv
  <2>2. \A r \in rows' : RowForm(r)' <=> RowForm(r)
    BY DEF RowForm, NoticeRow, RootRow, SubRow, StopRow
  <2> QED BY <2>1, <2>2
<1>9. \A id : Recorded(id) => Recorded(id)' BY DEF Recorded
<1>10. \A x \in rows' : StopRow(x) => Recorded(x.about)
  BY DEF TypeInv, RowsInv
<1>11. ASSUME NEW x \in rows', StopRow(x), NEW r \in rows', r.id = x.about
       PROVE  r.seq < x.seq
  <2>1. Recorded(x.about) BY <1>10, <1>11
  <2>2. r \in rows
    <3>1. ~ r \in new BY <1>11, <2>1 DEF Fresh
    <3> QED BY <3>1
  <2>3. CASE x \in rows BY <1>11, <2>2, <2>3 DEF TypeInv, RowsInv
  <2>4. CASE x \in new BY <1>5, <2>2, <2>4
  <2> QED BY <2>3, <2>4
<1>12. \A x : StopRow(x)' <=> StopRow(x) BY DEF StopRow
<1>13. RowsInv' BY <1>4, <1>7, <1>8, <1>9, <1>10, <1>11, <1>12 DEF RowsInv
<1> QED BY <1>1, <1>3, <1>13

LEMMA OrderAdded ==
    ASSUME TypeInv, OrderInv, thread' = thread, NEW new, Fresh(new), rows' = rows \cup new,
           \A r \in new : RowForm(r),
           \A r, s \in new : Len(r.id) = 1 /\ Len(s.id) = 1 /\ r.id[1] < s.id[1] => r.seq < s.seq,
           \A r \in new : Len(r.id) = 1 => \A i \in 1..r.id[1] :
              thread[i].kind # "report" => Kept(i) \/ \E s \in new : s.id = <<i>>
    PROVE  OrderInv'
<1>1. rows \in SUBSET RowRecords /\ IsFiniteSet(rows) BY DEF TypeInv, TypeOK, RowsInv
<1>2. NextSequence \in Nat /\ \A r \in rows : r.seq < NextSequence BY <1>1, NextBounds
<1>3. new \in SUBSET RowRecords BY DEF Fresh
<1>4. \A r \in rows, s \in new : r.seq < s.seq
  <2>1. \A r \in rows : r.seq \in Nat BY <1>1 DEF RowRecords
  <2>2. \A s \in new : s.seq \in Nat /\ s.seq >= NextSequence BY <1>3 DEF Fresh, RowRecords
  <2> QED BY <1>2, <2>1, <2>2
<1>5. \A r \in rows' : Len(r.id) = 1 => RootRow(r) /\ r.id[1] \in 1..Len(thread) /\ r.id = <<r.id[1]>>
  <2> TAKE r \in rows'
  <2>1. r \in RowRecords /\ RowForm(r) BY <1>1, <1>3 DEF TypeInv, RowsInv
  <2>2. /\ NoticeRow(r) => Len(r.id) = 0
        /\ RootRow(r) => r.id[1] \in 1..Len(thread) /\ r.id = <<r.id[1]>>
        /\ SubRow(r) => Len(r.id) = 2
        /\ StopRow(r) => Len(r.id) >= 2
    BY <2>1, RowIds
  <2> HAVE Len(r.id) = 1
  <2> QED BY <2>1, <2>2 DEF RowForm
<1>6. \A j : Kept(j)' <=> Kept(j) \/ \E s \in new : s.id = <<j>> BY DEF Kept
<1>7. Len(thread) \in Nat BY ThreadIndex DEF TypeInv
<1>8. ASSUME NEW r \in rows', NEW s \in rows', Len(r.id) = 1, Len(s.id) = 1, r.id[1] < s.id[1]
      PROVE  r.seq < s.seq
  <2>1. CASE r \in rows /\ s \in rows BY <1>8, <2>1 DEF OrderInv, RowsInThreadOrder
  <2>2. CASE r \in rows /\ s \in new BY <1>4, <2>2
  <2>3. CASE r \in new /\ s \in new BY <1>8, <2>3
  <2>4. CASE r \in new /\ s \in rows
    <3> DEFINE i == r.id[1]
               j == s.id[1]
    <3>1. i \in 1..Len(thread) /\ r.id = <<i>> /\ j \in 1..Len(thread) /\ s.id = <<j>> BY <1>5, <1>8
    <3>2. Kept(j) BY <2>4, <3>1 DEF Kept
    <3>3. thread[i].kind # "report"
      <4>1. RootRow(r) BY <1>5, <1>8
      <4>2. PICK k \in 1..Len(thread) : r.id = <<k>> /\ thread[k].kind # "report" BY <4>1 DEF RootRow
      <4>3. k = i BY <4>2
      <4> QED BY <4>2, <4>3
    <3>4. i \in 1..j BY <1>7, <1>8, <3>1
    <3>5. Kept(i) BY <3>1, <3>2, <3>3, <3>4 DEF OrderInv, RecordedInv
    <3>6. Recorded(r.id) BY <3>1, <3>5 DEF Kept, Recorded, NoId
    <3> QED BY <2>4, <3>6 DEF Fresh
  <2> QED BY <2>1, <2>2, <2>3, <2>4
<1>9. RecordedInv'
  <2> SUFFICES ASSUME NEW j \in 1..Len(thread), Kept(j)', NEW i \in 1..j, thread[i].kind # "report"
               PROVE  Kept(i) \/ \E s \in new : s.id = <<i>>
    BY <1>6 DEF RecordedInv
  <2>1. CASE Kept(j) BY <2>1 DEF OrderInv, RecordedInv
  <2>2. CASE \E s \in new : s.id = <<j>>
    <3>1. PICK s \in new : s.id = <<j>> BY <2>2
    <3>2. Len(s.id) = 1 /\ s.id[1] = j BY <3>1
    <3> QED BY <3>1, <3>2
  <2> QED BY <1>6, <2>1, <2>2
<1>10. RowsInThreadOrder' BY <1>8 DEF RowsInThreadOrder
<1> QED BY <1>9, <1>10 DEF OrderInv

\* What the chat shows of a snapshot of the main agent.
LEMMA VisibleRoot ==
    ASSUME TypeInv, NEW e \in EventRecords, e.of = Root, e.n <= Len(thread)
    PROVE  \E n \in Nat : \E a \in [1..n -> 1..e.n] :
              /\ DOMAIN Visible(e) = 1..n
              /\ \A i \in 1..n : /\ thread[a[i]].kind # "report"
                                 /\ Visible(e)[i] = thread[a[i]]
              /\ \A j \in 1..e.n : thread[j].kind # "report" => \E i \in 1..n : a[i] = j
              /\ \A i, j \in 1..n : i < j => a[i] < a[j]
<1> DEFINE shown == {i \in 1..e.n : thread[i].kind # "report"}
           n == Cardinality(shown)
           a == Ascending(shown)
<1>1. e.n \in Nat BY DEF EventRecords
<1>2. IsFiniteSet(shown) /\ shown \in SUBSET Int
  <2>1. IsFiniteSet(1..e.n) BY <1>1, FS_Interval
  <2>2. shown \in SUBSET (1..e.n) OBVIOUS
  <2>3. shown \in SUBSET Int BY <1>1
  <2> HIDE DEF shown
  <2> QED BY <2>1, <2>2, <2>3, FS_Subset
<1>3. Visible(e) = [i \in 1..n |-> thread[a[i]]] BY DEF Visible
<1>4. \A i \in shown : i \in 1..e.n /\ thread[i].kind # "report" OBVIOUS
<1>5. \A j \in 1..e.n : thread[j].kind # "report" => j \in shown OBVIOUS
<1> HIDE DEF shown
<1>6. /\ n \in Nat /\ DOMAIN a = 1..n
      /\ \A i \in 1..n : a[i] \in shown
      /\ \A x \in shown : \E i \in 1..n : a[i] = x
      /\ \A i, j \in 1..n : i < j => a[i] < a[j]
  BY <1>2, AscendingLists
<1>7. a = [i \in 1..n |-> a[i]] BY <1>6 DEF Ascending
<1> HIDE DEF n, a
<1>8. a \in [1..n -> 1..e.n] BY <1>4, <1>6, <1>7
<1> QED BY <1>3, <1>4, <1>5, <1>6, <1>8

LEMMA VisibleSub ==
    ASSUME NEW e \in EventRecords, e.of # Root, e.n \in 1..3
    PROVE  /\ DOMAIN Visible(e) = 1..e.n
           /\ \A i \in 1..e.n :
                 /\ i \in 1..3
                 /\ Visible(e)[i] = SubagentMessages(e.of)[i]
                 /\ Visible(e)[i].id = <<e.of, i>>
                 /\ Visible(e)[i].id \in Ids
                 /\ Visible(e)[i].kind \in {"human", "call", "result"}
                 /\ Visible(e)[i].about \in Ids
<1> DEFINE s == SubagentMessages(e.of)
<1>1. Visible(e) = SubSeq(s, 1, e.n) BY DEF Visible
<1>2. e.of \in Nat /\ e.n \in Nat BY DEF EventRecords
<1>3. \A i \in 1..3 : /\ s[i].id = <<e.of, i>>
                      /\ s[i].kind \in {"human", "call", "result"}
                      /\ s[i].about \in {NoId, <<e.of, 2>>}
  <2> TAKE i \in 1..3
  <2>1. i = 1 \/ i = 2 \/ i = 3 OBVIOUS
  <2> QED BY <2>1 DEF SubagentMessages, Message
<1>4. \A i \in 1..3 : s[i].id \in Ids /\ s[i].about \in Ids
  <2>1. \A i \in 1..3 : <<e.of, i>> \in Ids BY <1>2 DEF Ids
  <2>2. NoId \in Ids BY DEF Ids, NoId
  <2>3. <<e.of, 2>> \in Ids BY <1>2 DEF Ids
  <2> QED BY <1>3, <2>1, <2>2, <2>3
<1> HIDE DEF s
<1>5. \A i \in 1..e.n : i \in 1..3 OBVIOUS
<1>6. DOMAIN SubSeq(s, 1, e.n) = 1..e.n /\ \A i \in 1..e.n : SubSeq(s, 1, e.n)[i] = s[i]
  <2>1. \A i \in 1..e.n : s[i] \in {s[j] : j \in 1..3} BY <1>5
  <2>2. 1 \in Int /\ e.n \in Int BY <1>2
  <2>3. /\ SubSeq(s, 1, e.n) \in Seq({s[j] : j \in 1..3})
        /\ Len(SubSeq(s, 1, e.n)) = e.n
        /\ \A i \in 1..e.n : SubSeq(s, 1, e.n)[i] = s[i]
    <3>1. /\ SubSeq(s, 1, e.n) \in Seq({s[j] : j \in 1..3})
          /\ Len(SubSeq(s, 1, e.n)) = IF 1 <= e.n THEN e.n - 1 + 1 ELSE 0
          /\ \A i \in 1..(e.n - 1 + 1) : SubSeq(s, 1, e.n)[i] = s[1 + i - 1]
      <4> DEFINE T == {s[j] : j \in 1..3}
      <4>1. \A i \in 1..e.n : s[i] \in T BY <2>1
      <4> HIDE DEF T
      <4>2. /\ SubSeq(s, 1, e.n) \in Seq(T)
            /\ Len(SubSeq(s, 1, e.n)) = IF 1 <= e.n THEN e.n - 1 + 1 ELSE 0
            /\ \A i \in 1..(e.n - 1 + 1) : SubSeq(s, 1, e.n)[i] = s[1 + i - 1]
        BY <2>2, <4>1, SubSeqProperties
      <4> QED BY <4>2 DEF T
    <3>2. e.n - 1 + 1 = e.n /\ \A i \in 1..e.n : 1 + i - 1 = i BY <1>2
    <3>3. 1 <= e.n OBVIOUS
    <3> QED BY <3>1, <3>2, <3>3
  <2> QED BY <2>3, LenProperties
<1> QED BY <1>1, <1>3, <1>4, <1>5, <1>6 DEF s

\* The rows HandleValues writes of the event e.
ValuesRows(e, new) ==
    /\ Fresh(new)
    /\ \A r \in new : RowForm(r) /\ ~StopRow(r)
    /\ \A i \in DOMAIN Visible(e) :
          Recorded(Visible(e)[i].id) \/ \E s \in new : s.id = Visible(e)[i].id
    /\ e.of = Root =>
          /\ \A r, s \in new : r.id[1] < s.id[1] => r.seq < s.seq
          /\ \A r \in new : Len(r.id) = 1 /\ r.id[1] \in 1..e.n
          /\ \A j \in 1..e.n : thread[j].kind # "report" => Kept(j) \/ \E s \in new : s.id = <<j>>
    /\ e.of # Root => \A r \in new : SubRow(r) /\ Len(r.id) = 2 /\ r.id[1] = e.of

LEMMA RootWrite ==
    ASSUME TypeInv, NEW e \in EventRecords, e.of = Root, e.n <= Len(thread),
           NEW offset \in Nat
    PROVE  ValuesRows(e, Written(Visible(e), offset, "deepagents"))
<1> DEFINE W == Written(Visible(e), offset, "deepagents")
           b == Base(NextSequence, offset)
           v == Visible(e)
<1>1. PICK n \in Nat : \E a \in [1..n -> 1..e.n] :
              /\ DOMAIN v = 1..n
              /\ \A i \in 1..n : thread[a[i]].kind # "report" /\ v[i] = thread[a[i]]
              /\ \A j \in 1..e.n : thread[j].kind # "report" => \E i \in 1..n : a[i] = j
              /\ \A i, j \in 1..n : i < j => a[i] < a[j]
  BY VisibleRoot
<1>2. PICK a \in [1..n -> 1..e.n] :
              /\ DOMAIN v = 1..n
              /\ \A i \in 1..n : thread[a[i]].kind # "report" /\ v[i] = thread[a[i]]
              /\ \A j \in 1..e.n : thread[j].kind # "report" => \E i \in 1..n : a[i] = j
              /\ \A i, j \in 1..n : i < j => a[i] < a[j]
  BY <1>1
<1> HIDE DEF v
<1>3. /\ rows \in SUBSET RowRecords /\ IsFiniteSet(rows) /\ e.n \in Nat /\ Len(thread) \in Nat
      /\ \A j \in 1..Len(thread) : thread[j] \in ThreadMessages /\ thread[j].id = <<j>>
  <2>1. rows \in SUBSET RowRecords /\ IsFiniteSet(rows) BY DEF TypeInv, TypeOK, RowsInv
  <2>2. e.n \in Nat BY DEF EventRecords
  <2>3. \A j \in 1..Len(thread) : thread[j].id = <<j>> BY DEF TypeInv, ThreadInv
  <2>4. Len(thread) \in Nat /\ \A j \in 1..Len(thread) : thread[j] \in ThreadMessages
    BY ThreadIndex DEF TypeInv
  <2> QED BY <2>1, <2>2, <2>3, <2>4
<1>4. \A i \in 1..n : a[i] \in 1..e.n /\ a[i] \in 1..Len(thread)
  <2> TAKE i \in 1..n
  <2>1. a[i] \in 1..e.n OBVIOUS
  <2> QED BY <1>3, <2>1
<1>5. \A i \in 1..n : v[i].id \in Ids /\ v[i].kind \in Kinds /\ v[i].about \in Ids
  BY <1>2, <1>3, <1>4, ZenonT(60) DEF ThreadMessages
<1>6. "deepagents" \in Sources BY DEF Sources
<1>7. /\ Fresh(W)
      /\ b \in Nat
      /\ \A r \in W : \E i \in 1..n : r = RowAt(v, i, offset, "deepagents") /\ ~Recorded(v[i].id)
      /\ \A i \in 1..n : ~Recorded(v[i].id) => RowAt(v, i, offset, "deepagents") \in W
  <2> DEFINE s == "deepagents"
  <2>1. s \in Sources BY <1>6
  <2> HIDE DEF s
  <2>2. IsWritten(v, n, offset, s) BY <1>2, <1>3, <1>5, <2>1, WrittenFresh
  <2> QED BY <2>2 DEF s, v, IsWritten
<1> HIDE DEF W
<1>8. \A i \in 1..n : LET r == RowAt(v, i, offset, "deepagents")
                      IN  /\ r.id = <<a[i]>> /\ r.seq = b + (i - 1)
                          /\ r.source = "deepagents"
                          /\ r.kind = thread[a[i]].kind /\ r.about = thread[a[i]].about
  BY <1>2, <1>3, <1>4 DEF RowAt
<1> HIDE DEF b
<1>9. \A r \in W : \E i \in 1..n :
        /\ r.id = <<a[i]>> /\ r.seq = b + (i - 1) /\ r.source = "deepagents"
        /\ r.kind = thread[a[i]].kind /\ r.about = thread[a[i]].about
  <2> TAKE r \in W
  <2>1. PICK i \in 1..n : r = RowAt(v, i, offset, "deepagents") BY <1>7
  <2>2. /\ r.id = <<a[i]>> /\ r.seq = b + (i - 1) /\ r.source = "deepagents"
        /\ r.kind = thread[a[i]].kind /\ r.about = thread[a[i]].about
    BY <1>8, <2>1
  <2> QED BY <2>2
<1>10. \A r \in W : RootRow(r) BY <1>2, <1>4, <1>9, ZenonT(60) DEF RootRow
<1>11. W \in SUBSET RowRecords BY <1>7 DEF Fresh
<1>12. \A r \in W : RowForm(r) /\ ~StopRow(r) /\ Len(r.id) = 1
  <2> TAKE r \in W
  <2>1. /\ RootRow(r) => Len(r.id) = 1
        /\ StopRow(r) => Len(r.id) >= 2
    BY <1>11, RowIds
  <2>2. RootRow(r) BY <1>10
  <2>3. Len(r.id) = 1 BY <2>1, <2>2
  <2>4. ~StopRow(r) BY <2>1, <2>3
  <2> QED BY <2>2, <2>3, <2>4 DEF RowForm
<1>13. \A r \in W : r.id[1] \in 1..e.n BY <1>4, <1>9
<1>14. ASSUME NEW r \in W, NEW s \in W, r.id[1] < s.id[1] PROVE r.seq < s.seq
  <2>1. PICK i \in 1..n : r.id = <<a[i]>> /\ r.seq = b + (i - 1) BY <1>9
  <2>2. PICK j \in 1..n : s.id = <<a[j]>> /\ s.seq = b + (j - 1) BY <1>9
  <2>3. a[i] < a[j] BY <1>14, <2>1, <2>2
  <2>4. a[i] \in Int /\ a[j] \in Int BY <1>3, <1>4
  <2>5. i < j
    <3>1. j < i => a[j] < a[i] BY <1>2
    <3>2. i = j => a[i] = a[j] OBVIOUS
    <3> QED BY <2>3, <2>4, <3>1, <3>2
  <2> QED BY <1>7, <2>1, <2>2, <2>5
<1>15. ASSUME NEW j \in 1..e.n, thread[j].kind # "report"
       PROVE  Kept(j) \/ \E s \in W : s.id = <<j>>
  <2>1. PICK i \in 1..n : a[i] = j BY <1>2, <1>15
  <2>2. v[i].id = <<j>> BY <1>2, <1>3, <1>4, <2>1
  <2>3. CASE Recorded(v[i].id) BY <2>2, <2>3 DEF Recorded, Kept
  <2>4. CASE ~Recorded(v[i].id) BY <1>7, <1>8, <2>1, <2>4
  <2> QED BY <2>3, <2>4
<1>16. \A i \in DOMAIN v : Recorded(v[i].id) \/ \E s \in W : s.id = v[i].id
  <2>1. DOMAIN v = 1..n BY <1>2
  <2>2. \A i \in 1..n : RowAt(v, i, offset, "deepagents").id = v[i].id BY DEF RowAt
  <2> QED BY <1>7, <2>1, <2>2
<1> QED BY <1>7, <1>12, <1>13, <1>14, <1>15, <1>16 DEF ValuesRows, W, v

LEMMA SubWrite ==
    ASSUME TypeInv, NEW e \in EventRecords, e.of # Root, e.n \in 1..3, e.of <= Len(thread),
           NEW offset \in Nat
    PROVE  ValuesRows(e, Written(Visible(e), offset, "subagent"))
<1> DEFINE src == "subagent"
           W == Written(Visible(e), offset, src)
           v == Visible(e)
<1>1. /\ DOMAIN v = 1..e.n
      /\ \A i \in 1..e.n :
            /\ i \in 1..3 /\ v[i] = SubagentMessages(e.of)[i] /\ v[i].id = <<e.of, i>>
            /\ v[i].id \in Ids /\ v[i].kind \in {"human", "call", "result"} /\ v[i].about \in Ids
  BY VisibleSub
<1> HIDE DEF v
<1>2. rows \in SUBSET RowRecords /\ IsFiniteSet(rows) /\ e.n \in Nat
  BY DEF TypeInv, TypeOK, RowsInv, EventRecords
<1>3. \A i \in 1..e.n : v[i].id \in Ids /\ v[i].kind \in Kinds /\ v[i].about \in Ids
  BY <1>1 DEF Kinds
<1>4. src \in Sources BY DEF Sources
<1> HIDE DEF src
<1>5. IsWritten(v, e.n, offset, src) BY <1>1, <1>2, <1>3, <1>4, WrittenFresh
<1>6. /\ Fresh(W) /\ \A r \in W : \E i \in 1..e.n : r = RowAt(v, i, offset, src)
      /\ \A i \in 1..e.n : ~Recorded(v[i].id) => RowAt(v, i, offset, src) \in W
  BY <1>5 DEF v, IsWritten
<1> HIDE DEF W
<1>7. e.of \in 1..Len(thread)
  <2>1. e.of \in Nat /\ e.of # 0 BY DEF EventRecords, Root
  <2> QED BY <2>1, ThreadIndex DEF TypeInv
<1>8. \A r \in W : SubRow(r) /\ r.id[1] = e.of
  <2> TAKE r \in W
  <2>1. PICK i \in 1..e.n : r = RowAt(v, i, offset, src) BY <1>6
  <2>2. /\ r.id = v[i].id /\ r.kind = v[i].kind /\ r.about = v[i].about /\ r.source = src
    BY <2>1 DEF RowAt
  <2>3. /\ i \in 1..3 /\ v[i] = SubagentMessages(e.of)[i] /\ v[i].id = <<e.of, i>> BY <1>1
  <2> QED BY <1>7, <2>2, <2>3 DEF SubRow, src
<1>9. W \in SUBSET RowRecords BY <1>6 DEF Fresh
<1>10. \A r \in W : ~StopRow(r) /\ Len(r.id) = 2
  <2> TAKE r \in W
  <2>1. /\ SubRow(r) => Len(r.id) = 2 /\ r.id[1] \in 1..Len(thread)
        /\ StopRow(r) => r.id[1] = 0
    BY <1>9, RowIds
  <2>2. Len(thread) \in Nat BY ThreadIndex DEF TypeInv
  <2> QED BY <1>8, <2>1, <2>2
<1>11. \A i \in DOMAIN v : Recorded(v[i].id) \/ \E s \in W : s.id = v[i].id
  <2>1. \A i \in 1..e.n : RowAt(v, i, offset, src).id = v[i].id BY DEF RowAt
  <2> QED BY <1>1, <1>6, <2>1
<1> QED BY <1>6, <1>8, <1>10, <1>11 DEF ValuesRows, RowForm, W, src, v

\* What HandleValues does.
LEMMA HandleEffect ==
    ASSUME TypeInv, HandleValues
    PROVE  LET e == Head(events)
           IN  /\ e \in EventRecords /\ e = events[1] /\ Len(events) >= 1 /\ e.of \in 0..MaxMessages
               /\ phase' = IF e.interrupt THEN "idle" ELSE "running"
               /\ \/ /\ e.n <= counted[e.of]
                     /\ UNCHANGED <<counted, rows, dbFails>>
                  \/ /\ e.n > counted[e.of]
                     /\ counted' = [counted EXCEPT ![e.of] = e.n]
                     /\ \/ /\ dbFails' = dbFails + 1 /\ dbFails < MaxDbFails /\ rows' = rows
                        \/ /\ dbFails' = dbFails
                           /\ \E new : ValuesRows(e, new) /\ rows' = rows \cup new
<1> DEFINE e == Head(events)
<1>1. e \in EventRecords /\ e = events[1] /\ Len(events) >= 1 /\ Len(events) \in Nat
  BY TailIndex DEF HandleValues, TypeInv, TypeOK
<1>2. 1 \in 1..Len(events) BY <1>1
<1>3. /\ e.of <= Len(thread)
      /\ e.of = Root => e.n <= Len(thread)
      /\ e.of # Root => e.n \in 1..3
  BY <1>1, <1>2 DEF TypeInv, EventsInv
<1>4. e.of \in 0..MaxMessages /\ e.n \in Nat BY <1>1, ConstantsAssumption DEF EventRecords, ConstantsAssumption
<1>5. counted[e.of] \in Nat BY <1>4 DEF TypeInv, TypeOK
<1>6. phase' = IF e.interrupt THEN "idle" ELSE "running" BY DEF HandleValues
<1>7. IF e.n > counted[e.of]
      THEN /\ counted' = [counted EXCEPT ![e.of] = e.n]
           /\ Transaction(Written(Visible(e), counted[e.of], IF e.of = Root THEN "deepagents" ELSE "subagent"))
      ELSE UNCHANGED <<counted, rows, dbFails>>
  BY DEF HandleValues, Batch
<1> HIDE DEF e
<1>8. CASE ~ e.n > counted[e.of]
  <2>1. e.n <= counted[e.of] BY <1>4, <1>5, <1>8
  <2> QED BY <1>1, <1>4, <1>6, <1>7, <1>8, <2>1 DEF e
<1>9. CASE e.n > counted[e.of]
  <2> DEFINE W == Written(Visible(e), counted[e.of], IF e.of = Root THEN "deepagents" ELSE "subagent")
  <2>1. ValuesRows(e, W)
    <3>1. CASE e.of = Root
      <4>1. ValuesRows(e, Written(Visible(e), counted[e.of], "deepagents"))
        BY <1>1, <1>3, <1>5, <3>1, RootWrite
      <4> QED BY <3>1, <4>1
    <3>2. CASE e.of # Root
      <4>1. ValuesRows(e, Written(Visible(e), counted[e.of], "subagent"))
        BY <1>1, <1>3, <1>5, <3>2, SubWrite
      <4> QED BY <3>2, <4>1
    <3> QED BY <3>1, <3>2
  <2>2. Transaction(W) /\ counted' = [counted EXCEPT ![e.of] = e.n] BY <1>7, <1>9
  <2> HIDE DEF W
  <2>3. \/ rows' = rows \cup W /\ dbFails' = dbFails
        \/ dbFails < MaxDbFails /\ dbFails' = dbFails + 1 /\ rows' = rows
    BY <2>2 DEF Transaction
  <2> QED BY <1>1, <1>4, <1>6, <1>9, <2>1, <2>2, <2>3 DEF e
<1> QED BY <1>8, <1>9

LEMMA HandleEvents ==
    ASSUME TypeInv, HandleValues
    PROVE  /\ EventsInv' /\ events' \in Seq(EventRecords)
           /\ counted' \in [0..MaxMessages -> 0..(MaxMessages + 3)]
           /\ counted'[Root] = IF Head(events).of = Root /\ Head(events).n > counted[Root]
                               THEN Head(events).n ELSE counted[Root]
<1> DEFINE e == Head(events)
<1>1. /\ Len(events) \in Nat /\ Len(events) >= 1 /\ e = events[1] /\ e \in EventRecords
      /\ events' \in Seq(EventRecords) /\ Len(events') = Len(events) - 1
      /\ \A i \in 1..(Len(events) - 1) : events'[i] = events[i + 1]
      /\ events' = Tail(events)
  BY TailIndex DEF HandleValues, TypeInv, TypeOK
<1>2. /\ e.of \in 0..MaxMessages
      /\ phase' = IF e.interrupt THEN "idle" ELSE "running"
      /\ \/ e.n <= counted[e.of] /\ counted' = counted
         \/ e.n > counted[e.of] /\ counted' = [counted EXCEPT ![e.of] = e.n]
  BY HandleEffect
<1>3. thread' = thread /\ node' = node BY DEF HandleValues
<1> HIDE DEF e
<1>4. counted \in [0..MaxMessages -> 0..(MaxMessages + 3)] /\ Root \in 0..MaxMessages
  BY RootCounted DEF TypeInv, TypeOK
<1>5. e.n \in 0..(MaxMessages + 3) /\ e.n \in Int BY <1>1, ConstantsAssumption DEF EventRecords, ConstantsAssumption
<1>6. counted' \in [0..MaxMessages -> 0..(MaxMessages + 3)] BY <1>2, <1>4, <1>5
<1>7. counted'[Root] = IF e.of = Root /\ e.n > counted[Root] THEN e.n ELSE counted[Root]
  <2>1. counted[Root] \in Int BY <1>4
  <2>2. CASE e.of = Root
    <3>1. CASE e.n <= counted[Root]
      <4>1. ~ e.n > counted[Root] BY <1>5, <2>1, <3>1
      <4>2. counted' = counted BY <1>2, <2>2, <4>1
      <4> QED BY <4>1, <4>2
    <3>2. CASE e.n > counted[Root]
      <4>1. ~ e.n <= counted[Root] BY <1>5, <2>1, <3>2
      <4>2. counted' = [counted EXCEPT ![Root] = e.n] BY <1>2, <2>2, <4>1
      <4> QED BY <1>4, <2>2, <3>2, <4>2
    <3> QED BY <1>5, <2>1, <3>1, <3>2
  <2>3. CASE e.of # Root BY <1>2, <1>4, <2>3
  <2> QED BY <2>2, <2>3
<1>8. 1 \in 1..Len(events) BY <1>1
<1>9. e.of = Root => e.n <= Len(thread) BY <1>1, <1>8 DEF TypeInv, EventsInv
<1>10. counted'[Root] <= Len(thread') BY <1>3, <1>7, <1>9 DEF TypeInv, EventsInv
<1>11. \A p \in 1..Len(events') :
          /\ p \in Int /\ p + 1 \in 1..Len(events) /\ events'[p] = events[p + 1]
          /\ p + 1 = Len(events) => p = Len(events')
          /\ events' # <<>>
  <2>1. events' = <<>> <=> Len(events') = 0 BY <1>1, SeqIndex
  <2> TAKE p \in 1..Len(events')
  <2>3. p \in 1..(Len(events) - 1) /\ Len(events) \in Nat BY <1>1
  <2>4. p \in Int /\ p + 1 \in 1..Len(events) /\ Len(events) - 1 # 0
    <3>1. \A k \in Nat : \A x \in 1..(k - 1) : x \in Int /\ x + 1 \in 1..k /\ k - 1 # 0
      OBVIOUS
    <3> QED BY <2>3, <3>1
  <2>5. p + 1 = Len(events) => p = Len(events) - 1 BY <2>3
  <2>6. events'[p] = events[p + 1] BY <1>1, <2>3
  <2>7. events' # <<>> BY <1>1, <2>1, <2>4
  <2> QED BY <1>1, <2>4, <2>5, <2>6, <2>7
<1>12. e.interrupt => events' = <<>>
  <2>1. e.interrupt => 1 = Len(events) BY <1>1, <1>8 DEF TypeInv, EventsInv
  <2>2. Len(events') = 0 => events' = <<>> BY <1>1, SeqIndex
  <2> QED BY <1>1, <2>1, <2>2
<1>13. phase' # "running" => events' = <<>> BY <1>2, <1>12
<1>14. ASSUME NEW p \in 1..Len(events')
       PROVE  /\ events'[p].of <= Len(thread')
              /\ events'[p].of = Root => events'[p].n <= Len(thread')
              /\ events'[p].of # Root => events'[p].n \in 1..3 /\ ~events'[p].interrupt
              /\ events'[p].interrupt => p = Len(events') /\ node' = "none"
  <2>1. p + 1 \in 1..Len(events) /\ events'[p] = events[p + 1] BY <1>11
  <2>2. p + 1 = Len(events) => p = Len(events') BY <1>11
  <2> QED BY <1>3, <2>1, <2>2 DEF TypeInv, EventsInv
<1>15. ASSUME NEW p \in 1..Len(events'), IsRoot(events'[p])
       PROVE  events'[p].n > counted'[Root]
  <2>1. p + 1 \in 1..Len(events) /\ events'[p] = events[p + 1] /\ 1 < p + 1 BY <1>11
  <2>2. events'[p].n > counted[Root] BY <1>15, <2>1 DEF TypeInv, EventsInv
  <2>3. ~e.interrupt BY <1>11, <1>12
  <2>4. ASSUME e.of = Root PROVE e.n < events'[p].n
    <3>1. IsRoot(events[1]) BY <1>1, <2>3, <2>4 DEF IsRoot
    <3>2. IsRoot(events[p + 1]) BY <1>15, <2>1
    <3>3. events[1].n < events[p + 1].n BY <1>8, <2>1, <3>1, <3>2 DEF TypeInv, EventsInv
    <3> QED BY <1>1, <2>1, <3>3
  <2>5. events'[p].n \in Int /\ counted[Root] \in Int
    <3>1. events'[p] \in EventRecords BY <1>1, SeqIndex
    <3> QED BY <3>1, <1>4 DEF EventRecords
  <2> QED BY <1>5, <1>7, <2>2, <2>4, <2>5
<1>16. ASSUME NEW p \in 1..Len(events'), NEW q \in 1..Len(events'), p < q,
              IsRoot(events'[p]), IsRoot(events'[q])
       PROVE  events'[p].n < events'[q].n
  <2>1. p + 1 \in 1..Len(events) /\ events'[p] = events[p + 1] BY <1>11
  <2>2. q + 1 \in 1..Len(events) /\ events'[q] = events[q + 1] BY <1>11
  <2>3. p + 1 < q + 1 BY <1>1, <1>16
  <2>4. IsRoot(events[p + 1]) /\ IsRoot(events[q + 1]) BY <1>16, <2>1, <2>2
  <2> QED BY <2>1, <2>2, <2>3, <2>4 DEF TypeInv, EventsInv
<1>17. EventsInv' BY <1>10, <1>13, <1>14, <1>15, <1>16 DEF EventsInv
<1> QED BY <1>1, <1>6, <1>7, <1>17 DEF e

LEMMA HandleType == TypeInv /\ HandleValues => TypeInv' /\ (OrderInv => OrderInv')
<1> SUFFICES ASSUME TypeInv, HandleValues PROVE TypeInv' /\ (OrderInv => OrderInv') OBVIOUS
<1> DEFINE e == Head(events)
<1>1. /\ phase = "running"
      /\ UNCHANGED <<thread, seen, asked, turn, node, found, stamps, notices, fails, cancels>>
  BY DEF HandleValues
<1>2. /\ e \in EventRecords
      /\ phase' = IF e.interrupt THEN "idle" ELSE "running"
      /\ \/ rows' = rows /\ dbFails' \in 0..MaxDbFails
         \/ dbFails' = dbFails /\ \E new : ValuesRows(e, new) /\ rows' = rows \cup new
  <2>1. dbFails \in 0..MaxDbFails /\ MaxDbFails \in Nat
    BY ConstantsAssumption DEF TypeInv, TypeOK, ConstantsAssumption
  <2>2. dbFails < MaxDbFails => dbFails + 1 \in 0..MaxDbFails BY <2>1
  <2> QED BY <2>1, <2>2, HandleEffect
<1>3. /\ EventsInv' /\ events' \in Seq(EventRecords)
      /\ counted' \in [0..MaxMessages -> 0..(MaxMessages + 3)]
  BY HandleEvents
<1>4. turn \in Nat /\ dbFails \in 0..MaxDbFails BY DEF TypeInv, TypeOK
<1>5. e.interrupt => node = "none"
  <2>1. 1 \in 1..Len(events) /\ e = events[1] BY HandleEffect, ThreadIndex DEF TypeInv
  <2> QED BY <2>1 DEF TypeInv, EventsInv
<1>6. NodeInv' BY <1>1, <1>2, <1>5 DEF TypeInv, NodeInv
<1>7. ThreadInv' BY <1>1 DEF TypeInv, ThreadInv
<1>8. ASSUME rows' \in SUBSET RowRecords, dbFails' \in 0..MaxDbFails PROVE TypeOK'
  BY <1>1, <1>2, <1>3, <1>8 DEF TypeInv, TypeOK
<1> HIDE DEF e
<1>9. CASE rows' = rows /\ dbFails' \in 0..MaxDbFails
  <2>1. RowsInv' /\ (OrderInv => OrderInv') BY <1>1, <1>4, <1>9, SameThread
  <2>2. rows' \in SUBSET RowRecords BY <1>9 DEF TypeInv, TypeOK
  <2> QED BY <1>3, <1>6, <1>7, <1>8, <1>9, <2>1, <2>2 DEF TypeInv
<1>10. CASE dbFails' = dbFails /\ \E new : ValuesRows(e, new) /\ rows' = rows \cup new
  <2>1. PICK new : ValuesRows(e, new) /\ rows' = rows \cup new BY <1>10
  <2>2. Fresh(new) /\ \A r \in new : RowForm(r) /\ (StopRow(r) => Recorded(r.about))
    BY <2>1 DEF ValuesRows
  <2>3. RowsInv' /\ rows' \in SUBSET RowRecords BY <1>1, <2>1, <2>2, RowsAdded
  <2>4. TypeInv' BY <1>3, <1>4, <1>6, <1>7, <1>8, <1>10, <2>3 DEF TypeInv
  <2>5. ASSUME OrderInv PROVE OrderInv'
    <3>1. CASE e.of = Root
      <4>1. \A r, s \in new : Len(r.id) = 1 /\ Len(s.id) = 1 /\ r.id[1] < s.id[1] => r.seq < s.seq
        BY <2>1, <3>1 DEF ValuesRows
      <4>2. ASSUME NEW r \in new, Len(r.id) = 1, NEW i \in 1..r.id[1], thread[i].kind # "report"
            PROVE  Kept(i) \/ \E s \in new : s.id = <<i>>
        <5>1. r.id[1] \in 1..e.n /\ e.n \in Nat BY <1>2, <2>1, <3>1 DEF ValuesRows, EventRecords
        <5>2. i \in 1..e.n BY <5>1
        <5> QED BY <2>1, <3>1, <4>2, <5>2 DEF ValuesRows
      <4> QED BY <1>1, <2>1, <2>2, <2>5, <4>1, <4>2, OrderAdded
    <3>2. CASE e.of # Root
      <4>1. \A r \in new : Len(r.id) = 2 BY <2>1, <3>2 DEF ValuesRows
      <4>2. \A r, s \in new : Len(r.id) = 1 /\ Len(s.id) = 1 /\ r.id[1] < s.id[1] => r.seq < s.seq
        BY <4>1
      <4>3. \A r \in new : Len(r.id) = 1 => \A i \in 1..r.id[1] :
              thread[i].kind # "report" => Kept(i) \/ \E s \in new : s.id = <<i>>
        BY <4>1
      <4> QED BY <1>1, <2>1, <2>2, <2>5, <4>2, <4>3, OrderAdded
    <3> QED BY <3>1, <3>2
  <2> QED BY <2>4, <2>5
<1> QED BY <1>2, <1>9, <1>10

\* A request's notice.
LEMMA NoticeWrite ==
    ASSUME TypeInv, NEW kind \in {"notice", "report"}
    PROVE  LET W == Written(<<Message(NoId, kind, NoId)>>, 0, "notification")
           IN  Fresh(W) /\ \A r \in W : NoticeRow(r) /\ ~StopRow(r) /\ Len(r.id) = 0
<1> DEFINE m == <<Message(NoId, kind, NoId)>>
           src == "notification"
           W == Written(m, 0, src)
<1>1. rows \in SUBSET RowRecords /\ IsFiniteSet(rows) BY DEF TypeInv, TypeOK, RowsInv
<1>2. /\ DOMAIN m = 1..1
      /\ m[1].id = NoId /\ m[1].kind = kind /\ m[1].about = NoId
  BY DEF Message
<1>3. NoId \in Ids /\ kind \in Kinds BY DEF NoId, Ids, Kinds
<1>4. src \in Sources BY DEF Sources
<1> HIDE DEF m
<1>5. \A i \in 1..1 : i = 1 OBVIOUS
<1>6. \A i \in 1..1 : m[i].id \in Ids /\ m[i].kind \in Kinds /\ m[i].about \in Ids
  BY <1>2, <1>3, <1>5
<1>7. 0 \in Nat /\ 1 \in Nat OBVIOUS
<1> HIDE DEF src
<1>8. IsWritten(m, 1, 0, src) BY <1>1, <1>2, <1>4, <1>6, <1>7, WrittenFresh
<1>9. Fresh(W) /\ \A r \in W : \E i \in 1..1 : r = RowAt(m, i, 0, src)
  BY <1>8 DEF IsWritten
<1> HIDE DEF W
<1>10. W \in SUBSET RowRecords BY <1>9 DEF Fresh
<1>11. \A r \in W : NoticeRow(r) BY <1>2, <1>5, <1>9 DEF RowAt, NoticeRow, src
<1>12. \A r \in W : Len(r.id) = 0 /\ ~StopRow(r)
  <2> TAKE r \in W
  <2>1. /\ NoticeRow(r) => Len(r.id) = 0
        /\ StopRow(r) => Len(r.id) >= 2
    BY <1>10, RowIds
  <2> QED BY <1>11, <2>1
<1> QED BY <1>9, <1>11, <1>12 DEF W, m, src

LEMMA NoticeType == TypeInv /\ Notice => TypeInv' /\ (OrderInv => OrderInv')
<1> SUFFICES ASSUME TypeInv, Notice PROVE TypeInv' /\ (OrderInv => OrderInv') OBVIOUS
<1>1. /\ notices < MaxNotices /\ notices' = notices + 1
      /\ UNCHANGED <<thread, seen, asked, turn, phase, node, found, events, counted, stamps,
                     fails, cancels>>
  BY DEF Notice
<1>2. PICK kind \in {"notice", "report"} : Transaction(Written(<<Message(NoId, kind, NoId)>>, 0, "notification"))
  BY DEF Notice
<1> DEFINE W == Written(<<Message(NoId, kind, NoId)>>, 0, "notification")
<1>3. Fresh(W) /\ \A r \in W : NoticeRow(r) /\ ~StopRow(r) /\ Len(r.id) = 0 BY NoticeWrite
<1>4. \/ rows' = rows \cup W /\ dbFails' = dbFails
      \/ dbFails < MaxDbFails /\ dbFails' = dbFails + 1 /\ rows' = rows
  BY <1>2 DEF Transaction
<1> HIDE DEF W
<1>5. notices' \in 0..MaxNotices /\ turn \in Nat /\ dbFails' \in 0..MaxDbFails
  BY <1>1, <1>4, ConstantsAssumption, SMTT(60) DEF TypeInv, TypeOK, ConstantsAssumption
<1>6. ThreadInv' /\ EventsInv' /\ NodeInv' BY <1>1 DEF TypeInv, ThreadInv, EventsInv, NodeInv
<1>7. rows' \in SUBSET RowRecords => TypeOK' BY <1>1, <1>5 DEF TypeInv, TypeOK
<1>8. CASE rows' = rows
  <2>1. RowsInv' /\ (OrderInv => OrderInv') BY <1>1, <1>5, <1>8, SameThread
  <2>2. rows' \in SUBSET RowRecords BY <1>8 DEF TypeInv, TypeOK
  <2> QED BY <1>6, <1>7, <2>1, <2>2 DEF TypeInv
<1>9. CASE rows' = rows \cup W
  <2>1. \A r \in W : RowForm(r) /\ (StopRow(r) => Recorded(r.about)) BY <1>3 DEF RowForm
  <2>2. RowsInv' /\ rows' \in SUBSET RowRecords BY <1>1, <1>3, <1>9, <2>1, RowsAdded
  <2>3. OrderInv => OrderInv'
    <3>1. \A r, s \in W : Len(r.id) = 1 /\ Len(s.id) = 1 /\ r.id[1] < s.id[1] => r.seq < s.seq
      BY <1>3
    <3>2. \A r \in W : Len(r.id) = 1 => \A i \in 1..r.id[1] :
              thread[i].kind # "report" => Kept(i) \/ \E s \in W : s.id = <<i>>
      BY <1>3
    <3> QED BY <1>1, <1>3, <1>9, <2>1, <3>1, <3>2, OrderAdded
  <2> QED BY <1>6, <1>7, <2>2, <2>3 DEF TypeInv
<1> QED BY <1>4, <1>8, <1>9

\* A stamp changes nothing of a row but its checkpoint.
LEMMA StampedRow ==
    ASSUME NEW r \in RowRecords, NEW c \in Nat
    PROVE  /\ Stamped(r, c) \in RowRecords
           /\ Stamped(r, c).seq = r.seq /\ Stamped(r, c).id = r.id
           /\ Stamped(r, c).kind = r.kind /\ Stamped(r, c).about = r.about
           /\ Stamped(r, c).source = r.source
           /\ Stamped(r, c).checkpoint = IF r.checkpoint = 0 THEN c ELSE r.checkpoint
           /\ RowForm(Stamped(r, c)) <=> RowForm(r)
           /\ StopRow(Stamped(r, c)) <=> StopRow(r)
           /\ SubRow(Stamped(r, c)) <=> SubRow(r)
<1>1. /\ Stamped(r, c) \in RowRecords
      /\ Stamped(r, c).seq = r.seq /\ Stamped(r, c).id = r.id
      /\ Stamped(r, c).kind = r.kind /\ Stamped(r, c).about = r.about
      /\ Stamped(r, c).source = r.source
      /\ Stamped(r, c).checkpoint = IF r.checkpoint = 0 THEN c ELSE r.checkpoint
  BY DEF Stamped, RowRecords
<1> DEFINE x == Stamped(r, c)
<1> HIDE DEF x
<1>2. x.seq = r.seq /\ x.id = r.id /\ x.kind = r.kind /\ x.about = r.about /\ x.source = r.source
  BY <1>1 DEF x
<1>3. /\ NoticeRow(x) <=> NoticeRow(r)
      /\ RootRow(x) <=> RootRow(r)
      /\ SubRow(x) <=> SubRow(r)
      /\ StopRow(x) <=> StopRow(r)
  BY <1>2 DEF NoticeRow, RootRow, SubRow, StopRow
<1> QED BY <1>1, <1>3 DEF RowForm, x

LEMMA StampRows ==
    ASSUME TypeInv, NEW c \in Nat, rows' = {Stamped(r, c) : r \in rows}, thread' = thread
    PROVE  RowsInv' /\ (OrderInv => OrderInv') /\ rows' \in SUBSET RowRecords
<1>1. rows \in SUBSET RowRecords /\ IsFiniteSet(rows) BY DEF TypeInv, TypeOK, RowsInv
<1>2. \A r \in rows :
        /\ Stamped(r, c) \in rows' /\ Stamped(r, c) \in RowRecords
        /\ Stamped(r, c).seq = r.seq /\ Stamped(r, c).id = r.id /\ Stamped(r, c).about = r.about
        /\ RowForm(Stamped(r, c)) <=> RowForm(r)
        /\ StopRow(Stamped(r, c)) <=> StopRow(r)
  <2> TAKE r \in rows
  <2>1. r \in RowRecords BY <1>1
  <2> QED BY <2>1, StampedRow
<1>3. \A x \in rows' : \E r \in rows : x = Stamped(r, c) OBVIOUS
<1>4. IsFiniteSet(rows')
  <2> DEFINE f == [r \in rows |-> Stamped(r, c)]
  <2>1. f \in Surjection(rows, rows') BY <1>2, <1>3 DEF Surjection
  <2> QED BY <1>1, <2>1, FS_Surjection
<1>5. rows' \in SUBSET RowRecords BY <1>2, <1>3
<1>6. \A x \in rows' : RowForm(x) BY <1>2, <1>3 DEF TypeInv, RowsInv
<1>7. \A x, y \in rows' : x.seq = y.seq => x = y
  <2> SUFFICES ASSUME NEW r \in rows, NEW s \in rows, Stamped(r, c).seq = Stamped(s, c).seq
               PROVE  Stamped(r, c) = Stamped(s, c)
    BY <1>3
  <2>1. r = s BY <1>2 DEF TypeInv, RowsInv
  <2> QED BY <2>1
<1>8. \A id : Recorded(id)' <=> Recorded(id)
  <2>1. ASSUME NEW id PROVE (\E x \in rows' : x.id = id) <=> \E r \in rows : r.id = id
    BY <1>2, <1>3
  <2> QED BY <2>1 DEF Recorded
<1>9. ASSUME NEW x \in rows', StopRow(x)
      PROVE  Recorded(x.about) /\ \A y \in rows' : y.id = x.about => y.seq < x.seq
  <2>1. PICK r \in rows : x = Stamped(r, c) BY <1>3
  <2>2. StopRow(r) /\ x.about = r.about /\ x.seq = r.seq BY <1>2, <1>9, <2>1
  <2>3. Recorded(r.about) /\ \A s \in rows : s.id = r.about => s.seq < r.seq
    BY <2>2 DEF TypeInv, RowsInv
  <2>4. ASSUME NEW y \in rows', y.id = x.about PROVE y.seq < x.seq
    <3>1. PICK s \in rows : y = Stamped(s, c) BY <1>3
    <3> QED BY <1>2, <2>2, <2>3, <2>4, <3>1
  <2> QED BY <2>2, <2>3, <2>4
<1>10. \A x : (RowForm(x)' <=> RowForm(x)) /\ (StopRow(x)' <=> StopRow(x))
  BY DEF RowForm, NoticeRow, RootRow, SubRow, StopRow
<1>11. RowsInv' BY <1>4, <1>6, <1>7, <1>8, <1>9, <1>10 DEF RowsInv
<1>12. ASSUME OrderInv PROVE OrderInv'
  <2>1. \A j : Kept(j)' <=> Kept(j)
    <3>1. ASSUME NEW j PROVE (\E x \in rows' : x.id = <<j>>) <=> \E r \in rows : r.id = <<j>>
      BY <1>2, <1>3
    <3> QED BY <3>1 DEF Kept
  <2>2. RecordedInv' BY <1>12, <2>1 DEF OrderInv, RecordedInv
  <2>3. ASSUME NEW x \in rows', NEW y \in rows', Len(x.id) = 1, Len(y.id) = 1, x.id[1] < y.id[1]
        PROVE  x.seq < y.seq
    <3>1. PICK r \in rows : x = Stamped(r, c) BY <1>3
    <3>2. PICK s \in rows : y = Stamped(s, c) BY <1>3
    <3>3. x.id = r.id /\ x.seq = r.seq /\ y.id = s.id /\ y.seq = s.seq BY <1>2, <3>1, <3>2
    <3> QED BY <1>12, <2>3, <3>3 DEF OrderInv, RowsInThreadOrder
  <2>4. RowsInThreadOrder' BY <2>3 DEF RowsInThreadOrder
  <2> QED BY <2>2, <2>4 DEF OrderInv
<1> QED BY <1>5, <1>11, <1>12

LEMMA StampType ==
    ASSUME TypeInv, NEW s \in stamps, Stamp(s)
    PROVE  TypeInv' /\ (OrderInv => OrderInv')
<1>1. /\ stamps' = stamps \ {s}
      /\ \/ rows' = {Stamped(r, s.checkpoint) : r \in rows} /\ dbFails' = dbFails
         \/ dbFails < MaxDbFails /\ dbFails' = dbFails + 1 /\ rows' = rows
      /\ phase' = IF phase = "stamping" /\ s.turn = turn THEN "idle" ELSE phase
      /\ UNCHANGED <<thread, seen, asked, turn, node, found, events, counted, notices, fails, cancels>>
  BY DEF Stamp
<1>2. s \in [turn : 1..MaxTurns, checkpoint : 1..MaxMessages] BY DEF TypeInv, TypeOK
<1>3. s.checkpoint \in Nat BY <1>2, ConstantsAssumption DEF ConstantsAssumption
<1>4. turn \in Nat /\ dbFails' \in 0..MaxDbFails
  BY <1>1, ConstantsAssumption, SMTT(60) DEF TypeInv, TypeOK, ConstantsAssumption
<1>5. RowsInv' /\ (OrderInv => OrderInv') /\ rows' \in SUBSET RowRecords
  <2>1. CASE rows' = {Stamped(r, s.checkpoint) : r \in rows} BY <1>1, <1>3, <2>1, StampRows
  <2>2. CASE rows' = rows
    <3>1. RowsInv' /\ (OrderInv => OrderInv') BY <1>1, <1>4, <2>2, SameThread
    <3> QED BY <2>2, <3>1 DEF TypeInv, TypeOK
  <2> QED BY <1>1, <2>1, <2>2
<1>6. ThreadInv' BY <1>1 DEF TypeInv, ThreadInv
<1>7. EventsInv'
  <2>1. phase' # "running" => phase # "running" BY <1>1
  <2> QED BY <1>1, <2>1 DEF TypeInv, EventsInv
<1>8. NodeInv'
  <2>1. phase = "running" => phase' = "running" BY <1>1
  <2>2. phase' # "idle" => phase' = phase BY <1>1
  <2>3. node # "none" => phase = "running" BY DEF TypeInv, NodeInv
  <2> QED BY <1>1, <2>1, <2>2, <2>3 DEF TypeInv, NodeInv
<1>9. TypeOK' BY <1>1, <1>4, <1>5 DEF TypeInv, TypeOK
<1> QED BY <1>5, <1>6, <1>7, <1>8, <1>9 DEF TypeInv

\* The unanswered calls of a source, as UnansweredCalls takes them.
OpenCalls(source) ==
    {r \in CurrentRows : /\ r.kind = "call"
                         /\ r.source = source
                         /\ \A x \in CurrentRows : x.about # r.id}

\* A call that is open has no closing result yet.
LEMMA OpenUnrecorded ==
    ASSUME TypeInv, NEW source, NEW r \in OpenCalls(source)
    PROVE  /\ r \in rows /\ r \in RowRecords /\ r.id # NoId /\ Recorded(r.id)
           /\ ~Recorded(<< 0 >> \o r.id)
<1>1. r \in CurrentRows /\ r.kind = "call" /\ \A x \in CurrentRows : x.about # r.id
  BY DEF OpenCalls
<1>2. r \in rows /\ \A x \in rows : x.seq > r.seq => x \in CurrentRows
  <2> DEFINE m == MaxOf({x.seq : x \in {y \in rows : IsUserRow(y)}} \cup {-1})
  <2>1. CurrentRows = {x \in rows : x.seq > m} BY DEF CurrentRows
  <2>2. m \in Int
    <3> DEFINE U == {y \in rows : IsUserRow(y)}
               T == {x.seq : x \in U}
    <3>1. U \in SUBSET rows /\ rows \in SUBSET RowRecords /\ IsFiniteSet(rows)
      BY DEF TypeInv, TypeOK, RowsInv
    <3> HIDE DEF U
    <3>2. IsFiniteSet(U) /\ U \in SUBSET RowRecords BY <3>1, FS_Subset
    <3>3. T \in SUBSET Nat /\ IsFiniteSet(T) BY <3>2, SeqsOfRows
    <3> HIDE DEF T
    <3>4. IsFiniteSet(T \cup {-1}) BY <3>3, FS_AddElement
    <3>5. T \cup {-1} \in SUBSET Int /\ T \cup {-1} # {} BY <3>3
    <3>6. MaxOf(T \cup {-1}) \in T \cup {-1} BY <3>4, <3>5, MaxOfBounds
    <3>7. MaxOf(T \cup {-1}) \in Int
      <4> DEFINE k == MaxOf(T \cup {-1})
      <4>1. k \in T \cup {-1} BY <3>6
      <4> HIDE DEF k
      <4>2. k \in Int BY <3>3, <4>1
      <4> QED BY <4>2 DEF k
    <3> QED BY <3>7 DEF T, U
  <2> HIDE DEF m
  <2>3. r \in rows /\ r.seq > m BY <1>1, <2>1
  <2>4. \A x \in rows : x.seq \in Int BY DEF TypeInv, TypeOK, RowRecords
  <2>5. \A x \in rows : x.seq > r.seq => x.seq > m BY <2>2, <2>3, <2>4
  <2> QED BY <2>1, <2>3, <2>5
<1>3. r \in RowRecords /\ RowForm(r) BY <1>2 DEF TypeInv, TypeOK, RowsInv
<1>4. r.id # NoId
  <2>1. ~NoticeRow(r) /\ ~StopRow(r) BY <1>1 DEF NoticeRow, StopRow
  <2>2. r.id \in Seq(Nat) BY <1>3 DEF RowRecords, Ids
  <2>3. CASE RootRow(r)
    <3>1. Len(r.id) = 1 BY <1>3, <2>3, RowIds
    <3>2. Len(r.id) > 0 BY <3>1
    <3> QED BY <1>3, <3>2, RowIds
  <2>4. CASE SubRow(r)
    <3>1. Len(r.id) = 2 BY <1>3, <2>4, RowIds
    <3>2. Len(r.id) > 0 BY <3>1
    <3> QED BY <1>3, <3>2, RowIds
  <2> QED BY <1>3, <2>1, <2>3, <2>4 DEF RowForm
<1>5. ASSUME NEW x \in rows, x.id = << 0 >> \o r.id PROVE FALSE
  <2>1. x \in RowRecords /\ RowForm(x) BY DEF TypeInv, TypeOK, RowsInv
  <2>2. r.id \in Seq(Nat) /\ <<0>> \in Seq(Nat) /\ x.about \in Seq(Nat) BY <1>3, <2>1 DEF RowRecords, Ids
  <2>3. Len(r.id) \in Nat BY <2>2, LenProperties
  <2>4. (<<0>> \o r.id)[1] = 0 /\ Len(<<0>> \o r.id) = 1 + Len(r.id)
    BY <2>2, <2>3, ConcatProperties
  <2>5. Len(thread) \in Nat BY ThreadIndex DEF TypeInv
  <2>6. StopRow(x)
    <3>1. ~NoticeRow(x)
      <4>1. NoticeRow(x) => Len(x.id) = 0 BY <2>1, RowIds
      <4> QED BY <1>5, <2>3, <2>4, <4>1
    <3>2. ~RootRow(x) /\ ~SubRow(x)
      <4>1. (RootRow(x) => x.id[1] \in 1..Len(thread)) /\ (SubRow(x) => x.id[1] \in 1..Len(thread))
        BY <2>1, RowIds
      <4>2. x.id[1] = 0 BY <1>5, <2>4
      <4> QED BY <2>5, <4>1, <4>2
    <3> QED BY <2>1, <3>1, <3>2 DEF RowForm
  <2>7. x.about = r.id
    <3>1. <<0>> \o x.about = <<0>> \o r.id BY <1>5, <2>6 DEF StopRow
    <3> QED BY <2>2, <3>1, ConcatSimplifications
  <2>8. r.seq < x.seq BY <1>2, <2>6, <2>7 DEF TypeInv, RowsInv
  <2>9. r.seq \in Int /\ x.seq \in Int BY <1>3, <2>1 DEF RowRecords
  <2>10. x \in CurrentRows BY <1>2, <2>8, <2>9
  <2> QED BY <1>1, <2>7, <2>10
<1>6. Recorded(r.id) BY <1>2, <1>4 DEF Recorded
<1> QED BY <1>2, <1>3, <1>4, <1>5, <1>6 DEF Recorded

\* UnansweredCalls lists the open calls.
LEMMA CallsListed ==
    ASSUME TypeInv, NEW source
    PROVE  \E n \in Nat :
              /\ DOMAIN UnansweredCalls(source) = 1..n
              /\ \A i \in 1..n : \E r \in OpenCalls(source) : UnansweredCalls(source)[i] = r.id
              /\ \A r \in OpenCalls(source) : \E i \in 1..n : UnansweredCalls(source)[i] = r.id
<1> DEFINE open == OpenCalls(source)
           T == {x.seq : x \in open}
           n == Cardinality(open)
           a == Ascending(T)
<1>1. open \in SUBSET rows /\ rows \in SUBSET RowRecords /\ IsFiniteSet(rows)
  BY DEF OpenCalls, CurrentRows, TypeInv, TypeOK, RowsInv
<1>2. UnansweredCalls(source) = [i \in 1..n |-> (CHOOSE r \in open : r.seq = a[i]).id]
  BY DEF UnansweredCalls, OpenCalls
<1> HIDE DEF open
<1>3. IsFiniteSet(open) /\ open \in SUBSET RowRecords BY <1>1, FS_Subset
<1>4. T \in SUBSET Nat /\ IsFiniteSet(T) BY <1>3, SeqsOfRows
<1>5. Cardinality(T) = n
  <2> DEFINE f == [x \in open |-> x.seq]
  <2>1. \A x, y \in open : x.seq = y.seq => x = y BY <1>1 DEF TypeInv, RowsInv
  <2>2. f \in Surjection(open, T) BY DEF Surjection
  <2>3. f \in Injection(open, T) BY <2>1 DEF Injection, IsInjective
  <2> HIDE DEF T
  <2> QED BY <1>3, <2>2, <2>3, FS_Surjection
<1>6. \A x \in open : x.seq \in T OBVIOUS
<1>7. \A t \in T : \E x \in open : x.seq = t OBVIOUS
<1> HIDE DEF T
<1>8. T \in SUBSET Int BY <1>4
<1>9. /\ n \in Nat
      /\ \A i \in 1..n : a[i] \in T
      /\ \A x \in T : \E i \in 1..n : a[i] = x
  BY <1>4, <1>5, <1>8, AscendingLists
<1> HIDE DEF n, a
<1>10. \A i \in 1..n : \E r \in open : r.seq = a[i] /\ UnansweredCalls(source)[i] = r.id
  <2> TAKE i \in 1..n
  <2>1. \E r \in open : r.seq = a[i] BY <1>7, <1>9
  <2> DEFINE c == CHOOSE r \in open : r.seq = a[i]
  <2>2. c \in open /\ c.seq = a[i] BY <2>1
  <2> HIDE DEF c
  <2>3. UnansweredCalls(source)[i] = c.id BY <1>2 DEF c
  <2> QED BY <2>2, <2>3
<1>11. ASSUME NEW r \in open PROVE \E i \in 1..n : UnansweredCalls(source)[i] = r.id
  <2>1. PICK i \in 1..n : a[i] = r.seq BY <1>6, <1>9
  <2>2. PICK s \in open : s.seq = a[i] /\ UnansweredCalls(source)[i] = s.id BY <1>10
  <2>3. s = r BY <1>1, <2>1, <2>2 DEF TypeInv, RowsInv
  <2> QED BY <2>2, <2>3
<1>12. DOMAIN UnansweredCalls(source) = 1..n BY <1>2
<1> QED BY <1>9, <1>10, <1>11, <1>12 DEF open

\* The rows that close the calls of one source.
StopRowsOf(source, W, base) ==
    /\ Fresh(W)
    /\ \A r \in W : StopRow(r) /\ Recorded(r.about) /\ base <= r.seq /\ r.seq < base + Cardinality(W)
    /\ \A r \in OpenCalls(source) : \E x \in W : x.kind = "result" /\ x.about = r.id

LEMMA StopWrite ==
    ASSUME TypeInv, NEW source \in {"deepagents", "subagent"}, NEW offset \in Nat
    PROVE  /\ StopRowsOf(source, Written(StoppedRows(source), offset, source), Base(NextSequence, offset))
           /\ Base(NextSequence, offset) \in Nat
<1> DEFINE c == UnansweredCalls(source)
           m == StoppedRows(source)
           W == Written(m, offset, source)
           b == Base(NextSequence, offset)
<1>1. PICK n \in Nat :
        /\ DOMAIN c = 1..n
        /\ \A i \in 1..n : \E r \in OpenCalls(source) : c[i] = r.id
        /\ \A r \in OpenCalls(source) : \E i \in 1..n : c[i] = r.id
  BY CallsListed
<1>2. m = [i \in 1..n |-> Message(<<0>> \o c[i], "result", c[i])]
  BY <1>1 DEF StoppedRows
<1> HIDE DEF c, m
<1>3. \A i \in 1..n : /\ c[i] \in Ids /\ c[i] # NoId /\ Recorded(c[i])
                      /\ ~Recorded(<<0>> \o c[i])
  <2> TAKE i \in 1..n
  <2>1. PICK r \in OpenCalls(source) : c[i] = r.id BY <1>1
  <2>2. r \in RowRecords /\ r.id # NoId /\ Recorded(r.id) /\ ~Recorded(<<0>> \o r.id)
    BY OpenUnrecorded
  <2> QED BY <2>1, <2>2 DEF RowRecords
<1>4. \A i \in 1..n : /\ m[i].id = <<0>> \o c[i] /\ m[i].kind = "result" /\ m[i].about = c[i]
                      /\ m[i].id \in Ids
  <2> TAKE i \in 1..n
  <2>1. m[i].id = <<0>> \o c[i] /\ m[i].kind = "result" /\ m[i].about = c[i]
    BY <1>2 DEF Message
  <2>2. <<0>> \in Seq(Nat) /\ c[i] \in Seq(Nat) BY <1>3 DEF Ids
  <2>3. <<0>> \o c[i] \in Seq(Nat) BY <2>2, ConcatProperties
  <2> QED BY <2>1, <2>3 DEF Ids
<1>5. \A i \in 1..n : m[i].id \in Ids /\ m[i].kind \in Kinds /\ m[i].about \in Ids
  BY <1>3, <1>4 DEF Kinds
<1>6. DOMAIN m = 1..n BY <1>2
<1>7. rows \in SUBSET RowRecords /\ IsFiniteSet(rows) /\ source \in Sources
  BY DEF TypeInv, TypeOK, RowsInv, Sources
<1>8. IsWritten(m, n, offset, source) BY <1>5, <1>6, <1>7, WrittenFresh
<1>9. /\ Fresh(W) /\ b \in Nat
      /\ \A r \in W : \E i \in 1..n : r = RowAt(m, i, offset, source)
      /\ \A i \in 1..n : RowAt(m, i, offset, source) \in W
  BY <1>3, <1>4, <1>8 DEF IsWritten
<1>10. \A i \in 1..n : LET r == RowAt(m, i, offset, source)
                       IN  /\ r.seq = b + (i - 1) /\ r.id = <<0>> \o c[i]
                           /\ r.kind = "result" /\ r.about = c[i] /\ r.source = source
  BY <1>4 DEF RowAt
<1> HIDE DEF W, b
<1>11. Cardinality(W) = n
  <2> DEFINE f == [i \in 1..n |-> RowAt(m, i, offset, source)]
  <2>1. IsFiniteSet(1..n) /\ Cardinality(1..n) = n
    <3>1. n \in Int /\ 1 \in Int OBVIOUS
    <3>2. Cardinality(1..n) = IF 1 > n THEN 0 ELSE n - 1 + 1 BY <3>1, FS_Interval
    <3>3. IsFiniteSet(1..n) BY <3>1, FS_Interval
    <3> QED BY <3>2, <3>3
  <2>2. f \in Surjection(1..n, W) BY <1>9 DEF Surjection
  <2>3. f \in Injection(1..n, W)
    <3>1. \A i, j \in 1..n : f[i] = f[j] => i = j
      <4> TAKE i, j \in 1..n
      <4> HAVE f[i] = f[j]
      <4>1. b + (i - 1) = b + (j - 1) BY <1>10
      <4> QED BY <1>9, <4>1
    <3>2. f \in [1..n -> W] BY <1>9
    <3> HIDE DEF f
    <3> QED BY <3>1, <3>2 DEF Injection, IsInjective
  <2> HIDE DEF f
  <2> QED BY <2>1, <2>2, <2>3, FS_Surjection
<1>12. ASSUME NEW r \in W
       PROVE  StopRow(r) /\ Recorded(r.about) /\ b <= r.seq /\ r.seq < b + Cardinality(W)
  <2>1. PICK i \in 1..n : r = RowAt(m, i, offset, source) BY <1>9
  <2>2. /\ r.seq = b + (i - 1) /\ r.id = <<0>> \o c[i]
        /\ r.kind = "result" /\ r.about = c[i] /\ r.source = source
    BY <1>10, <2>1
  <2>3. b <= r.seq /\ r.seq < b + n BY <1>9, <2>2
  <2>4. StopRow(r) BY <1>3, <2>2 DEF StopRow
  <2> QED BY <1>3, <1>11, <2>2, <2>3, <2>4
<1>13. ASSUME NEW r \in OpenCalls(source) PROVE \E x \in W : x.kind = "result" /\ x.about = r.id
  <2>1. PICK i \in 1..n : c[i] = r.id BY <1>1
  <2> QED BY <1>9, <1>10, <2>1
<1> QED BY <1>9, <1>12, <1>13 DEF StopRowsOf, W, b, m

\* What the stop button does.
LEMMA CancelEffect ==
    ASSUME TypeInv, Cancel
    PROVE  /\ Over /\ cancels < MaxCancels /\ cancels' = cancels + 1 /\ fails' = fails
           /\ dbFails' = dbFails \/ (dbFails < MaxDbFails /\ dbFails' = dbFails + 1)
           /\ \E new :
                 /\ Fresh(new) /\ rows' = rows \cup new
                 /\ \A r \in new : StopRow(r) /\ Recorded(r.about)
                 /\ dbFails' = dbFails =>
                       \A source \in {"deepagents", "subagent"} : \A r \in OpenCalls(source) :
                          \E x \in new : x.kind = "result" /\ x.about = r.id
<1> DEFINE root == Written(StoppedRows("deepagents"), 0, "deepagents")
           sub(before) == Written(StoppedRows("subagent"), NextSequence + before, "subagent")
<1>1. NextSequence \in Nat
  BY NextBounds DEF TypeInv, TypeOK, RowsInv
<1>2. StopRowsOf("deepagents", root, NextSequence)
  <2>1. Base(NextSequence, 0) = NextSequence BY <1>1 DEF Base
  <2>2. 0 \in Nat /\ "deepagents" \in {"deepagents", "subagent"} OBVIOUS
  <2>3. StopRowsOf("deepagents", Written(StoppedRows("deepagents"), 0, "deepagents"), Base(NextSequence, 0))
    BY <2>2, StopWrite
  <2> QED BY <2>1, <2>3
<1>3. ASSUME NEW k \in Nat PROVE StopRowsOf("subagent", sub(k), NextSequence + k)
  <2>1. Base(NextSequence, NextSequence + k) = NextSequence + k BY <1>1 DEF Base
  <2>2. NextSequence + k \in Nat /\ "subagent" \in {"deepagents", "subagent"} BY <1>1
  <2>3. StopRowsOf("subagent", Written(StoppedRows("subagent"), NextSequence + k, "subagent"), Base(NextSequence, NextSequence + k))
    BY <2>2, StopWrite
  <2> QED BY <2>1, <2>3
<1>4. /\ Over /\ cancels < MaxCancels /\ cancels' = cancels + 1 /\ fails' = fails
      /\ \/ rows' = rows \cup root \cup sub(Cardinality(root)) /\ dbFails' = dbFails
         \/ /\ dbFails < MaxDbFails /\ dbFails' = dbFails + 1
            /\ rows' \in {rows, rows \cup root, rows \cup sub(0)}
  BY DEF Cancel
<1> HIDE DEF root, sub
<1>5. Cardinality(root) \in Nat /\ 0 \in Nat
  <2>1. IsFiniteSet(root) BY <1>2 DEF StopRowsOf, Fresh
  <2> QED BY <2>1, FS_CardinalityType
<1>6. StopRowsOf("subagent", sub(Cardinality(root)), NextSequence + Cardinality(root)) BY <1>3, <1>5
<1>7. StopRowsOf("subagent", sub(0), NextSequence + 0) BY <1>3, <1>5
<1>8. Fresh(root \cup sub(Cardinality(root)))
  <2> DEFINE s == sub(Cardinality(root))
             k == Cardinality(root)
  <2>1. Fresh(root) /\ Fresh(s) BY <1>2, <1>6 DEF StopRowsOf
  <2>2. \A r \in root : r.seq < NextSequence + k BY <1>2 DEF StopRowsOf
  <2>3. \A r \in s : NextSequence + k <= r.seq BY <1>6 DEF StopRowsOf
  <2>4. \A r \in root : r.seq \in Int BY <2>1 DEF Fresh, RowRecords
  <2>5. \A r \in s : r.seq \in Int BY <2>1 DEF Fresh, RowRecords
  <2>6. NextSequence + k \in Int BY <1>1, <1>5
  <2> HIDE DEF s, k
  <2>7. \A r \in root : \A x \in s : r.seq < x.seq BY <2>2, <2>3, <2>4, <2>5, <2>6
  <2>8. Fresh(root \cup s) BY <2>1, <2>7, FreshUnion
  <2> QED BY <2>8 DEF s
<1>9. Fresh({}) BY FS_EmptySet DEF Fresh
<1>10. CASE rows' = rows \cup root \cup sub(Cardinality(root)) /\ dbFails' = dbFails
  <2> DEFINE s == sub(Cardinality(root))
  <2> HIDE DEF s
  <2>1. rows' = rows \cup (root \cup s) BY <1>10 DEF s
  <2>2. Fresh(root \cup s) BY <1>8 DEF s
  <2>3. /\ \A r \in root : StopRow(r) /\ Recorded(r.about)
        /\ \A r \in OpenCalls("deepagents") : \E x \in root : x.kind = "result" /\ x.about = r.id
    BY <1>2 DEF StopRowsOf
  <2>4. /\ \A r \in s : StopRow(r) /\ Recorded(r.about)
        /\ \A r \in OpenCalls("subagent") : \E x \in s : x.kind = "result" /\ x.about = r.id
    BY <1>6 DEF StopRowsOf, s
  <2>5. \A r \in root \cup s : StopRow(r) /\ Recorded(r.about) BY <2>3, <2>4
  <2>6. ASSUME NEW source \in {"deepagents", "subagent"}, NEW r \in OpenCalls(source)
        PROVE  \E x \in root \cup s : x.kind = "result" /\ x.about = r.id
    <3>1. CASE source = "deepagents" BY <2>3, <2>6, <3>1
    <3>2. CASE source = "subagent" BY <2>4, <2>6, <3>2
    <3> QED BY <3>1, <3>2
  <2> QED BY <1>4, <1>10, <2>1, <2>2, <2>5, <2>6
<1>11. ASSUME dbFails < MaxDbFails, dbFails' = dbFails + 1,
              rows' \in {rows, rows \cup root, rows \cup sub(0)}
       PROVE  \E new : /\ Fresh(new) /\ rows' = rows \cup new
                       /\ \A r \in new : StopRow(r) /\ Recorded(r.about)
  <2>1. CASE rows' = rows
    <3>1. rows' = rows \cup {} BY <2>1
    <3> QED BY <1>9, <3>1
  <2>2. CASE rows' = rows \cup root BY <1>2, <2>2 DEF StopRowsOf
  <2>3. CASE rows' = rows \cup sub(0) BY <1>7, <2>3 DEF StopRowsOf
  <2> QED BY <1>11, <2>1, <2>2, <2>3
<1>12. dbFails' = dbFails + 1 => dbFails' # dbFails BY DEF TypeInv, TypeOK
<1> QED BY <1>4, <1>10, <1>11, <1>12

LEMMA CancelType == TypeInv /\ Cancel => TypeInv' /\ (OrderInv => OrderInv')
<1> SUFFICES ASSUME TypeInv, Cancel PROVE TypeInv' /\ (OrderInv => OrderInv') OBVIOUS
<1>1. /\ Over /\ cancels < MaxCancels /\ cancels' = cancels + 1 /\ fails' = fails
      /\ dbFails' = dbFails \/ (dbFails < MaxDbFails /\ dbFails' = dbFails + 1)
  BY CancelEffect
<1>2. PICK new : /\ Fresh(new) /\ rows' = rows \cup new
                 /\ \A r \in new : StopRow(r) /\ Recorded(r.about)
  BY CancelEffect
<1>3. thread' = thread BY <1>1 DEF Over
<1>4. \A r \in new : RowForm(r) /\ (StopRow(r) => Recorded(r.about)) BY <1>2 DEF RowForm
<1>5. RowsInv' /\ rows' \in SUBSET RowRecords BY <1>2, <1>3, <1>4, RowsAdded
<1>6. fails' \in 0..MaxFails /\ cancels' \in 0..MaxCancels /\ dbFails' \in 0..MaxDbFails
  BY <1>1, ConstantsAssumption, SMTT(60) DEF TypeInv, TypeOK, ConstantsAssumption
<1>7. TypeOK' /\ ThreadInv' /\ EventsInv' /\ NodeInv' BY <1>1, <1>5, <1>6, OverType
<1>8. \A r \in new : Len(r.id) # 1
  <2> TAKE r \in new
  <2>1. r \in RowRecords /\ StopRow(r) BY <1>2 DEF Fresh
  <2>2. Len(r.id) >= 2 BY <2>1, RowIds
  <2>3. ~ 1 >= 2 OBVIOUS
  <2>4. ASSUME Len(r.id) = 1 PROVE FALSE BY <2>2, <2>3, <2>4
  <2> QED BY <2>4
<1>9. \A r, s \in new : Len(r.id) = 1 /\ Len(s.id) = 1 /\ r.id[1] < s.id[1] => r.seq < s.seq
  BY <1>8
<1>10. \A r \in new : Len(r.id) = 1 => \A i \in 1..r.id[1] :
              thread[i].kind # "report" => Kept(i) \/ \E s \in new : s.id = <<i>>
  BY <1>8
<1>11. OrderInv => OrderInv' BY <1>2, <1>3, <1>4, <1>9, <1>10, OrderAdded
<1> QED BY <1>5, <1>7, <1>11 DEF TypeInv

-----------------------------------------------------------------------------
LEMMA InitType == Init => TypeInv /\ OrderInv
<1> SUFFICES ASSUME Init PROVE TypeInv /\ OrderInv OBVIOUS
<1>1. /\ thread = <<>> /\ seen = -1 /\ asked = FALSE /\ rows = {} /\ turn = 0 /\ phase = "idle"
      /\ node = "none" /\ found = NothingFound /\ events = <<>> /\ counted = NothingCounted
      /\ stamps = {} /\ notices = 0 /\ fails = 0 /\ cancels = 0 /\ dbFails = 0
  BY DEF Init
<1>2. /\ {MaxTurns, MaxMessages, MaxNotices, MaxFails, MaxCancels, MaxDbFails} \subseteq Nat
  BY ConstantsAssumption DEF ConstantsAssumption
<1>3. NothingCounted \in [0..MaxMessages -> 0..(MaxMessages + 3)] /\ NothingCounted[Root] = 0
  BY <1>2 DEF NothingCounted, Root
<1>4. Len(thread) = 0 /\ Len(events) = 0 BY <1>1
<1>5. TypeOK BY <1>1, <1>2, <1>3, <1>4, NothingFoundType DEF TypeOK
<1>6. ThreadInv BY <1>4 DEF ThreadInv
<1>7. EventsInv BY <1>1, <1>3, <1>4 DEF EventsInv
<1>8. NodeInv BY <1>1, NothingFoundType DEF NodeInv
<1>9. RowsInv BY <1>1, FS_EmptySet DEF RowsInv
<1>10. OrderInv BY <1>1 DEF OrderInv, RecordedInv, Kept, RowsInThreadOrder
<1> QED BY <1>5, <1>6, <1>7, <1>8, <1>9, <1>10 DEF TypeInv

LEMMA StepType == TypeInv /\ [Next]_vars => TypeInv' /\ (OrderInv => OrderInv')
<1> SUFFICES ASSUME TypeInv, [Next]_vars PROVE TypeInv' /\ (OrderInv => OrderInv') OBVIOUS
<1>1. CASE UNCHANGED vars
  <2>1. TypeInv'
    <3>1. TypeOK' /\ ThreadInv' BY <1>1 DEF vars, TypeInv, TypeOK, ThreadInv
    <3>2. EventsInv' /\ NodeInv' BY <1>1 DEF vars, TypeInv, EventsInv, NodeInv
    <3>3. RowsInv'
      BY <1>1 DEF vars, TypeInv, RowsInv, RowForm, NoticeRow, RootRow, SubRow, StopRow, Recorded
    <3> QED BY <3>1, <3>2, <3>3 DEF TypeInv
  <2>2. OrderInv => OrderInv' BY <1>1 DEF vars, OrderInv, RecordedInv, Kept, RowsInThreadOrder
  <2> QED BY <2>1, <2>2
<1>2. ASSUME NEW s \in stamps, Stamp(s) PROVE TypeInv' /\ (OrderInv => OrderInv')
  BY <1>2, StampType
<1> QED BY <1>1, <1>2, SendType, WakeType, ReadType, DeliverType, ModelType, SubagentType, ToolType,
           InterruptType, HandleType, FinishType, FailType, CancelType, NoticeType
        DEF Next, Graph

\* Every variable keeps its type: the thread's messages are numbered by their
\* place, the rows are messages of the thread and of its subagents, notices and
\* closing results, and each row has a number of its own.
THEOREM TypeCorrect == Spec => []TypeOK
<1>1. Spec => []TypeInv
  <2>1. Init => TypeInv BY InitType
  <2>2. TypeInv /\ [Next]_vars => TypeInv' BY StepType
  <2> QED BY <2>1, <2>2, PTL DEF Spec
<1>2. TypeInv => TypeOK BY DEF TypeInv
<1> QED BY <1>1, <1>2, PTL

\* However late a message of the main agent is recorded, its row stands behind
\* those of the messages before it in the thread and before those after it.
THEOREM ThreadOrder == Spec => []RowsInThreadOrder
<1>1. Init => TypeInv /\ OrderInv BY InitType
<1>2. TypeInv /\ OrderInv /\ [Next]_vars => (TypeInv /\ OrderInv)' BY StepType
<1>3. TypeInv /\ OrderInv => RowsInThreadOrder BY DEF OrderInv
<1> QED BY <1>1, <1>2, <1>3, PTL DEF Spec

-----------------------------------------------------------------------------
(* What a step does to the rows and to the thread *)

LEMMA RowsStep ==
    ASSUME TypeInv, [Next]_vars
    PROVE  \/ rows' = rows
           \/ \E new : Fresh(new) /\ rows' = rows \cup new
           \/ \E s \in stamps : /\ Stamp(s) /\ s.checkpoint \in Nat
                              /\ rows' = {Stamped(r, s.checkpoint) : r \in rows}
<1>1. CASE HandleValues
  <2>1. rows' = rows \/ \E new : ValuesRows(Head(events), new) /\ rows' = rows \cup new
    BY <1>1, HandleEffect
  <2> QED BY <2>1 DEF ValuesRows
<1>2. CASE Cancel BY <1>2, CancelEffect
<1>3. CASE Notice
  <2>1. PICK kind \in {"notice", "report"} : Transaction(Written(<<Message(NoId, kind, NoId)>>, 0, "notification"))
    BY <1>3 DEF Notice
  <2> DEFINE W == Written(<<Message(NoId, kind, NoId)>>, 0, "notification")
  <2>2. Fresh(W) BY NoticeWrite
  <2>3. rows' = rows \/ rows' = rows \cup W BY <2>1 DEF Transaction
  <2> HIDE DEF W
  <2> QED BY <2>2, <2>3
<1>4. ASSUME NEW s \in stamps, Stamp(s) 
      PROVE  \/ rows' = rows
             \/ s.checkpoint \in Nat /\ rows' = {Stamped(r, s.checkpoint) : r \in rows}
  <2>1. s.checkpoint \in Nat BY ConstantsAssumption DEF TypeInv, TypeOK, ConstantsAssumption
  <2> QED BY <1>4, <2>1 DEF Stamp
<1>5. CASE Send \/ Wake \/ Graph \/ Finish \/ Fail
  BY <1>5 DEF Send, Wake, Graph, ReadReports, DeliverReports, Model, SubagentStep, Tool, Interrupt,
              Finish, Fail
<1>6. CASE UNCHANGED vars BY <1>6 DEF vars
<1> QED BY <1>1, <1>2, <1>3, <1>4, <1>5, <1>6 DEF Next

\* A row stays, but for its checkpoint, and what joins stands behind all there
\* is.
LEMMA RowsMonotone ==
    ASSUME TypeInv, [Next]_vars
    PROVE  /\ NextSequence \in Nat /\ NextSequence' \in Nat /\ NextSequence <= NextSequence'
           /\ \A r \in rows : \E x \in rows' :
                 x.seq = r.seq /\ x.id = r.id /\ x.kind = r.kind /\ x.about = r.about /\ x.source = r.source
           /\ \A x \in rows' :
                 \/ x.seq >= NextSequence /\ x.checkpoint = 0 /\ ~Recorded(x.id)
                 \/ \E r \in rows :
                       x.seq = r.seq /\ x.id = r.id /\ x.kind = r.kind /\ x.about = r.about /\ x.source = r.source
<1>1. rows \in SUBSET RowRecords /\ IsFiniteSet(rows) BY DEF TypeInv, TypeOK, RowsInv
<1>2. TypeInv' BY StepType
<1>3. rows' \in SUBSET RowRecords /\ IsFiniteSet(rows') BY <1>2 DEF TypeInv, TypeOK, RowsInv
<1>4. /\ NextSequence \in Nat
      /\ NextSequence # 0 => \E r \in rows : r.seq = NextSequence - 1
  BY <1>1, NextBounds
<1>5. NextSequence' \in Nat /\ \A x \in rows' : x.seq < NextSequence'
  <2> DEFINE next(R) == MaxOf({r.seq : r \in R} \cup {-1}) + 1
  <2>1. next(rows') \in Nat /\ \A x \in rows' : x.seq < next(rows') BY <1>3, NextOfRows
  <2>2. NextSequence' = next(rows') BY DEF NextSequence
  <2> QED BY <2>1, <2>2
<1>6. \A r \in rows : \E x \in rows' :
         x.seq = r.seq /\ x.id = r.id /\ x.kind = r.kind /\ x.about = r.about /\ x.source = r.source
  <2> TAKE r \in rows
  <2>1. CASE rows' = rows BY <2>1
  <2>2. CASE \E new : Fresh(new) /\ rows' = rows \cup new BY <2>2
  <2>3. CASE \E s \in stamps : s.checkpoint \in Nat /\ rows' = {Stamped(q, s.checkpoint) : q \in rows}
    <3>1. PICK c \in Nat : rows' = {Stamped(q, c) : q \in rows} BY <2>3
    <3>2. Stamped(r, c) \in rows' /\ r \in RowRecords BY <1>1, <3>1
    <3> QED BY <3>2, StampedRow
  <2> QED BY <2>1, <2>2, <2>3, RowsStep
<1>7. ASSUME NEW x \in rows'
      PROVE  \/ x.seq >= NextSequence /\ x.checkpoint = 0 /\ ~Recorded(x.id)
             \/ \E r \in rows :
                   x.seq = r.seq /\ x.id = r.id /\ x.kind = r.kind /\ x.about = r.about /\ x.source = r.source
  <2>1. CASE rows' = rows BY <2>1
  <2>2. CASE \E new : Fresh(new) /\ rows' = rows \cup new BY <2>2 DEF Fresh
  <2>3. CASE \E s \in stamps : s.checkpoint \in Nat /\ rows' = {Stamped(q, s.checkpoint) : q \in rows}
    <3>1. PICK c \in Nat : rows' = {Stamped(q, c) : q \in rows} BY <2>3
    <3>2. PICK r \in rows : x = Stamped(r, c) BY <3>1
    <3>3. r \in RowRecords BY <1>1
    <3> QED BY <3>2, <3>3, StampedRow
  <2> QED BY <2>1, <2>2, <2>3, RowsStep
<1>8. NextSequence <= NextSequence'
  <2>1. CASE NextSequence = 0 BY <1>5, <2>1
  <2>2. CASE NextSequence # 0
    <3>1. PICK r \in rows : r.seq = NextSequence - 1 BY <1>4, <2>2
    <3>2. PICK x \in rows' : x.seq = r.seq BY <1>6
    <3> QED BY <1>4, <1>5, <3>1, <3>2
  <2> QED BY <2>1, <2>2
<1> QED BY <1>4, <1>5, <1>6, <1>7, <1>8

\* Only DeliverReports commits a report.
LEMMA ThreadStep ==
    ASSUME TypeInv, [Next]_vars
    PROVE  /\ ThreadGrows /\ Len(thread') \in Nat /\ Len(thread) \in Nat
           /\ ~DeliverReports =>
                 \A i \in 1..Len(thread') : i \in 1..Len(thread) \/ thread'[i].kind # "report"
<1>1. Len(thread) \in Nat BY ThreadIndex DEF TypeInv
<1>2. ASSUME thread' = thread
      PROVE  /\ ThreadGrows /\ Len(thread') \in Nat
             /\ \A i \in 1..Len(thread') : i \in 1..Len(thread) \/ thread'[i].kind # "report"
  BY <1>1, <1>2 DEF ThreadGrows
<1>3. ASSUME NEW t \in 1..MaxTurns, NEW kind \in {"human", "call", "result", "reply"}, NEW about \in Ids,
             kind # "result" => about = NoId, kind = "human" => t > turn,
             Commit(<<NextMessage(kind, about, t)>>)
      PROVE  /\ ThreadGrows /\ Len(thread') \in Nat
             /\ \A i \in 1..Len(thread') : i \in 1..Len(thread) \/ thread'[i].kind # "report"
  <2> DEFINE m == <<NextMessage(kind, about, t)>>
  <2>1. NewMessages(m, t) /\ Len(m) = 1 /\ m[1].kind = kind BY <1>3, OneMessage
  <2>2. Commit(m) BY <1>3
  <2> HIDE DEF m
  <2>3. /\ ThreadGrows /\ Len(thread') = Len(thread) + Len(m)
        /\ \A i \in (Len(thread) + 1)..Len(thread') : i - Len(thread) \in 1..Len(m) /\ thread'[i] = m[i - Len(thread)]
    BY <2>1, <2>2, CommitEffect
  <2>4. Len(thread') = Len(thread) + 1 BY <2>1, <2>3
  <2>5. ASSUME NEW i \in 1..Len(thread'), i \notin 1..Len(thread) PROVE thread'[i].kind # "report"
    <3>1. i = Len(thread) + 1 BY <1>1, <2>4, <2>5
    <3>2. i \in (Len(thread) + 1)..Len(thread') /\ i - Len(thread) = 1 BY <1>1, <2>4, <3>1
    <3>3. thread'[i] = m[1] BY <2>3, <3>2
    <3> QED BY <2>1, <3>3
  <2> QED BY <1>1, <2>3, <2>4, <2>5
<1>4. NoId \in Ids BY DEF NoId, Ids
<1>5. CASE Send
  <2>1. CASE asked BY <1>2, <1>5, <2>1 DEF Send
  <2>2. CASE ~asked
    <3>1. Commit(<<NextMessage("human", NoId, turn + 1)>>) /\ turn < MaxTurns BY <1>5, <2>2 DEF Send
    <3>2. turn + 1 \in 1..MaxTurns /\ turn + 1 > turn
      BY <3>1, ConstantsAssumption DEF TypeInv, TypeOK, ConstantsAssumption
    <3> QED BY <1>1, <1>3, <1>4, <3>1, <3>2
  <2> QED BY <2>1, <2>2
<1>6. CASE Model
  <2>1. turn \in 1..MaxTurns BY <1>6 DEF Model, TypeInv, TypeOK, NodeInv
  <2>2. \E kind \in {"reply", "call"} : Commit(<<NextMessage(kind, NoId, turn)>>) BY <1>6 DEF Model
  <2> QED BY <1>1, <1>3, <1>4, <2>1, <2>2
<1>7. CASE Tool
  <2>1. turn \in 1..MaxTurns /\ Commit(<<NextMessage("result", <<LastCall>>, turn)>>)
    BY <1>7 DEF Tool, TypeInv, TypeOK, NodeInv
  <2>2. <<LastCall>> \in Ids
    <3>1. LastCall \in 1..Len(thread) BY <1>7, CallInProgress DEF Tool, TypeInv, NodeInv
    <3>2. LastCall \in Nat BY <1>1, <3>1
    <3> QED BY <3>2 DEF Ids
  <2> QED BY <1>1, <1>3, <2>1, <2>2
<1>8. CASE DeliverReports
  <2>1. CASE found.reports = {} BY <1>1, <1>2, <1>8, <2>1 DEF DeliverReports
  <2>2. CASE found.reports # {}
    <3>1. Commit(Delivered) BY <1>8, <2>2 DEF DeliverReports, Delivered
    <3>2. turn \in 1..MaxTurns /\ turn > 0 BY <1>8 DEF DeliverReports, TypeInv, TypeOK, NodeInv
    <3>3. NewMessages(Delivered, turn) BY <2>2, <3>2, DeliveredNew
    <3>4. ThreadGrows /\ Len(thread') = Len(thread) + Len(Delivered) /\ Len(Delivered) \in Nat
      BY <3>1, <3>2, <3>3, CommitEffect
    <3> QED BY <1>1, <1>8, <3>4
  <2> QED BY <2>1, <2>2
<1>9. ASSUME NEW s \in stamps, Stamp(s) PROVE thread' = thread BY <1>9 DEF Stamp
<1>10. CASE Wake \/ ReadReports \/ SubagentStep \/ Interrupt \/ HandleValues \/ Finish \/ Fail \/ Cancel
            \/ Notice \/ UNCHANGED vars
  <2>1. thread' = thread
    BY <1>10 DEF Wake, ReadReports, SubagentStep, Interrupt, HandleValues, Finish, Fail, Cancel, Over,
                 Notice, vars
  <2> QED BY <1>1, <1>2, <2>1
<1> QED BY <1>1, <1>2, <1>5, <1>6, <1>7, <1>8, <1>9, <1>10 DEF Next, Graph

-----------------------------------------------------------------------------
(* The reports and the mark *)

\* Every step but reading and delivering.
LEMMA ReadOther ==
    ASSUME TypeInv, ReadInv, ReportsReadOnce, [Next]_vars, ~DeliverReports,
           seen' = seen, found' = found \/ found' = NothingFound
    PROVE  ReadInv' /\ ReportsReadOnce'
<1>1. /\ NextSequence \in Nat /\ NextSequence' \in Nat /\ NextSequence <= NextSequence'
      /\ \A x \in rows' :
            \/ x.seq >= NextSequence
            \/ \E r \in rows :
                  x.seq = r.seq /\ x.id = r.id /\ x.kind = r.kind /\ x.about = r.about /\ x.source = r.source
  BY RowsMonotone
<1>2. /\ Len(thread') \in Nat /\ Len(thread) \in Nat /\ Len(thread) <= Len(thread')
      /\ \A i \in 1..Len(thread) : thread'[i] = thread[i] /\ i \in 1..Len(thread')
      /\ \A i \in 1..Len(thread') : i \in 1..Len(thread) \/ thread'[i].kind # "report"
  BY ThreadStep DEF ThreadGrows
<1>3. /\ seen \in Nat \cup {-1} /\ seen < NextSequence
      /\ found \in [reports : SUBSET Nat, last : Nat \cup {None}]
      /\ \A x \in rows' : x.seq \in Nat
      /\ DOMAIN thread = 1..Len(thread)
  BY ThreadIndex, StepType DEF TypeInv, TypeOK, ReadInv, RowRecords
<1>4. DOMAIN thread' = 1..Len(thread')
  <2>1. thread' \in Seq(ThreadMessages) BY StepType DEF TypeInv, TypeOK
  <2> QED BY <2>1, SeqIndex
<1>5. ASSUME NEW x \in rows', NEW b \in Int, x.seq <= b, b < NextSequence
      PROVE  \E r \in rows :
                x.seq = r.seq /\ x.id = r.id /\ x.kind = r.kind /\ x.about = r.about /\ x.source = r.source
  <2>1. ~ x.seq >= NextSequence BY <1>1, <1>3, <1>5
  <2> QED BY <1>1, <2>1
<1>6. seen' < NextSequence' BY <1>1, <1>3
<1>7. \A x \in found'.reports : x > seen' /\ found'.last # None /\ x <= found'.last
  BY NothingFoundType DEF ReadInv
<1>8. ASSUME found'.last # None
      PROVE  /\ found'.last \in seen'..(NextSequence' - 1)
             /\ \A r \in Unread(seen)' : r.seq <= found'.last => r.seq \in found'.reports
  <2>1. found' = found /\ found.last # None BY <1>8, NothingFoundType
  <2>2. /\ found.last \in seen..(NextSequence - 1) /\ found.last \in Int
        /\ \A r \in Unread(seen) : r.seq <= found.last => r.seq \in found.reports
    BY <1>1, <1>3, <2>1 DEF ReadInv
  <2>3. found.last < NextSequence BY <1>1, <1>3, <2>2
  <2>4. found'.last \in seen'..(NextSequence' - 1) BY <1>1, <1>3, <2>1, <2>2
  <2>5. ASSUME NEW x \in Unread(seen)', x.seq <= found.last PROVE x.seq \in found.reports
    <3>1. x \in rows' /\ x.source = "notification" /\ x.seq > seen /\ x.kind = "report"
      BY DEF Unread, Notices
    <3>2. PICK r \in rows : x.seq = r.seq /\ x.kind = r.kind /\ x.source = r.source
      BY <1>5, <2>2, <2>3, <2>5, <3>1
    <3>3. r \in Unread(seen) BY <3>1, <3>2 DEF Unread, Notices
    <3> QED BY <2>2, <2>5, <3>2, <3>3
  <2> QED BY <2>1, <2>4, <2>5
<1>9. \A i \in 1..Len(thread') : thread'[i].kind = "report" =>
          \E x \in 0..seen' : thread'[i].about = <<x>>
  BY <1>2 DEF ReadInv
<1>10. ReadInv' BY <1>6, <1>7, <1>8, <1>9 DEF ReadInv
<1>11. ASSUME NEW x \in Notices', x.kind = "report", x.seq <= seen'
       PROVE  \E i \in DOMAIN thread' : thread'[i].kind = "report" /\ thread'[i].about = <<x.seq>>
  <2>1. x \in rows' /\ x.source = "notification" BY DEF Notices
  <2>2. PICK r \in rows : x.seq = r.seq /\ x.kind = r.kind /\ x.source = r.source
    BY <1>3, <1>5, <1>11, <2>1
  <2>3. r \in Notices BY <2>1, <2>2 DEF Notices
  <2>4. PICK i \in DOMAIN thread : thread[i].kind = "report" /\ thread[i].about = <<r.seq>>
    BY <1>11, <2>2, <2>3 DEF ReportsReadOnce
  <2> QED BY <1>2, <1>3, <1>4, <2>2, <2>4
<1>12. ASSUME NEW i \in DOMAIN thread', NEW j \in DOMAIN thread',
              thread'[i].kind = "report", thread'[j].kind = "report", thread'[i].about = thread'[j].about
       PROVE  i = j
  <2>1. i \in 1..Len(thread) /\ j \in 1..Len(thread) BY <1>2, <1>4, <1>12
  <2>2. thread'[i] = thread[i] /\ thread'[j] = thread[j] BY <1>2, <2>1
  <2> QED BY <1>3, <1>12, <2>1, <2>2 DEF ReportsReadOnce
<1>13. ReportsReadOnce' BY <1>11, <1>12 DEF ReportsReadOnce
<1> QED BY <1>10, <1>13

LEMMA ReadRead ==
    ASSUME TypeInv, ReadInv, ReportsReadOnce, ReadReports
    PROVE  ReadInv' /\ ReportsReadOnce'
<1>1. thread' = thread /\ rows' = rows /\ seen' = seen BY DEF ReadReports
<1>2. /\ found'.reports = {r.seq : r \in Unread(seen)}
      /\ found'.last = None => \A r \in Notices : ~ r.seq > seen
      /\ found'.last # None =>
            /\ found'.last \in Nat
            /\ \E r \in rows : r.seq > seen /\ r.seq = found'.last
            /\ \A r \in Notices : r.seq > seen => r.seq <= found'.last
  BY ReadFound
<1>3. NextSequence' = NextSequence /\ Notices' = Notices /\ Unread(seen)' = Unread(seen)
  BY <1>1 DEF NextSequence, Notices, Unread
<1>4. /\ NextSequence \in Nat /\ \A r \in rows : r.seq < NextSequence
      /\ seen \in Nat \cup {-1}
  BY NextBounds DEF TypeInv, TypeOK, RowsInv
<1>5. \A r \in Unread(seen) : r \in Notices /\ r.seq > seen BY DEF Unread
<1>6. \A x \in found'.reports : x > seen /\ found'.last # None /\ x <= found'.last
  BY <1>2, <1>5
<1>7. found'.last # None => found'.last \in seen..(NextSequence - 1)
  <2> HAVE found'.last # None
  <2>1. PICK r \in rows : r.seq > seen /\ r.seq = found'.last BY <1>2
  <2>2. found'.last \in Nat BY <1>2
  <2> QED BY <1>4, <2>1, <2>2
<1>8. found'.last # None => \A r \in Unread(seen) : r.seq <= found'.last => r.seq \in found'.reports
  BY <1>2
<1>9. ReadInv' BY <1>1, <1>3, <1>6, <1>7, <1>8 DEF ReadInv
<1>10. ReportsReadOnce' BY <1>1, <1>3 DEF ReportsReadOnce
<1> QED BY <1>9, <1>10

LEMMA ReadDeliver ==
    ASSUME TypeInv, ReadInv, ReportsReadOnce, DeliverReports
    PROVE  ReadInv' /\ ReportsReadOnce'
<1>1. rows' = rows /\ found' = NothingFound /\ seen' = IF found.last = None THEN seen ELSE found.last
  BY DEF DeliverReports, Mark
<1>2. NextSequence' = NextSequence /\ Notices' = Notices BY <1>1 DEF NextSequence, Notices
<1>3. /\ NextSequence \in Nat /\ seen \in Nat \cup {-1} /\ seen < NextSequence
      /\ found \in [reports : SUBSET Nat, last : Nat \cup {None}]
      /\ IsFiniteSet(found.reports)
      /\ Len(thread) \in Nat /\ DOMAIN thread = 1..Len(thread)
  BY NextBounds, ThreadIndex DEF TypeInv, TypeOK, RowsInv, NodeInv, ReadInv
<1>4. /\ \A x \in found.reports : x > seen /\ found.last # None /\ x <= found.last
      /\ found.last # None =>
            /\ found.last \in seen..(NextSequence - 1)
            /\ \A r \in Unread(seen) : r.seq <= found.last => r.seq \in found.reports
      /\ \A i \in 1..Len(thread) : thread[i].kind = "report" => \E x \in 0..seen : thread[i].about = <<x>>
  BY DEF ReadInv
<1>5. seen <= seen' /\ seen' < NextSequence /\ seen' \in Nat \cup {-1} /\ seen' \in Int
      /\ \A x \in found.reports : x <= seen' /\ x > seen
  <2>1. CASE found.last = None BY <1>1, <1>3, <1>4, <2>1
  <2>2. CASE found.last # None
    <3>1. found.last \in Nat /\ found.last \in seen..(NextSequence - 1) BY <1>3, <1>4, <2>2
    <3> QED BY <1>1, <1>3, <1>4, <2>2, <3>1
  <2> QED BY <2>1, <2>2
\* the old thread, and the reports behind it
<1>6. /\ Len(thread') \in Nat /\ Len(thread) <= Len(thread')
      /\ \A i \in 1..Len(thread) : thread'[i] = thread[i] /\ i \in 1..Len(thread')
      /\ \A i \in 1..Len(thread') : i \in 1..Len(thread) \/
            \E x \in found.reports : thread'[i].about = <<x>>
      /\ \A x \in found.reports : \E i \in 1..Len(thread') :
            thread'[i].kind = "report" /\ thread'[i].about = <<x>>
      /\ \A i, j \in (Len(thread) + 1)..Len(thread') : thread'[i].about = thread'[j].about => i = j
      /\ DOMAIN thread' = 1..Len(thread')
  <2>1. CASE found.reports = {}
    <3>1. thread' = thread BY <2>1 DEF DeliverReports
    <3> QED BY <1>3, <2>1, <3>1
  <2>2. CASE found.reports # {}
    <3> DEFINE n == Cardinality(found.reports)
               a == Ascending(found.reports)
    <3>1. Commit(Delivered) BY <2>2 DEF DeliverReports, Delivered
    <3>2. turn \in 1..MaxTurns /\ turn > 0 BY DEF DeliverReports, TypeInv, TypeOK, NodeInv
    <3>3. /\ NewMessages(Delivered, turn) /\ Len(Delivered) = n
          /\ \A i \in 1..Len(Delivered) : Delivered[i].kind = "report" /\ Delivered[i].about = <<a[i]>>
      BY <2>2, <3>2, DeliveredNew
    <3>4. found.reports \in SUBSET Int BY <1>3
    <3>5. /\ n \in Nat
          /\ \A i \in 1..n : a[i] \in found.reports
          /\ \A x \in found.reports : \E i \in 1..n : a[i] = x
          /\ \A i, j \in 1..n : i < j => a[i] < a[j]
      BY <1>3, <3>4, AscendingLists
    <3>6. /\ thread' \in Seq(ThreadMessages)
          /\ Len(thread') = Len(thread) + Len(Delivered)
          /\ ThreadGrows
          /\ \A i \in 1..Len(Delivered) : thread'[Len(thread) + i] = Delivered[i]
          /\ \A i \in (Len(thread) + 1)..Len(thread') :
                i - Len(thread) \in 1..Len(Delivered) /\ thread'[i] = Delivered[i - Len(thread)]
      BY <3>1, <3>2, <3>3, CommitEffect, SMTT(60)
    <3> HIDE DEF n, a
    <3>7. \A i \in (Len(thread) + 1)..Len(thread') :
            i - Len(thread) \in 1..n /\ thread'[i].about = <<a[i - Len(thread)]>>
      BY <3>3, <3>6
    <3>8. \A i \in 1..Len(thread') : i \in 1..Len(thread) \/ \E x \in found.reports : thread'[i].about = <<x>>
      <4> TAKE i \in 1..Len(thread')
      <4>1. CASE i \in 1..Len(thread) BY <4>1
      <4>2. CASE i \in (Len(thread) + 1)..Len(thread') BY <3>5, <3>7, <4>2
      <4> QED BY <1>3, <3>3, <3>5, <3>6, <4>1, <4>2
    <3>9. ASSUME NEW x \in found.reports
          PROVE  \E i \in 1..Len(thread') : thread'[i].kind = "report" /\ thread'[i].about = <<x>>
      <4>1. PICK i \in 1..n : a[i] = x BY <3>5
      <4>2. Len(thread) + i \in 1..Len(thread') BY <1>3, <3>3, <3>5, <3>6
      <4>3. thread'[Len(thread) + i] = Delivered[i] BY <3>3, <3>6
      <4>4. Delivered[i].kind = "report" /\ Delivered[i].about = <<x>> BY <3>3, <4>1
      <4> QED BY <4>2, <4>3, <4>4
    <3>10. ASSUME NEW i \in (Len(thread) + 1)..Len(thread'), NEW j \in (Len(thread) + 1)..Len(thread'),
                  thread'[i].about = thread'[j].about
           PROVE  i = j
      <4> DEFINE k == i - Len(thread)
                 l == j - Len(thread)
      <4>1. k \in 1..n /\ l \in 1..n /\ <<a[k]>> = <<a[l]>> BY <3>7, <3>10
      <4>2. a[k] = a[l] /\ a[k] \in Int /\ a[l] \in Int
        <5>1. a[k] = a[l] BY <4>1
        <5>2. a[k] \in found.reports /\ a[l] \in found.reports BY <3>5, <4>1
        <5> QED BY <3>4, <5>1, <5>2
      <4>3. ~ k < l /\ ~ l < k BY <3>5, <4>1, <4>2
      <4>4. k \in Int /\ l \in Int BY <4>1
      <4>5. i \in Int /\ j \in Int BY <1>3
      <4> QED BY <1>3, <4>3, <4>4, <4>5
    <3>11. DOMAIN thread' = 1..Len(thread') /\ Len(thread') \in Nat BY <3>6, SeqIndex
    <3>12. Len(thread) <= Len(thread') /\ \A i \in 1..Len(thread) : thread'[i] = thread[i] /\ i \in 1..Len(thread')
      BY <1>3, <3>6, <3>11 DEF ThreadGrows
    <3> QED BY <3>8, <3>9, <3>10, <3>11, <3>12
  <2> QED BY <2>1, <2>2
<1>7. ASSUME NEW i \in 1..Len(thread'), thread'[i].kind = "report"
      PROVE  \E x \in 0..seen' : thread'[i].about = <<x>>
  <2>1. CASE i \in 1..Len(thread)
    <3>1. PICK x \in 0..seen : thread[i].about = <<x>> BY <1>4, <1>6, <1>7, <2>1
    <3>2. x \in 0..seen' BY <1>3, <1>5
    <3> QED BY <1>6, <2>1, <3>1, <3>2
  <2>2. CASE \E x \in found.reports : thread'[i].about = <<x>>
    <3>1. PICK x \in found.reports : thread'[i].about = <<x>> BY <2>2
    <3>2. x \in 0..seen' BY <1>3, <1>5
    <3> QED BY <3>1, <3>2
  <2> QED BY <1>6, <2>1, <2>2
<1>8. ReadInv' BY <1>1, <1>2, <1>5, <1>7, NothingFoundType DEF ReadInv
<1>9. ASSUME NEW r \in Notices, r.kind = "report", r.seq <= seen'
      PROVE  \E i \in 1..Len(thread') : thread'[i].kind = "report" /\ thread'[i].about = <<r.seq>>
  <2>1. r.seq \in Nat BY DEF Notices, TypeInv, TypeOK, RowRecords
  <2>2. CASE r.seq <= seen
    <3>1. PICK i \in 1..Len(thread) : thread[i].kind = "report" /\ thread[i].about = <<r.seq>>
      BY <1>3, <1>9, <2>2 DEF ReportsReadOnce
    <3> QED BY <1>6, <3>1
  <2>3. CASE r.seq > seen
    <3>1. r \in Unread(seen) BY <1>9, <2>3 DEF Unread
    <3>2. found.last # None /\ r.seq <= found.last BY <1>1, <1>3, <1>9, <2>1, <2>3
    <3>3. r.seq \in found.reports BY <1>4, <3>1, <3>2
    <3> QED BY <1>6, <3>3
  <2> QED BY <1>3, <2>1, <2>2, <2>3
<1>10. ASSUME NEW i \in 1..Len(thread'), NEW j \in 1..Len(thread'),
              thread'[i].kind = "report", thread'[j].kind = "report", thread'[i].about = thread'[j].about
       PROVE  i = j
  <2>1. ASSUME NEW k \in 1..Len(thread), NEW l \in 1..Len(thread'), l \notin 1..Len(thread),
               thread'[k].kind = "report"
        PROVE  thread'[k].about # thread'[l].about
    <3>1. PICK x \in 0..seen : thread'[k].about = <<x>> BY <1>4, <1>6, <2>1
    <3>2. PICK y \in found.reports : thread'[l].about = <<y>> BY <1>6, <2>1
    <3>3. x \in Int /\ y \in Int /\ y > seen /\ x <= seen BY <1>3, <1>5
    <3>4. x # y BY <1>3, <3>3
    <3> QED BY <3>1, <3>2, <3>4
  <2>2. CASE i \in 1..Len(thread) /\ j \in 1..Len(thread)
    <3>1. thread'[i] = thread[i] /\ thread'[j] = thread[j] BY <1>6, <2>2
    <3> QED BY <1>3, <1>10, <2>2, <3>1 DEF ReportsReadOnce
  <2>3. CASE i \notin 1..Len(thread) /\ j \notin 1..Len(thread)
    <3>1. i \in (Len(thread) + 1)..Len(thread') /\ j \in (Len(thread) + 1)..Len(thread')
      BY <1>3, <1>6, <2>3
    <3> QED BY <1>6, <1>10, <3>1
  <2> QED BY <1>10, <2>1, <2>2, <2>3
<1>11. ReportsReadOnce' BY <1>2, <1>6, <1>9, <1>10 DEF ReportsReadOnce
<1> QED BY <1>8, <1>11

\* Every report the mark has passed is in the thread, and none is there twice.
THEOREM ReadOnce == Spec => []ReportsReadOnce
<1> DEFINE Inv == TypeInv /\ ReadInv /\ ReportsReadOnce
<1>1. Init => Inv
  <2> SUFFICES ASSUME Init PROVE ReadInv /\ ReportsReadOnce BY InitType
  <2>1. thread = <<>> /\ rows = {} /\ found = NothingFound /\ seen = -1 BY DEF Init
  <2>2. NextSequence \in Nat BY InitType, NextBounds DEF TypeInv, TypeOK, RowsInv
  <2>3. Len(thread) = 0 /\ DOMAIN thread = 1..0 BY <2>1
  <2>4. ReadInv BY <2>1, <2>2, <2>3, NothingFoundType DEF ReadInv
  <2>5. ReportsReadOnce BY <2>1, <2>3 DEF ReportsReadOnce, Notices
  <2> QED BY <2>4, <2>5
<1>2. Inv /\ [Next]_vars => Inv'
  <2> SUFFICES ASSUME Inv, [Next]_vars PROVE ReadInv' /\ ReportsReadOnce' BY StepType
  <2>1. CASE ReadReports BY <2>1, ReadRead
  <2>2. CASE DeliverReports BY <2>2, ReadDeliver
  <2>3. CASE ~ReadReports /\ ~DeliverReports
    <3>1. ASSUME NEW s \in stamps, Stamp(s) PROVE seen' = seen /\ found' = found BY <3>1 DEF Stamp
    <3>2. ASSUME Fail PROVE seen' = seen /\ found' = NothingFound BY <3>2 DEF Fail, Over
    <3>3. ASSUME Cancel PROVE seen' = seen /\ found' = NothingFound
      <4> HIDE DEF Inv
      <4> QED BY <3>3 DEF Cancel, Over
    <3>4. ASSUME Send \/ Wake \/ Model \/ SubagentStep \/ Tool \/ Interrupt
          PROVE  seen' = seen /\ found' = found
      BY <3>4 DEF Send, Wake, Model, SubagentStep, Tool, Interrupt
    <3>5. ASSUME HandleValues \/ Finish \/ Notice \/ UNCHANGED vars
          PROVE  seen' = seen /\ found' = found
      BY <3>5 DEF HandleValues, Finish, Notice, vars
    <3>6. seen' = seen /\ (found' = found \/ found' = NothingFound)
      BY <2>3, <3>1, <3>2, <3>3, <3>4, <3>5 DEF Next, Graph
    <3> QED BY <2>3, <3>6, ReadOther
  <2> QED BY <2>1, <2>2, <2>3
<1>3. Inv => ReportsReadOnce OBVIOUS
<1> QED BY <1>1, <1>2, <1>3, PTL DEF Spec

-----------------------------------------------------------------------------
(* The stamps *)

LEMMA StampStep ==
    ASSUME TypeInv, StampInv, StampHoldsMessage, [Next]_vars, cancels = 0
    PROVE  /\ cancels' = 0 => \A s \in stamps' :
                 phase' = "stamping" /\ s.turn = turn' /\ s.checkpoint = Len(thread')
           /\ \A r \in rows' : Len(r.id) > 0 /\ r.checkpoint # 0 => r.id[1] <= r.checkpoint
<1>1. \A s \in stamps : /\ phase = "stamping" /\ s.turn = turn /\ s.checkpoint = Len(thread)
                        /\ s \in [turn : 1..MaxTurns, checkpoint : 1..MaxMessages]
  BY DEF StampInv, TypeInv, TypeOK
<1>2. ASSUME NEW r \in rows
      PROVE  /\ r \in RowRecords
             /\ Len(r.id) > 0 => r.id[1] \in 0..Len(thread)
             /\ Len(r.id) > 0 /\ r.checkpoint # 0 => r.id[1] <= r.checkpoint
  <2>1. r \in RowRecords /\ RowForm(r) BY DEF TypeInv, TypeOK, RowsInv
  <2>2. Len(thread) \in Nat BY ThreadIndex DEF TypeInv
  <2>3. Len(r.id) > 0 => r.id[1] \in 0..Len(thread)
    <3>1. NoticeRow(r) => Len(r.id) = 0 BY <2>1, RowIds
    <3>2. RootRow(r) \/ SubRow(r) => r.id[1] \in 1..Len(thread) BY <2>1, RowIds
    <3>3. StopRow(r) => r.id[1] = 0 BY <2>1, RowIds
    <3> QED BY <2>1, <2>2, <3>1, <3>2, <3>3 DEF RowForm
  <2> QED BY <2>1, <2>3 DEF StampHoldsMessage
<1>3. ASSUME cancels' = 0, NEW s \in stamps'
      PROVE  phase' = "stamping" /\ s.turn = turn' /\ s.checkpoint = Len(thread')
  <2>1. CASE Finish
    <3>1. stamps = {} BY <1>1, <2>1 DEF Finish
    <3>2. s = [turn |-> turn, checkpoint |-> Len(thread)] BY <2>1, <3>1 DEF Finish, LatestCheckpoint
    <3> QED BY <2>1, <3>2 DEF Finish
  <2>2. ASSUME NEW t \in stamps, Stamp(t)
        PROVE  phase' = "stamping" /\ s.turn = turn' /\ s.checkpoint = Len(thread')
    <3>1. s \in stamps /\ s # t BY <2>2 DEF Stamp
    <3>2. s = t BY <1>1, <3>1
    <3> QED BY <3>1, <3>2
  <2>3. ~Cancel BY <1>3, CancelEffect
  <2>4. CASE Notice \/ UNCHANGED vars BY <1>1, <2>4 DEF Notice, vars
  <2>5. CASE Send \/ Wake \/ Graph \/ HandleValues \/ Fail
    <3>1. stamps' = stamps /\ phase # "stamping"
      BY <2>5 DEF Send, Wake, Graph, ReadReports, DeliverReports, Model, SubagentStep, Tool, Interrupt,
                  HandleValues, Fail, Over
    <3> QED BY <1>1, <3>1
  <2> QED BY <2>1, <2>2, <2>3, <2>4, <2>5 DEF Next
<1>4. ASSUME NEW x \in rows', Len(x.id) > 0, x.checkpoint # 0 PROVE x.id[1] <= x.checkpoint
  <2>1. CASE rows' = rows BY <1>2, <1>4, <2>1
  <2>2. CASE \E new : Fresh(new) /\ rows' = rows \cup new BY <1>2, <1>4, <2>2 DEF Fresh
  <2>3. CASE \E s \in stamps : /\ Stamp(s) /\ s.checkpoint \in Nat
                               /\ rows' = {Stamped(r, s.checkpoint) : r \in rows}
    <3>1. PICK s \in stamps : /\ s.checkpoint \in Nat
                              /\ rows' = {Stamped(r, s.checkpoint) : r \in rows}
      BY <2>3
    <3>2. PICK r \in rows : x = Stamped(r, s.checkpoint) BY <3>1
    <3>3. r \in RowRecords BY <1>2
    <3>4. x.id = r.id /\ x.checkpoint = IF r.checkpoint = 0 THEN s.checkpoint ELSE r.checkpoint
      BY <3>1, <3>2, <3>3, StampedRow
    <3>5. s.checkpoint = Len(thread) BY <1>1
    <3> QED BY <1>2, <1>4, <3>4, <3>5
  <2> QED BY <2>1, <2>2, <2>3, RowsStep
<1> QED BY <1>3, <1>4

\* As long as no stop leaves a stamp behind, the checkpoint a row was stamped
\* with holds the row's message.
THEOREM CheckpointHoldsMessage == Spec => []StampHoldsMessage
<1> DEFINE Inv == TypeInv /\ StampInv /\ StampHoldsMessage
<1>1. Init => Inv
  <2> SUFFICES ASSUME Init PROVE StampInv /\ StampHoldsMessage BY InitType
  <2> QED BY DEF Init, StampInv, StampHoldsMessage
<1>2. Inv /\ [Next]_vars => Inv'
  <2> SUFFICES ASSUME Inv, [Next]_vars PROVE StampInv' /\ StampHoldsMessage' BY StepType
  <2>1. cancels' = cancels \/ cancels' = cancels + 1
    <3>1. ASSUME NEW s \in stamps, Stamp(s) PROVE cancels' = cancels BY <3>1 DEF Stamp
    <3>2. Cancel => cancels' = cancels + 1 BY DEF Cancel
    <3>3. CASE Send \/ Wake \/ Graph \/ HandleValues \/ Finish \/ Fail \/ Notice \/ UNCHANGED vars
      BY <3>3 DEF Send, Wake, Graph, ReadReports, DeliverReports, Model, SubagentStep, Tool, Interrupt,
                  HandleValues, Finish, Fail, Notice, counters, vars
    <3> QED BY <3>1, <3>2, <3>3 DEF Next
  <2>2. cancels \in Nat BY DEF TypeInv, TypeOK
  <2>3. cancels' = 0 => cancels = 0 BY <2>1, <2>2
  <2> QED BY <2>3, StampStep DEF StampInv, StampHoldsMessage
<1>3. Inv => StampHoldsMessage OBVIOUS
<1> QED BY <1>1, <1>2, <1>3, PTL DEF Spec

-----------------------------------------------------------------------------
(* What a values event that is written leaves *)

\* Only the handling of a values event counts messages.
LEMMA Counted ==
    ASSUME TypeInv, [Next]_vars, NEW of \in 0..MaxMessages, counted'[of] > counted[of]
    PROVE  HandleValues
<1>1. counted[of] \in Nat BY DEF TypeInv, TypeOK
<1>2. ASSUME Send \/ Wake PROVE FALSE
  <2>1. counted'[of] = 0 BY <1>2 DEF Send, Wake, NothingCounted
  <2> QED BY <1>1, <2>1
<1>3. ASSUME counted' = counted PROVE FALSE BY <1>1, <1>3
<1>4. ASSUME NEW s \in stamps, Stamp(s) PROVE FALSE BY <1>3, <1>4 DEF Stamp
<1>5. ASSUME Graph \/ Finish \/ Fail \/ Cancel \/ Notice \/ UNCHANGED vars PROVE FALSE
  <2>1. counted' = counted
    BY <1>5 DEF Graph, ReadReports, DeliverReports, Model, SubagentStep, Tool, Interrupt, Finish, Fail,
                Cancel, Over, Notice, vars
  <2> QED BY <1>3, <2>1
<1> QED BY <1>2, <1>4, <1>5 DEF Next

LEMMA HealStep ==
    ASSUME TypeInv, [Next]_vars, NEW of \in 0..MaxMessages, counted'[of] > counted[of],
           dbFails' = dbFails
    PROVE  \A m \in {Visible(Head(events))[i] : i \in DOMAIN Visible(Head(events))} :
              \E r \in rows' : r.id = m.id
<1> DEFINE e == Head(events)
<1>1. HandleValues BY Counted
<1>2. counted[of] \in Nat /\ dbFails \in Nat BY DEF TypeInv, TypeOK
<1>3. ~ counted' = counted BY <1>2
<1>4. ~ dbFails' = dbFails + 1 BY <1>2
<1>5. PICK new : ValuesRows(e, new) /\ rows' = rows \cup new BY <1>1, <1>3, <1>4, HandleEffect
<1> HIDE DEF e
<1> SUFFICES ASSUME NEW i \in DOMAIN Visible(e) PROVE \E r \in rows' : r.id = Visible(e)[i].id
  BY DEF e
<1>6. Recorded(Visible(e)[i].id) \/ \E s \in new : s.id = Visible(e)[i].id BY <1>5 DEF ValuesRows
<1> QED BY <1>5, <1>6 DEF Recorded

\* A values event that is written leaves no visible message of its snapshot
\* without a row, whatever was lost before it.
THEOREM WritesHeal == Spec => WriteHeals
<1>1. Spec => []TypeInv
  <2>1. Init => TypeInv BY InitType
  <2>2. TypeInv /\ [Next]_vars => TypeInv' BY StepType
  <2> QED BY <2>1, <2>2, PTL DEF Spec
<1> DEFINE A == \A of \in 0..MaxMessages :
                   /\ counted'[of] > counted[of]
                   /\ dbFails' = dbFails
                   => \A m \in {Visible(Head(events))[i] : i \in DOMAIN Visible(Head(events))} :
                        \E r \in rows' : r.id = m.id
<1>2. TypeInv /\ [Next]_vars => A BY HealStep
<1>3. WriteHeals <=> [][A]_vars BY DEF WriteHeals
<1> HIDE DEF A
<1> QED BY <1>1, <1>2, <1>3, PTL DEF Spec

-----------------------------------------------------------------------------
(* The stop button *)

\* A row is a subagent's by its source, unless it closes a call.
LEMMA SubRows ==
    ASSUME TypeInv
    PROVE  \A r \in rows : SubRow(r) <=> r.source = "subagent" /\ r.id[1] # 0
<1> TAKE r \in rows
<1>1. r \in RowRecords /\ RowForm(r) BY DEF TypeInv, TypeOK, RowsInv
<1>2. Len(thread) \in Nat BY ThreadIndex DEF TypeInv
<1>3. SubRow(r) => r.source = "subagent" /\ r.id[1] # 0
  <2>1. SubRow(r) => r.id[1] \in 1..Len(thread) BY <1>1, RowIds
  <2> QED BY <1>2, <2>1 DEF SubRow
<1>4. ASSUME r.source = "subagent", r.id[1] # 0 PROVE SubRow(r)
  <2>1. StopRow(r) => r.id[1] = 0 BY <1>1, RowIds
  <2> QED BY <1>1, <1>4, <2>1 DEF RowForm, NoticeRow, RootRow
<1> QED BY <1>3, <1>4

LEMMA FailsStep ==
    ASSUME TypeInv, [Next]_vars, dbFails' <= 1
    PROVE  /\ dbFails \in Nat /\ dbFails' \in {0, 1}
           /\ dbFails' = dbFails \/ (dbFails = 0 /\ dbFails' = 1)
<1>1. dbFails \in Nat BY DEF TypeInv, TypeOK
<1>2. dbFails' = dbFails \/ dbFails' = dbFails + 1
  <2>1. HandleValues => dbFails' = dbFails \/ dbFails' = dbFails + 1 BY HandleEffect
  <2>2. Cancel => dbFails' = dbFails \/ dbFails' = dbFails + 1 BY CancelEffect
  <2>3. Notice => dbFails' = dbFails \/ dbFails' = dbFails + 1 BY DEF Notice, Transaction
  <2>4. ASSUME NEW s \in stamps, Stamp(s) PROVE dbFails' = dbFails \/ dbFails' = dbFails + 1
    BY <2>4 DEF Stamp
  <2>5. ASSUME Send \/ Wake \/ Graph \/ Finish \/ Fail \/ UNCHANGED vars PROVE dbFails' = dbFails
    BY <2>5 DEF Send, Wake, Graph, ReadReports, DeliverReports, Model, SubagentStep, Tool, Interrupt,
                Finish, Fail, counters, vars
  <2> QED BY <2>1, <2>2, <2>3, <2>4, <2>5 DEF Next
<1> QED BY <1>1, <1>2

LEMMA KeptStep ==
    ASSUME TypeInv, [Next]_vars, NEW j, Kept(j)
    PROVE  /\ Kept(j)'
           /\ \A s \in rows' : s.id = <<j>> => \E r \in rows : r.id = <<j>> /\ r.seq = s.seq
<1>1. /\ \A r \in rows : \E x \in rows' : x.seq = r.seq /\ x.id = r.id
      /\ \A x \in rows' : ~Recorded(x.id) \/ \E r \in rows : x.seq = r.seq /\ x.id = r.id
  BY RowsMonotone
<1>2. <<j>> # NoId BY DEF NoId
<1>3. Recorded(<<j>>) BY <1>2 DEF Kept, Recorded
<1> QED BY <1>1, <1>3 DEF Kept

\* A step that adds no row of a subagent.
LEMMA RowsCloseKept ==
    ASSUME TypeInv, RowsClose, [Next]_vars,
           \A x \in rows' : x.source = "subagent" /\ x.id[1] # 0 =>
              \E r \in rows : r.seq = x.seq /\ r.id = x.id /\ r.source = x.source
    PROVE  RowsClose'
<1>1. TypeInv' BY StepType
<1>2. \A x \in rows' : SubRow(x)' <=> x.source = "subagent" /\ x.id[1] # 0
  <2>1. (\A r \in rows : SubRow(r) <=> r.source = "subagent" /\ r.id[1] # 0)'
    BY <1>1, SubRows, PTL
  <2> QED BY <2>1
<1> SUFFICES ASSUME NEW x \in rows', NEW j \in 1..Len(thread'), SubRow(x)', Human(j)', j <= x.id[1]
             PROVE  Kept(j)' /\ \A s \in rows' : s.id = <<j>> => s.seq < x.seq
  BY DEF RowsClose
<1>3. PICK r \in rows : r.seq = x.seq /\ r.id = x.id /\ r.source = x.source BY <1>2
<1>4. SubRow(r) BY <1>2, <1>3, SubRows
<1>5. r.id[1] \in 1..Len(thread) BY <1>4, RowIds DEF TypeInv, TypeOK
<1>6. ThreadGrows /\ Len(thread) \in Nat /\ Len(thread') \in Nat BY ThreadStep
<1>7. j \in 1..Len(thread) BY <1>3, <1>5, <1>6
<1>8. Human(j) BY <1>6, <1>7 DEF Human, ThreadGrows
<1>9. Kept(j) /\ \A s \in rows : s.id = <<j>> => s.seq < r.seq BY <1>3, <1>4, <1>7, <1>8 DEF RowsClose
<1> QED BY <1>3, <1>9, KeptStep

\* A promise holds as long as its events wait.
LEMMA PromiseKept ==
    ASSUME TypeInv, [Next]_vars, dbFails' <= 1, NEW j, NEW p \in 1..(Len(events) + 1), Promised(j, p),
           \A q \in 1..Len(events) : events'[q] = events[q]
    PROVE  Promised(j, p)'
<1>1. Kept(j) => Kept(j)' BY KeptStep
<1>2. dbFails = 1 => dbFails' = 1 BY FailsStep
<1>3. Len(events) \in Nat BY ThreadIndex DEF TypeInv
<1>4. \A q \in 1..(p - 1) : events'[q] = events[q] BY <1>3
<1> QED BY <1>1, <1>2, <1>4 DEF Promised

\* Steps by which the thread and its events grow, or stay.
LEMMA EventsCloseKept ==
    ASSUME TypeInv, EventsClose, [Next]_vars, dbFails' <= 1,
           Len(events') >= Len(events), Len(events') \in Nat,
           \A q \in 1..Len(events) : events'[q] = events[q],
           \A p \in 1..Len(events') : p \notin 1..Len(events) => events'[p].of = Root
    PROVE  EventsClose'
<1> SUFFICES ASSUME NEW p \in 1..Len(events'), NEW j \in 1..Len(thread'),
                    events'[p].of # Root, Human(j)', j <= events'[p].of
             PROVE  Promised(j, p)'
  BY DEF EventsClose
<1>1. p \in 1..Len(events) /\ events'[p] = events[p] OBVIOUS
<1>2. Len(events) \in Nat /\ events[p] \in EventRecords BY <1>1, ThreadIndex DEF TypeInv
<1>3. events[p].of <= Len(thread) /\ events[p].of \in Nat BY <1>1, <1>2 DEF TypeInv, EventsInv, EventRecords
<1>4. ThreadGrows /\ Len(thread) \in Nat /\ Len(thread') \in Nat BY ThreadStep
<1>5. j \in 1..Len(thread) BY <1>1, <1>3, <1>4
<1>6. Human(j) BY <1>4, <1>5 DEF Human, ThreadGrows
<1>7. Promised(j, p) BY <1>1, <1>5, <1>6 DEF EventsClose
<1>8. p \in 1..(Len(events) + 1) BY <1>1, <1>2
<1> QED BY <1>7, <1>8, PromiseKept

\* A report stays unread.
LEMMA UnreadStep ==
    ASSUME TypeInv, [Next]_vars, seen' = seen, Unread(seen)' = {}
    PROVE  Unread(seen) = {}
<1> SUFFICES ASSUME NEW r \in Unread(seen) PROVE FALSE OBVIOUS
<1>1. r \in rows /\ r.source = "notification" /\ r.seq > seen /\ r.kind = "report"
  BY DEF Unread, Notices
<1>2. \E x \in rows' : x.seq = r.seq /\ x.kind = r.kind /\ x.source = r.source BY <1>1, RowsMonotone
<1> QED BY <1>1, <1>2 DEF Unread, Notices

\* Steps that leave the thread and the events as they are.
LEMMA CloseSame ==
    ASSUME TypeInv, EventsClose, ToolClose, ModelClose, [Next]_vars, dbFails' <= 1,
           UNCHANGED <<thread, events, node, asked, seen, found>>
    PROVE  EventsClose' /\ ToolClose' /\ ModelClose'
<1>1. Len(events) \in Nat BY ThreadIndex DEF TypeInv
<1>2. EventsClose' BY <1>1, EventsCloseKept
<1>3. ASSUME node = "tool", ~asked, NEW j \in 1..Len(thread), Human(j) PROVE Promised(j, Len(events) + 1)'
  <2>1. Promised(j, Len(events) + 1) BY <1>3 DEF ToolClose
  <2>2. Len(events) + 1 \in 1..(Len(events) + 1) BY <1>1
  <2> QED BY <2>1, <2>2, PromiseKept
<1>4. ToolClose' BY <1>3 DEF ToolClose, Human
<1>5. BeforeModel' => BeforeModel BY UnreadStep DEF BeforeModel
<1>6. ASSUME BeforeModel', dbFails' # 1, NEW j \in 1..Len(thread), Human(j)
      PROVE  Kept(j)' \/ \E q \in 1..Len(events) : Holds(events[q], j)
  <2>1. dbFails # 1 BY <1>6, FailsStep
  <2> QED BY <1>5, <1>6, <2>1, KeptStep DEF ModelClose
<1>7. ModelClose' BY <1>6 DEF ModelClose, Human, Holds
<1> QED BY <1>2, <1>4, <1>7

\* A commit's event holds all messages.
LEMMA CommitClose ==
    ASSUME TypeInv, EventsClose, [Next]_vars, dbFails' <= 1,
           NEW t \in 1..MaxTurns, NEW m, NewMessages(m, t), Commit(m)
    PROVE  /\ EventsClose'
           /\ Len(events) \in Nat /\ Len(events') = Len(events) + 1
           /\ \A q \in 1..Len(events) : events'[q] = events[q]
           /\ \A j \in 1..Len(thread') : Holds(events'[Len(events) + 1], j)
<1>1. /\ Len(events') = Len(events) + 1
      /\ \A q \in 1..Len(events) : events'[q] = events[q]
      /\ events'[Len(events) + 1] = Snapshot(Len(thread'))
      /\ Len(thread') = Len(thread) + Len(m) /\ Len(thread) \in Nat /\ Len(m) \in Nat
  BY CommitEffect
<1>2. Len(events) \in Nat BY ThreadIndex DEF TypeInv
<1>3. \A j \in 1..Len(thread') : Holds(events'[Len(events) + 1], j)
  BY <1>1 DEF Holds, IsRoot, Snapshot
<1>4. events'[Len(events) + 1].of = Root BY <1>1 DEF Snapshot
<1>5. \A p \in 1..Len(events') : p \notin 1..Len(events) => events'[p].of = Root
  <2> SUFFICES ASSUME NEW p \in 1..Len(events'), p \notin 1..Len(events) PROVE p = Len(events) + 1
    BY <1>4
  <2> QED BY <1>1, <1>2
<1>6. Len(events') >= Len(events) /\ Len(events') \in Nat BY <1>1, <1>2
<1>7. EventsClose' BY <1>1, <1>5, <1>6, EventsCloseKept
<1> QED BY <1>1, <1>2, <1>3, <1>7

\* Steps that commit and do not run a tool next.
LEMMA CommitCloses ==
    ASSUME TypeInv, EventsClose, [Next]_vars, dbFails' <= 1,
           NEW t \in 1..MaxTurns, NEW m, NewMessages(m, t), Commit(m), node' # "tool"
    PROVE  EventsClose' /\ ToolClose' /\ ModelClose'
<1>1. /\ EventsClose'
      /\ Len(events) \in Nat /\ Len(events') = Len(events) + 1
      /\ \A j \in 1..Len(thread') : Holds(events'[Len(events) + 1], j)
  BY CommitClose
<1>2. Len(events) + 1 \in 1..Len(events') BY <1>1
<1>3. ToolClose' BY DEF ToolClose
<1>4. ModelClose' BY <1>1, <1>2 DEF ModelClose
<1> QED BY <1>1, <1>3, <1>4

LEMMA ModelCloses ==
    ASSUME TypeInv, CloseInv, [Next]_vars, dbFails' <= 1, Model
    PROVE  EventsClose' /\ ToolClose' /\ ModelClose'
<1>1. dbFails <= 1 /\ dbFails' = dbFails BY FailsStep DEF Model, counters
<1>2. EventsClose /\ ModelClose BY <1>1 DEF CloseInv
<1>3. turn \in 1..MaxTurns BY DEF Model, TypeInv, TypeOK, NodeInv
<1>4. PICK kind \in {"reply", "call"} : Commit(<<NextMessage(kind, NoId, turn)>>) BY DEF Model
<1> DEFINE m == <<NextMessage(kind, NoId, turn)>>
<1>5. NewMessages(m, turn) /\ Len(m) = 1 /\ m[1].kind = kind
  <2>1. NoId \in Ids BY DEF NoId, Ids
  <2> QED BY <1>3, <2>1, OneMessage
<1>6. Commit(m) BY <1>4
<1> HIDE DEF m
<1>7. /\ EventsClose'
      /\ Len(events) \in Nat /\ Len(events') = Len(events) + 1
      /\ \A q \in 1..Len(events) : events'[q] = events[q]
      /\ \A j \in 1..Len(thread') : Holds(events'[Len(events) + 1], j)
  BY <1>2, <1>3, <1>5, <1>6, CommitClose
<1>8. /\ Len(thread') = Len(thread) + 1 /\ Len(thread) \in Nat
      /\ thread'[Len(thread) + 1] = m[1] /\ ThreadGrows
  <2>1. /\ Len(thread') = Len(thread) + Len(m) /\ Len(thread) \in Nat /\ ThreadGrows
        /\ \A i \in 1..Len(m) : thread'[Len(thread) + i] = m[i]
    BY <1>3, <1>5, <1>6, CommitEffect, ZenonT(60)
  <2> QED BY <1>5, <2>1
<1>9. ASSUME NEW j \in 1..Len(thread'), Human(j)', NEW p, p = Len(events) + 2 PROVE Promised(j, p)'
  <2>1. j # Len(thread) + 1
    <3>1. thread'[Len(thread) + 1].kind # "human" BY <1>5, <1>8
    <3> QED BY <1>9, <3>1 DEF Human
  <2>2. j \in 1..Len(thread) BY <1>8, <2>1
  <2>3. Human(j) BY <1>8, <1>9, <2>2 DEF Human, ThreadGrows
  <2> DEFINE n == Len(events) + 1
  <2>4. n \in 1..(p - 1) /\ Holds(events'[n], j) BY <1>7, <1>9
  <2>5. dbFails = 1 \/ Kept(j) \/ \E q \in 1..Len(events) : Holds(events[q], j)
    BY <1>2, <2>2, <2>3 DEF ModelClose, BeforeModel, Model
  <2>6. CASE dbFails = 1
    <3> HIDE DEF n
    <3> QED BY <1>1, <2>4, <2>6 DEF Promised
  <2>7. CASE Kept(j) BY <2>7, KeptStep DEF Promised
  <2>8. CASE \E q \in 1..Len(events) : Holds(events[q], j)
    <3>1. PICK q \in 1..Len(events) : Holds(events[q], j) BY <2>8
    <3>2. q \in 1..(p - 1) /\ q # n /\ Holds(events'[q], j) BY <1>7, <1>9, <3>1
    <3> HIDE DEF n
    <3> QED BY <2>4, <3>2 DEF Promised
  <2> QED BY <2>5, <2>6, <2>7, <2>8
<1>10. ToolClose'
  <2>1. Len(events') + 1 = Len(events) + 2 BY <1>7
  <2>2. \A j \in 1..Len(thread') : Human(j)' => Promised(j, Len(events) + 1)'
    BY <1>9, <2>1 DEF Promised
  <2> QED BY <2>2 DEF ToolClose
<1>11. ModelClose'
  <2>1. node' \in {"done", "tool", "ask"} BY DEF Model
  <2> QED BY <2>1 DEF ModelClose, BeforeModel
<1> QED BY <1>7, <1>10, <1>11

LEMMA SubagentCloses ==
    ASSUME TypeInv, CloseInv, [Next]_vars, dbFails' <= 1, SubagentStep
    PROVE  EventsClose' /\ ToolClose' /\ ModelClose'
<1>1. dbFails <= 1 /\ EventsClose /\ ToolClose BY FailsStep DEF SubagentStep, counters, CloseInv
<1>2. PICK n \in 1..3 : /\ events' = Append(events, [of |-> LastCall, n |-> n, interrupt |-> FALSE])
                        /\ [of |-> LastCall, n |-> n, interrupt |-> FALSE] \in EventRecords
  BY SubagentEvent
<1>3. /\ Len(events) \in Nat /\ Len(events') = Len(events) + 1
      /\ \A q \in 1..Len(events) : events'[q] = events[q]
  BY <1>2, AppendIndex, ThreadIndex DEF TypeInv, TypeOK
<1>4. thread' = thread /\ node = "tool" /\ ~asked /\ node' = node /\ asked' = asked BY DEF SubagentStep
<1>5. ASSUME NEW p \in 1..(Len(events) + 1), NEW j, Promised(j, p) PROVE Promised(j, p)'
  BY <1>3, <1>5, PromiseKept
<1>6. \A j \in 1..Len(thread) : Human(j) => Promised(j, Len(events) + 1) BY <1>1, <1>4 DEF ToolClose
<1>7. PICK n1 \in Nat : n1 = Len(events) + 1 BY <1>3
<1>8. EventsClose'
  <2> SUFFICES ASSUME NEW p \in 1..Len(events'), NEW j \in 1..Len(thread), Human(j),
                      events'[p].of # Root, j <= events'[p].of
               PROVE  Promised(j, p)'
    BY <1>4 DEF EventsClose, Human
  <2>1. CASE p = Len(events) + 1
    <3>1. Promised(j, p) /\ p \in 1..(Len(events) + 1) BY <1>3, <1>6, <2>1
    <3> QED BY <1>5, <3>1
  <2>2. CASE p # Len(events) + 1
    <3>1. p \in 1..Len(events) BY <1>3, <2>2
    <3>2. p \in 1..(Len(events) + 1) BY <1>3, <3>1
    <3>3. Promised(j, p) BY <1>1, <1>3, <3>1 DEF EventsClose
    <3> QED BY <1>5, <3>2, <3>3
  <2> QED BY <2>1, <2>2
<1>9. ASSUME NEW j \in 1..Len(thread), Human(j), NEW p, p = Len(events) + 2 PROVE Promised(j, p)'
  <2>1. Promised(j, n1) /\ n1 \in 1..(Len(events) + 1) BY <1>3, <1>6, <1>7, <1>9
  <2>2. Promised(j, n1)' BY <1>5, <2>1
  <2>3. \A q \in 1..(n1 - 1) : q \in 1..(p - 1) BY <1>3, <1>7, <1>9
  <2> QED BY <2>2, <2>3 DEF Promised
<1>10. ToolClose'
  <2>1. Len(events') + 1 = Len(events) + 2 BY <1>3
  <2>2. \A j \in 1..Len(thread) : Human(j) => Promised(j, Len(events) + 1)'
    BY <1>9, <2>1 DEF Promised
  <2> QED BY <1>4, <2>2 DEF ToolClose, Human
<1>11. ModelClose' BY <1>4 DEF ModelClose, BeforeModel
<1> QED BY <1>8, <1>10, <1>11

\* The event in hand is written, or its transaction fails.
LEMMA HandlePromise ==
    ASSUME TypeInv, [Next]_vars, HandleValues, dbFails' <= 1,
           NEW j \in 1..Len(thread), Human(j), Holds(events[1], j)
    PROVE  Kept(j)' \/ (dbFails = 0 /\ dbFails' = 1)
<1> DEFINE e == Head(events)
<1>1. e = events[1] /\ e \in EventRecords /\ Len(events) >= 1 BY HandleEffect
<1>2. 1 \in 1..Len(events) BY <1>1, ThreadIndex DEF TypeInv
<1>3. e.of = Root /\ e.n >= j /\ e.n \in Nat BY <1>1 DEF Holds, IsRoot, EventRecords
<1>4. e.n > counted[Root] BY <1>1, <1>2 DEF TypeInv, EventsInv, Holds
<1>5. counted[Root] \in Nat BY RootCounted
<1>6. \/ dbFails' = dbFails + 1
      \/ \E new : ValuesRows(e, new) /\ rows' = rows \cup new
  <2>1. ~ e.n <= counted[e.of] BY <1>3, <1>4, <1>5
  <2> QED BY <2>1, HandleEffect
<1> HIDE DEF e
<1>7. CASE dbFails' = dbFails + 1 BY <1>7, FailsStep
<1>8. CASE \E new : ValuesRows(e, new) /\ rows' = rows \cup new
  <2>1. PICK new : ValuesRows(e, new) /\ rows' = rows \cup new BY <1>8
  <2>2. j \in 1..e.n BY <1>3, ThreadIndex DEF TypeInv
  <2>3. Kept(j) \/ \E s \in new : s.id = <<j>> BY <1>3, <2>1, <2>2 DEF ValuesRows, Human
  <2> QED BY <2>1, <2>3 DEF Kept
<1> QED BY <1>6, <1>7, <1>8

\* What the p-th event was promised, it is promised as the next one.
LEMMA HandlePromised ==
    ASSUME TypeInv, [Next]_vars, HandleValues, dbFails' <= 1,
           NEW j \in 1..Len(thread), Human(j), NEW p \in Nat, p <= Len(events), Promised(j, p + 1)
    PROVE  Promised(j, p)'
<1>1. /\ Len(events) \in Nat
      /\ \A q \in 2..p : q - 1 \in 1..(p - 1) /\ events'[q - 1] = events[q]
  <2>1. /\ Len(events) \in Nat
        /\ \A i \in 1..(Len(events) - 1) : Tail(events)[i] = events[i + 1]
    BY TailIndex DEF HandleValues, TypeInv, TypeOK
  <2>2. events' = Tail(events) BY DEF HandleValues
  <2> SUFFICES ASSUME NEW q \in 2..p PROVE q - 1 \in 1..(p - 1) /\ events'[q - 1] = events[q]
    BY <2>1
  <2>3. q - 1 \in 1..(p - 1) /\ q - 1 \in 1..(Len(events) - 1) /\ (q - 1) + 1 = q BY <2>1
  <2> QED BY <2>1, <2>2, <2>3
<1>2. CASE Kept(j) BY <1>2, KeptStep DEF Promised
<1>3. CASE \E q \in 1..(p + 1 - 1) :
              /\ Holds(events[q], j)
              /\ dbFails = 1 \/ \E o \in 1..(p + 1 - 1) : o # q /\ Holds(events[o], j)
  <2>1. PICK q \in 1..p :
              /\ Holds(events[q], j)
              /\ dbFails = 1 \/ \E o \in 1..p : o # q /\ Holds(events[o], j)
    BY <1>3
  <2>2. ASSUME NEW a \in 2..p, Holds(events[a], j) PROVE a - 1 \in 1..(p - 1) /\ Holds(events'[a - 1], j)
    BY <1>1, <2>2
  <2>3. CASE dbFails' = 1 /\ \E a \in 2..p : Holds(events[a], j)
    <3>1. PICK a \in 2..p : Holds(events[a], j) BY <2>3
    <3>2. a - 1 \in 1..(p - 1) /\ Holds(events'[a - 1], j) BY <2>2, <3>1
    <3> QED BY <2>3, <3>2 DEF Promised
  <2>4. CASE Holds(events[1], j)
    <3>1. Kept(j)' \/ (dbFails = 0 /\ dbFails' = 1) BY <2>4, HandlePromise
    <3>2. ASSUME dbFails = 0, dbFails' = 1 PROVE \E a \in 2..p : Holds(events[a], j)
      <4>1. PICK o \in 1..p : o # q /\ Holds(events[o], j) BY <2>1, <3>2
      <4>2. q \in 2..p \/ o \in 2..p BY <4>1
      <4> QED BY <2>1, <4>1, <4>2
    <3>3. CASE Kept(j)' BY <3>3 DEF Promised
    <3> QED BY <2>3, <3>1, <3>2, <3>3
  <2>5. CASE ~Holds(events[1], j)
    <3>1. q \in 2..p BY <2>1, <2>5
    <3>2. CASE dbFails = 1
      <4>1. dbFails' = 1 BY <3>2, FailsStep
      <4> QED BY <2>1, <2>3, <3>1, <4>1
    <3>3. CASE dbFails # 1
      <4>1. PICK o \in 1..p : o # q /\ Holds(events[o], j) BY <2>1, <3>3
      <4>2. o \in 2..p BY <2>5, <4>1
      <4>3. q - 1 # o - 1 BY <3>1, <4>1, <4>2
      <4>4. /\ q - 1 \in 1..(p - 1) /\ Holds(events'[q - 1], j)
            /\ o - 1 \in 1..(p - 1) /\ Holds(events'[o - 1], j)
        BY <2>1, <2>2, <3>1, <4>1, <4>2
      <4> QED BY <4>3, <4>4 DEF Promised
    <3> QED BY <3>2, <3>3
  <2> QED BY <2>4, <2>5
<1> QED BY <1>2, <1>3 DEF Promised

LEMMA HandleCloses ==
    ASSUME TypeInv, CloseInv, [Next]_vars, dbFails' <= 1, HandleValues
    PROVE  RowsClose' /\ EventsClose' /\ ToolClose' /\ ModelClose'
<1> DEFINE e == Head(events)
<1>1. RowsClose /\ EventsClose /\ ToolClose /\ ModelClose BY FailsStep DEF CloseInv
<1>2. /\ Len(events) \in Nat /\ Len(events) >= 1 /\ e = events[1] /\ e \in EventRecords
      /\ Len(events') = Len(events) - 1
      /\ \A i \in 1..(Len(events) - 1) : events'[i] = events[i + 1]
  BY TailIndex DEF HandleValues, TypeInv, TypeOK
<1>3. UNCHANGED <<thread, node, asked, seen, found>> BY DEF HandleValues
<1>4. 1 \in 1..Len(events) /\ Len(thread) \in Nat BY <1>2, ThreadIndex DEF TypeInv
<1> HIDE DEF e
<1>5. EventsClose'
  <2> SUFFICES ASSUME NEW p \in 1..Len(events'), NEW j \in 1..Len(thread), Human(j),
                      events'[p].of # Root, j <= events'[p].of
               PROVE  Promised(j, p)'
    BY <1>3 DEF EventsClose, Human
  <2>1. /\ p \in 1..(Len(events) - 1) /\ p + 1 \in 1..Len(events) /\ p \in Nat /\ p <= Len(events)
    BY <1>2
  <2>2. events'[p] = events[p + 1] BY <1>2, <2>1
  <2>3. Promised(j, p + 1) BY <1>1, <2>1, <2>2 DEF EventsClose
  <2> QED BY <2>1, <2>3, HandlePromised
<1>6. ASSUME NEW j \in 1..Len(thread), Human(j), node = "tool", ~asked, NEW p, p = Len(events)
      PROVE  Promised(j, p)'
  <2>1. Promised(j, p + 1) BY <1>1, <1>6 DEF ToolClose
  <2> QED BY <1>2, <1>6, <2>1, HandlePromised
<1>7. ToolClose'
  <2>1. Len(events') + 1 = Len(events) BY <1>2
  <2>2. node = "tool" /\ ~asked => \A j \in 1..Len(thread) : Human(j) => Promised(j, Len(events) + 1)'
    BY <1>6, <2>1 DEF Promised
  <2> QED BY <1>3, <2>2 DEF ToolClose, Human
<1>8. ASSUME BeforeModel', dbFails' # 1, NEW j \in 1..Len(thread), Human(j)
      PROVE  Kept(j)' \/ \E q \in 1..Len(events') : Holds(events'[q], j)
  <2>1. dbFails # 1 BY <1>8, FailsStep
  <2>2. BeforeModel BY <1>3, <1>8, UnreadStep DEF BeforeModel
  <2>3. Kept(j) \/ \E q \in 1..Len(events) : Holds(events[q], j)
    BY <1>1, <1>8, <2>1, <2>2 DEF ModelClose
  <2>4. CASE Kept(j) BY <2>4, KeptStep
  <2>5. CASE \E q \in 1..Len(events) : Holds(events[q], j)
    <3>1. PICK q \in 1..Len(events) : Holds(events[q], j) BY <2>5
    <3>2. CASE q = 1 BY <1>8, <3>1, <3>2, HandlePromise
    <3>3. CASE q # 1
      <4>1. q - 1 \in 1..(Len(events) - 1) /\ (q - 1) + 1 = q BY <1>2, <3>3
      <4>2. events'[q - 1] = events[q] BY <1>2, <4>1
      <4> QED BY <1>2, <3>1, <4>1, <4>2
    <3> QED BY <3>2, <3>3
  <2> QED BY <2>3, <2>4, <2>5
<1>9. ModelClose' BY <1>3, <1>8 DEF ModelClose, Human
<1>10. RowsClose'
  <2>1. CASE rows' = rows BY <1>1, <2>1, RowsCloseKept
  <2>2. CASE \E new : ValuesRows(e, new) /\ rows' = rows \cup new
    <3>1. PICK new : ValuesRows(e, new) /\ rows' = rows \cup new BY <2>2
    <3>2. CASE e.of = Root
      <4>1. ASSUME NEW x \in new PROVE x.source # "subagent" \/ x.id[1] = 0
        <5>1. x \in RowRecords /\ RowForm(x) BY <3>1 DEF ValuesRows, Fresh
        <5>2. Len(x.id) = 1 BY <3>1, <3>2 DEF ValuesRows
        <5>3. ~SubRow(x)
          <6>1. SubRow(x) => Len(x.id) = 2 BY <5>1, RowIds
          <6> QED BY <5>2, <6>1
        <5>4. StopRow(x) => x.id[1] = 0 BY <5>1, RowIds
        <5> QED BY <5>1, <5>3, <5>4 DEF RowForm, NoticeRow, RootRow
      <4> QED BY <1>1, <3>1, <4>1, RowsCloseKept
    <3>3. CASE e.of # Root
      <4>1. ASSUME NEW j \in 1..Len(thread), Human(j), j <= e.of PROVE Kept(j)
        <5>1. Promised(j, 1) BY <1>1, <1>2, <1>4, <3>3, <4>1 DEF EventsClose
        <5>2. \A q \in 1..(1 - 1) : FALSE OBVIOUS
        <5> QED BY <5>1, <5>2 DEF Promised
      <4>2. /\ \A r \in new : r.seq >= NextSequence /\ r.id[1] = e.of /\ r \in RowRecords
            /\ \A r \in rows : r.seq < NextSequence /\ r \in RowRecords
            /\ NextSequence \in Nat
        BY <3>1, <3>3, NextBounds DEF ValuesRows, Fresh, TypeInv, TypeOK, RowsInv
      <4> SUFFICES ASSUME NEW x \in rows', NEW j \in 1..Len(thread), SubRow(x), Human(j), j <= x.id[1]
                   PROVE  Kept(j)' /\ \A s \in rows' : s.id = <<j>> => s.seq < x.seq
        BY <1>3 DEF RowsClose, SubRow, Human
      <4>3. CASE x \in rows
        <5>1. Kept(j) /\ \A s \in rows : s.id = <<j>> => s.seq < x.seq BY <1>1, <4>3 DEF RowsClose
        <5> QED BY <5>1, KeptStep
      <4>4. CASE x \in new
        <5>1. Kept(j) BY <4>1, <4>2, <4>4
        <5>2. \A s \in rows' : s.id = <<j>> => \E r \in rows : r.seq = s.seq BY <5>1, KeptStep
        <5>3. \A r \in rows : r.seq < x.seq BY <4>2, <4>4 DEF RowRecords
        <5> QED BY <5>1, <5>2, <5>3, KeptStep
      <4> QED BY <3>1, <4>3, <4>4
    <3> QED BY <3>2, <3>3
  <2> QED BY <2>1, <2>2, HandleEffect DEF e
<1> QED BY <1>5, <1>7, <1>9, <1>10

\* No other step adds a row of a subagent.
LEMMA RowsCloseStep ==
    ASSUME TypeInv, RowsClose, [Next]_vars, ~HandleValues
    PROVE  RowsClose'
<1>1. ASSUME NEW new, Fresh(new), rows' = rows \cup new,
             \A x \in new : NoticeRow(x) \/ StopRow(x)
      PROVE  RowsClose'
  <2>1. ASSUME NEW x \in new PROVE x.source # "subagent" \/ x.id[1] = 0
    <3>1. x \in RowRecords BY <1>1 DEF Fresh
    <3>2. StopRow(x) => x.id[1] = 0 BY <3>1, RowIds
    <3> QED BY <1>1, <3>2 DEF NoticeRow
  <2> QED BY <1>1, <2>1, RowsCloseKept
<1>2. CASE Cancel BY <1>1, <1>2, CancelEffect
<1>3. CASE Notice
  <2>1. PICK kind \in {"notice", "report"} : Transaction(Written(<<Message(NoId, kind, NoId)>>, 0, "notification"))
    BY <1>3 DEF Notice
  <2> DEFINE W == Written(<<Message(NoId, kind, NoId)>>, 0, "notification")
  <2>2. Fresh(W) /\ \A r \in W : NoticeRow(r) BY NoticeWrite
  <2>3. rows' = rows \/ rows' = rows \cup W BY <2>1 DEF Transaction
  <2> HIDE DEF W
  <2>4. CASE rows' = rows BY <2>4, RowsCloseKept
  <2>5. CASE rows' = rows \cup W BY <1>1, <2>2, <2>5
  <2> QED BY <2>3, <2>4, <2>5
<1>4. ASSUME NEW s \in stamps, Stamp(s) PROVE RowsClose'
  <2>1. s.checkpoint \in Nat BY ConstantsAssumption DEF TypeInv, TypeOK, ConstantsAssumption
  <2>2. CASE rows' = {Stamped(r, s.checkpoint) : r \in rows}
    <3>1. ASSUME NEW x \in rows' PROVE \E r \in rows : r.seq = x.seq /\ r.id = x.id /\ r.source = x.source
      <4>1. PICK r \in rows : x = Stamped(r, s.checkpoint) BY <2>2
      <4>2. r \in RowRecords BY DEF TypeInv, TypeOK
      <4> QED BY <2>1, <4>1, <4>2, StampedRow
    <3> QED BY <3>1, RowsCloseKept
  <2>3. CASE rows' = rows BY <2>3, RowsCloseKept
  <2> QED BY <1>4, <2>2, <2>3 DEF Stamp
<1>5. CASE Send \/ Wake \/ Graph \/ Finish \/ Fail \/ UNCHANGED vars
  <2>1. rows' = rows
    BY <1>5 DEF Send, Wake, Graph, ReadReports, DeliverReports, Model, SubagentStep, Tool, Interrupt,
                Finish, Fail, vars
  <2> QED BY <2>1, RowsCloseKept
<1> QED BY <1>2, <1>3, <1>4, <1>5 DEF Next

LEMMA CloseStep ==
    ASSUME TypeInv, CloseInv, [Next]_vars
    PROVE  CloseInv'
<1> SUFFICES ASSUME dbFails' <= 1
             PROVE  RowsClose' /\ EventsClose' /\ ToolClose' /\ ModelClose'
  BY DEF CloseInv
<1>1. RowsClose /\ EventsClose /\ ToolClose /\ ModelClose BY FailsStep DEF CloseInv
<1>2. CASE HandleValues BY <1>2, HandleCloses
<1>3. SUFFICES ASSUME ~HandleValues PROVE EventsClose' /\ ToolClose' /\ ModelClose'
  BY <1>1, <1>2, RowsCloseStep
<1>4. ASSUME events' = <<>>, node' = "none" \/ (node' = "report" /\ Unread(seen)' # {}) \/ asked'
      PROVE  EventsClose' /\ ToolClose' /\ ModelClose'
  <2>1. Len(events') = 0 BY <1>4
  <2>2. EventsClose' BY <2>1 DEF EventsClose
  <2>3. ToolClose' BY <1>4 DEF ToolClose
  <2>4. TypeInv' BY StepType
  <2>5. asked' => node' \in {"none", "tool"} BY <2>4 DEF TypeInv, NodeInv
  <2>6. ModelClose' BY <1>4, <2>5 DEF ModelClose, BeforeModel
  <2> QED BY <2>2, <2>3, <2>6
<1>5. events = <<>> \/ phase = "running" BY DEF TypeInv, EventsInv
<1>6. CASE Send
  <2>1. CASE asked BY <1>4, <1>5, <1>6, <2>1 DEF Send
  <2>2. CASE ~asked
    <3>1. Commit(<<NextMessage("human", NoId, turn + 1)>>) /\ turn < MaxTurns /\ node' = "report"
      BY <1>6, <2>2 DEF Send
    <3>2. turn + 1 \in 1..MaxTurns /\ turn + 1 > turn
      BY <3>1, ConstantsAssumption DEF TypeInv, TypeOK, ConstantsAssumption
    <3>3. NoId \in Ids BY DEF NoId, Ids
    <3> DEFINE m == <<NextMessage("human", NoId, turn + 1)>>
    <3>4. NewMessages(m, turn + 1)
      <4> DEFINE t == turn + 1
                 k == "human"
      <4>1. t \in 1..MaxTurns /\ t > turn /\ k \in {"human", "call", "result", "reply"} BY <3>2
      <4>2. k # "result" => NoId = NoId OBVIOUS
      <4> HIDE DEF t, k
      <4>3. NewMessages(<<NextMessage(k, NoId, t)>>, t) BY <3>3, <4>1, <4>2, OneMessage
      <4> QED BY <4>3 DEF t, k
    <3> HIDE DEF m
    <3>5. Commit(m) /\ node' # "tool" BY <3>1 DEF m
    <3> QED BY <1>1, <3>2, <3>4, <3>5, CommitCloses
  <2> QED BY <2>1, <2>2
<1>7. CASE Wake
  <2>1. events' = <<>> /\ node' = "report" /\ Unread(seen)' # {}
    BY <1>5, <1>7 DEF Wake, Unread, Notices
  <2> QED BY <1>4, <2>1
<1>8. CASE ReadReports
  <2>1. found'.reports = {r.seq : r \in Unread(seen)} BY <1>8, ReadFound
  <2>2. UNCHANGED <<thread, events, rows, asked, dbFails>> /\ node = "report" /\ node' = "deliver"
    BY <1>8 DEF ReadReports, counters
  <2>3. Len(events) \in Nat BY ThreadIndex DEF TypeInv
  <2>4. EventsClose' BY <1>1, <2>2, <2>3, EventsCloseKept
  <2>5. ToolClose' BY <2>2 DEF ToolClose
  <2>6. BeforeModel' => BeforeModel
    <3>1. found'.reports = {} => Unread(seen) = {} BY <2>1
    <3> QED BY <2>2, <3>1 DEF BeforeModel
  <2>7. ModelClose' BY <1>1, <2>2, <2>6 DEF ModelClose, Human, Kept, Holds
  <2> QED BY <2>4, <2>5, <2>7
<1>9. CASE DeliverReports
  <2>1. node' = "model" /\ node = "deliver" BY <1>9 DEF DeliverReports
  <2>2. CASE found.reports = {}
    <3>1. UNCHANGED <<thread, events, rows, asked, dbFails>>
      BY <1>9, <2>2 DEF DeliverReports, counters
    <3>2. Len(events) \in Nat BY ThreadIndex DEF TypeInv
    <3>3. EventsClose' BY <1>1, <3>1, <3>2, EventsCloseKept
    <3>4. ToolClose' BY <2>1 DEF ToolClose
    <3>5. BeforeModel BY <2>1, <2>2 DEF BeforeModel
    <3>6. ModelClose' BY <1>1, <3>1, <3>5 DEF ModelClose, Human, Kept, Holds
    <3> QED BY <3>3, <3>4, <3>6
  <2>3. CASE found.reports # {}
    <3>1. Commit(Delivered) BY <1>9, <2>3 DEF DeliverReports, Delivered
    <3>2. turn \in 1..MaxTurns /\ turn > 0 BY <1>9 DEF DeliverReports, TypeInv, TypeOK, NodeInv
    <3>3. NewMessages(Delivered, turn) BY <2>3, <3>2, DeliveredNew
    <3>4. node' # "tool" BY <2>1
    <3> QED BY <1>1, <3>1, <3>2, <3>3, <3>4, CommitCloses
  <2> QED BY <2>2, <2>3
<1>10. CASE Model BY <1>10, ModelCloses
<1>11. CASE SubagentStep BY <1>11, SubagentCloses
<1>12. CASE Tool
  <2>1. turn \in 1..MaxTurns /\ Commit(<<NextMessage("result", <<LastCall>>, turn)>>) /\ node' # "tool"
    BY <1>12 DEF Tool, TypeInv, TypeOK, NodeInv
  <2>2. <<LastCall>> \in Ids
    <3>1. LastCall \in 1..Len(thread) BY <1>12, CallInProgress DEF Tool, TypeInv, NodeInv
    <3>2. LastCall \in Nat BY <3>1, ThreadIndex DEF TypeInv
    <3> QED BY <3>2 DEF Ids
  <2>3. NewMessages(<<NextMessage("result", <<LastCall>>, turn)>>, turn) BY <2>1, <2>2, OneMessage
  <2> QED BY <1>1, <2>1, <2>3, CommitCloses
<1>13. CASE Interrupt
  <2> DEFINE e == [of |-> Root, n |-> Len(thread), interrupt |-> TRUE]
  <2>1. events' = Append(events, e) /\ node' = "none" BY <1>13 DEF Interrupt
  <2>2. events' \in Seq(EventRecords)
    <3>1. TypeInv' BY StepType
    <3> QED BY <3>1 DEF TypeInv, TypeOK
  <2>3. /\ Len(events) \in Nat /\ Len(events') = Len(events) + 1
        /\ \A q \in 1..Len(events) : events'[q] = events[q]
        /\ events'[Len(events) + 1] = e
    <3>1. e \in EventRecords
      BY RootCounted, ThreadIndex DEF TypeInv, EventRecords
    <3> HIDE DEF e
    <3> QED BY <2>1, <3>1, AppendIndex, ThreadIndex DEF TypeInv, TypeOK
  <2>4. \A p \in 1..Len(events') : p \notin 1..Len(events) => events'[p].of = Root
    <3>1. \A p \in 1..Len(events') : p \notin 1..Len(events) => p = Len(events) + 1 BY <2>3
    <3> QED BY <2>3, <3>1
  <2>5. Len(events') >= Len(events) /\ Len(events') \in Nat BY <2>3
  <2>6. EventsClose' BY <1>1, <2>3, <2>4, <2>5, EventsCloseKept
  <2>7. ToolClose' /\ ModelClose' BY <2>1 DEF ToolClose, ModelClose, BeforeModel
  <2> QED BY <2>6, <2>7
<1>14. CASE Finish BY <1>4, <1>14 DEF Finish
<1>15. ASSUME NEW s \in stamps, Stamp(s) PROVE EventsClose' /\ ToolClose' /\ ModelClose'
  <2>1. UNCHANGED <<thread, events, node, asked, seen, found>> BY <1>15 DEF Stamp
  <2> QED BY <1>1, <2>1, CloseSame
<1>16. CASE Fail BY <1>4, <1>16 DEF Fail, Over
<1>17. CASE Cancel
  <2>1. Over BY <1>17, CancelEffect
  <2> QED BY <1>4, <2>1 DEF Over
<1>18. CASE Notice \/ UNCHANGED vars
  <2>1. UNCHANGED <<thread, events, node, asked, seen, found>> BY <1>18 DEF Notice, vars
  <2> QED BY <1>1, <2>1, CloseSame
<1> QED BY <1>3, <1>6, <1>7, <1>8, <1>9, <1>10, <1>11, <1>12, <1>13, <1>14, <1>15, <1>16, <1>17, <1>18
        DEF Next, Graph

\* Every call of the turn is in the rows a stop looks at.
LEMMA CallIsCurrent ==
    ASSUME TypeInv, RowsInThreadOrder, CloseInv, dbFails <= 1,
           NEW r \in rows, r.kind = "call", Born(r) = turn
    PROVE  r \in CurrentRows /\ r.id # NoId /\ r.source \in {"deepagents", "subagent"}
<1>1. Len(thread) \in Nat BY ThreadIndex DEF TypeInv
<1>2. /\ rows \in SUBSET RowRecords /\ IsFiniteSet(rows)
      /\ \A x \in rows : RowForm(x) /\ x \in RowRecords
  BY DEF TypeInv, TypeOK, RowsInv
<1>3. RootRow(r) \/ SubRow(r) BY <1>2 DEF RowForm, NoticeRow, StopRow
<1>4. r.id[1] \in 1..Len(thread) /\ Len(r.id) > 0
  <2>1. (RootRow(r) => Len(r.id) = 1) /\ (SubRow(r) => Len(r.id) = 2) BY <1>2, RowIds
  <2>2. (RootRow(r) => r.id[1] \in 1..Len(thread)) /\ (SubRow(r) => r.id[1] \in 1..Len(thread))
    BY <1>2, RowIds
  <2> QED BY <1>3, <2>1, <2>2
<1>5. r.id # NoId BY <1>2, <1>4, RowIds
<1>6. r.source \in {"deepagents", "subagent"} BY <1>3 DEF RootRow, SubRow
<1>7. ASSUME NEW u \in rows, IsUserRow(u) PROVE u.seq < r.seq
  <2>1. RootRow(u) BY <1>2, <1>7 DEF IsUserRow, RowForm, NoticeRow, SubRow, StopRow
  <2>2. PICK j \in 1..Len(thread) : u.id = <<j>> /\ u.kind = thread[j].kind BY <2>1 DEF RootRow
  <2>3. Human(j) BY <1>7, <2>2 DEF IsUserRow, Human
  <2>4. ~ r.id[1] < j
    <3>1. ASSUME r.id[1] < j PROVE FALSE
      <4>1. thread[r.id[1]].born < thread[j].born /\ thread[j].born <= turn
        BY <1>4, <2>2, <2>3, <3>1 DEF TypeInv, ThreadInv, Human
      <4>2. thread[r.id[1]].born = turn /\ turn \in Nat BY DEF Born, TypeInv, TypeOK
      <4>3. thread[j].born \in Nat
        <5>1. thread[j] \in ThreadMessages BY <2>2, ThreadIndex DEF TypeInv
        <5> QED BY <5>1, ConstantsAssumption DEF ThreadMessages, ConstantsAssumption
      <4> QED BY <4>1, <4>2, <4>3
    <3> QED BY <3>1
  <2>5. j <= r.id[1] /\ j \in Nat /\ r.id[1] \in Nat BY <1>1, <1>4, <2>2, <2>4
  <2>6. CASE SubRow(r) BY <1>7, <2>2, <2>3, <2>5, <2>6 DEF CloseInv, RowsClose
  <2>7. CASE RootRow(r)
    <3>1. j # r.id[1]
      <4>1. PICK i \in 1..Len(thread) : r.id = <<i>> /\ r.kind = thread[i].kind BY <2>7 DEF RootRow
      <4>2. thread[r.id[1]].kind = "call" BY <4>1
      <4> QED BY <2>3, <4>2 DEF Human
    <3>2. j < r.id[1] BY <2>5, <3>1
    <3>3. Len(u.id) = 1 /\ u.id[1] = j BY <2>2
    <3>4. Len(r.id) = 1 BY <1>2, <2>7, RowIds
    <3> QED BY <1>7, <3>2, <3>3, <3>4 DEF RowsInThreadOrder
  <2> QED BY <1>3, <2>6, <2>7
<1> DEFINE U == {y \in rows : IsUserRow(y)}
           T == {x.seq : x \in U}
           m == MaxOf(T \cup {-1})
<1>8. r.seq > m
  <2>1. U \in SUBSET rows OBVIOUS
  <2>2. \A u \in U : u.seq < r.seq BY <1>7
  <2> HIDE DEF U
  <2>3. IsFiniteSet(U) /\ U \in SUBSET RowRecords BY <1>2, <2>1, FS_Subset
  <2>4. T \in SUBSET Nat /\ IsFiniteSet(T) BY <2>3, SeqsOfRows
  <2>5. \A t \in T : t < r.seq BY <2>2
  <2> HIDE DEF T
  <2>6. IsFiniteSet(T \cup {-1}) BY <2>4, FS_AddElement
  <2>7. T \cup {-1} \in SUBSET Int /\ T \cup {-1} # {} BY <2>4
  <2>8. m \in T \cup {-1} BY <2>6, <2>7, MaxOfBounds
  <2> HIDE DEF m
  <2>9. r.seq \in Nat BY <1>2 DEF RowRecords
  <2>10. m < r.seq
    <3>1. CASE m \in T BY <2>5, <3>1
    <3>2. CASE m = -1 BY <2>9, <3>2
    <3> QED BY <2>8, <3>1, <3>2
  <2>11. m \in Int BY <2>7, <2>8
  <2> QED BY <2>9, <2>10, <2>11
<1>9. CurrentRows = {x \in rows : x.seq > m} BY DEF CurrentRows
<1> QED BY <1>5, <1>6, <1>8, <1>9

\* What is about a call is its result.
LEMMA AboutResult ==
    ASSUME TypeInv, NEW x \in rows, x.about # NoId
    PROVE  x.kind = "result"
<1>1. RowForm(x) BY DEF TypeInv, RowsInv
<1>2. ~NoticeRow(x) BY DEF NoticeRow
<1>3. CASE RootRow(x)
  <2>1. PICK j \in 1..Len(thread) : /\ x.kind = thread[j].kind /\ x.about = thread[j].about
                                    /\ thread[j].kind # "report"
    BY <1>3 DEF RootRow
  <2>2. /\ thread[j].kind # "notice"
        /\ thread[j].kind \in {"human", "call", "reply"} => thread[j].about = NoId
    BY DEF TypeInv, ThreadInv
  <2>3. thread[j] \in ThreadMessages BY ThreadIndex DEF TypeInv
  <2> QED BY <2>1, <2>2, <2>3 DEF ThreadMessages, Kinds
<1>4. CASE SubRow(x)
  <2>1. PICK j \in 1..Len(thread), k \in 1..3 :
          x.kind = SubagentMessages(j)[k].kind /\ x.about = SubagentMessages(j)[k].about
    BY <1>4 DEF SubRow
  <2>2. k = 1 \/ k = 2 \/ k = 3 OBVIOUS
  <2> QED BY <2>1, <2>2 DEF SubagentMessages, Message
<1>5. CASE StopRow(x) BY <1>5 DEF StopRow
<1> QED BY <1>1, <1>2, <1>3, <1>4, <1>5 DEF RowForm

LEMMA StopStep ==
    ASSUME TypeInv, OrderInv, CloseInv, [Next]_vars,
           cancels' > cancels, dbFails' = dbFails, dbFails <= 1
    PROVE  \A r \in rows' : r.kind = "call" /\ Born(r) = turn =>
              \E x \in rows' : x.kind = "result" /\ x.about = r.id
<1>1. Cancel
  <2>1. cancels \in Nat BY DEF TypeInv, TypeOK
  <2>2. ~ cancels' = cancels BY <2>1
  <2>3. ASSUME NEW s \in stamps, Stamp(s) PROVE FALSE BY <2>2, <2>3 DEF Stamp
  <2>4. ASSUME Send \/ Wake \/ Graph \/ HandleValues \/ Finish \/ Fail \/ Notice \/ UNCHANGED vars
        PROVE  FALSE
    BY <2>2, <2>4 DEF Send, Wake, Graph, ReadReports, DeliverReports, Model, SubagentStep, Tool, Interrupt,
                HandleValues, Finish, Fail, Notice, counters, vars
  <2> QED BY <2>3, <2>4 DEF Next
<1>2. PICK new :
        /\ Fresh(new) /\ rows' = rows \cup new
        /\ \A r \in new : StopRow(r)
        /\ \A source \in {"deepagents", "subagent"} : \A r \in OpenCalls(source) :
              \E x \in new : x.kind = "result" /\ x.about = r.id
  BY <1>1, CancelEffect
<1> SUFFICES ASSUME NEW r \in rows', r.kind = "call", Born(r) = turn
             PROVE  \E x \in rows' : x.kind = "result" /\ x.about = r.id
  OBVIOUS
<1>3. r \in rows BY <1>2 DEF StopRow
<1>4. r \in CurrentRows /\ r.id # NoId /\ r.source \in {"deepagents", "subagent"}
  BY <1>3, CallIsCurrent DEF OrderInv
<1>5. CASE \E x \in CurrentRows : x.about = r.id
  <2>1. PICK x \in CurrentRows : x.about = r.id BY <1>5
  <2>2. x \in rows BY DEF CurrentRows
  <2>3. x.kind = "result" BY <1>4, <2>1, <2>2, AboutResult
  <2> QED BY <1>2, <2>1, <2>2, <2>3
<1>6. CASE \A x \in CurrentRows : x.about # r.id
  <2>1. r \in OpenCalls(r.source) BY <1>4, <1>6 DEF OpenCalls
  <2> QED BY <1>2, <1>4, <2>1
<1> QED BY <1>5, <1>6

\* A stop closes every call of the turn that the chat shows, the subagents'
\* included, unless two transactions have failed.
THEOREM StopCloses == Spec => StopClosesCalls
<1> DEFINE Inv == TypeInv /\ OrderInv /\ CloseInv
           A == cancels' > cancels /\ dbFails' = dbFails /\ dbFails <= 1
                => \A r \in rows' : r.kind = "call" /\ Born(r) = turn =>
                     \E x \in rows' : x.kind = "result" /\ x.about = r.id
<1>1. Init => Inv
  <2> SUFFICES ASSUME Init PROVE CloseInv BY InitType
  <2>1. Len(events) = 0 /\ rows = {} /\ node = "none" BY DEF Init
  <2> QED BY <2>1 DEF CloseInv, RowsClose, EventsClose, ToolClose, ModelClose, BeforeModel
<1>2. Inv /\ [Next]_vars => Inv' BY StepType, CloseStep
<1>3. Inv /\ [Next]_vars => A BY StopStep
<1>4. StopClosesCalls <=> [][A]_vars BY DEF StopClosesCalls
<1> HIDE DEF Inv, A
<1> QED BY <1>1, <1>2, <1>3, <1>4, PTL DEF Spec
=============================================================================
