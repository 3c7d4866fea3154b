-------------------------- MODULE AgentLoop_proofs --------------------------
(***************************************************************************)
(* Proofs about AgentLoop, for any calls and bounds.                       *)
(*                                                                         *)
(* The thread of a run grows by one message after another, and what the    *)
(* two checks read of it is, for a kind of message, its newest position    *)
(* and how many there are after some position (RunInv).  A response of     *)
(* nothing but invalid calls makes the streak longer and anything that     *)
(* breaks it makes it empty, so that the run has at most MaxRetries + 1    *)
(* such responses for each of the messages that broke a streak; a reminder *)
(* comes only when the newest input is newer than the newest reminder.     *)
(*                                                                         *)
(* The repair of the messages is a loop over the thread: what it has after *)
(* the first messages is shown by induction on how many they are (UpTo),   *)
(* and that is that each call but the pending ones is matched by one       *)
(* answer (Paired) and that nothing of the thread is missing (Kept), the   *)
(* second because a result always comes while its call is pending          *)
(* (Answered), which every step of the run preserves.                      *)
(***************************************************************************)
EXTENDS AgentLoop, FiniteSetTheorems, TLAPS

OnlyInvalids == {m \in MessageRecords : OnlyInvalid(m)}
Breakers == {m \in MessageRecords : BreaksStreak(m)}
Reminders == {m \in MessageRecords : IsReminder(m)}
Inputs == {m \in MessageRecords : IsInput(m)}
Reports == {m \in MessageRecords : m.kind = "report"}

\* Where messages of a kind are, after a position.
Positions(ms, from, K) == {i \in from+1..Len(ms) : ms[i] \in K}

Newest(ms, K) == MaxOf({i \in DOMAIN ms : ms[i] \in K} \cup {0})

\* What Newest is to return.
Bounds(ms, K) ==
    /\ Newest(ms, K) \in {i \in DOMAIN ms : ms[i] \in K} \cup {0}
    /\ \A i \in DOMAIN ms : ms[i] \in K => i <= Newest(ms, K)

Count(ms, from, K) == Cardinality(Positions(ms, from, K))

StreakOf(ms) == Count(ms, Newest(ms, Breakers), OnlyInvalids)

RunInv(ms, from) ==
    /\ ms \in Seq(MessageRecords)
    /\ from \in 0..Len(ms)
    /\ \A K \in {Breakers, Reminders, Inputs} : Bounds(ms, K)
    /\ Newest(ms, Breakers) > from
    /\ StreakOf(ms) <= MaxRetries + 1
    /\ Count(ms, from, OnlyInvalids)
         <= (MaxRetries + 1) * (Count(ms, from, Breakers) - 1) + StreakOf(ms)
    /\ Count(ms, from, Reminders)
         <= Count(ms, from, Reports)
              + (IF Newest(ms, Reminders) > Newest(ms, Inputs) THEN 1 ELSE 0)

\* Between runs, and in one, the last run is as RunInv says, and one that goes
\* on has a retry to spare.
LoopInv ==
    /\ IF messages = <<>> THEN start = 0 ELSE RunInv(messages, start)
    /\ node \in {"before", "model", "tools"} => StreakOf(messages) <= MaxRetries
    /\ node \in {"after", "tools"} => LastMessage.kind = "ai"
    /\ node = "after" /\ ~OnlyInvalid(LastMessage) => StreakOf(messages) = 0

-----------------------------------------------------------------------------
(* Positions *)

\* How many messages of a kind there are is a number.
LEMMA CountType ==
    ASSUME NEW ms \in Seq(MessageRecords), NEW from \in Nat, NEW K
    PROVE  IsFiniteSet(Positions(ms, from, K)) /\ Count(ms, from, K) \in Nat
<1>1. IsFiniteSet((from+1)..Len(ms))
    <2>1. from + 1 \in Int /\ Len(ms) \in Int
        OBVIOUS
    <2> QED  BY <2>1, FS_Interval
<1>2. Positions(ms, from, K) \subseteq (from+1)..Len(ms)
    BY DEF Positions
<1> QED  BY <1>1, <1>2, FS_Subset, FS_CardinalityType DEF Count

\* A message more is counted if it is of the kind.
LEMMA CountAppend ==
    ASSUME NEW ms \in Seq(MessageRecords), NEW m \in MessageRecords,
           NEW from \in 0..Len(ms), NEW K
    PROVE  Count(Append(ms, m), from, K)
             = IF m \in K THEN Count(ms, from, K) + 1 ELSE Count(ms, from, K)
<1> DEFINE n == Len(ms) + 1
<1>1. n \in Nat /\ from \in Nat /\ n > Len(ms) /\ n >= from + 1
    OBVIOUS
<1>2. \A i \in (from+1)..n : i = n \/ i \in (from+1)..Len(ms)
    OBVIOUS
<1>3. Positions(Append(ms, m), from, K)
        = IF m \in K THEN Positions(ms, from, K) \cup {n} ELSE Positions(ms, from, K)
    BY <1>1 DEF Positions
<1>4. n \notin Positions(ms, from, K)
    BY <1>1 DEF Positions
<1> HIDE DEF n
<1> QED  BY <1>1, <1>3, <1>4, CountType, FS_AddElement DEF Count

\* The newest is the new message if it is of the kind.
LEMMA NewestAppend ==
    ASSUME NEW ms \in Seq(MessageRecords), NEW m \in MessageRecords, NEW K, Bounds(ms, K)
    PROVE  /\ Bounds(Append(ms, m), K)
           /\ Newest(Append(ms, m), K) = IF m \in K THEN Len(ms) + 1 ELSE Newest(ms, K)
<1> DEFINE n == Len(ms) + 1
           S == {i \in DOMAIN ms : ms[i] \in K}
           T == {i \in DOMAIN Append(ms, m) : Append(ms, m)[i] \in K}
<1>1. /\ n \in Nat /\ DOMAIN ms = 1..Len(ms) /\ DOMAIN Append(ms, m) = 1..n
      /\ \A i \in DOMAIN ms : i \in 1..n /\ i # n /\ i <= n /\ Append(ms, m)[i] = ms[i]
      /\ \A i \in 1..n : i = n \/ i \in DOMAIN ms
      /\ Append(ms, m)[n] = m
    OBVIOUS
<1>2. T = IF m \in K THEN S \cup {n} ELSE S
    BY <1>1
<1>3. CASE m \notin K
    <2>1. T = S
        BY <1>2, <1>3
    <2>2. Newest(Append(ms, m), K) = Newest(ms, K)
        BY <2>1 DEF Newest
    <2>3. Bounds(Append(ms, m), K)
        <3>1. \A i \in T : i <= Newest(ms, K)
            BY <2>1 DEF Bounds
        <3>2. Newest(ms, K) \in T \cup {0}
            BY <2>1 DEF Bounds
        <3> QED  BY <2>2, <3>1, <3>2 DEF Bounds
    <2> QED  BY <1>3, <2>2, <2>3
<1>4. CASE m \in K
    <2>1. T = S \cup {n}
        BY <1>2, <1>4
    <2>2. n \in T \cup {0} /\ \A y \in T \cup {0} : y <= n /\ y \in Nat
        BY <1>1, <2>1
    <2>3. MaxOf(T \cup {0}) = n
        <3> HIDE DEF n, T
        <3>1. \A x \in T \cup {0} : (\A y \in T \cup {0} : y <= x) => x = n
            BY <1>1, <2>2
        <3> QED  BY <2>2, <3>1 DEF MaxOf
    <2>4. Newest(Append(ms, m), K) = n
        BY <2>3 DEF Newest
    <2>5. Bounds(Append(ms, m), K)
        <3> HIDE DEF n, T
        <3>1. \A i \in T : i <= n
            BY <2>2
        <3> QED  BY <2>2, <2>4, <3>1 DEF Bounds, T
    <2> QED  BY <1>4, <2>4, <2>5
<1> QED  BY <1>3, <1>4

\* Messages of another kind change neither.
LEMMA OthersAdded ==
    ASSUME NEW ms \in Seq(MessageRecords), NEW new \in Seq(MessageRecords), NEW K,
           NEW from \in 0..Len(ms), \A i \in DOMAIN new : new[i] \notin K
    PROVE  /\ Newest(ms \o new, K) = Newest(ms, K)
           /\ Count(ms \o new, from, K) = Count(ms, from, K)
           /\ Bounds(ms, K) => Bounds(ms \o new, K)
<1> DEFINE all == ms \o new
<1>1. /\ all \in Seq(MessageRecords) /\ Len(all) = Len(ms) + Len(new)
      /\ \A i \in 1..Len(ms) : i \in 1..Len(all) /\ all[i] = ms[i]
      /\ \A i \in 1..Len(all) : i \in 1..Len(ms) \/ all[i] \notin K
    <2>1. \A i \in 1..Len(all) : i \in 1..Len(ms) \/ i - Len(ms) \in DOMAIN new
        OBVIOUS
    <2>2. \A i \in 1..Len(all) : i \in 1..Len(ms) \/ all[i] = new[i - Len(ms)]
        OBVIOUS
    <2> QED  BY <2>1, <2>2
<1> HIDE DEF all
<1>2. {i \in DOMAIN all : all[i] \in K} = {i \in DOMAIN ms : ms[i] \in K}
    <2>1. DOMAIN all = 1..Len(all) /\ DOMAIN ms = 1..Len(ms)
        BY <1>1
    <2> QED  BY <1>1, <2>1
<1>3. Newest(all, K) = Newest(ms, K)
    BY <1>2 DEF Newest
<1>4. Positions(all, from, K) = Positions(ms, from, K)
    <2>1. \A i \in (from+1)..Len(all) : i \in 1..Len(all)
        BY <1>1
    <2>2. \A i \in 1..Len(ms) : i >= from + 1 => i \in (from+1)..Len(ms) /\ i \in (from+1)..Len(all)
        BY <1>1
    <2>3. \A i \in (from+1)..Len(ms) : i \in 1..Len(ms) /\ i >= from + 1
        BY <1>1
    <2>4. \A i \in (from+1)..Len(all) : i >= from + 1
        BY <1>1
    <2> QED  BY <1>1, <2>1, <2>2, <2>3, <2>4 DEF Positions
<1>5. Bounds(ms, K) => Bounds(all, K)
    <2>1. Bounds(ms, K) =>
            /\ Newest(ms, K) \in {i \in DOMAIN ms : ms[i] \in K} \cup {0}
            /\ \A i \in {i \in DOMAIN ms : ms[i] \in K} : i <= Newest(ms, K)
        BY DEF Bounds
    <2>2. Bounds(ms, K) =>
            /\ Newest(all, K) \in {i \in DOMAIN all : all[i] \in K} \cup {0}
            /\ \A i \in {i \in DOMAIN all : all[i] \in K} : i <= Newest(all, K)
        BY <1>2, <1>3, <2>1
    <2> QED  BY <2>2 DEF Bounds
<1> QED  BY <1>3, <1>4, <1>5 DEF all, Count

-----------------------------------------------------------------------------
(* A run's thread *)

\* The kinds of messages the checks tell apart.
LEMMA KindsApart ==
    ASSUME NEW m \in MessageRecords
    PROVE  /\ m \in OnlyInvalids <=> OnlyInvalid(m)
           /\ m \in Breakers <=> m.kind # "tool" /\ m \notin OnlyInvalids
           /\ m \in OnlyInvalids => m.kind = "ai"
           /\ m \in Reminders <=> m.kind = "reminder"
           /\ m \in Reports <=> m.kind = "report"
           /\ m \in Inputs <=> m.kind \in {"human", "report"}
BY DEF OnlyInvalids, Breakers, Reminders, Reports, Inputs, OnlyInvalid, BreaksStreak,
       IsReminder, IsInput

\* No position lies behind the last.
LEMMA CountBehind ==
    ASSUME NEW ms \in Seq(MessageRecords), NEW K
    PROVE  Count(ms, Len(ms), K) = 0
<1>1. Positions(ms, Len(ms), K) = {}
    BY DEF Positions
<1> QED  BY <1>1, FS_EmptySet DEF Count

\* The streak with a message more.
LEMMA StreakAppend ==
    ASSUME NEW ms \in Seq(MessageRecords), NEW m \in MessageRecords, Bounds(ms, Breakers)
    PROVE  /\ StreakOf(ms) \in Nat
           /\ StreakOf(Append(ms, m)) =
                IF m \in Breakers THEN 0
                ELSE IF m \in OnlyInvalids THEN StreakOf(ms) + 1 ELSE StreakOf(ms)
<1> DEFINE b == Newest(ms, Breakers)
           all == Append(ms, m)
<1>1. b \in 0..Len(ms) /\ b \in Nat
    BY DEF Bounds
<1>2. all \in Seq(MessageRecords) /\ Len(all) = Len(ms) + 1
    OBVIOUS
<1>3. Newest(all, Breakers) = IF m \in Breakers THEN Len(all) ELSE b
    BY <1>2, NewestAppend
<1>4. Count(all, b, OnlyInvalids)
        = IF m \in OnlyInvalids THEN Count(ms, b, OnlyInvalids) + 1 ELSE Count(ms, b, OnlyInvalids)
    BY <1>1, CountAppend
<1>5. Count(ms, b, OnlyInvalids) \in Nat
    BY <1>1, CountType
<1>6. Count(all, Len(all), OnlyInvalids) = 0
    BY <1>2, CountBehind
<1>7. StreakOf(ms) = Count(ms, b, OnlyInvalids)
    BY DEF StreakOf
<1>8. StreakOf(all) = Count(all, IF m \in Breakers THEN Len(all) ELSE b, OnlyInvalids)
    BY <1>3 DEF StreakOf
<1> HIDE DEF b, all
<1>9. StreakOf(all) = IF m \in Breakers THEN 0
                      ELSE IF m \in OnlyInvalids THEN StreakOf(ms) + 1 ELSE StreakOf(ms)
    <2>1. CASE m \in Breakers
        BY <1>6, <1>8, <2>1
    <2>2. CASE m \notin Breakers
        BY <1>4, <1>7, <1>8, <2>2
    <2> QED  BY <2>1, <2>2
<1> QED  BY <1>5, <1>7, <1>9 DEF all

\* The bound on the responses of nothing but invalid calls: c of them, k for
\* each of the b messages but the last that broke a streak, and s since.
LEMMA StreaksBound ==
    ASSUME NEW k \in Nat, NEW b \in Nat, NEW c \in Nat, NEW s \in Nat,
           c <= k * (b - 1) + s
    PROVE  /\ s <= k => c <= k * ((b + 1) - 1) + 0
           /\ c + 1 <= k * (b - 1) + (s + 1)
<1>1. k * (b - 1) = k * b - k
    OBVIOUS
<1>2. k * ((b + 1) - 1) = k * b
    OBVIOUS
<1>3. k * b \in Int /\ k * (b - 1) \in Int
    OBVIOUS
<1> QED  BY <1>1, <1>2, <1>3

\* A message more in a run: the checks see to it that a response of nothing but
\* invalid calls had a retry to spare, and a reminder a newer input.
LEMMA RunAppend ==
    ASSUME NEW ms, NEW from, RunInv(ms, from), NEW m \in MessageRecords,
           m.kind # "human",
           m \in OnlyInvalids => StreakOf(ms) <= MaxRetries,
           m \in Reminders => ~(Newest(ms, Reminders) > Newest(ms, Inputs))
    PROVE  RunInv(Append(ms, m), from)
<1> DEFINE all == Append(ms, m)
           k == MaxRetries + 1
           c == Count(ms, from, OnlyInvalids)
           b == Count(ms, from, Breakers)
           s == StreakOf(ms)
           r == Count(ms, from, Reminders)
           p == Count(ms, from, Reports)
           nr == Newest(ms, Reminders)
           ni == Newest(ms, Inputs)
<1>1. ms \in Seq(MessageRecords) /\ from \in 0..Len(ms)
    BY DEF RunInv
<1>2. /\ all \in Seq(MessageRecords) /\ Len(all) = Len(ms) + 1
      /\ from \in Nat /\ from \in 0..Len(all)
    BY <1>1
<1>3. /\ c \in Nat /\ b \in Nat /\ r \in Nat /\ p \in Nat
    BY <1>1, <1>2, CountType
<1>4. \A K \in {Breakers, Reminders, Inputs} :
         /\ Bounds(all, K)
         /\ Newest(all, K) = IF m \in K THEN Len(ms) + 1 ELSE Newest(ms, K)
         /\ Newest(ms, K) \in 0..Len(ms)
    <2> TAKE K \in {Breakers, Reminders, Inputs}
    <2>1. Bounds(ms, K)
        BY DEF RunInv
    <2>2. Newest(ms, K) \in 0..Len(ms)
        BY <1>1, <2>1 DEF Bounds
    <2> QED  BY <1>1, <2>1, <2>2, NewestAppend
<1>5. Newest(all, Breakers) > from
    <2>1. Newest(ms, Breakers) > from
        BY DEF RunInv
    <2> QED  BY <1>1, <1>4, <2>1
<1>6. s \in Nat /\ StreakOf(all) = IF m \in Breakers THEN 0
                                   ELSE IF m \in OnlyInvalids THEN s + 1 ELSE s
    BY <1>1, StreakAppend DEF RunInv
<1>7. k \in Nat /\ MaxRetries \in Nat
    BY ConstantsAssumption DEF ConstantsAssumption
<1>8. s <= k /\ c <= k * (b - 1) + s
    BY DEF RunInv
<1>9. r <= p + (IF nr > ni THEN 1 ELSE 0)
    BY DEF RunInv
<1>10. /\ Count(all, from, OnlyInvalids) = IF m \in OnlyInvalids THEN c + 1 ELSE c
       /\ Count(all, from, Breakers) = IF m \in Breakers THEN b + 1 ELSE b
       /\ Count(all, from, Reminders) = IF m \in Reminders THEN r + 1 ELSE r
       /\ Count(all, from, Reports) = IF m \in Reports THEN p + 1 ELSE p
    BY <1>1, CountAppend
<1>11. StreakOf(all) <= k
    <2>1. m \in OnlyInvalids => s + 1 <= k
        BY <1>6, <1>7
    <2> HIDE DEF k, s, all
    <2> QED  BY <1>6, <1>7, <1>8, <2>1
<1> HIDE DEF c, b, r, p, k, s
<1>12. Count(all, from, OnlyInvalids) <= k * (Count(all, from, Breakers) - 1) + StreakOf(all)
    <2>1. /\ s <= k => c <= k * ((b + 1) - 1) + 0
          /\ c + 1 <= k * (b - 1) + (s + 1)
        BY <1>3, <1>6, <1>7, <1>8, StreaksBound
    <2> HIDE DEF all
    <2>2. m \in Breakers => m \notin OnlyInvalids
        BY KindsApart
    <2>3. CASE m \in Breakers
        <3>1. Count(all, from, OnlyInvalids) = c /\ Count(all, from, Breakers) = b + 1
              /\ StreakOf(all) = 0
            BY <1>6, <1>10, <2>2, <2>3
        <3> QED  BY <1>8, <2>1, <3>1
    <2>4. CASE m \in OnlyInvalids
        <3>1. Count(all, from, OnlyInvalids) = c + 1 /\ Count(all, from, Breakers) = b
              /\ StreakOf(all) = s + 1
            BY <1>6, <1>10, <2>2, <2>4
        <3> QED  BY <2>1, <3>1
    <2>5. CASE m \notin Breakers /\ m \notin OnlyInvalids
        <3>1. Count(all, from, OnlyInvalids) = c /\ Count(all, from, Breakers) = b
              /\ StreakOf(all) = s
            BY <1>6, <1>10, <2>5
        <3> QED  BY <1>8, <3>1
    <2> QED  BY <2>3, <2>4, <2>5
<1>13. Count(all, from, Reminders) <= Count(all, from, Reports)
          + (IF Newest(all, Reminders) > Newest(all, Inputs) THEN 1 ELSE 0)
    <2>1. /\ nr \in 0..Len(ms) /\ ni \in 0..Len(ms)
          /\ Newest(all, Reminders) = IF m \in Reminders THEN Len(ms) + 1 ELSE nr
          /\ Newest(all, Inputs) = IF m \in Inputs THEN Len(ms) + 1 ELSE ni
        BY <1>4
    <2>2. /\ m \in Reports <=> m \in Inputs
          /\ m \in Reminders => m \notin Inputs
        BY KindsApart
    <2>3. m \in Reminders => ~(nr > ni)
        OBVIOUS
    <2> HIDE DEF all, nr, ni
    <2>4. CASE m \in Reminders
        <3>1. r <= p
            BY <1>9, <2>3, <2>4, <1>3
        <3>2. Newest(all, Reminders) > Newest(all, Inputs)
            BY <1>1, <2>1, <2>2, <2>4
        <3> QED  BY <1>3, <1>10, <2>2, <2>4, <3>1, <3>2
    <2>5. CASE m \in Inputs
        <3>1. r <= p + 1
            BY <1>3, <1>9
        <3>2. Count(all, from, Reminders) = r /\ Count(all, from, Reports) = p + 1
            BY <1>10, <2>2, <2>5
        <3> QED  BY <1>3, <3>1, <3>2
    <2>6. CASE m \notin Reminders /\ m \notin Inputs
        BY <1>9, <1>10, <2>1, <2>2, <2>6
    <2> QED  BY <2>4, <2>5, <2>6
<1> QED  BY <1>2, <1>4, <1>5, <1>11, <1>12, <1>13 DEF RunInv, k

\* Answers to calls are neither streak nor input nor reminder.
LEMMA RunAnswers ==
    ASSUME NEW ms, NEW from, RunInv(ms, from), NEW new \in Seq(MessageRecords),
           \A i \in DOMAIN new : new[i].kind = "tool"
    PROVE  RunInv(ms \o new, from) /\ StreakOf(ms \o new) = StreakOf(ms)
<1>1. /\ ms \in Seq(MessageRecords) /\ from \in 0..Len(ms)
      /\ ms \o new \in Seq(MessageRecords) /\ Len(ms \o new) = Len(ms) + Len(new)
      /\ Len(new) \in Nat
    BY DEF RunInv
<1>2. \A i \in DOMAIN new : \A K \in {OnlyInvalids, Breakers, Reminders, Inputs, Reports} :
         new[i] \notin K
    <2> TAKE i \in DOMAIN new
    <2>1. new[i] \in MessageRecords
        OBVIOUS
    <2> QED  BY <2>1, KindsApart
<1>3. \A K \in {OnlyInvalids, Breakers, Reminders, Inputs, Reports} :
         /\ Newest(ms \o new, K) = Newest(ms, K)
         /\ Count(ms \o new, from, K) = Count(ms, from, K)
         /\ Bounds(ms, K) => Bounds(ms \o new, K)
    BY <1>1, <1>2, OthersAdded
<1>4. StreakOf(ms \o new) = StreakOf(ms)
    <2> DEFINE b == Newest(ms, Breakers)
    <2>1. b \in 0..Len(ms)
        BY <1>1 DEF RunInv, Bounds
    <2>2. Newest(ms \o new, Breakers) = b
        BY <1>3
    <2> HIDE DEF b
    <2>3. Count(ms \o new, b, OnlyInvalids) = Count(ms, b, OnlyInvalids)
        BY <1>1, <1>2, <2>1, OthersAdded
    <2> QED  BY <2>2, <2>3 DEF StreakOf, b
<1>5. \A K \in {Breakers, Reminders, Inputs} : Bounds(ms \o new, K)
    BY <1>3 DEF RunInv
<1>6. from \in 0..Len(ms \o new)
    BY <1>1
<1> QED  BY <1>1, <1>3, <1>4, <1>5, <1>6 DEF RunInv

\* What a thread without messages has of any kind.
LEMMA EmptyBounds == ASSUME NEW K PROVE Bounds(<<>>, K)
<1>1. {i \in DOMAIN << >> : << >>[i] \in K} = {}
    OBVIOUS
<1>2. MaxOf({0}) = 0
    BY DEF MaxOf
<1> QED  BY <1>1, <1>2 DEF Bounds, Newest

\* The first message of a run breaks every streak, and a reminder is to come.
LEMMA RunStarts ==
    ASSUME NEW ms \in Seq(MessageRecords),
           \A K \in {Breakers, Reminders, Inputs} : Bounds(ms, K),
           NEW m \in MessageRecords, m.kind \in {"human", "outcome", "report"}
    PROVE  RunInv(Append(ms, m), Len(ms)) /\ StreakOf(Append(ms, m)) = 0
<1> DEFINE all == Append(ms, m)
           from == Len(ms)
<1>1. /\ all \in Seq(MessageRecords) /\ Len(all) = from + 1
      /\ from \in Nat /\ from \in 0..from /\ from \in 0..Len(all)
    OBVIOUS
<1>2. m \in Breakers /\ m \notin OnlyInvalids /\ m \notin Reminders
    BY KindsApart
<1>3. \A K \in {Breakers, Reminders, Inputs} : Bounds(all, K)
    BY NewestAppend
<1>4. Newest(all, Breakers) = from + 1
    BY <1>2, NewestAppend
<1>5. StreakOf(all) = 0
    BY <1>2, StreakAppend
<1>6. /\ Count(all, from, OnlyInvalids) = 0
      /\ Count(all, from, Breakers) = 1
      /\ Count(all, from, Reminders) = 0
      /\ Count(all, from, Reports) \in Nat
    <2>1. \A K : /\ Count(ms, from, K) = 0
                 /\ Count(all, from, K) = IF m \in K THEN Count(ms, from, K) + 1
                                                    ELSE Count(ms, from, K)
        BY <1>1, CountBehind, CountAppend
    <2>2. Count(all, from, Reports) \in Nat
        BY <1>1, CountType
    <2> HIDE DEF all, from
    <2> QED  BY <1>2, <2>1, <2>2
<1>7. MaxRetries \in Nat /\ (MaxRetries + 1) * (1 - 1) = 0
    BY ConstantsAssumption DEF ConstantsAssumption
<1> HIDE DEF all, from
<1>8. RunInv(all, from)
    BY <1>1, <1>3, <1>4, <1>5, <1>6, <1>7 DEF RunInv
<1> QED  BY <1>5, <1>8 DEF all, from

-----------------------------------------------------------------------------
(* Types *)

\* SetToSeq lists the elements of a finite set.
LEMMA ListedOnce ==
    ASSUME NEW S, IsFiniteSet(S)
    PROVE  SetToSeq(S) \in Seq(S)
<1>1. PICK n \in Nat : ExistsBijection(1..n, S)
    BY FS_NatBijection
<1>2. Cardinality(S) = n
    BY <1>1, FS_CountingElements
<1>3. \E f \in [1..n -> S] : IsInjective(f)
    BY <1>1 DEF ExistsBijection, Bijection, Injection
<1>4. SetToSeq(S) \in [1..n -> S]
    BY <1>2, <1>3 DEF SetToSeq
<1> QED  BY <1>4

\* The answers to a response's calls.
LEMMA AnswersListed ==
    ASSUME NEW calls \in SUBSET Calls
    PROVE  LET order == SetToSeq(calls)
               new == [i \in DOMAIN order |-> Result(order[i])]
           IN  /\ new \in Seq(MessageRecords)
               /\ \A i \in DOMAIN new : new[i].kind = "tool"
<1> DEFINE order == SetToSeq(calls)
           new == [i \in DOMAIN order |-> Result(order[i])]
<1>1. IsFiniteSet(calls)
    BY ConstantsAssumption, FS_Subset DEF ConstantsAssumption
<1>2. order \in Seq(calls)
    BY <1>1, ListedOnce
<1> HIDE DEF order
<1>3. \A i \in DOMAIN order : Result(order[i]) \in MessageRecords /\ Result(order[i]).kind = "tool"
    BY <1>2 DEF Result, MessageRecords, Kinds
<1>4. new \in Seq(MessageRecords)
    BY <1>2, <1>3
<1> QED  BY <1>3, <1>4 DEF order

\* What the repository adds besides is a message too.
LEMMA WordsTyped ==
    ASSUME NEW kind \in Kinds
    PROVE  Words(kind) \in MessageRecords /\ Words(kind).kind = kind
BY DEF Words, MessageRecords

LEMMA ResponseTyped ==
    ASSUME NEW valid \in SUBSET Calls, NEW invalid \in SUBSET (Calls \cup {NoCallId})
    PROVE  /\ Response(valid, invalid) \in MessageRecords
           /\ Response(valid, invalid).kind = "ai"
BY DEF Response, MessageRecords, Kinds

\* One message more, or answers: the thread is typed, within its bound.
LEMMA TypedAdd ==
    ASSUME TypeOK, NEW new \in Seq(MessageRecords), Add(new)
    PROVE  /\ messages' = messages \o new
           /\ messages' \in Seq(MessageRecords)
           /\ Len(messages') <= MaxMessages
           /\ Len(messages) \in 0..MaxMessages
BY ConstantsAssumption DEF ConstantsAssumption, TypeOK, Add, Room

LEMMA TypeInit == Init => TypeOK
<1> SUFFICES ASSUME Init PROVE TypeOK
    OBVIOUS
<1>1. messages \in Seq(MessageRecords) /\ Len(messages) = 0
    BY DEF Init
<1>2. MaxMessages \in Nat /\ MaxDeliveries \in Nat
    BY ConstantsAssumption DEF ConstantsAssumption
<1>3. Len(messages) <= MaxMessages
    BY <1>1, <1>2
<1>4. start \in 0..MaxMessages /\ delivered \in 0..MaxDeliveries /\ open \in BOOLEAN
    <2>1. start = 0 /\ delivered = 0
        BY DEF Init
    <2>2. start \in 0..MaxMessages /\ delivered \in 0..MaxDeliveries
        BY <1>2, <2>1
    <2>3. open \in BOOLEAN
        BY DEF Init
    <2> QED  BY <2>2, <2>3
<1> QED  BY <1>1, <1>3, <1>4 DEF Init, TypeOK

\* What each step adds to the thread.
Added(new) == new \in Seq(MessageRecords) /\ Add(new)

LEMMA SendAdds ==
    ASSUME Send PROVE Added(<<Words("human")>>) /\ Words("human") \in MessageRecords
BY WordsTyped DEF Send, Added, Kinds

LEMMA WakeAdds ==
    ASSUME Wake
    PROVE  \E kind \in {"outcome", "report"} :
              Added(<<Words(kind)>>) /\ Words(kind) \in MessageRecords
<1>1. PICK kind \in {"outcome", "report"} : Add(<<Words(kind)>>)
    BY DEF Wake
<1>2. Words(kind) \in MessageRecords
    BY WordsTyped DEF Kinds
<1> QED  BY <1>1, <1>2 DEF Added

LEMMA DeliverAdds ==
    ASSUME Deliver
    PROVE  \E new \in {<<>>, <<Words("outcome")>>, <<Words("report")>>,
                       <<Words("outcome"), Words("report")>>} :
              Added(new) /\ delivered' = delivered + Len(new) /\ delivered' <= MaxDeliveries
<1>1. PICK new \in {<<>>, <<Words("outcome")>>, <<Words("report")>>,
                    <<Words("outcome"), Words("report")>>} :
         Add(new) /\ delivered' = delivered + Len(new) /\ delivered' <= MaxDeliveries
    BY DEF Deliver
<1>2. Words("outcome") \in MessageRecords /\ Words("report") \in MessageRecords
    BY WordsTyped DEF Kinds
<1>3. new \in Seq(MessageRecords)
    <2> DEFINE o == Words("outcome")
               r == Words("report")
    <2> HIDE DEF o, r
    <2>1. \A a, b \in MessageRecords : {<<>>, <<a>>, <<b>>, <<a, b>>} \subseteq Seq(MessageRecords)
        OBVIOUS
    <2>2. {<<>>, <<o>>, <<r>>, <<o, r>>} \subseteq Seq(MessageRecords)
        BY <1>2, <2>1 DEF o, r
    <2> QED  BY <1>1, <2>2 DEF o, r
<1> QED  BY <1>1, <1>3 DEF Added

LEMMA ModelAdds ==
    ASSUME Model
    PROVE  \E m \in MessageRecords : Added(<<m>>) /\ m.kind = "ai"
<1>1. PICK valid \in SUBSET Calls : \E invalid \in SUBSET ((Calls \ valid) \cup {NoCallId}) :
         Add(<<Response(valid, invalid)>>)
    BY DEF Model
<1>2. PICK invalid \in SUBSET ((Calls \ valid) \cup {NoCallId}) : Add(<<Response(valid, invalid)>>)
    BY <1>1
<1>3. invalid \in SUBSET (Calls \cup {NoCallId})
    OBVIOUS
<1>4. Response(valid, invalid) \in MessageRecords /\ Response(valid, invalid).kind = "ai"
    BY <1>3, ResponseTyped
<1> QED  BY <1>2, <1>4 DEF Added

LEMMA AnswersAdd ==
    ASSUME TypeOK, messages # <<>>, RetryInvalid \/ Tools
    PROVE  \E new : Added(new) /\ \A i \in DOMAIN new : new[i].kind = "tool"
<1>1. LastMessage \in MessageRecords
    BY DEF TypeOK, LastMessage
<1>2. LastMessage.valid \in SUBSET Calls /\ LastMessage.invalid \ {NoCallId} \in SUBSET Calls
    BY <1>1 DEF MessageRecords
<1>3. \E calls \in SUBSET Calls :
         LET order == SetToSeq(calls) IN Add([i \in DOMAIN order |-> Result(order[i])])
    BY <1>2 DEF RetryInvalid, Tools
<1> QED  BY <1>3, AnswersListed DEF Added

LEMMA RemindAdds ==
    ASSUME Remind PROVE Added(<<Words("reminder")>>) /\ Words("reminder") \in MessageRecords
BY WordsTyped DEF Remind, Added, Kinds

\* Whatever a step adds.
LEMMA TypeFrom ==
    ASSUME TypeOK, messages' = messages \/ \E new : Added(new),
           open' \in BOOLEAN,
           node' \in {"idle", "stopped", "before", "model", "after", "tools"},
           start' \in {start, Len(messages)},
           delivered' \in 0..MaxDeliveries
    PROVE  TypeOK'
<1>1. /\ messages' \in Seq(MessageRecords) /\ Len(messages') <= MaxMessages
      /\ Len(messages) \in 0..MaxMessages
    BY TypedAdd DEF TypeOK, Added
<1> QED  BY <1>1 DEF TypeOK

\* The hooks, the model and the tools work on a thread with messages.
Begun == messages # <<>> \/ node = "idle"

LEMMA TypeStep == TypeOK /\ Begun /\ [Next]_vars => TypeOK' /\ Begun'
<1> SUFFICES ASSUME TypeOK, Begun, [Next]_vars PROVE TypeOK' /\ Begun'
    OBVIOUS
<1>1. ASSUME messages' = messages PROVE Begun' <=> (messages # <<>> \/ node' = "idle")
    BY <1>1 DEF Begun
<1>2. ASSUME NEW new, Added(new), new # <<>> \/ messages # <<>> PROVE Begun'
    <2>1. messages' = messages \o new /\ messages \in Seq(MessageRecords)
              /\ new \in Seq(MessageRecords)
        BY <1>2, TypedAdd DEF Added, TypeOK
    <2>2. messages' # <<>>
        BY <1>2, <2>1
    <2> QED  BY <2>2 DEF Begun
<1>3. CASE UNCHANGED vars
    BY <1>3 DEF vars, TypeOK, Begun
<1>4. CASE Send
    BY <1>4, <1>2, SendAdds, TypeFrom DEF Send, TypeOK
<1>5. CASE Wake
    <2>1. delivered' \in 0..MaxDeliveries
        BY <1>5, ConstantsAssumption DEF ConstantsAssumption, Wake, TypeOK
    <2> QED  BY <1>2, <1>5, <2>1, WakeAdds, TypeFrom DEF Wake, TypeOK
<1>6. CASE Deliver
    <2>1. delivered' \in 0..MaxDeliveries
        <3>1. PICK new : Added(new) /\ delivered' = delivered + Len(new) /\ delivered' <= MaxDeliveries
            BY <1>6, DeliverAdds
        <3>2. Len(new) \in Nat /\ delivered \in Nat
            BY <3>1 DEF Added, TypeOK
        <3> QED  BY <3>1, <3>2, ConstantsAssumption DEF ConstantsAssumption
    <2>2. messages # <<>>
        BY <1>6 DEF Begun, Deliver
    <2> QED  BY <1>2, <1>6, <2>1, <2>2, DeliverAdds, TypeFrom DEF Deliver, TypeOK
<1>7. CASE Model
    BY <1>2, <1>7, ModelAdds, TypeFrom DEF Model, TypeOK
<1>8. CASE RetryInvalid \/ Tools
    <2>1. messages # <<>>
        BY <1>8 DEF Begun, RetryInvalid, Tools
    <2> QED  BY <1>2, <1>8, <2>1, AnswersAdd, TypeFrom DEF RetryInvalid, Tools, TypeOK
<1>9. CASE Remind
    BY <1>2, <1>9, RemindAdds, TypeFrom DEF Remind, TypeOK
<1>10. CASE GoOn \/ Stop
    BY <1>1, <1>10, TypeFrom DEF GoOn, Stop, TypeOK, Begun
<1> QED  BY <1>3, <1>4, <1>5, <1>6, <1>7, <1>8, <1>9, <1>10 DEF Next

-----------------------------------------------------------------------------
(* The run *)

\* The hooks read the thread as the invariant does.
LEMMA ReadBySets ==
    ASSUME TypeOK
    PROVE  /\ LastIndexOf(BreaksStreak) = Newest(messages, Breakers)
           /\ LastIndexOf(IsReminder) = Newest(messages, Reminders)
           /\ LastIndexOf(IsInput) = Newest(messages, Inputs)
           /\ OfRun(OnlyInvalid) = Count(messages, start, OnlyInvalids)
           /\ OfRun(LAMBDA m : m.kind # "tool" /\ ~OnlyInvalid(m)) = Count(messages, start, Breakers)
           /\ OfRun(IsReminder) = Count(messages, start, Reminders)
           /\ OfRun(LAMBDA m : m.kind = "report") = Count(messages, start, Reports)
<1>1. \A i \in DOMAIN messages : messages[i] \in MessageRecords
    BY DEF TypeOK
<1>2. \A i \in DOMAIN messages :
         /\ messages[i] \in Breakers <=> BreaksStreak(messages[i])
         /\ messages[i] \in Reminders <=> IsReminder(messages[i])
         /\ messages[i] \in Inputs <=> IsInput(messages[i])
         /\ messages[i] \in OnlyInvalids <=> OnlyInvalid(messages[i])
         /\ messages[i] \in Breakers <=> messages[i].kind # "tool" /\ ~OnlyInvalid(messages[i])
         /\ messages[i] \in Reports <=> messages[i].kind = "report"
    BY <1>1 DEF Breakers, Reminders, Inputs, OnlyInvalids, Reports, BreaksStreak
<1>3. \A i \in (start+1)..Len(messages) : i \in DOMAIN messages
    BY DEF TypeOK
<1>4. /\ {i \in DOMAIN messages : BreaksStreak(messages[i])}
            = {i \in DOMAIN messages : messages[i] \in Breakers}
      /\ {i \in DOMAIN messages : IsReminder(messages[i])}
            = {i \in DOMAIN messages : messages[i] \in Reminders}
      /\ {i \in DOMAIN messages : IsInput(messages[i])}
            = {i \in DOMAIN messages : messages[i] \in Inputs}
    BY <1>2
<1>5. /\ {i \in start+1..Len(messages) : OnlyInvalid(messages[i])}
            = Positions(messages, start, OnlyInvalids)
      /\ {i \in start+1..Len(messages) : messages[i].kind # "tool" /\ ~OnlyInvalid(messages[i])}
            = Positions(messages, start, Breakers)
      /\ {i \in start+1..Len(messages) : IsReminder(messages[i])}
            = Positions(messages, start, Reminders)
      /\ {i \in start+1..Len(messages) : messages[i].kind = "report"}
            = Positions(messages, start, Reports)
    BY <1>2, <1>3 DEF Positions
<1> QED  BY <1>4, <1>5 DEF LastIndexOf, OfRun, Newest, Count

\* The streak of the retry middleware.
LEMMA StreakRead ==
    ASSUME TypeOK, Bounds(messages, Breakers)
    PROVE  Streak = StreakOf(messages)
<1> DEFINE b == Newest(messages, Breakers)
<1>1. b \in Nat /\ LastIndexOf(BreaksStreak) = b
    BY ReadBySets DEF TypeOK, Bounds
<1>2. \A i \in DOMAIN messages : messages[i] \in OnlyInvalids <=> OnlyInvalid(messages[i])
    BY DEF TypeOK, OnlyInvalids
<1>3. Len(messages) \in Nat /\ DOMAIN messages = 1..Len(messages)
    BY DEF TypeOK
<1> HIDE DEF b
<1>4. \A i \in DOMAIN messages : i > b <=> i \in (b+1)..Len(messages)
    BY <1>1, <1>3
<1>5. \A i \in (b+1)..Len(messages) : i \in DOMAIN messages
    BY <1>1, <1>3
<1>6. {i \in DOMAIN messages : i > b /\ OnlyInvalid(messages[i])}
        = Positions(messages, b, OnlyInvalids)
    BY <1>2, <1>4, <1>5 DEF Positions
<1> QED  BY <1>1, <1>6 DEF Streak, StreakOf, Count, b

LEMMA LoopInit == Init => LoopInv
<1> SUFFICES ASSUME Init PROVE LoopInv
    OBVIOUS
<1>1. messages = <<>> /\ start = 0 /\ node = "idle"
    BY DEF Init
<1> QED  BY <1>1 DEF LoopInv

\* A thread that has had a run, or none yet.
LEMMA ThreadBounds ==
    ASSUME LoopInv
    PROVE  \A K \in {Breakers, Reminders, Inputs} : Bounds(messages, K)
BY EmptyBounds DEF LoopInv, RunInv

\* One message more.
LEMMA AddOne ==
    ASSUME TypeOK, NEW m, Added(<<m>>), m \in MessageRecords
    PROVE  messages' = Append(messages, m) /\ messages' # <<>>
<1>1. messages' = messages \o <<m>> /\ messages \in Seq(MessageRecords)
    BY TypedAdd DEF Added, TypeOK
<1> QED  BY <1>1

\* A run begins.
LEMMA LoopStarts ==
    ASSUME TypeOK, LoopInv, Send \/ Wake
    PROVE  LoopInv'
<1>1. PICK kind \in {"human", "outcome", "report"} :
         Added(<<Words(kind)>>) /\ Words(kind) \in MessageRecords
    BY SendAdds, WakeAdds
<1>2. Words(kind).kind = kind
    BY DEF Words
<1>3. messages' = Append(messages, Words(kind)) /\ messages' # <<>>
    BY <1>1, AddOne
<1>4. start' = Len(messages) /\ node' \in {"before", "model"}
    BY DEF Send, Wake
<1>5. messages \in Seq(MessageRecords) /\ MaxRetries \in Nat
    BY ConstantsAssumption DEF ConstantsAssumption, TypeOK
<1>6. RunInv(messages', start') /\ StreakOf(messages') = 0
    BY <1>1, <1>2, <1>3, <1>4, <1>5, ThreadBounds, RunStarts
<1> QED  BY <1>3, <1>4, <1>5, <1>6 DEF LoopInv

\* The hooks' outcomes and reports each break a streak.
LEMMA NoticeAdded ==
    ASSUME NEW ms, NEW from, RunInv(ms, from), NEW m \in MessageRecords,
           m.kind \in {"outcome", "report", "reminder"},
           m \in Reminders => ~(Newest(ms, Reminders) > Newest(ms, Inputs))
    PROVE  RunInv(Append(ms, m), from) /\ StreakOf(Append(ms, m)) = 0
<1>1. m \in Breakers /\ m \notin OnlyInvalids
    BY KindsApart
<1>2. ms \in Seq(MessageRecords) /\ Bounds(ms, Breakers)
    BY DEF RunInv
<1> QED  BY <1>1, <1>2, RunAppend, StreakAppend

LEMMA LoopDeliver ==
    ASSUME TypeOK, Begun, LoopInv, Deliver
    PROVE  LoopInv'
<1> DEFINE o == Words("outcome")
           r == Words("report")
<1>1. /\ RunInv(messages, start) /\ messages # <<>> /\ StreakOf(messages) <= MaxRetries
      /\ node' = "model" /\ start' = start
    BY DEF Deliver, Begun, LoopInv
<1>2. PICK new \in {<<>>, <<o>>, <<r>>, <<o, r>>} : Added(new)
    BY DeliverAdds
<1>3. /\ messages' = messages \o new /\ messages \in Seq(MessageRecords)
      /\ MaxRetries \in Nat
    BY <1>2, TypedAdd, ConstantsAssumption DEF ConstantsAssumption, Added, TypeOK
<1>4. /\ o \in MessageRecords /\ o.kind = "outcome" /\ o \notin Reminders
      /\ r \in MessageRecords /\ r.kind = "report" /\ r \notin Reminders
    <2>1. o \in MessageRecords /\ o.kind = "outcome" /\ r \in MessageRecords /\ r.kind = "report"
        BY WordsTyped DEF Kinds
    <2> HIDE DEF o, r
    <2> QED  BY <2>1, KindsApart
<1> HIDE DEF o, r
<1>5. \A ms : RunInv(ms, start) =>
         /\ RunInv(Append(ms, o), start) /\ StreakOf(Append(ms, o)) = 0
         /\ RunInv(Append(ms, r), start) /\ StreakOf(Append(ms, r)) = 0
    BY <1>4, NoticeAdded
<1>6. messages' \in {messages, Append(messages, o), Append(messages, r),
                     Append(Append(messages, o), r)}
    BY <1>2, <1>3, <1>4, SMTT(60)
<1>7. RunInv(messages', start) /\ StreakOf(messages') <= MaxRetries
    <2>1. RunInv(Append(messages, o), start)
        BY <1>1, <1>5
    <2>2. \/ messages' = messages
          \/ RunInv(messages', start) /\ StreakOf(messages') = 0
        BY <1>1, <1>5, <1>6, <2>1
    <2>3. CASE messages' = messages
        BY <1>1, <2>3
    <2>4. CASE RunInv(messages', start) /\ StreakOf(messages') = 0
        BY <1>3, <2>4
    <2> QED  BY <2>2, <2>3, <2>4
<1>8. messages' # <<>>
    BY <1>1, <1>3, <1>4, <1>6
<1> QED  BY <1>1, <1>7, <1>8 DEF LoopInv

\* The model's response may make the streak longer by one.
LEMMA LoopModel ==
    ASSUME TypeOK, Begun, LoopInv, Model
    PROVE  LoopInv'
<1>1. /\ RunInv(messages, start) /\ StreakOf(messages) <= MaxRetries
      /\ node' = "after" /\ start' = start
    BY DEF Model, Begun, LoopInv
<1>2. PICK m \in MessageRecords : Added(<<m>>) /\ m.kind = "ai"
    BY ModelAdds
<1>3. messages' = Append(messages, m) /\ messages' # <<>>
    BY <1>2, AddOne
<1>4. messages \in Seq(MessageRecords) /\ Bounds(messages, Breakers)
    BY <1>1 DEF RunInv
<1>5. LastMessage' = m
    <2>1. messages'[Len(messages')] = m
        BY <1>3, <1>4
    <2> QED  BY <2>1 DEF LastMessage
<1>6. m \notin Reminders
    BY <1>2, KindsApart
<1>7. RunInv(messages', start)
    BY <1>1, <1>2, <1>3, <1>6, RunAppend
<1>8. ~OnlyInvalid(m) => StreakOf(messages') = 0
    <2>1. ~OnlyInvalid(m) => m \in Breakers
        BY <1>2, KindsApart
    <2> QED  BY <1>3, <1>4, <2>1, StreakAppend
<1> QED  BY <1>1, <1>2, <1>3, <1>5, <1>7, <1>8 DEF LoopInv, OnlyInvalid

\* The calls are answered, the retry middleware's with its errors.
LEMMA LoopAnswers ==
    ASSUME TypeOK, Begun, LoopInv, RetryInvalid \/ Tools
    PROVE  LoopInv'
<1>1. /\ RunInv(messages, start) /\ messages # <<>>
      /\ node' = "before" /\ start' = start
    BY DEF RetryInvalid, Tools, Begun, LoopInv
<1>2. PICK new : Added(new) /\ \A i \in DOMAIN new : new[i].kind = "tool"
    BY <1>1, AnswersAdd
<1>3. /\ messages' = messages \o new /\ new \in Seq(MessageRecords)
      /\ messages \in Seq(MessageRecords)
    BY <1>2, TypedAdd DEF Added, TypeOK
<1>4. StreakOf(messages) <= MaxRetries
    <2>1. CASE RetryInvalid
        <3>1. Streak = StreakOf(messages)
            BY <1>1, StreakRead DEF RunInv
        <3> QED  BY <2>1, <3>1 DEF RetryInvalid, Retries
    <2>2. CASE Tools
        BY <2>2 DEF Tools, LoopInv
    <2> QED  BY <2>1, <2>2
<1>5. RunInv(messages', start) /\ StreakOf(messages') = StreakOf(messages)
    BY <1>1, <1>2, <1>3, RunAnswers
<1>6. messages' # <<>>
    BY <1>1, <1>3
<1> QED  BY <1>1, <1>4, <1>5, <1>6 DEF LoopInv

\* The reminder is given where the newest input is newer.
LEMMA LoopRemind ==
    ASSUME TypeOK, Begun, LoopInv, Remind
    PROVE  LoopInv'
<1>1. /\ RunInv(messages, start) /\ node' = "before" /\ start' = start
    BY DEF Remind, Begun, LoopInv
<1>2. /\ Added(<<Words("reminder")>>) /\ Words("reminder") \in MessageRecords
      /\ Words("reminder").kind = "reminder"
    BY RemindAdds DEF Words
<1>3. messages' = Append(messages, Words("reminder")) /\ messages' # <<>>
    BY <1>2, AddOne
<1>4. ~(Newest(messages, Reminders) > Newest(messages, Inputs))
    BY ReadBySets DEF Remind, RemindedThisRun
<1>5. RunInv(messages', start) /\ StreakOf(messages') = 0
    BY <1>1, <1>2, <1>3, <1>4, NoticeAdded
<1>6. MaxRetries \in Nat
    BY ConstantsAssumption DEF ConstantsAssumption
<1> QED  BY <1>1, <1>3, <1>5, <1>6 DEF LoopInv

LEMMA LoopStep == TypeOK /\ Begun /\ LoopInv /\ [Next]_vars => LoopInv'
<1> SUFFICES ASSUME TypeOK, Begun, LoopInv, [Next]_vars PROVE LoopInv'
    OBVIOUS
<1>1. CASE UNCHANGED vars
    BY <1>1 DEF vars, LoopInv, LastMessage
<1>2. CASE GoOn
    <2>1. node' = "tools" => StreakOf(messages) = 0 /\ LastMessage.kind = "ai"
        BY <1>2 DEF GoOn, LoopInv, OnlyInvalid
    <2>2. MaxRetries \in Nat
        BY ConstantsAssumption DEF ConstantsAssumption
    <2>3. UNCHANGED <<messages, start>> /\ node' \in {"tools", "idle"}
        BY <1>2 DEF GoOn
    <2> QED  BY <2>1, <2>2, <2>3 DEF LoopInv, LastMessage
<1>3. CASE Stop
    BY <1>3 DEF Stop, LoopInv
<1> QED  BY <1>1, <1>2, <1>3, LoopStarts, LoopDeliver, LoopModel, LoopAnswers, LoopRemind DEF Next

-----------------------------------------------------------------------------
(* Theorems *)

LoopSafe == TypeOK /\ Begun /\ LoopInv

LEMMA LoopHolds == Spec => []LoopSafe
<1>1. Init => LoopSafe
    BY TypeInit, LoopInit DEF LoopSafe, Begun, Init
<1>2. LoopSafe /\ [Next]_vars => LoopSafe'
    BY TypeStep, LoopStep DEF LoopSafe
<1> QED  BY <1>1, <1>2, PTL DEF Spec

\* The thread is a list of messages within its bounds, for any calls.
THEOREM TypeCorrect == Spec => []TypeOK
<1>1. LoopSafe => TypeOK
    BY DEF LoopSafe
<1> QED  BY <1>1, LoopHolds, PTL

\* The two checks cannot keep a run going, for any number of retries and
\* whatever the model answers (InvalidToolCallRetryMiddleware, TodoMiddleware).
THEOREM ChecksEnd == Spec => []HooksCannotLoop
<1>1. LoopSafe => HooksCannotLoop
    <2> SUFFICES ASSUME LoopSafe PROVE HooksCannotLoop
        OBVIOUS
    <2> DEFINE k == MaxRetries + 1
               c == Count(messages, start, OnlyInvalids)
               b == Count(messages, start, Breakers)
               r == Count(messages, start, Reminders)
               p == Count(messages, start, Reports)
               s == StreakOf(messages)
    <2>1. TypeOK /\ messages \in Seq(MessageRecords) /\ start \in Nat /\ k \in Nat
        BY ConstantsAssumption DEF ConstantsAssumption, LoopSafe, TypeOK
    <2>2. c \in Nat /\ b \in Nat /\ r \in Nat /\ p \in Nat
        BY <2>1, CountType
    <2>3. c <= k * b /\ r <= 1 + p
        <3>1. CASE messages = <<>>
            <4>1. start = Len(messages)
                BY <3>1 DEF LoopSafe, LoopInv
            <4>2. c = 0 /\ b = 0 /\ r = 0
                BY <2>1, <4>1, CountBehind
            <4> HIDE DEF c, b, r, p, k
            <4>3. k * b = 0
                BY <2>1, <4>2
            <4> QED  BY <2>2, <4>2, <4>3
        <3>2. CASE messages # <<>>
            <4>1. /\ s <= k /\ c <= k * (b - 1) + s
                  /\ r <= p + (IF Newest(messages, Reminders) > Newest(messages, Inputs)
                                 THEN 1 ELSE 0)
                BY <3>2 DEF LoopSafe, LoopInv, RunInv
            <4>2. s \in Nat
                BY <2>1, <3>2, StreakAppend DEF LoopSafe, LoopInv, RunInv
            <4> HIDE DEF c, b, r, p, k, s
            <4>3. k * ((b + 1) - 1) = k * b
                BY <2>1, <2>2
            <4>4. c <= k * ((b + 1) - 1) + 0
                BY <2>1, <2>2, <4>1, <4>2, StreaksBound
            <4>5. k * b \in Int
                BY <2>1, <2>2
            <4> QED  BY <2>2, <4>1, <4>3, <4>4, <4>5
        <3> QED  BY <3>1, <3>2
    <2> QED  BY <2>1, <2>3, ReadBySets DEF HooksCannotLoop
<1> QED  BY <1>1, LoopHolds, PTL

\* An agent that ends with open items has been reminded of them since its last
\* input, for any thread (TodoMiddleware.after_model).
THEOREM Reminded == Spec => OpenListReminded
<1> DEFINE Ends == node' = "idle" /\ node # "idle" /\ open /\ IsFinal(LastMessage)
           Since == \E i \in DOMAIN messages :
                      /\ IsReminder(messages[i])
                      /\ \A j \in i..Len(messages) : ~IsInput(messages[j])
<1>1. LoopSafe /\ [Next]_vars => (Ends => Since)
    <2> SUFFICES ASSUME LoopSafe, [Next]_vars, Ends PROVE Since
        OBVIOUS
    <2>1. GoOn
        BY DEF Next, Send, Wake, Deliver, Model, RetryInvalid, Remind, Tools, Stop, vars
    <2>2. RemindedThisRun
        BY <2>1 DEF GoOn
    <2> DEFINE n == Newest(messages, Reminders)
               q == Newest(messages, Inputs)
    <2>3. TypeOK /\ n > q
        BY <2>2, ReadBySets DEF LoopSafe, RemindedThisRun
    <2>4. Bounds(messages, Reminders) /\ Bounds(messages, Inputs)
        BY ThreadBounds DEF LoopSafe
    <2>5. Len(messages) \in Nat /\ DOMAIN messages = 1..Len(messages)
        BY <2>3 DEF TypeOK
    <2>6. q \in Nat /\ n \in Nat
        BY <2>4, <2>5 DEF Bounds
    <2>7. n \in DOMAIN messages /\ messages[n] \in Reminders
        <3>1. n # 0
            BY <2>3, <2>6
        <3> QED  BY <2>4, <3>1 DEF Bounds
    <2>8. \A j \in DOMAIN messages : messages[j] \in Inputs => j <= q
        BY <2>4 DEF Bounds
    <2> HIDE DEF n, q
    <2>9. \A j \in n..Len(messages) : messages[j] \notin Inputs
        BY <2>3, <2>5, <2>6, <2>7, <2>8
    <2>10. \A j \in n..Len(messages) : messages[j] \in MessageRecords
        BY <2>3, <2>5, <2>6, <2>7 DEF TypeOK
    <2>11. IsReminder(messages[n]) /\ \A j \in n..Len(messages) : ~IsInput(messages[j])
        BY <2>7, <2>9, <2>10 DEF Reminders, Inputs
    <2> QED  BY <2>7, <2>11
<1>2. LoopSafe /\ [Next]_vars => [Ends => Since]_vars
    BY <1>1
<1> QED  BY <1>2, LoopHolds, PTL DEF Spec, OpenListReminded

-----------------------------------------------------------------------------
(* The loop of the repair *)

\* Induction up to n over a set: it holds of 0 and of the next of each.
LEMMA UpTo ==
    ASSUME NEW n \in Nat, NEW S, 0 \in S, \A i \in 0..(n - 1) : i \in S => i + 1 \in S
    PROVE  0..n \subseteq S
<1> DEFINE P == {i \in 0..n : 0..i \subseteq S}
           next == [i \in P |-> i + 1]
<1>1. IsFiniteSet(P)
    <2>1. IsFiniteSet(0..n)
        BY FS_Interval
    <2> QED  BY <2>1, FS_Subset
<1>2. 0 \in P
    BY n \in Nat
<1>3. CASE n \in P
    BY <1>3
<1>4. CASE n \notin P
    <2>1. ASSUME NEW i \in P PROVE i + 1 \in P
        <3>1. i \in 0..(n - 1) /\ i + 1 \in 0..n /\ 0..(i + 1) = 0..i \cup {i + 1}
            BY <1>4
        <3> QED  BY <3>1
    <2>2. next \in Injection(P, P)
        <3>1. next \in [P -> P]
            BY <2>1
        <3>2. \A i, j \in P : next[i] = next[j] => i = j
            OBVIOUS
        <3> QED  BY <3>1, <3>2 DEF Injection, IsInjective
    <2>3. next \in Surjection(P, P)
        BY <1>1, <2>2, FS_Injection
    <2>4. PICK i \in P : next[i] = 0
        BY <1>2, <2>3 DEF Surjection
    <2> QED  BY <2>4
<1> QED  BY <1>3, <1>4

Nothing == [out |-> <<>>, pending |-> {}]

\* The loop, up to the k-th message.
Loop(state, wire, k) ==
    state = [n \in 0..k |-> IF n = 0 THEN Nothing ELSE Sanitized(state[n - 1], wire[n])]

\* The loop starts with nothing and takes one message after another.
LEMMA RepairedSteps ==
    ASSUME NEW wire, Len(wire) \in Nat
    PROVE  /\ Repaired(wire)[0] = Nothing
           /\ \A n \in 1..Len(wire) : Repaired(wire)[n] = Sanitized(Repaired(wire)[n - 1], wire[n])
<1> DEFINE N == Len(wire)
           S == {k \in 0..N : \E state : Loop(state, wire, k)}
<1>1. 0 \in S
    <2>1. Loop([n \in 0..0 |-> Nothing], wire, 0)
        BY DEF Loop
    <2> QED  BY <2>1
<1>2. ASSUME NEW k \in 0..(N - 1), k \in S PROVE k + 1 \in S
    <2>1. PICK f : Loop(f, wire, k)
        BY <1>2
    <2> DEFINE g == [n \in 0..(k + 1) |-> IF n = k + 1 THEN Sanitized(f[k], wire[k + 1]) ELSE f[n]]
    <2>2. \A n \in 0..k : f[n] = IF n = 0 THEN Nothing ELSE Sanitized(f[n - 1], wire[n])
        BY <2>1 DEF Loop
    <2>3. \A n \in 0..(k + 1) : g[n] = IF n = 0 THEN Nothing ELSE Sanitized(g[n - 1], wire[n])
        <3> TAKE n \in 0..(k + 1)
        <3>1. CASE n = 0
            BY <2>2, <3>1
        <3>2. CASE n \in 1..k
            <4>1. g[n] = f[n] /\ g[n - 1] = f[n - 1]
                BY <3>2
            <4> QED  BY <2>2, <3>2, <4>1
        <3>3. CASE n = k + 1
            <4>1. g[n] = Sanitized(f[k], wire[n]) /\ g[n - 1] = f[k]
                BY <3>3
            <4> QED  BY <3>3, <4>1
        <3> QED  BY <3>1, <3>2, <3>3
    <2>4. Loop(g, wire, k + 1)
        <3>1. g = [n \in 0..(k + 1) |-> g[n]]
            OBVIOUS
        <3> HIDE DEF g
        <3> QED  BY <2>3, <3>1 DEF Loop
    <2>5. k + 1 \in 0..N
        OBVIOUS
    <2> QED  BY <2>4, <2>5
<1>3. N \in S
    <2> HIDE DEF S
    <2>1. 0..N \subseteq S
        BY <1>1, <1>2, UpTo
    <2> QED  BY <2>1
<1>4. Repaired(wire) = CHOOSE state : Loop(state, wire, N)
    BY DEF Repaired, Loop, Nothing
<1>5. Loop(Repaired(wire), wire, N)
    BY <1>3, <1>4
<1>6. \A n \in 0..N :
         Repaired(wire)[n] = IF n = 0 THEN Nothing ELSE Sanitized(Repaired(wire)[n - 1], wire[n])
    BY <1>5 DEF Loop
<1> QED  BY <1>6

\* What it did with the first messages does not depend on those after them.
LEMMA RepairedPrefix ==
    ASSUME NEW wire, NEW more, Len(wire) \in Nat, Len(more) \in Nat, Len(wire) <= Len(more),
           \A i \in 1..Len(wire) : more[i] = wire[i]
    PROVE  \A n \in 0..Len(wire) : Repaired(more)[n] = Repaired(wire)[n]
<1> DEFINE S == {n \in 0..Len(wire) : Repaired(more)[n] = Repaired(wire)[n]}
<1>1. 0 \in S
    BY RepairedSteps
<1>2. ASSUME NEW n \in 0..(Len(wire) - 1), n \in S PROVE n + 1 \in S
    <2>1. n + 1 \in 1..Len(wire) /\ n + 1 \in 1..Len(more) /\ (n + 1) - 1 = n
        OBVIOUS
    <2>2. /\ Repaired(more)[n + 1] = Sanitized(Repaired(more)[n], more[n + 1])
          /\ Repaired(wire)[n + 1] = Sanitized(Repaired(wire)[n], wire[n + 1])
        BY <2>1, RepairedSteps
    <2>3. Repaired(more)[n] = Repaired(wire)[n] /\ more[n + 1] = wire[n + 1]
        BY <1>2, <2>1
    <2>4. n + 1 \in 0..Len(wire)
        OBVIOUS
    <2> QED  BY <2>2, <2>3, <2>4
<1>3. 0..Len(wire) \subseteq S
    <2> HIDE DEF S
    <2> QED  BY <1>1, <1>2, UpTo
<1> QED  BY <1>3

-----------------------------------------------------------------------------
(* Calls and their answers in what is sent *)

IsAnswer(m) == m.role \in {"tool", "synthetic"}

\* What can stand in the list: an answer is to one call, a user makes none.
Entries ==
    {m \in [role : {"user", "assistant", "tool", "synthetic"}, calls : SUBSET Calls] :
        /\ IsAnswer(m) => \E c \in Calls : m.calls = {c}
        /\ m.role = "user" => m.calls = {}}

\* Only answers come after position i.
Trailing(p, i) == \A k \in i+1..Len(p) : IsAnswer(p[k])

\* The answers to position i are one for each call of C.
Matched(p, i, C) ==
    /\ \A j \in AnswersTo(p, i) : \E c \in C : p[j].calls = {c}
    /\ \A c \in C : \E j \in AnswersTo(p, i) : p[j].calls = {c}
    /\ \A j, k \in AnswersTo(p, i) : p[j].calls = p[k].calls => j = k

\* Each assistant's calls are matched, but for those pending of the last; no
\* answer stands without its call.
Paired(p, pending) ==
    /\ p \in Seq(Entries) /\ pending \in SUBSET Calls
    /\ \A i \in 1..Len(p) : p[i].role = "assistant" =>
          IF Trailing(p, i) THEN pending \subseteq p[i].calls /\ Matched(p, i, p[i].calls \ pending)
          ELSE Matched(p, i, p[i].calls)
    /\ pending # {} => \E i \in 1..Len(p) : p[i].role = "assistant" /\ Trailing(p, i)
    /\ \A j \in 1..Len(p) : IsAnswer(p[j]) =>
          \E i \in 1..Len(p) : p[i].role = "assistant" /\ j \in AnswersTo(p, i)

\* A match is about the answers alone.
LEMMA MatchedSame ==
    ASSUME NEW p, NEW q, NEW i, NEW C, Matched(p, i, C), AnswersTo(q, i) = AnswersTo(p, i),
           \A j \in AnswersTo(p, i) : q[j] = p[j]
    PROVE  Matched(q, i, C)
<1>1. \A j \in AnswersTo(q, i) : \E c \in C : q[j].calls = {c}
    BY DEF Matched
<1>2. \A c \in C : \E j \in AnswersTo(q, i) : q[j].calls = {c}
    BY DEF Matched
<1>3. \A j, k \in AnswersTo(q, i) : q[j].calls = q[k].calls => j = k
    BY DEF Matched
<1> QED  BY <1>1, <1>2, <1>3 DEF Matched

\* What one more message changes of the answers to those before it.
LEMMA AnswersAppend ==
    ASSUME NEW p \in Seq(Entries), NEW m \in Entries
    PROVE  LET q == Append(p, m)
               n == Len(p) + 1
           IN  /\ q \in Seq(Entries) /\ Len(q) = n /\ q[n] = m
               /\ \A i \in 1..Len(p) : q[i] = p[i]
               /\ \A i \in 1..Len(p) :
                     /\ Trailing(q, i) <=> Trailing(p, i) /\ IsAnswer(m)
                     /\ AnswersTo(p, i) \subseteq 1..Len(p)
                     /\ AnswersTo(q, i) = IF Trailing(q, i) THEN AnswersTo(p, i) \cup {n}
                                          ELSE AnswersTo(p, i)
               /\ Trailing(q, n) /\ AnswersTo(q, n) = {}
<1> DEFINE q == Append(p, m)
           n == Len(p) + 1
<1>1. /\ q \in Seq(Entries) /\ Len(q) = n /\ q[n] = m
      /\ \A i \in 1..Len(p) : q[i] = p[i]
      /\ DOMAIN q = 1..n /\ DOMAIN p = 1..Len(p) /\ n \in Nat /\ Len(p) \in Nat
    OBVIOUS
<1> HIDE DEF q
<1>2. ASSUME NEW i \in 1..Len(p)
      PROVE  /\ Trailing(q, i) <=> Trailing(p, i) /\ IsAnswer(m)
             /\ AnswersTo(p, i) \subseteq 1..Len(p)
             /\ AnswersTo(q, i) = IF Trailing(q, i) THEN AnswersTo(p, i) \cup {n}
                                  ELSE AnswersTo(p, i)
    <2>1. \A k \in i+1..n : k = n \/ (k \in i+1..Len(p) /\ k \in 1..Len(p))
        BY <1>1
    <2>2. n \in i+1..n /\ \A k \in i+1..Len(p) : k \in i+1..n /\ k \in 1..Len(p)
        BY <1>1
    <2>3. Trailing(q, i) <=> Trailing(p, i) /\ IsAnswer(m)
        BY <1>1, <2>1, <2>2 DEF Trailing
    <2>4. \A j \in 1..Len(p) : (\A k \in i+1..j : IsAnswer(q[k])) <=> (\A k \in i+1..j : IsAnswer(p[k]))
        <3> TAKE j \in 1..Len(p)
        <3>1. \A k \in i+1..j : k \in 1..Len(p)
            BY <1>1
        <3> QED  BY <1>1, <3>1
    <2>5. AnswersTo(p, i) = {j \in 1..Len(p) : j > i /\ \A k \in i+1..j : IsAnswer(p[k])}
        BY <1>1 DEF AnswersTo, IsAnswer
    <2>6. AnswersTo(q, i) = {j \in 1..n : j > i /\ \A k \in i+1..j : IsAnswer(q[k])}
        BY <1>1 DEF AnswersTo, IsAnswer
    <2>7. \A j \in 1..n : j = n \/ j \in 1..Len(p)
        BY <1>1
    <2>8. n \in AnswersTo(q, i) <=> Trailing(q, i)
        <3>1. n > i /\ n \in 1..n
            BY <1>1
        <3> QED  BY <1>1, <2>6, <3>1 DEF Trailing
    <2>9. \A j \in 1..Len(p) : j \in AnswersTo(q, i) <=> j \in AnswersTo(p, i)
        <3>1. \A j \in 1..Len(p) : j \in 1..n
            BY <1>1
        <3> QED  BY <2>4, <2>5, <2>6, <3>1
    <2>10. AnswersTo(p, i) \subseteq 1..Len(p) /\ AnswersTo(q, i) \subseteq 1..n
        BY <2>5, <2>6
    <2>11. n \in 1..n /\ n \notin 1..Len(p)
        BY <1>1
    <2>12. AnswersTo(q, i) = IF Trailing(q, i) THEN AnswersTo(p, i) \cup {n} ELSE AnswersTo(p, i)
        <3> HIDE DEF n
        <3>1. CASE Trailing(q, i)
            <4>1. AnswersTo(q, i) = AnswersTo(p, i) \cup {n}
                BY <2>7, <2>8, <2>9, <2>10, <3>1
            <4> QED  BY <3>1, <4>1
        <3>2. CASE ~Trailing(q, i)
            <4>1. AnswersTo(q, i) = AnswersTo(p, i)
                BY <2>7, <2>8, <2>9, <2>10, <3>2
            <4> QED  BY <3>2, <4>1
        <3> QED  BY <3>1, <3>2
    <2> QED  BY <2>3, <2>10, <2>12
<1>3. Trailing(q, n) /\ AnswersTo(q, n) = {}
    <2>1. n+1..n = {} /\ \A j \in 1..n : ~(j > n)
        BY <1>1
    <2> QED  BY <1>1, <2>1 DEF Trailing, AnswersTo
<1> QED  BY <1>1, <1>2, <1>3 DEF q

\* An answer to a pending call.
LEMMA PairedAnswer ==
    ASSUME NEW p, NEW pending, Paired(p, pending), NEW c \in pending, NEW m \in Entries,
           IsAnswer(m), m.calls = {c}
    PROVE  Paired(Append(p, m), pending \ {c})
<1> DEFINE q == Append(p, m)
           n == Len(p) + 1
           rest == pending \ {c}
<1>1. p \in Seq(Entries) /\ pending \in SUBSET Calls /\ Len(p) \in Nat
    BY DEF Paired
<1>2. /\ q \in Seq(Entries) /\ Len(q) = n /\ q[n] = m
      /\ \A i \in 1..Len(p) : q[i] = p[i]
      /\ \A i \in 1..Len(p) :
            /\ Trailing(q, i) <=> Trailing(p, i)
            /\ AnswersTo(p, i) \subseteq 1..Len(p)
            /\ AnswersTo(q, i) = IF Trailing(q, i) THEN AnswersTo(p, i) \cup {n}
                                 ELSE AnswersTo(p, i)
    BY <1>1, AnswersAppend
<1>3. \A i \in 1..n : i \in 1..Len(p) \/ i = n
    BY <1>1
<1>3a. n \notin 1..Len(p) /\ n \in 1..n /\ \A i \in 1..Len(p) : i \in 1..n
    BY <1>1
<1> HIDE DEF q, n
<1>4. m.role # "assistant"
    BY DEF IsAnswer
<1>5. ASSUME NEW i \in 1..Len(p), p[i].role = "assistant"
      PROVE  IF Trailing(q, i) THEN rest \subseteq q[i].calls /\ Matched(q, i, q[i].calls \ rest)
             ELSE Matched(q, i, q[i].calls)
    <2>1. q[i] = p[i] /\ \A j \in AnswersTo(p, i) : q[j] = p[j] /\ j # n
        BY <1>2, <1>3a
    <2>2. CASE Trailing(q, i)
        <3>1. pending \subseteq p[i].calls /\ Matched(p, i, p[i].calls \ pending)
            BY <1>2, <1>5, <2>2 DEF Paired
        <3>2. p[i].calls \ rest = (p[i].calls \ pending) \cup {c}
            BY <3>1
        <3>3. AnswersTo(q, i) = AnswersTo(p, i) \cup {n} /\ q[n].calls = {c}
            BY <1>2, <2>2
        <3>4. \A j \in AnswersTo(p, i) : q[j].calls # {c}
            BY <2>1, <3>1 DEF Matched
        <3>5. Matched(q, i, p[i].calls \ rest)
            <4>1. \A j \in AnswersTo(q, i) : \E d \in p[i].calls \ rest : q[j].calls = {d}
                BY <2>1, <3>1, <3>2, <3>3 DEF Matched
            <4>2. \A d \in p[i].calls \ rest : \E j \in AnswersTo(q, i) : q[j].calls = {d}
                <5> TAKE d \in p[i].calls \ rest
                <5>1. CASE d = c
                    BY <3>3, <5>1
                <5>2. CASE d \in p[i].calls \ pending
                    <6>1. PICK j \in AnswersTo(p, i) : p[j].calls = {d}
                        BY <3>1, <5>2 DEF Matched
                    <6> QED  BY <2>1, <3>3, <6>1
                <5> QED  BY <3>2, <5>1, <5>2
            <4>3. \A j, k \in AnswersTo(q, i) : q[j].calls = q[k].calls => j = k
                BY <2>1, <3>1, <3>3, <3>4 DEF Matched
            <4> QED  BY <4>1, <4>2, <4>3 DEF Matched
        <3> QED  BY <2>1, <2>2, <3>1, <3>5
    <2>3. CASE ~Trailing(q, i)
        <3>1. Matched(p, i, p[i].calls)
            BY <1>2, <1>5, <2>3 DEF Paired
        <3>2. AnswersTo(q, i) = AnswersTo(p, i)
            BY <1>2, <2>3
        <3>3. Matched(q, i, p[i].calls)
            BY <2>1, <3>1, <3>2, MatchedSame
        <3> QED  BY <2>1, <2>3, <3>3
    <2> QED  BY <2>2, <2>3
<1>6. PICK a \in 1..Len(p) : p[a].role = "assistant" /\ Trailing(p, a)
    BY DEF Paired
<1>7. q[a].role = "assistant" /\ Trailing(q, a) /\ n \in AnswersTo(q, a) /\ a \in 1..n
    BY <1>2, <1>3a, <1>6
<1>8. ASSUME NEW j \in 1..n, IsAnswer(q[j])
      PROVE  \E i \in 1..n : q[i].role = "assistant" /\ j \in AnswersTo(q, i)
    <2>1. CASE j = n
        BY <1>7, <2>1
    <2>2. CASE j \in 1..Len(p)
        <3>1. PICK i \in 1..Len(p) : p[i].role = "assistant" /\ j \in AnswersTo(p, i)
            BY <1>2, <1>8, <2>2 DEF Paired
        <3>2. i \in 1..n /\ q[i] = p[i] /\ j \in AnswersTo(q, i)
            BY <1>2, <1>3a, <3>1
        <3> QED  BY <3>1, <3>2
    <2> QED  BY <1>3, <2>1, <2>2
<1>9. rest \in SUBSET Calls
    BY <1>1
<1>10. \A i \in 1..n : q[i].role = "assistant" =>
          IF Trailing(q, i) THEN rest \subseteq q[i].calls /\ Matched(q, i, q[i].calls \ rest)
          ELSE Matched(q, i, q[i].calls)
    <2> TAKE i \in 1..n
    <2> HAVE q[i].role = "assistant"
    <2>1. i \in 1..Len(p) /\ p[i].role = "assistant"
        BY <1>2, <1>3, <1>4
    <2> QED  BY <1>5, <2>1
<1> QED
    <2> HIDE DEF rest
    <2>1. Paired(q, rest)
        BY <1>2, <1>7, <1>8, <1>9, <1>10 DEF Paired
    <2> QED  BY <2>1 DEF q, rest

\* A message that is no answer, when nothing is pending.
LEMMA PairedTurn ==
    ASSUME NEW p, Paired(p, {}), NEW m \in Entries, ~IsAnswer(m)
    PROVE  Paired(Append(p, m), m.calls)
<1> DEFINE q == Append(p, m)
           n == Len(p) + 1
<1>1. p \in Seq(Entries) /\ Len(p) \in Nat
    BY DEF Paired
<1>2. /\ q \in Seq(Entries) /\ Len(q) = n /\ q[n] = m
      /\ \A i \in 1..Len(p) : q[i] = p[i]
      /\ \A i \in 1..Len(p) :
            /\ ~Trailing(q, i)
            /\ AnswersTo(p, i) \subseteq 1..Len(p)
            /\ AnswersTo(q, i) = AnswersTo(p, i)
      /\ Trailing(q, n) /\ AnswersTo(q, n) = {}
    BY <1>1, AnswersAppend
<1>3. /\ \A i \in 1..n : i \in 1..Len(p) \/ i = n
      /\ n \in 1..n /\ \A i \in 1..Len(p) : i \in 1..n
    BY <1>1
<1> HIDE DEF q, n
<1>4. m.calls \in SUBSET Calls /\ (m.role # "assistant" => m.calls = {})
    BY DEF Entries, IsAnswer
<1>5. ASSUME NEW i \in 1..Len(p), p[i].role = "assistant" PROVE Matched(q, i, q[i].calls)
    <2>1. Matched(p, i, p[i].calls)
        <3>1. p[i].calls \ {} = p[i].calls
            OBVIOUS
        <3> QED  BY <1>5, <3>1 DEF Paired
    <2>2. q[i] = p[i] /\ AnswersTo(q, i) = AnswersTo(p, i) /\ \A j \in AnswersTo(p, i) : q[j] = p[j]
        BY <1>2
    <2>3. Matched(q, i, p[i].calls)
        BY <2>1, <2>2, MatchedSame
    <2> QED  BY <2>2, <2>3
<1>6. \A i \in 1..n : q[i].role = "assistant" =>
         IF Trailing(q, i) THEN m.calls \subseteq q[i].calls /\ Matched(q, i, q[i].calls \ m.calls)
         ELSE Matched(q, i, q[i].calls)
    <2> TAKE i \in 1..n
    <2> HAVE q[i].role = "assistant"
    <2>1. CASE i \in 1..Len(p)
        BY <1>2, <1>5, <2>1
    <2>2. CASE i = n
        <3>1. q[i].calls \ m.calls = {} /\ m.calls \subseteq q[i].calls
            BY <1>2, <2>2
        <3>2. Matched(q, i, {})
            BY <1>2, <2>2 DEF Matched
        <3> QED  BY <1>2, <2>2, <3>1, <3>2
    <2> QED  BY <1>3, <2>1, <2>2
<1>7. m.calls # {} => \E i \in 1..n : q[i].role = "assistant" /\ Trailing(q, i)
    BY <1>2, <1>3, <1>4
<1>8. ASSUME NEW j \in 1..n, IsAnswer(q[j])
      PROVE  \E i \in 1..n : q[i].role = "assistant" /\ j \in AnswersTo(q, i)
    <2>1. j \in 1..Len(p)
        BY <1>2, <1>3, <1>8
    <2>2. PICK i \in 1..Len(p) : p[i].role = "assistant" /\ j \in AnswersTo(p, i)
        BY <1>2, <1>8, <2>1 DEF Paired
    <2> QED  BY <1>2, <1>3, <2>2
<1> QED
    <2>1. Paired(q, m.calls)
        BY <1>2, <1>4, <1>6, <1>7, <1>8 DEF Paired
    <2> QED  BY <2>1 DEF q

-----------------------------------------------------------------------------
(* A set in the order it is listed in *)

\* The first k of the list.
Taken(order, k) == {order[i] : i \in 1..k}

\* The list of a set takes its members one at a time, and all of them.
LEMMA TakenOnce ==
    ASSUME NEW S, IsFiniteSet(S)
    PROVE  LET order == SetToSeq(S)
           IN  /\ order \in Seq(S) /\ Len(order) \in Nat
               /\ Taken(order, 0) = {} /\ Taken(order, Len(order)) = S
               /\ \A k \in 0..(Len(order) - 1) :
                     /\ order[k + 1] \in S \ Taken(order, k)
                     /\ S \ Taken(order, k + 1) = (S \ Taken(order, k)) \ {order[k + 1]}
<1> DEFINE order == SetToSeq(S)
<1>1. PICK n \in Nat : ExistsBijection(1..n, S)
    BY FS_NatBijection
<1>2. Cardinality(S) = n
    BY <1>1, FS_CountingElements
<1>3. \E f \in [1..n -> S] : IsInjective(f)
    BY <1>1 DEF ExistsBijection, Bijection, Injection
<1>4. order \in [1..n -> S] /\ IsInjective(order)
    BY <1>2, <1>3 DEF SetToSeq
<1> HIDE DEF order
<1>5. order \in Seq(S) /\ Len(order) = n
    BY <1>4
<1>6. order \in Surjection(1..n, S)
    <2>1. order \in Injection(1..n, S)
        BY <1>4 DEF Injection
    <2>2. IsFiniteSet(1..n) /\ Cardinality(1..n) = n
        BY FS_Interval
    <2> QED  BY <1>2, <2>1, <2>2, FS_Injection
<1>7. Taken(order, n) = S
    <2>1. \A x \in S : \E i \in 1..n : order[i] = x
        BY <1>6 DEF Surjection
    <2> QED  BY <1>4, <2>1 DEF Taken
<1>8. Taken(order, 0) = {}
    BY DEF Taken
<1>9. ASSUME NEW k \in 0..(n - 1)
      PROVE  /\ order[k + 1] \in S \ Taken(order, k)
             /\ S \ Taken(order, k + 1) = (S \ Taken(order, k)) \ {order[k + 1]}
    <2>1. k + 1 \in 1..n /\ \A i \in 1..k : i \in 1..n /\ i # k + 1
        OBVIOUS
    <2>2. order[k + 1] \in S /\ \A i \in 1..k : order[i] # order[k + 1]
        BY <1>4, <2>1 DEF IsInjective
    <2>3. 1..(k + 1) = 1..k \cup {k + 1}
        OBVIOUS
    <2>4. Taken(order, k + 1) = Taken(order, k) \cup {order[k + 1]}
        BY <2>3 DEF Taken
    <2> QED  BY <2>2, <2>4 DEF Taken
<1> QED  BY <1>5, <1>7, <1>8, <1>9 DEF order

LEMMA AppendedLast ==
    ASSUME NEW E, NEW s \in Seq(E), NEW t \in Seq(E), NEW e \in E
    PROVE  s \o Append(t, e) = Append(s \o t, e)
<1>1. /\ s \o Append(t, e) \in Seq(E) /\ Append(s \o t, e) \in Seq(E)
      /\ Len(s \o Append(t, e)) = Len(s) + Len(t) + 1
      /\ Len(Append(s \o t, e)) = Len(s) + Len(t) + 1
      /\ Len(s) \in Nat /\ Len(t) \in Nat
    OBVIOUS
<1>2. \A i \in 1..(Len(s) + Len(t) + 1) : (s \o Append(t, e))[i] = Append(s \o t, e)[i]
    <2> TAKE i \in 1..(Len(s) + Len(t) + 1)
    <2>1. CASE i \in 1..Len(s)
        BY <1>1, <2>1
    <2>2. CASE i \in Len(s)+1..Len(s)+Len(t)
        BY <1>1, <2>2
    <2>3. CASE i = Len(s) + Len(t) + 1
        BY <1>1, <2>3
    <2> QED  BY <1>1, <2>1, <2>2, <2>3
<1> QED  BY <1>1, <1>2

\* The answers made up for what is pending.
LEMMA PairedClosing ==
    ASSUME NEW p, NEW pending, Paired(p, pending)
    PROVE  Paired(p \o Closing(pending), {})
<1> DEFINE order == SetToSeq(pending)
           closing(k) == [i \in 1..k |-> Synthetic(order[i])]
           S == {k \in 0..Len(order) : Paired(p \o closing(k), pending \ Taken(order, k))}
<1>1. p \in Seq(Entries) /\ pending \in SUBSET Calls /\ IsFiniteSet(pending)
    <2>1. p \in Seq(Entries) /\ pending \in SUBSET Calls
        BY DEF Paired
    <2> QED  BY <2>1, ConstantsAssumption, FS_Subset DEF ConstantsAssumption
<1>2. /\ order \in Seq(pending) /\ Len(order) \in Nat
      /\ Taken(order, 0) = {} /\ Taken(order, Len(order)) = pending
      /\ \A k \in 0..(Len(order) - 1) :
            /\ order[k + 1] \in pending \ Taken(order, k)
            /\ pending \ Taken(order, k + 1) = (pending \ Taken(order, k)) \ {order[k + 1]}
    BY <1>1, TakenOnce
<1> HIDE DEF order
<1>3. ASSUME NEW c \in Calls
      PROVE  Synthetic(c) \in Entries /\ IsAnswer(Synthetic(c)) /\ Synthetic(c).calls = {c}
    BY DEF Synthetic, Entries, IsAnswer
<1>4. \A i \in 1..Len(order) : Synthetic(order[i]) \in Entries
    BY <1>1, <1>2, <1>3
<1>5. \A k \in 0..Len(order) : closing(k) \in Seq(Entries)
    BY <1>2, <1>4
<1>6. 0 \in S
    <2>1. p \o closing(0) = p
        <3>1. closing(0) = <<>>
            OBVIOUS
        <3> HIDE DEF closing
        <3> QED  BY <1>1, <3>1
    <2>2. pending \ Taken(order, 0) = pending
        BY <1>2
    <2>3. Paired(p \o closing(0), pending \ Taken(order, 0))
        <3> HIDE DEF closing
        <3> QED  BY <2>1, <2>2, Zenon
    <2>4. 0 \in 0..Len(order)
        BY <1>2
    <2> HIDE DEF closing
    <2> QED  BY <2>3, <2>4
<1>7. ASSUME NEW k \in 0..(Len(order) - 1), k \in S PROVE k + 1 \in S
    <2> DEFINE c == order[k + 1]
    <2>1. c \in pending \ Taken(order, k) /\ c \in Calls
        BY <1>1, <1>2
    <2>2. Paired(p \o closing(k), pending \ Taken(order, k))
        BY <1>7
    <2>3. Paired(Append(p \o closing(k), Synthetic(c)), (pending \ Taken(order, k)) \ {c})
        <3> HIDE DEF c, closing
        <3> QED  BY <1>3, <2>1, <2>2, PairedAnswer
    <2>4. p \o closing(k + 1) = Append(p \o closing(k), Synthetic(c))
        <3>1. closing(k + 1) = Append(closing(k), Synthetic(c))
            OBVIOUS
        <3>2. closing(k) \in Seq(Entries) /\ Synthetic(c) \in Entries
            BY <1>3, <1>5, <2>1
        <3> HIDE DEF closing, c
        <3>3. p \o Append(closing(k), Synthetic(c)) = Append(p \o closing(k), Synthetic(c))
            BY <1>1, <3>2, AppendedLast
        <3> QED  BY <3>1, <3>3, Zenon
    <2>5. k + 1 \in 0..Len(order) /\ pending \ Taken(order, k + 1) = (pending \ Taken(order, k)) \ {c}
        BY <1>2
    <2> HIDE DEF closing, c
    <2> QED  BY <2>3, <2>4, <2>5
<1>8. Len(order) \in S
    <2> HIDE DEF S
    <2>1. 0..Len(order) \subseteq S
        BY <1>2, <1>6, <1>7, UpTo
    <2> QED  BY <1>2, <2>1
<1>9. closing(Len(order)) = Closing(pending)
    <2>1. DOMAIN order = 1..Len(order)
        BY <1>2
    <2> QED  BY <2>1 DEF Closing, order
<1>10. pending \ Taken(order, Len(order)) = {}
    BY <1>2
<1> HIDE DEF closing
<1> QED  BY <1>8, <1>9, <1>10

\* One message through the repair, whatever it is.
LEMMA PairedSanitized ==
    ASSUME NEW state, Paired(state.out, state.pending), NEW m \in Entries, m.role # "synthetic"
    PROVE  Paired(Sanitized(state, m).out, Sanitized(state, m).pending)
<1>1. state.pending \in SUBSET Calls
    BY DEF Paired
<1>2. CASE m.role = "tool" /\ m.calls \subseteq state.pending
    <2>1. PICK c \in Calls : m.calls = {c}
        BY <1>2 DEF Entries, IsAnswer
    <2>2. c \in state.pending /\ IsAnswer(m)
        BY <1>2, <2>1 DEF IsAnswer
    <2>3. Paired(Append(state.out, m), state.pending \ {c})
        BY <2>1, <2>2, PairedAnswer
    <2>4. Sanitized(state, m) = [out |-> Append(state.out, m), pending |-> state.pending \ {c}]
        BY <1>2, <2>1 DEF Sanitized
    <2> QED  BY <2>3, <2>4
<1>3. CASE m.role = "tool" /\ ~(m.calls \subseteq state.pending)
    <2>1. Sanitized(state, m) = state
        BY <1>3 DEF Sanitized
    <2> QED  BY <2>1
<1>4. CASE m.role # "tool"
    <2>1. Paired(state.out \o Closing(state.pending), {})
        BY PairedClosing
    <2>2. ~IsAnswer(m)
        BY <1>4 DEF IsAnswer
    <2>3. Paired(Append(state.out \o Closing(state.pending), m), m.calls)
        BY <2>1, <2>2, PairedTurn
    <2>4. Sanitized(state, m) =
             [out |-> Append(state.out \o Closing(state.pending), m), pending |-> m.calls]
        BY <1>4 DEF Sanitized
    <2> QED  BY <2>3, <2>4
<1> QED  BY <1>2, <1>3, <1>4

\* The messages of a thread, as they are sent before the repair.
Sent == {m \in Entries : m.role # "synthetic"}

LEMMA PairedRepaired ==
    ASSUME NEW wire \in Seq(Sent)
    PROVE  \A n \in 0..Len(wire) : Paired(Repaired(wire)[n].out, Repaired(wire)[n].pending)
<1> DEFINE S == {n \in 0..Len(wire) : Paired(Repaired(wire)[n].out, Repaired(wire)[n].pending)}
<1>1. Len(wire) \in Nat /\ \A n \in 1..Len(wire) : wire[n] \in Entries /\ wire[n].role # "synthetic"
    BY DEF Sent
<1>2. 0 \in S
    <2>1. Paired(<<>>, {})
        <3>1. <<>> \in Seq(Entries) /\ 1..Len(<<>>) = {}
            OBVIOUS
        <3> QED  BY <3>1 DEF Paired
    <2>2. Repaired(wire)[0].out = <<>> /\ Repaired(wire)[0].pending = {}
        BY <1>1, RepairedSteps DEF Nothing
    <2>3. 0 \in 0..Len(wire)
        BY <1>1
    <2> QED  BY <2>1, <2>2, <2>3
<1>3. ASSUME NEW n \in 0..(Len(wire) - 1), n \in S PROVE n + 1 \in S
    <2>1. n + 1 \in 1..Len(wire) /\ n + 1 \in 0..Len(wire) /\ (n + 1) - 1 = n
        BY <1>1
    <2>2. Repaired(wire)[n + 1] = Sanitized(Repaired(wire)[n], wire[n + 1])
        BY <1>1, <2>1, RepairedSteps
    <2>3. Paired(Repaired(wire)[n].out, Repaired(wire)[n].pending)
        BY <1>3
    <2>4. wire[n + 1] \in Entries /\ wire[n + 1].role # "synthetic"
        BY <1>1, <2>1
    <2>5. Paired(Repaired(wire)[n + 1].out, Repaired(wire)[n + 1].pending)
        BY <2>2, <2>3, <2>4, PairedSanitized
    <2> QED  BY <2>1, <2>5
<1>4. 0..Len(wire) \subseteq S
    <2> HIDE DEF S
    <2> QED  BY <1>1, <1>2, <1>3, UpTo
<1> QED  BY <1>4

\* A call with one answer, and as many answers as calls.
LEMMA MatchedCount ==
    ASSUME NEW p \in Seq(Entries), NEW i \in 1..Len(p), Matched(p, i, p[i].calls)
    PROVE  /\ \A c \in p[i].calls : Cardinality({j \in AnswersTo(p, i) : c \in p[j].calls}) = 1
           /\ Cardinality(AnswersTo(p, i)) = Cardinality(p[i].calls)
<1> DEFINE A == AnswersTo(p, i)
           C == p[i].calls
           f == [j \in A |-> CHOOSE c \in C : p[j].calls = {c}]
<1>1. /\ \A j \in A : \E c \in C : p[j].calls = {c}
      /\ \A c \in C : \E j \in A : p[j].calls = {c}
      /\ \A j, k \in A : p[j].calls = p[k].calls => j = k
    BY DEF Matched
<1>2. IsFiniteSet(A)
    <2>1. A \subseteq 1..Len(p) /\ Len(p) \in Nat
        BY DEF AnswersTo
    <2>2. IsFiniteSet(1..Len(p))
        BY <2>1, FS_Interval
    <2> HIDE DEF A
    <2> QED  BY <2>1, <2>2, FS_Subset
<1> HIDE DEF A, C
<1>3. ASSUME NEW c \in C PROVE Cardinality({j \in A : c \in p[j].calls}) = 1
    <2>1. PICK j \in A : p[j].calls = {c}
        BY <1>1
    <2>2. \A k \in A : c \in p[k].calls => k = j
        <3> TAKE k \in A
        <3> HAVE c \in p[k].calls
        <3>1. PICK d \in C : p[k].calls = {d}
            BY <1>1
        <3>2. p[k].calls = {c}
            BY <3>1
        <3> QED  BY <1>1, <2>1, <3>2
    <2>3. {k \in A : c \in p[k].calls} = {j}
        BY <2>1, <2>2
    <2> QED  BY <2>3, FS_Singleton
<1>4. \A j \in A : f[j] \in C /\ p[j].calls = {f[j]}
    BY <1>1
<1>5. f \in Bijection(A, C)
    <2>1. f \in [A -> C]
        BY <1>4
    <2> HIDE DEF f
    <2>2. \A j, k \in A : f[j] = f[k] => j = k
        <3> TAKE j, k \in A
        <3> HAVE f[j] = f[k]
        <3>1. p[j].calls = {f[j]} /\ p[k].calls = {f[k]}
            BY <1>4
        <3>2. p[j].calls = p[k].calls
            BY <3>1
        <3> QED  BY <1>1, <3>2
    <2>3. \A c \in C : \E j \in A : f[j] = c
        <3> TAKE c \in C
        <3>1. PICK j \in A : p[j].calls = {c}
            BY <1>1
        <3>2. p[j].calls = {f[j]}
            BY <1>4
        <3>3. f[j] = c
            BY <3>1, <3>2
        <3> QED  BY <3>3
    <2> QED  BY <2>1, <2>2, <2>3 DEF Bijection, Injection, Surjection, IsInjective
<1>6. Cardinality(A) = Cardinality(C)
    BY <1>2, <1>5, FS_Bijection DEF ExistsBijection
<1> QED  BY <1>3, <1>6 DEF A, C

-----------------------------------------------------------------------------
(* The thread a run leaves *)

\* The messages the repository adds: words, a model's response, a result.
Message ==
    {m \in MessageRecords :
        /\ m.kind = "tool" => \E c \in Calls : m = Result(c)
        /\ m.kind \notin {"ai", "tool"} => m.valid = {} /\ m.invalid = {}}

LEMMA MessageSent == ASSUME NEW m \in Message PROVE Wire(m) \in Sent
<1>1. m \in MessageRecords /\ NoCallId \notin Calls
    BY ConstantsAssumption DEF ConstantsAssumption, Message
<1>2. (m.valid \cup m.invalid) \ {NoCallId} \in SUBSET Calls
    BY <1>1 DEF MessageRecords
<1>3. CASE m.kind = "ai"
    BY <1>2, <1>3 DEF Wire, Sent, Entries, IsAnswer
<1>4. CASE m.kind = "tool"
    <2>1. PICK c \in Calls : m = Result(c)
        BY <1>4 DEF Message
    <2>2. Wire(m) = [role |-> "tool", calls |-> {c}]
        BY <1>1, <2>1 DEF Wire, Result
    <2> QED  BY <2>2 DEF Sent, Entries, IsAnswer
<1>5. CASE m.kind \notin {"ai", "tool"}
    <2>1. Wire(m) = [role |-> "user", calls |-> {}]
        BY <1>5 DEF Wire, Message
    <2> QED  BY <2>1 DEF Sent, Entries, IsAnswer
<1> QED  BY <1>3, <1>4, <1>5

\* No message of the thread is a result.
Unanswering(new) == new \in Seq(Message) /\ \A i \in DOMAIN new : new[i].kind # "tool"

\* The results of calls of the last response, in the order they are listed.
Answering(new) ==
    \E calls \in SUBSET Wire(LastMessage).calls :
        new = [i \in DOMAIN SetToSeq(calls) |-> Result(SetToSeq(calls)[i])]

LEMMA WordsMessage ==
    ASSUME NEW kind \in Kinds \ {"ai", "tool"}
    PROVE  Words(kind) \in Message /\ Unanswering(<<Words(kind)>>)
<1>1. Words(kind) \in Message /\ Words(kind).kind # "tool"
    BY DEF Words, Message, MessageRecords
<1> QED
    <2> DEFINE m == Words(kind)
    <2> HIDE DEF m
    <2>1. m \in Message /\ m.kind # "tool"
        BY <1>1 DEF m
    <2>2. <<m>> \in Seq(Message) /\ \A i \in DOMAIN <<m>> : <<m>>[i] = m
        BY <2>1
    <2>3. Unanswering(<<m>>)
        BY <2>1, <2>2 DEF Unanswering
    <2> QED  BY <2>1, <2>3 DEF m

\* A step adds words or a response, or the results of calls of the last one.
LEMMA StepAdds ==
    ASSUME TypeOK, Begun, LoopInv, [Next]_vars
    PROVE  \/ messages' = messages
           \/ \E new : messages' = messages \o new /\ Unanswering(new)
           \/ /\ messages # <<>> /\ LastMessage.kind = "ai"
              /\ \E new : messages' = messages \o new /\ Answering(new)
<1>1. CASE Send
    <2>1. Unanswering(<<Words("human")>>)
        BY WordsMessage DEF Kinds
    <2> QED  BY <1>1, <2>1 DEF Send, Add
<1>2. CASE Wake
    <2>1. PICK kind \in {"outcome", "report"} : Add(<<Words(kind)>>)
        BY <1>2 DEF Wake
    <2>2. Unanswering(<<Words(kind)>>)
        BY WordsMessage DEF Kinds
    <2> QED  BY <2>1, <2>2 DEF Add
<1>3. CASE Deliver
    <2> DEFINE o == Words("outcome")
               r == Words("report")
    <2>1. PICK new \in {<<>>, <<o>>, <<r>>, <<o, r>>} : messages' = messages \o new
        BY <1>3 DEF Deliver, Add
    <2>2. o \in Message /\ r \in Message /\ o.kind # "tool" /\ r.kind # "tool"
        BY WordsMessage DEF Words, Kinds
    <2> HIDE DEF o, r
    <2>3. Unanswering(<<>>) /\ Unanswering(<<o>>) /\ Unanswering(<<r>>) /\ Unanswering(<<o, r>>)
        <3>1. \A a, b \in {o, r} : <<a, b>> \in Seq(Message) /\ <<a>> \in Seq(Message)
            BY <2>2
        <3>2. \A a, b \in {o, r} : \A i \in DOMAIN <<a, b>> : <<a, b>>[i] \in {o, r}
            OBVIOUS
        <3>3. \A a \in {o, r} : \A i \in DOMAIN <<a>> : <<a>>[i] \in {o, r}
            OBVIOUS
        <3>4. \A a, b \in {o, r} : Unanswering(<<a, b>>) /\ Unanswering(<<a>>)
            BY <2>2, <3>1, <3>2, <3>3 DEF Unanswering
        <3>5. Unanswering(<<>>)
            BY DEF Unanswering
        <3> QED  BY <3>4, <3>5
    <2> QED  BY <2>1, <2>3
<1>4. CASE Model
    <2>1. PICK valid \in SUBSET Calls : \E invalid \in SUBSET ((Calls \ valid) \cup {NoCallId}) :
             Add(<<Response(valid, invalid)>>)
        BY <1>4 DEF Model
    <2>2. PICK invalid \in SUBSET ((Calls \ valid) \cup {NoCallId}) : Add(<<Response(valid, invalid)>>)
        BY <2>1
    <2> DEFINE m == Response(valid, invalid)
    <2>3. m \in Message /\ m.kind = "ai"
        <3>1. m \in MessageRecords /\ m.kind = "ai"
            BY ResponseTyped
        <3> HIDE DEF m
        <3> QED  BY <3>1 DEF Message
    <2>4. messages' = messages \o <<m>>
        BY <2>2 DEF Add
    <2> HIDE DEF m
    <2>5. <<m>> \in Seq(Message) /\ \A i \in DOMAIN <<m>> : <<m>>[i] = m
        BY <2>3
    <2>6. Unanswering(<<m>>)
        BY <2>3, <2>5 DEF Unanswering
    <2> QED  BY <2>4, <2>6
<1>5. CASE RetryInvalid \/ Tools
    <2>1. node \in {"after", "tools"}
        BY <1>5 DEF RetryInvalid, Tools
    <2>2. messages # <<>> /\ LastMessage.kind = "ai"
        BY <2>1 DEF Begun, LoopInv
    <2>3. LastMessage \in MessageRecords
        BY <2>2 DEF TypeOK, LastMessage
    <2>4. /\ LastMessage.valid \in SUBSET Wire(LastMessage).calls
          /\ LastMessage.invalid \ {NoCallId} \in SUBSET Wire(LastMessage).calls
        BY <2>3, ConstantsAssumption DEF Wire, MessageRecords, ConstantsAssumption
    <2>5. \E calls \in SUBSET Wire(LastMessage).calls :
             LET order == SetToSeq(calls)
             IN  messages' = messages \o [i \in DOMAIN order |-> Result(order[i])]
        BY <1>5, <2>4 DEF RetryInvalid, Tools, Add
    <2>6. \E new : messages' = messages \o new /\ Answering(new)
        BY <2>5 DEF Answering
    <2> QED  BY <2>2, <2>6
<1>6. CASE Remind
    <2>1. Unanswering(<<Words("reminder")>>)
        BY WordsMessage DEF Kinds
    <2> QED  BY <1>6, <2>1 DEF Remind, Add
<1>7. CASE GoOn \/ Stop \/ UNCHANGED vars
    BY <1>7 DEF GoOn, Stop, vars
<1> QED  BY <1>1, <1>2, <1>3, <1>4, <1>5, <1>6, <1>7 DEF Next

\* A thread as it is sent.
Sends(ms) == [i \in DOMAIN ms |-> Wire(ms[i])]

LEMMA SendsSent ==
    ASSUME NEW ms \in Seq(Message)
    PROVE  /\ Sends(ms) \in Seq(Sent) /\ Len(Sends(ms)) = Len(ms) /\ Len(ms) \in Nat
           /\ \A i \in 1..Len(ms) : Sends(ms)[i] = Wire(ms[i]) /\ ms[i] \in Message
<1>1. Len(ms) \in Nat /\ DOMAIN ms = 1..Len(ms) /\ \A i \in 1..Len(ms) : ms[i] \in Message
    OBVIOUS
<1>2. \A i \in 1..Len(ms) : Wire(ms[i]) \in Sent
    BY <1>1, MessageSent
<1> QED  BY <1>1, <1>2 DEF Sends

\* No result without its call: each is of a call pending when it comes.
Answered(ms) ==
    /\ ms \in Seq(Message)
    /\ \A i \in 1..Len(ms) : ms[i].kind = "tool" =>
          ms[i].valid \subseteq Repaired(Sends(ms))[i - 1].pending

\* New messages do not change what was pending before them.
LEMMA AnsweredMore ==
    ASSUME NEW ms, Answered(ms), NEW new \in Seq(Message),
           \A k \in 1..Len(new) : new[k].kind = "tool" =>
              new[k].valid \subseteq Repaired(Sends(ms \o new))[Len(ms) + k - 1].pending
    PROVE  Answered(ms \o new)
<1> DEFINE more == ms \o new
<1>1. ms \in Seq(Message) /\ Len(ms) \in Nat /\ Len(new) \in Nat
    BY DEF Answered
<1>2. /\ more \in Seq(Message) /\ Len(more) = Len(ms) + Len(new)
      /\ \A i \in 1..Len(ms) : more[i] = ms[i]
      /\ \A k \in 1..Len(new) : more[Len(ms) + k] = new[k]
    BY <1>1
<1> HIDE DEF more
<1>3. \A n \in 0..Len(ms) : Repaired(Sends(more))[n] = Repaired(Sends(ms))[n]
    <2>1. Len(Sends(ms)) = Len(ms) /\ Len(Sends(more)) = Len(more)
        BY <1>1, <1>2, SendsSent
    <2>2. \A i \in 1..Len(ms) : Sends(more)[i] = Sends(ms)[i]
        <3> TAKE i \in 1..Len(ms)
        <3>1. i \in 1..Len(more)
            BY <1>1, <1>2
        <3> QED  BY <1>1, <1>2, <3>1, SendsSent
    <2>3. Len(ms) <= Len(more) /\ Len(more) \in Nat
        BY <1>1, <1>2
    <2> DEFINE wire == Sends(ms)
               longer == Sends(more)
    <2>4. /\ Len(wire) \in Nat /\ Len(longer) \in Nat /\ Len(wire) <= Len(longer)
          /\ \A i \in 1..Len(wire) : longer[i] = wire[i]
        BY <1>1, <2>1, <2>2, <2>3
    <2> HIDE DEF wire, longer
    <2>5. \A n \in 0..Len(wire) : Repaired(longer)[n] = Repaired(wire)[n]
        BY <2>4, RepairedPrefix
    <2> QED  BY <2>1, <2>5 DEF wire, longer
<1>4. ASSUME NEW i \in 1..Len(more), more[i].kind = "tool"
      PROVE  more[i].valid \subseteq Repaired(Sends(more))[i - 1].pending
    <2>1. CASE i \in 1..Len(ms)
        <3>1. i - 1 \in 0..Len(ms)
            BY <1>1, <2>1
        <3>2. ms[i].valid \subseteq Repaired(Sends(ms))[i - 1].pending
            BY <1>2, <1>4, <2>1 DEF Answered
        <3> QED  BY <1>2, <1>3, <2>1, <3>1, <3>2
    <2>2. CASE i \notin 1..Len(ms)
        <3>1. PICK k \in 1..Len(new) : i = Len(ms) + k
            <4>1. i - Len(ms) \in 1..Len(new) /\ i = Len(ms) + (i - Len(ms))
                BY <1>1, <1>2, <2>2
            <4> QED  BY <4>1
        <3>2. more[i] = new[k] /\ new[k].kind = "tool"
            BY <1>2, <1>4, <3>1
        <3>3. new[k].valid \subseteq Repaired(Sends(more))[Len(ms) + k - 1].pending
            BY <3>2 DEF more
        <3> QED  BY <3>1, <3>2, <3>3
    <2> QED  BY <2>1, <2>2
<1>5. Answered(more)
    BY <1>2, <1>4 DEF Answered
<1> QED  BY <1>5 DEF more

\* Results of calls of the last response come while they are pending.
LEMMA AnsweredResults ==
    ASSUME NEW ms, Answered(ms), ms # <<>>, ms[Len(ms)].kind = "ai",
           NEW calls \in SUBSET Wire(ms[Len(ms)]).calls
    PROVE  Answered(ms \o [i \in DOMAIN SetToSeq(calls) |-> Result(SetToSeq(calls)[i])])
<1> DEFINE order == SetToSeq(calls)
           new == [i \in DOMAIN order |-> Result(order[i])]
           more == ms \o new
           all == Wire(ms[Len(ms)]).calls
           N == Len(ms)
           S == {k \in 0..Len(order) : Repaired(Sends(more))[N + k].pending = all \ Taken(order, k)}
<1>1. ms \in Seq(Message) /\ N \in Nat \ {0}
    BY DEF Answered
<1>2. all \in SUBSET Calls /\ calls \in SUBSET Calls /\ IsFiniteSet(calls)
    <2>1. N \in 1..N
        BY <1>1
    <2>2. Wire(ms[N]) \in Sent
        BY <1>1, <2>1, SendsSent, MessageSent
    <2>3. all \in SUBSET Calls
        BY <2>2 DEF Sent, Entries
    <2>4. calls \in SUBSET Calls
        BY <2>3
    <2> QED  BY <2>3, <2>4, ConstantsAssumption, FS_Subset DEF ConstantsAssumption
<1> HIDE DEF all
<1>3. /\ order \in Seq(calls) /\ Len(order) \in Nat
      /\ Taken(order, 0) = {}
      /\ \A k \in 0..(Len(order) - 1) : order[k + 1] \in calls \ Taken(order, k)
    BY <1>2, TakenOnce
<1> HIDE DEF order
<1>4. /\ new \in Seq(Message) /\ Len(new) = Len(order)
      /\ \A k \in 1..Len(order) : new[k] = Result(order[k]) /\ order[k] \in Calls
    <2>1. \A c \in Calls : Result(c) \in Message
        BY DEF Result, Message, MessageRecords, Kinds
    <2>2. DOMAIN order = 1..Len(order) /\ \A k \in 1..Len(order) : order[k] \in Calls
        BY <1>2, <1>3
    <2>3. \A k \in 1..Len(order) : Result(order[k]) \in Message
        BY <2>1, <2>2
    <2> QED  BY <1>3, <2>2, <2>3
<1> HIDE DEF new
<1>5. /\ more \in Seq(Message) /\ Len(more) = N + Len(order)
      /\ \A i \in 1..N : more[i] = ms[i]
      /\ \A k \in 1..Len(order) : more[N + k] = Result(order[k])
    <2>1. /\ more \in Seq(Message) /\ Len(more) = N + Len(new)
          /\ \A i \in 1..N : more[i] = ms[i]
          /\ \A k \in 1..Len(new) : more[N + k] = new[k]
        BY <1>1, <1>4
    <2> HIDE DEF more
    <2> QED  BY <1>4, <2>1
<1> HIDE DEF more
<1>6. /\ Len(Sends(more)) = Len(more) /\ Len(more) \in Nat
      /\ \A n \in 1..Len(more) :
            Repaired(Sends(more))[n] = Sanitized(Repaired(Sends(more))[n - 1], Wire(more[n]))
    <2>1. Len(Sends(more)) = Len(more) /\ Len(more) \in Nat
        BY <1>5, SendsSent
    <2>2. \A n \in 1..Len(more) : Sends(more)[n] = Wire(more[n])
        BY <1>5, SendsSent
    <2> QED  BY <2>1, <2>2, RepairedSteps
<1>7. 0 \in S
    <2>1. N \in 1..Len(more) /\ N + 0 = N
        BY <1>1, <1>3, <1>5
    <2>2. Wire(more[N]).role = "assistant" /\ Wire(more[N]).calls = all
        BY <1>1, <1>5 DEF Wire, all
    <2>3. Repaired(Sends(more))[N].pending = all
        <3> DEFINE state == Repaired(Sends(more))[N - 1]
                   m == Wire(more[N])
        <3>1. Repaired(Sends(more))[N] = Sanitized(state, m)
            BY <1>6, <2>1
        <3>2. m.role = "assistant" /\ m.calls = all
            BY <2>2
        <3> HIDE DEF state, m
        <3>3. Sanitized(state, m).pending = m.calls
            BY <3>2 DEF Sanitized
        <3> QED  BY <3>1, <3>2, <3>3
    <2>4. 0 \in 0..Len(order)
        BY <1>3
    <2> QED  BY <1>3, <2>1, <2>3, <2>4
<1>8. ASSUME NEW k \in 0..(Len(order) - 1), k \in S PROVE k + 1 \in S
    <2> DEFINE c == order[k + 1]
    <2>1. c \in calls \ Taken(order, k) /\ c \in Calls
        BY <1>2, <1>3
    <2>2. k + 1 \in 1..Len(order) /\ N + (k + 1) \in 1..Len(more) /\ (N + (k + 1)) - 1 = N + k
        BY <1>1, <1>3, <1>5
    <2>3. Wire(more[N + (k + 1)]) = [role |-> "tool", calls |-> {c}]
        <3>1. more[N + (k + 1)] = Result(c)
            BY <1>5, <2>2
        <3>2. c # NoCallId
            BY <2>1, ConstantsAssumption DEF ConstantsAssumption
        <3> HIDE DEF c
        <3>3. Wire(Result(c)) = [role |-> "tool", calls |-> {c}]
            BY <3>2 DEF Wire, Result
        <3> QED  BY <3>1, <3>3
    <2>4. Repaired(Sends(more))[N + k].pending = all \ Taken(order, k)
        BY <1>8
    <2>5. {c} \subseteq all \ Taken(order, k)
        BY <2>1 DEF all
    <2>6. Repaired(Sends(more))[N + (k + 1)].pending = (all \ Taken(order, k)) \ {c}
        <3> DEFINE state == Repaired(Sends(more))[N + k]
                   m == Wire(more[N + (k + 1)])
        <3>1. Repaired(Sends(more))[N + (k + 1)] = Sanitized(state, m)
            BY <1>6, <2>2
        <3>2. m.role = "tool" /\ m.calls = {c} /\ m.calls \subseteq state.pending
            BY <2>3, <2>4, <2>5
        <3> HIDE DEF state, m, c
        <3>3. Sanitized(state, m).pending = state.pending \ {c}
            BY <3>2 DEF Sanitized
        <3>4. state.pending = all \ Taken(order, k)
            BY <2>4 DEF state
        <3> QED  BY <3>1, <3>3, <3>4
    <2>7. Taken(order, k + 1) = Taken(order, k) \cup {c}
        <3>1. 1..(k + 1) = 1..k \cup {k + 1}
            BY <1>3
        <3> QED  BY <3>1 DEF Taken
    <2>8. k + 1 \in 0..Len(order)
        BY <2>2
    <2> HIDE DEF c
    <2>9. (all \ Taken(order, k)) \ {c} = all \ Taken(order, k + 1)
        BY <2>7
    <2> QED  BY <2>6, <2>8, <2>9
<1>9. 0..Len(order) \subseteq S
    <2> HIDE DEF S
    <2> QED  BY <1>3, <1>7, <1>8, UpTo
<1>10. ASSUME NEW k \in 1..Len(new)
       PROVE  new[k].valid \subseteq Repaired(Sends(more))[N + k - 1].pending
    <2>1. k - 1 \in 0..Len(order) /\ k - 1 \in 0..(Len(order) - 1) /\ (k - 1) + 1 = k /\ N + (k - 1) = N + k - 1
        BY <1>1, <1>3, <1>4
    <2>2. Repaired(Sends(more))[N + (k - 1)].pending = all \ Taken(order, k - 1)
        BY <1>9, <2>1
    <2>3. order[k] \in calls \ Taken(order, k - 1)
        BY <1>3, <2>1
    <2>4. order[k] \in all \ Taken(order, k - 1)
        BY <2>3 DEF all
    <2>5. new[k].valid = {order[k]}
        <3>1. new[k] = Result(order[k])
            BY <1>4
        <3>2. Result(order[k]).valid = {order[k]}
            BY DEF Result
        <3> QED  BY <3>1, <3>2
    <2>6. Repaired(Sends(more))[N + k - 1].pending = all \ Taken(order, k - 1)
        BY <2>1, <2>2
    <2> QED  BY <2>4, <2>5, <2>6
<1>11. Answered(ms \o new)
    BY <1>4, <1>10, AnsweredMore DEF more
<1> QED  BY <1>11 DEF new, order

-----------------------------------------------------------------------------
(* What the repair keeps *)

\* Without what is made up, p is the first n messages of wire.
Kept(p, wire, n) ==
    /\ p \in Seq(Entries)
    /\ Genuine(p, Len(p)) = n
    /\ \A j \in 1..Len(p) : p[j].role # "synthetic" => p[j] = wire[Genuine(p, j)]

LEMMA KeptTurn ==
    ASSUME NEW p, NEW wire, NEW n \in Nat, Kept(p, wire, n),
           NEW m \in Entries, m.role # "synthetic", m = wire[n + 1]
    PROVE  Kept(Append(p, m), wire, n + 1)
<1> DEFINE q == Append(p, m)
           N == Len(p)
           genuine(s, j) == {k \in 1..j : s[k].role # "synthetic"}
<1>1. /\ q \in Seq(Entries) /\ N \in Nat /\ Len(q) = N + 1 /\ q[N + 1] = m
      /\ \A i \in 1..N : q[i] = p[i]
    BY DEF Kept
<1> HIDE DEF q
<1>2. ASSUME NEW j \in 0..N PROVE Genuine(q, j) = Genuine(p, j)
    <2>1. \A k \in 1..j : q[k] = p[k]
        BY <1>1
    <2> QED  BY <2>1 DEF Genuine
<1>3. Genuine(q, N + 1) = n + 1
    <2>1. genuine(q, N + 1) = genuine(p, N) \cup {N + 1}
        <3>1. 1..(N + 1) = 1..N \cup {N + 1}
            BY <1>1
        <3> QED  BY <1>1, <3>1
    <2>2. IsFiniteSet(genuine(p, N)) /\ N + 1 \notin genuine(p, N)
        <3>1. IsFiniteSet(1..N)
            BY <1>1, FS_Interval
        <3>2. genuine(p, N) \subseteq 1..N /\ N + 1 \notin 1..N
            BY <1>1
        <3> HIDE DEF genuine
        <3> QED  BY <3>1, <3>2, FS_Subset
    <2>3. Cardinality(genuine(p, N)) = n
        BY DEF Kept, Genuine
    <2> HIDE DEF genuine
    <2>4. Cardinality(genuine(q, N + 1)) = n + 1
        BY <2>1, <2>2, <2>3, FS_AddElement
    <2> QED  BY <2>4 DEF Genuine, genuine
<1>4. ASSUME NEW j \in 1..(N + 1), q[j].role # "synthetic" PROVE q[j] = wire[Genuine(q, j)]
    <2>1. CASE j \in 1..N
        BY <1>1, <1>2, <1>4, <2>1 DEF Kept
    <2>2. CASE j = N + 1
        BY <1>1, <1>3, <2>2
    <2> QED  BY <1>1, <2>1, <2>2
<1>5. Kept(q, wire, n + 1)
    BY <1>1, <1>3, <1>4 DEF Kept
<1> QED  BY <1>5 DEF q

LEMMA KeptClosing ==
    ASSUME NEW p, NEW wire, NEW n \in Nat, Kept(p, wire, n), NEW pending \in SUBSET Calls
    PROVE  Kept(p \o Closing(pending), wire, n)
<1> DEFINE t == Closing(pending)
           q == p \o t
           N == Len(p)
<1>1. t \in Seq(Entries) /\ \A i \in 1..Len(t) : t[i].role = "synthetic"
    <2> DEFINE order == SetToSeq(pending)
    <2>1. order \in Seq(Calls)
        <3>1. IsFiniteSet(pending)
            BY ConstantsAssumption, FS_Subset DEF ConstantsAssumption
        <3>2. order \in Seq(pending)
            BY <3>1, ListedOnce
        <3> HIDE DEF order
        <3> QED  BY <3>2
    <2>2. t = [i \in DOMAIN order |-> Synthetic(order[i])]
        BY DEF Closing
    <2> HIDE DEF order, t
    <2>3. \A c \in Calls : Synthetic(c) \in Entries /\ Synthetic(c).role = "synthetic"
        BY DEF Synthetic, Entries, IsAnswer
    <2> QED  BY <2>1, <2>2, <2>3
<1> HIDE DEF t
<1>2. /\ q \in Seq(Entries) /\ N \in Nat /\ Len(t) \in Nat /\ Len(q) = N + Len(t)
      /\ \A i \in 1..N : q[i] = p[i]
      /\ \A i \in N+1..N+Len(t) : q[i] = t[i - N]
    BY <1>1 DEF Kept
<1>3. \A i \in N+1..N+Len(t) : q[i].role = "synthetic"
    <2> TAKE i \in N+1..N+Len(t)
    <2>1. i - N \in 1..Len(t) /\ q[i] = t[i - N]
        BY <1>2
    <2> QED  BY <1>1, <2>1
<1> HIDE DEF q
<1>4. ASSUME NEW j \in 1..N PROVE Genuine(q, j) = Genuine(p, j)
    <2>1. \A k \in 1..j : q[k] = p[k]
        BY <1>2
    <2> QED  BY <2>1 DEF Genuine
<1>5. Genuine(q, Len(q)) = n
    <2>1. \A k \in 1..Len(q) : k \in 1..N \/ k \in N+1..N+Len(t)
        BY <1>2
    <2>2. \A k \in 1..N : k \in 1..Len(q)
        BY <1>2
    <2>3. {k \in 1..Len(q) : q[k].role # "synthetic"} = {k \in 1..N : p[k].role # "synthetic"}
        BY <1>2, <1>3, <2>1, <2>2
    <2>4. Genuine(p, N) = n
        BY DEF Kept
    <2> QED  BY <2>3, <2>4 DEF Genuine
<1>6. ASSUME NEW j \in 1..Len(q), q[j].role # "synthetic" PROVE q[j] = wire[Genuine(q, j)]
    <2>1. j \in 1..N
        BY <1>2, <1>3, <1>6
    <2> QED  BY <1>2, <1>4, <1>6, <2>1 DEF Kept
<1>7. Kept(q, wire, n)
    BY <1>2, <1>5, <1>6 DEF Kept
<1> QED  BY <1>7 DEF q, t

\* No result without its call: none is dropped.
LEMMA KeptRepaired ==
    ASSUME NEW ms, Answered(ms)
    PROVE  \A n \in 0..Len(ms) : Kept(Repaired(Sends(ms))[n].out, Sends(ms), n)
<1> DEFINE wire == Sends(ms)
           S == {n \in 0..Len(ms) : Kept(Repaired(wire)[n].out, wire, n)}
<1>1. /\ wire \in Seq(Sent) /\ Len(wire) = Len(ms) /\ Len(ms) \in Nat
      /\ \A i \in 1..Len(ms) : wire[i] = Wire(ms[i]) /\ ms[i] \in Message
    BY SendsSent DEF Answered
<1> HIDE DEF wire
<1>2. 0 \in S
    <2>1. Kept(<<>>, wire, 0)
        <3>1. <<>> \in Seq(Entries) /\ Len(<<>>) = 0 /\ 1..0 = {}
            OBVIOUS
        <3>2. Genuine(<<>>, 0) = 0
            <4>1. {k \in 1..0 : <<>>[k].role # "synthetic"} = {}
                OBVIOUS
            <4> QED  BY <4>1, FS_EmptySet DEF Genuine
        <3> QED  BY <3>1, <3>2 DEF Kept
    <2>2. Repaired(wire)[0].out = <<>>
        BY <1>1, RepairedSteps DEF Nothing
    <2>3. 0 \in 0..Len(ms)
        BY <1>1
    <2> QED  BY <2>1, <2>2, <2>3
<1>3. ASSUME NEW n \in 0..(Len(ms) - 1), n \in S PROVE n + 1 \in S
    <2> DEFINE state == Repaired(wire)[n]
               m == wire[n + 1]
    <2>1. n \in Nat /\ n \in 0..Len(wire) /\ n + 1 \in 1..Len(ms) /\ n + 1 \in 0..Len(ms) /\ (n + 1) - 1 = n
        BY <1>1
    <2>2. Repaired(wire)[n + 1] = Sanitized(state, m)
        BY <1>1, <2>1, RepairedSteps
    <2>3. Kept(state.out, wire, n)
        BY <1>3
    <2>4. m \in Entries /\ m.role # "synthetic" /\ m = Wire(ms[n + 1]) /\ ms[n + 1] \in Message
        BY <1>1, <2>1 DEF Sent
    <2>5. state.pending \in SUBSET Calls
        BY <1>1, <2>1, PairedRepaired DEF Paired
    <2>6. m.role = "tool" => m.calls \subseteq state.pending
        <3> HAVE m.role = "tool"
        <3>1. ms[n + 1].kind = "tool"
            BY <2>4 DEF Wire
        <3>2. ms[n + 1].valid \subseteq state.pending
            BY <2>1, <3>1 DEF Answered, wire
        <3>3. PICK c \in Calls : ms[n + 1] = Result(c)
            BY <2>4, <3>1 DEF Message
        <3>4. m.calls \subseteq {c} /\ ms[n + 1].valid = {c}
            <4>1. ms[n + 1].valid = {c} /\ ms[n + 1].invalid = {}
                BY <3>3 DEF Result
            <4>2. m.calls = (ms[n + 1].valid \cup ms[n + 1].invalid) \ {NoCallId}
                BY <2>4 DEF Wire
            <4> HIDE DEF m
            <4> QED  BY <4>1, <4>2
        <3> HIDE DEF m, state
        <3> QED  BY <3>2, <3>4
    <2> HIDE DEF state, m
    <2>7. Kept(Sanitized(state, m).out, wire, n + 1)
        <3>1. CASE m.role = "tool"
            <4>1. Sanitized(state, m).out = Append(state.out, m)
                BY <2>6, <3>1 DEF Sanitized
            <4>2. Kept(Append(state.out, m), wire, n + 1)
                BY <2>1, <2>3, <2>4, KeptTurn DEF m
            <4> QED  BY <4>1, <4>2
        <3>2. CASE m.role # "tool"
            <4>1. Sanitized(state, m).out = Append(state.out \o Closing(state.pending), m)
                BY <3>2 DEF Sanitized
            <4>2. Kept(state.out \o Closing(state.pending), wire, n)
                BY <2>1, <2>3, <2>5, KeptClosing
            <4>3. Kept(Append(state.out \o Closing(state.pending), m), wire, n + 1)
                BY <2>1, <2>4, <4>2, KeptTurn DEF m
            <4> QED  BY <4>1, <4>3
        <3> QED  BY <3>1, <3>2
    <2> QED  BY <2>1, <2>2, <2>7
<1>4. 0..Len(ms) \subseteq S
    <2> HIDE DEF S
    <2> QED  BY <1>1, <1>2, <1>3, UpTo
<1> QED  BY <1>4 DEF wire

-----------------------------------------------------------------------------
(* The payload *)

LEMMA AnsweredInit == Init => Answered(messages)
<1> SUFFICES ASSUME Init PROVE Answered(messages)
    OBVIOUS
<1>1. messages \in Seq(Message) /\ 1..Len(messages) = {}
    BY DEF Init
<1> QED  BY <1>1 DEF Answered

LEMMA AnsweredStep ==
    TypeOK /\ Begun /\ LoopInv /\ Answered(messages) /\ [Next]_vars => Answered(messages)'
<1> SUFFICES ASSUME TypeOK, Begun, LoopInv, Answered(messages), [Next]_vars
             PROVE  Answered(messages')
    BY DEF Answered, Repaired, Sends, Sanitized, Closing
<1>1. CASE messages' = messages
    BY <1>1
<1>2. ASSUME NEW new, messages' = messages \o new, Unanswering(new) PROVE Answered(messages')
    <2>1. new \in Seq(Message) /\ \A k \in 1..Len(new) : new[k].kind # "tool"
        BY <1>2 DEF Unanswering
    <2>2. Answered(messages \o new)
        BY <2>1, AnsweredMore
    <2> QED  BY <1>2, <2>2
<1>3. ASSUME messages # <<>>, LastMessage.kind = "ai",
             NEW new, messages' = messages \o new, Answering(new)
      PROVE  Answered(messages')
    <2>1. PICK calls \in SUBSET Wire(LastMessage).calls :
             new = [i \in DOMAIN SetToSeq(calls) |-> Result(SetToSeq(calls)[i])]
        BY <1>3 DEF Answering
    <2>2. Answered(messages \o [i \in DOMAIN SetToSeq(calls) |-> Result(SetToSeq(calls)[i])])
        BY <1>3, AnsweredResults DEF LastMessage
    <2> QED  BY <1>3, <2>1, <2>2
<1> QED  BY <1>1, <1>2, <1>3, StepAdds

LEMMA AnsweredHolds == Spec => []Answered(messages)
<1>1. LoopSafe /\ Answered(messages) /\ [Next]_vars => Answered(messages)'
    BY AnsweredStep DEF LoopSafe
<1> QED  BY <1>1, AnsweredInit, LoopHolds, PTL DEF Spec

\* The payload of a thread in which every result answers a pending call.
LEMMA PayloadOf ==
    ASSUME Answered(messages)
    PROVE  Paired(Payload, {}) /\ Kept(Payload, Wires, Len(messages))
<1> DEFINE end == Repaired(Wires)[Len(messages)]
<1>1. messages \in Seq(Message) /\ Len(messages) \in Nat /\ Wires = Sends(messages)
    BY DEF Answered, Wires, Sends
<1>2. Wires \in Seq(Sent) /\ Len(Wires) = Len(messages) /\ Len(messages) \in 0..Len(messages)
    BY <1>1, SendsSent
<1>3. Paired(end.out, end.pending)
    BY <1>2, PairedRepaired
<1>4. Kept(end.out, Wires, Len(messages))
    BY <1>1, <1>2, KeptRepaired
<1> HIDE DEF end
<1>5. end.pending \in SUBSET Calls
    BY <1>3 DEF Paired
<1>6. Paired(end.out \o Closing(end.pending), {})
    BY <1>3, PairedClosing
<1>7. Kept(end.out \o Closing(end.pending), Wires, Len(messages))
    BY <1>1, <1>4, <1>5, KeptClosing
<1>8. Payload = end.out \o Closing(end.pending)
    BY DEF Payload, end
<1> QED  BY <1>6, <1>7, <1>8, Zenon

LEMMA AcceptedWhenPaired ==
    ASSUME NEW p, Paired(p, {})
    PROVE  /\ \A i \in DOMAIN p : p[i].role = "assistant" =>
                /\ \A c \in p[i].calls :
                     Cardinality({j \in AnswersTo(p, i) : c \in p[j].calls}) = 1
                /\ Cardinality(AnswersTo(p, i)) = Cardinality(p[i].calls)
           /\ \A j \in DOMAIN p : p[j].role \in {"tool", "synthetic"} =>
                \E i \in DOMAIN p : p[i].role = "assistant" /\ j \in AnswersTo(p, i)
<1>1. p \in Seq(Entries) /\ DOMAIN p = 1..Len(p)
    BY DEF Paired
<1>2. ASSUME NEW i \in 1..Len(p), p[i].role = "assistant" PROVE Matched(p, i, p[i].calls)
    <2>1. p[i].calls \ {} = p[i].calls
        OBVIOUS
    <2> QED  BY <1>2, <2>1 DEF Paired
<1>3. \A i \in 1..Len(p) : p[i].role = "assistant" =>
         /\ \A c \in p[i].calls :
              Cardinality({j \in AnswersTo(p, i) : c \in p[j].calls}) = 1
         /\ Cardinality(AnswersTo(p, i)) = Cardinality(p[i].calls)
    BY <1>1, <1>2, MatchedCount
<1>4. \A j \in 1..Len(p) : p[j].role \in {"tool", "synthetic"} =>
         \E i \in 1..Len(p) : p[i].role = "assistant" /\ j \in AnswersTo(p, i)
    BY DEF Paired, IsAnswer
<1> QED  BY <1>1, <1>3, <1>4

\* Whatever a stop, a give-up or a mixed response leaves, each call in what the
\* model is sent is answered once before anything else, and no answer is
\* without its call, for any thread (sanitize_openai_messages).
THEOREM Accepted == Spec => []PayloadPaired
<1>1. Answered(messages) => PayloadPaired
    <2> SUFFICES ASSUME Answered(messages) PROVE PayloadPaired
        OBVIOUS
    <2> DEFINE p == Payload
    <2>1. Paired(p, {})
        BY PayloadOf
    <2> HIDE DEF p
    <2>2. /\ \A i \in DOMAIN p : p[i].role = "assistant" =>
               /\ \A c \in p[i].calls :
                    Cardinality({j \in AnswersTo(p, i) : c \in p[j].calls}) = 1
               /\ Cardinality(AnswersTo(p, i)) = Cardinality(p[i].calls)
          /\ \A j \in DOMAIN p : p[j].role \in {"tool", "synthetic"} =>
               \E i \in DOMAIN p : p[i].role = "assistant" /\ j \in AnswersTo(p, i)
        BY <2>1, AcceptedWhenPaired
    <2> QED  BY <2>2 DEF PayloadPaired, p
<1> QED  BY <1>1, AnsweredHolds, PTL

\* The repair loses nothing of any thread: without the answers it makes up, what
\* is sent is the thread, message by message (sanitize_openai_messages).
THEOREM NothingLost == Spec => []NothingDropped
<1>1. Answered(messages) => NothingDropped
    <2> SUFFICES ASSUME Answered(messages) PROVE NothingDropped
        OBVIOUS
    <2> DEFINE p == Payload
    <2>1. Kept(p, Wires, Len(messages))
        BY PayloadOf
    <2> HIDE DEF p
    <2>2. DOMAIN p = 1..Len(p)
        BY <2>1 DEF Kept
    <2>3. /\ Genuine(p, Len(p)) = Len(messages)
          /\ \A j \in DOMAIN p : p[j].role # "synthetic" => p[j] = Wires[Genuine(p, j)]
        BY <2>1, <2>2 DEF Kept
    <2> QED  BY <2>3 DEF NothingDropped, p
<1> QED  BY <1>1, AnsweredHolds, PTL
=============================================================================
