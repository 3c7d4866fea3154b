-------------------------- MODULE TurnStream_proofs --------------------------
(***************************************************************************)
(* Proofs about TurnStream, for any number of requests, wake-ups, events   *)
(* and breaks.                                                             *)
(*                                                                         *)
(* A publisher's frames only grow; the operations are described by what    *)
(* they add.  That nothing new follows a terminal event is not inductive:  *)
(* an open publisher that has written one belongs to the turn that is      *)
(* inside the lock, stamping (EndInv).  That deltas stand in open blocks   *)
(* needs that an open publisher's flags say what is open at the end of     *)
(* what it wrote (Tidy).  That a question stays needs that while it waits  *)
(* no run inside the lock has made its first commit, so that whoever ends  *)
(* over it ends early (CommittedInv, WaitsInv).                            *)
(***************************************************************************)
EXTENDS TurnStream, FiniteSetTheorems, SequenceTheorems, TLAPS

\* Frames that end nothing.
IsQuiet(f) == f.what \notin {"result", "terminal"} /\ f.detail \notin Subtypes

Grows(a, b) ==
    /\ b \in Seq(Frames)
    /\ Len(a) <= Len(b)
    /\ \A i \in 1..Len(a) : b[i] = a[i]

Quiets(s) == s \in Seq(Frames) /\ \A i \in 1..Len(s) : IsQuiet(s[i])

QuietFrom(s, m, n) == \A i \in m..n : IsQuiet(s[i])

\* What an operation takes the publisher p to: q adds frames that end nothing;
\* or such frames, then a result; or a result and the terminal event it matches;
\* or a stop's result, terminal event and result.
QuietStep(p, q) ==
    /\ q.closed <=> p.closed
    /\ Grows(p.out, q.out)
    /\ QuietFrom(q.out, Len(p.out) + 1, Len(q.out))

ResultStep(p, q, subtype) ==
    /\ q.closed <=> p.closed
    /\ Grows(p.out, q.out)
    /\ p.closed => q.out = p.out
    /\ ~p.closed =>
          /\ Len(q.out) > Len(p.out)
          /\ QuietFrom(q.out, Len(p.out) + 1, Len(q.out) - 1)
          /\ q.out[Len(q.out)] = Frame("result", subtype)

EndStep(p, q, subtype, outcome) ==
    /\ q.closed <=> p.closed
    /\ Grows(p.out, q.out)
    /\ p.closed => q.out = p.out
    /\ ~p.closed =>
          /\ Len(q.out) > Len(p.out) + 1
          /\ QuietFrom(q.out, Len(p.out) + 1, Len(q.out) - 2)
          /\ q.out[Len(q.out) - 1] = Frame("result", subtype)
          /\ q.out[Len(q.out)] = Frame("terminal", outcome)

-----------------------------------------------------------------------------
(* The operations of a publisher *)

Record(p) == p.out \in Seq(Frames)

LEMMA Appending ==
    ASSUME NEW a \in Seq(Frames), NEW frames \in Seq(Frames)
    PROVE  /\ Grows(a, a \o frames)
           /\ Len(a \o frames) = Len(a) + Len(frames)
           /\ \A i \in 1..Len(frames) : (a \o frames)[Len(a) + i] = frames[i]
BY DEF Grows

LEMMA WriteClosed ==
    ASSUME NEW p, NEW frames
    PROVE  /\ Write(p, frames).closed <=> p.closed
           /\ p.closed => Write(p, frames).out = p.out
           /\ ~p.closed => Write(p, frames).out = p.out \o frames
BY Zenon DEF Write

LEMMA WriteGrows ==
    ASSUME NEW p, Record(p), NEW frames \in Seq(Frames)
    PROVE  Grows(p.out, Write(p, frames).out)
<1>1. p.out \in Seq(Frames)
    BY DEF Record
<1>2. CASE p.closed
    <2>1. Write(p, frames).out = p.out
        BY <1>2, WriteClosed
    <2> QED  BY <1>1, <2>1 DEF Grows
<1>3. CASE ~p.closed
    <2>1. Write(p, frames).out = p.out \o frames
        BY <1>3, WriteClosed
    <2> QED  BY <1>1, <2>1, Appending
<1> QED  BY <1>2, <1>3

LEMMA QuietWrite ==
    ASSUME NEW p, Record(p), NEW frames, Quiets(frames)
    PROVE  QuietStep(p, Write(p, frames)) /\ Record(Write(p, frames))
<1>1. frames \in Seq(Frames) /\ \A i \in 1..Len(frames) : IsQuiet(frames[i])
    BY DEF Quiets
<1>2. p.out \in Seq(Frames) /\ Grows(p.out, Write(p, frames).out)
    BY <1>1, WriteGrows DEF Record
<1>3. Record(Write(p, frames))
    BY <1>2 DEF Record, Grows
<1>4. QuietFrom(Write(p, frames).out, Len(p.out) + 1, Len(Write(p, frames).out))
    <2>1. CASE p.closed
        <3>1. Write(p, frames).out = p.out
            BY <2>1, WriteClosed
        <3> QED  BY <3>1, <1>2 DEF QuietFrom
    <2>2. CASE ~p.closed
        <3>1. Write(p, frames).out = p.out \o frames
            BY <2>2, WriteClosed
        <3> SUFFICES ASSUME NEW i \in (Len(p.out) + 1)..Len(p.out \o frames)
                     PROVE  IsQuiet((p.out \o frames)[i])
            BY <3>1 DEF QuietFrom
        <3>2. i - Len(p.out) \in 1..Len(frames) /\ i = Len(p.out) + (i - Len(p.out))
            BY <1>1, <1>2, Appending
        <3>3. (p.out \o frames)[i] = frames[i - Len(p.out)]
            BY <1>1, <1>2, <3>2
        <3> QED  BY <1>1, <3>2, <3>3
    <2> QED  BY <2>1, <2>2
<1> QED  BY <1>2, <1>3, <1>4, WriteClosed DEF QuietStep

LEMMA QuietTwice ==
    ASSUME NEW p, NEW q, NEW r, Record(p), QuietStep(p, q), QuietStep(q, r)
    PROVE  QuietStep(p, r) /\ Record(r)
BY DEF QuietStep, Grows, QuietFrom, Record

\* An operation that sets flags only.
LEMMA QuietFlags ==
    ASSUME NEW p, Record(p), NEW message, NEW block
    PROVE  QuietStep(p, Flags(p, message, block)) /\ Record(Flags(p, message, block))
<1>1. /\ Flags(p, message, block).out = p.out
      /\ Flags(p, message, block).closed <=> p.closed
    BY Zenon DEF Flags
<1> QED  BY <1>1 DEF QuietStep, Grows, QuietFrom, Record

\* The frames the operations write.
LEMMA QuietFrame ==
    ASSUME NEW what \in Whats \ {"result", "terminal"}, NEW detail \in {"", "text", "tool"}
    PROVE  Frame(what, detail) \in Frames /\ IsQuiet(Frame(what, detail))
<1>1. Frame(what, detail).what = what /\ Frame(what, detail).detail = detail
    BY DEF Frame
<1>2. Frame(what, detail) \in Frames
    BY DEF Frame, Frames
<1>3. detail \notin Subtypes
    BY DEF Subtypes
<1> QED  BY <1>1, <1>2, <1>3 DEF IsQuiet

LEMMA QuietNone == Quiets(<<>>)
BY DEF Quiets

LEMMA QuietOne == ASSUME NEW f \in Frames, IsQuiet(f) PROVE Quiets(<<f>>)
BY DEF Quiets

LEMMA QuietConcat ==
    ASSUME NEW s, NEW u, Quiets(s), Quiets(u)
    PROVE  Quiets(s \o u)
BY DEF Quiets

LEMMA QuietFrames ==
    ASSUME NEW p
    PROVE  Quiets(OpenMessage(p)) /\ Quiets(OpenBlock(p)) /\ Quiets(FinishBlock(p))
<1>1. /\ Quiets(<<Frame("message-start", "")>>)
      /\ Quiets(<<Frame("block-start", "text")>>)
      /\ Quiets(<<Frame("block-finish", "text")>>)
    BY QuietFrame, QuietOne DEF Whats
<1> QED  BY <1>1, QuietNone DEF OpenMessage, OpenBlock, FinishBlock

LEMMA QuietText ==
    ASSUME NEW p, Record(p)
    PROVE  QuietStep(p, StreamText(p)) /\ Record(StreamText(p))
<1> DEFINE frames == OpenMessage(p) \o OpenBlock(p) \o <<Frame("delta", "text")>>
<1>1. Quiets(<<Frame("delta", "text")>>)
    BY QuietFrame, QuietOne DEF Whats
<1>2. Quiets(frames)
    BY <1>1, QuietFrames, QuietConcat
<1> HIDE DEF frames
<1>3. QuietStep(p, Write(p, frames)) /\ Record(Write(p, frames))
    BY <1>2, QuietWrite
<1>4. StreamText(p) = Flags(Write(p, frames), TRUE, TRUE)
    BY DEF StreamText, frames
<1> QED  BY <1>3, <1>4, QuietFlags, QuietTwice

LEMMA QuietAssistant ==
    ASSUME NEW p, Record(p), NEW calls \in Nat
    PROVE  QuietStep(p, Assistant(p, calls)) /\ Record(Assistant(p, calls))
<1> DEFINE tools == Repeat(ToolFrames, calls)
           frames == FinishBlock(p) \o tools
<1>1. Quiets(tools)
    <2>1. Quiets(<<Frame("block-start", "tool"), Frame("block-finish", "tool"), Frame("other", "")>>)
        <3>1. /\ Frame("block-start", "tool") \in Frames /\ IsQuiet(Frame("block-start", "tool"))
              /\ Frame("block-finish", "tool") \in Frames /\ IsQuiet(Frame("block-finish", "tool"))
              /\ Frame("other", "") \in Frames /\ IsQuiet(Frame("other", ""))
            BY QuietFrame DEF Whats
        <3> DEFINE x == Frame("block-start", "tool")
                   y == Frame("block-finish", "tool")
                   z == Frame("other", "")
        <3>2. /\ x \in Frames /\ y \in Frames /\ z \in Frames
              /\ IsQuiet(x) /\ IsQuiet(y) /\ IsQuiet(z)
            BY <3>1
        <3> HIDE DEF x, y, z
        <3>3. Quiets(<<x, y, z>>)
            BY <3>2 DEF Quiets
        <3> QED  BY <3>3 DEF x, y, z
    <2>2. Quiets(ToolFrames) /\ Len(ToolFrames) = 3
        BY <2>1 DEF ToolFrames
    <2>3. \A i \in 1..(calls * 3) : ((i - 1) % 3) + 1 \in 1..3
        OBVIOUS
    <2>4. calls * 3 \in Nat
        OBVIOUS
    <2>5. tools = [i \in 1..(calls * 3) |-> ToolFrames[((i - 1) % 3) + 1]]
        BY <2>2 DEF Repeat
    <2>6. \A i \in 1..(calls * 3) : ToolFrames[((i - 1) % 3) + 1] \in Frames
                                    /\ IsQuiet(ToolFrames[((i - 1) % 3) + 1])
        BY <2>2, <2>3, SMTT(60) DEF Quiets
    <2> DEFINE n == calls * 3
               f(i) == ToolFrames[((i - 1) % 3) + 1]
    <2> HIDE DEF tools, n, f
    <2>7. n \in Nat /\ tools = [i \in 1..n |-> f(i)]
          /\ \A i \in 1..n : f(i) \in Frames /\ IsQuiet(f(i))
        BY <2>4, <2>5, <2>6 DEF n, f
    <2>8. tools \in Seq(Frames) /\ Len(tools) = n
        BY <2>7
    <2> QED  BY <2>7, <2>8 DEF Quiets
<1> HIDE DEF tools
<1>2. Quiets(frames)
    BY <1>1, QuietFrames, QuietConcat
<1> HIDE DEF frames
<1>3. QuietStep(p, Write(p, frames)) /\ Record(Write(p, frames))
    BY <1>2, QuietWrite
<1>4. Assistant(p, calls) = Flags(Write(p, frames), p.message, FALSE)
    BY DEF Assistant, frames, tools
<1> QED  BY <1>3, <1>4, QuietFlags, QuietTwice

LEMMA QuietMessageFinish ==
    ASSUME NEW p, Record(p)
    PROVE  QuietStep(p, MessageFinish(p)) /\ Record(MessageFinish(p))
<1> DEFINE finish == IF p.message THEN <<Frame("message-finish", "")>> ELSE <<>>
           frames == FinishBlock(p) \o finish
<1>1. Quiets(finish)
    BY QuietFrame, QuietOne, QuietNone DEF Whats
<1> HIDE DEF finish
<1>2. Quiets(frames)
    BY <1>1, QuietFrames, QuietConcat
<1> HIDE DEF frames
<1>3. QuietStep(p, Write(p, frames)) /\ Record(Write(p, frames))
    BY <1>2, QuietWrite
<1>4. MessageFinish(p) = Flags(Write(p, frames), FALSE, FALSE)
    BY DEF MessageFinish, frames, finish
<1> QED  BY <1>3, <1>4, QuietFlags, QuietTwice

LEMMA ResultOne ==
    ASSUME NEW p, Record(p), NEW subtype \in Subtypes
    PROVE  ResultStep(p, Result(p, subtype), subtype) /\ Record(Result(p, subtype))
<1> DEFINE f == Frame("message-finish", "")
           r == Frame("result", subtype)
           q == Result(p, subtype)
<1>1. (q.closed <=> p.closed) /\ q.out = Write(p, <<f, r>>).out
    BY Zenon DEF Result, Write
<1>2. f \in Frames /\ IsQuiet(f) /\ r \in Frames
    <2>1. r \in Frames
        BY DEF Frame, Frames, Whats
    <2> QED  BY <2>1, QuietFrame DEF Whats
<1> HIDE DEF f, r
<1>3. <<f, r>> \in Seq(Frames)
    BY <1>2
<1>4. Grows(p.out, q.out) /\ p.out \in Seq(Frames) /\ Record(q)
    <2> HIDE DEF q
    <2>1. Grows(p.out, Write(p, <<f, r>>).out)
        BY <1>3, WriteGrows
    <2>2. Grows(p.out, q.out)
        BY <2>1, <1>1
    <2> QED  BY <2>2 DEF Record, Grows
<1>5. p.closed => q.out = p.out
    BY <1>1, WriteClosed
<1>6. ASSUME ~p.closed
      PROVE  /\ Len(q.out) = Len(p.out) + 2
             /\ q.out[Len(p.out) + 1] = f
             /\ q.out[Len(p.out) + 2] = r
    <2>1. q.out = p.out \o <<f, r>>
        BY <1>1, <1>6, WriteClosed
    <2> QED  BY <2>1, <1>2, <1>4
<1>7. ASSUME ~p.closed
      PROVE  /\ Len(q.out) > Len(p.out)
             /\ QuietFrom(q.out, Len(p.out) + 1, Len(q.out) - 1)
             /\ q.out[Len(q.out)] = r
    <2>1. Len(p.out) \in Nat /\ Len(q.out) = Len(p.out) + 2
        BY <1>4, <1>6, <1>7
    <2>2. \A i \in (Len(p.out) + 1)..(Len(q.out) - 1) : i = Len(p.out) + 1
        BY <2>1
    <2> QED  BY <2>1, <2>2, <1>2, <1>6, <1>7 DEF QuietFrom
<1>8. ResultStep(p, q, subtype)
    BY <1>1, <1>4, <1>5, <1>7 DEF ResultStep, r
<1> QED  BY <1>4, <1>8

LEMMA EndOne ==
    ASSUME NEW p, Record(p), NEW subtype \in Subtypes, NEW outcome \in Outcomes
    PROVE  /\ EndStep(p, TurnEnd(p, subtype, outcome), subtype, outcome)
           /\ Record(TurnEnd(p, subtype, outcome))
<1> DEFINE m == Result(p, subtype)
           e == Frame("terminal", outcome)
           q == TurnEnd(p, subtype, outcome)
<1>1. ResultStep(p, m, subtype) /\ Record(m)
    BY ResultOne
<1>2. e \in Frames
    BY DEF Frame, Frames, Whats
<1>3. q = Write(m, <<e>>)
    BY DEF TurnEnd
<1> HIDE DEF m, e, q
<1>4. <<e>> \in Seq(Frames)
    BY <1>2
<1>5. /\ Grows(m.out, q.out)
      /\ q.closed <=> m.closed
      /\ m.closed => q.out = m.out
      /\ ~m.closed => q.out = m.out \o <<e>>
    BY <1>1, <1>3, <1>4, WriteGrows, WriteClosed
<1>6. Record(q) /\ m.out \in Seq(Frames) /\ p.out \in Seq(Frames) /\ q.out \in Seq(Frames)
    BY <1>1, <1>5 DEF Record, Grows
<1>7. Grows(p.out, q.out) /\ (q.closed <=> p.closed) /\ (p.closed => q.out = p.out)
    BY <1>1, <1>5, <1>6 DEF ResultStep, Grows
<1>8. ASSUME ~p.closed
      PROVE  /\ Len(q.out) > Len(p.out) + 1
             /\ QuietFrom(q.out, Len(p.out) + 1, Len(q.out) - 2)
             /\ q.out[Len(q.out) - 1] = Frame("result", subtype)
             /\ q.out[Len(q.out)] = e
    <2>1. /\ Len(m.out) > Len(p.out)
          /\ QuietFrom(m.out, Len(p.out) + 1, Len(m.out) - 1)
          /\ m.out[Len(m.out)] = Frame("result", subtype)
          /\ q.out = m.out \o <<e>>
        BY <1>1, <1>5, <1>8 DEF ResultStep
    <2>2. Len(q.out) = Len(m.out) + 1 /\ q.out[Len(m.out) + 1] = e
        BY <2>1, <1>2, <1>6
    <2>3. \A i \in 1..Len(m.out) : q.out[i] = m.out[i]
        BY <1>5 DEF Grows
    <2>4. QuietFrom(q.out, Len(p.out) + 1, Len(q.out) - 2)
        BY <2>1, <2>2, <2>3, <1>6 DEF QuietFrom
    <2> QED  BY <2>1, <2>2, <2>3, <2>4, <1>6
<1>9. EndStep(p, q, subtype, outcome)
    BY <1>7, <1>8 DEF EndStep, e
<1> QED  BY <1>6, <1>9 DEF q

-----------------------------------------------------------------------------
(* What they keep of the frames written before *)

Closing(s) ==
    \A i \in 1..Len(s) : s[i].what = "terminal" =>
        i > 1 /\ s[i - 1].what = "result" /\ s[i - 1].detail \in Matching(s[i].detail)

Final(s) ==
    \A i, j \in 1..Len(s) :
        s[i].what = "terminal" /\ i < j => s[j].detail \notin Subtypes \ {"cancelled"}

Ended(s) == \E i \in 1..Len(s) : s[i].what = "terminal"

Said(s) == \E i \in 1..Len(s) : s[i].what = "result"

Keeps(p, q) ==
    /\ Record(q)
    /\ Len(p.out) <= Len(q.out)
    /\ q.closed <=> p.closed
    /\ Closing(p.out) => Closing(q.out)
    /\ Said(p.out) => Said(q.out)
    /\ Final(p.out) /\ (p.closed \/ ~Ended(p.out)) => Final(q.out)

LEMMA GrowsSaid ==
    ASSUME NEW a, NEW b, a \in Seq(Frames), Grows(a, b), Said(a)
    PROVE  Said(b)
BY DEF Grows, Said

\* Frames that end nothing change nothing.
LEMMA QuietKeeps ==
    ASSUME NEW p, NEW q, Record(p), QuietStep(p, q)
    PROVE  /\ Keeps(p, q)
           /\ Final(p.out) => Final(q.out)
           /\ Ended(q.out) => Ended(p.out)
<1> DEFINE a == p.out
           b == q.out
<1>1. /\ a \in Seq(Frames) /\ b \in Seq(Frames)
      /\ Grows(a, b)
      /\ \A i \in (Len(a) + 1)..Len(b) : IsQuiet(b[i])
    BY DEF QuietStep, Record, Grows, QuietFrom
<1> HIDE DEF a, b
<1>2. \A i \in 1..Len(b) : (i \in 1..Len(a) /\ b[i] = a[i])
                           \/ (b[i].what # "terminal" /\ b[i].detail \notin Subtypes)
    BY <1>1 DEF Grows, IsQuiet
<1>3. Closing(a) => Closing(b)
    <2> SUFFICES ASSUME Closing(a), NEW i \in 1..Len(b), b[i].what = "terminal"
                 PROVE  i > 1 /\ b[i - 1].what = "result" /\ b[i - 1].detail \in Matching(b[i].detail)
        BY DEF Closing
    <2>1. i \in 1..Len(a) /\ b[i] = a[i]
        BY <1>2
    <2>2. i > 1 /\ a[i - 1].what = "result" /\ a[i - 1].detail \in Matching(a[i].detail)
        BY <2>1 DEF Closing
    <2>3. b[i - 1] = a[i - 1]
        BY <1>1, <2>1, <2>2 DEF Grows
    <2> QED  BY <2>1, <2>2, <2>3
<1>4. Final(a) => Final(b)
    <2> SUFFICES ASSUME Final(a), NEW i \in 1..Len(b), NEW j \in 1..Len(b),
                        b[i].what = "terminal", i < j
                 PROVE  b[j].detail \notin Subtypes \ {"cancelled"}
        BY DEF Final
    <2> QED  BY <1>2 DEF Final
<1>5. Said(a) => Said(b)
    BY <1>1, GrowsSaid
<1>6. Ended(b) => Ended(a)
    BY <1>2 DEF Ended
<1>7. Record(q) /\ (q.closed <=> p.closed) /\ Len(a) <= Len(b)
    BY <1>1 DEF Record, b, QuietStep, Grows
<1> QED  BY <1>3, <1>4, <1>5, <1>6, <1>7 DEF Keeps, a, b

\* A result without a terminal event.
LEMMA ResultKeeps ==
    ASSUME NEW p, NEW q, NEW subtype \in Subtypes, Record(p), ResultStep(p, q, subtype)
    PROVE  /\ Keeps(p, q)
           /\ p.closed \/ Said(q.out)
           /\ subtype = "cancelled" /\ Final(p.out) => Final(q.out)
<1> DEFINE a == p.out
           b == q.out
<1>1. /\ a \in Seq(Frames) /\ b \in Seq(Frames) /\ Grows(a, b) /\ Len(a) <= Len(b)
      /\ Record(q) /\ (q.closed <=> p.closed)
    BY DEF ResultStep, Record, Grows
<1>2. CASE p.closed
    <2>1. b = a
        BY <1>2 DEF ResultStep
    <2> QED  BY <1>1, <1>2, <2>1 DEF Keeps
<1>3. CASE ~p.closed
    <2>1. /\ Len(b) > Len(a)
          /\ \A i \in (Len(a) + 1)..(Len(b) - 1) : IsQuiet(b[i])
          /\ b[Len(b)].what = "result" /\ b[Len(b)].detail = subtype
        BY <1>3 DEF ResultStep, QuietFrom, Frame
    <2> HIDE DEF a, b
    <2>2. \A i \in 1..Len(b) : \/ i \in 1..Len(a) /\ b[i] = a[i]
                               \/ b[i].what # "terminal" /\ b[i].detail \notin Subtypes
                               \/ b[i].what = "result" /\ b[i].detail = subtype
        BY <1>1, <2>1 DEF Grows, IsQuiet
    <2>3. Closing(a) => Closing(b)
        <3> SUFFICES ASSUME Closing(a), NEW i \in 1..Len(b), b[i].what = "terminal"
                     PROVE  i > 1 /\ b[i - 1].what = "result" /\ b[i - 1].detail \in Matching(b[i].detail)
            BY DEF Closing
        <3>1. i \in 1..Len(a) /\ b[i] = a[i]
            BY <2>2
        <3>2. i > 1 /\ a[i - 1].what = "result" /\ a[i - 1].detail \in Matching(a[i].detail)
            BY <3>1 DEF Closing
        <3>3. b[i - 1] = a[i - 1]
            BY <1>1, <3>1, <3>2 DEF Grows
        <3> QED  BY <3>1, <3>2, <3>3
    <2>4. Final(a) /\ (subtype = "cancelled" \/ ~Ended(a)) => Final(b)
        <3> SUFFICES ASSUME Final(a), subtype = "cancelled" \/ ~Ended(a),
                            NEW i \in 1..Len(b), NEW j \in 1..Len(b),
                            b[i].what = "terminal", i < j
                     PROVE  b[j].detail \notin Subtypes \ {"cancelled"}
            BY DEF Final
        <3>1. i \in 1..Len(a) /\ b[i] = a[i]
            BY <2>2
        <3>2. Ended(a)
            BY <3>1 DEF Ended
        <3> QED  BY <2>2, <3>1, <3>2 DEF Final
    <2>5. Said(b)
        BY <1>1, <2>1 DEF Said
    <2> QED  BY <1>1, <1>3, <2>3, <2>4, <2>5 DEF Keeps, a, b
<1> QED  BY <1>2, <1>3

\* A result and the terminal event that closes it.
LEMMA EndKeeps ==
    ASSUME NEW p, NEW q, NEW outcome \in Outcomes, NEW subtype \in Matching(outcome),
           Record(p), EndStep(p, q, subtype, outcome)
    PROVE  /\ Keeps(p, q)
           /\ p.closed \/ Said(q.out)
           /\ subtype = "cancelled" /\ Final(p.out) => Final(q.out)
<1> DEFINE a == p.out
           b == q.out
<1>1. /\ a \in Seq(Frames) /\ b \in Seq(Frames) /\ Grows(a, b) /\ Len(a) <= Len(b)
      /\ Record(q) /\ (q.closed <=> p.closed)
    BY DEF EndStep, Record, Grows
<1>2. CASE p.closed
    <2>1. b = a
        BY <1>2 DEF EndStep
    <2> QED  BY <1>1, <1>2, <2>1 DEF Keeps
<1>3. CASE ~p.closed
    <2>1. /\ Len(b) > Len(a) + 1
          /\ \A i \in (Len(a) + 1)..(Len(b) - 2) : IsQuiet(b[i])
          /\ b[Len(b) - 1].what = "result" /\ b[Len(b) - 1].detail = subtype
          /\ b[Len(b)].what = "terminal" /\ b[Len(b)].detail = outcome
        BY <1>3 DEF EndStep, QuietFrom, Frame
    <2>2. outcome \notin Subtypes \ {"cancelled"}
        BY DEF Outcomes, Subtypes
    <2> HIDE DEF a, b
    <2>3. \A i \in 1..Len(b) : \/ i \in 1..Len(a) /\ b[i] = a[i]
                               \/ b[i].what # "terminal" /\ b[i].detail \notin Subtypes
                               \/ b[i].what = "result" /\ b[i].detail = subtype
                               \/ i = Len(b)
        BY <1>1, <2>1 DEF Grows, IsQuiet
    <2>4. Closing(a) => Closing(b)
        <3> SUFFICES ASSUME Closing(a), NEW i \in 1..Len(b), b[i].what = "terminal"
                     PROVE  i > 1 /\ b[i - 1].what = "result" /\ b[i - 1].detail \in Matching(b[i].detail)
            BY DEF Closing
        <3>1. CASE i \in 1..Len(a) /\ b[i] = a[i]
            <4>1. i > 1 /\ a[i - 1].what = "result" /\ a[i - 1].detail \in Matching(a[i].detail)
                BY <3>1 DEF Closing
            <4>2. b[i - 1] = a[i - 1]
                BY <1>1, <3>1, <4>1 DEF Grows
            <4> QED  BY <3>1, <4>1, <4>2
        <3>2. CASE i = Len(b)
            BY <1>1, <2>1, <3>2
        <3> QED  BY <2>3, <3>1, <3>2
    <2>5. Final(a) /\ (subtype = "cancelled" \/ ~Ended(a)) => Final(b)
        <3> SUFFICES ASSUME Final(a), subtype = "cancelled" \/ ~Ended(a),
                            NEW i \in 1..Len(b), NEW j \in 1..Len(b),
                            b[i].what = "terminal", i < j
                     PROVE  b[j].detail \notin Subtypes \ {"cancelled"}
            BY DEF Final
        <3>1. i \in 1..Len(a) /\ b[i] = a[i]
            BY <1>1, <2>3
        <3>2. Ended(a)
            BY <3>1 DEF Ended
        <3> QED  BY <2>1, <2>2, <2>3, <3>1, <3>2 DEF Final
    <2>6. Said(b)
        BY <1>1, <2>1 DEF Said
    <2> QED  BY <1>1, <1>3, <2>4, <2>5, <2>6 DEF Keeps, a, b
<1> QED  BY <1>2, <1>3

-----------------------------------------------------------------------------
(* The turns *)

\* Which publisher a turn writes to, and that what comes after the lock is
\* inside it.
OwnInv ==
    /\ pc \in [Turns -> PCs]
    /\ pub \in [Turns -> Turns \cup {None}]
    /\ pubs = [o \in Turns |-> pubs[o]] /\ \A o \in Turns : Record(pubs[o])
    /\ run = [t \in Turns |-> run[t]] /\ \A t \in Turns : run[t].calls \in Nat
    /\ \A r \in Requests : pc[r] = "created" => publisher \in Turns
    /\ \A t \in Turns : pc[t] \in {"unsent", "noturn", "created"} => pub[t] = None
    /\ \A t \in Turns :
          pc[t] \in {"waiting", "preparing", "running", "stamping"} => pub[t] \in Turns
    /\ \A t \in Turns : pc[t] \in {"preparing", "running", "stamping"} => holder = t

\* What the ends of turns leave on their publishers.
EndInv ==
    /\ \A o \in Turns : Closing(pubs[o].out) /\ Final(pubs[o].out)
    /\ \A o \in Turns : Ended(pubs[o].out) /\ ~pubs[o].closed =>
          \E t \in Turns : pc[t] = "stamping" /\ pub[t] = o
    /\ \A o \in Turns : pubs[o].closed => \E t \in Turns : pc[t] = "ended" /\ pub[t] = o
    /\ \A t \in Turns : pc[t] = "stamping" =>
          pubs[pub[t]].closed \/ Said(pubs[pub[t]].out)
    /\ \A t \in Turns :
          /\ pc[t] = "ended" /\ pub[t] # None
          /\ \A u \in Turns \ {t} : pub[u] # pub[t]
          => Said(pubs[pub[t]].out)

\* A turn's handlers publish frames that end nothing.
LEMMA EventStep ==
    ASSUME OwnInv, NEW t \in Turns, GraphEvent(t)
    PROVE  /\ pc[t] = "running"
           /\ UNCHANGED <<publisher, holder, pc, pub, asked, committed>>
           /\ \E q : QuietStep(pubs[pub[t]], q) /\ Publishes(t, q)
           /\ \E streamed, calls : /\ calls \in Nat
                                  /\ run' = [run EXCEPT ![t] = [streamed |-> streamed,
                                                               calls |-> calls]]
<1> DEFINE p == pubs[pub[t]]
<1>1. pc[t] = "running"
    BY DEF GraphEvent, RootText, RootToolCall, RootMessageFinish, RootTool, RootValues,
           SubagentText, SubagentLifecycle, Others, Handles
<1>2. Record(p) /\ run[t].calls \in Nat
    BY <1>1 DEF OwnInv
<1>3. ASSUME NEW q, NEW streamed, NEW calls \in Nat, QuietStep(p, q),
             Handles(t, q, streamed, calls)
      PROVE  /\ UNCHANGED <<publisher, holder, pc, pub, asked, committed>>
             /\ \E r : QuietStep(pubs[pub[t]], r) /\ Publishes(t, r)
             /\ \E x, y : y \in Nat /\ run' = [run EXCEPT ![t] = [streamed |-> x, calls |-> y]]
    BY <1>3 DEF Handles
<1>4. QuietStep(p, p)
    BY <1>2 DEF QuietStep, Grows, QuietFrom, Record
<1>5. QuietStep(p, StreamText(p))
    BY <1>2, QuietText
<1>6. \A frames : Quiets(frames) => QuietStep(p, Write(p, frames))
    BY <1>2, QuietWrite
<1>7. Quiets(<<Frame("other", "")>>) /\ Quiets(NewMessages)
    <2>1. Frame("other", "") \in Frames /\ IsQuiet(Frame("other", ""))
        BY QuietFrame DEF Whats
    <2> DEFINE f == Frame("other", "")
    <2>2. f \in Frames /\ IsQuiet(f)
        BY <2>1
    <2> HIDE DEF f
    <2>3. Quiets(<<f>>) /\ Quiets(<<f, f>>)
        BY <2>2 DEF Quiets
    <2> QED  BY <2>3 DEF f, NewMessages
<1>8. QuietStep(p, MessageFinish(p))
    BY <1>2, QuietMessageFinish
<1>9. QuietStep(p, MessageFinish(Assistant(p, run[t].calls)))
    <2>1. QuietStep(p, Assistant(p, run[t].calls)) /\ Record(Assistant(p, run[t].calls))
        BY <1>2, QuietAssistant
    <2> QED  BY <2>1, <1>2, QuietMessageFinish, QuietTwice
<1>10. CASE RootText(t) \/ SubagentText(t)
    BY <1>10, <1>1, <1>2, <1>3, <1>5 DEF RootText, SubagentText
<1>11. CASE RootToolCall(t)
    BY <1>11, <1>1, <1>2, <1>3, <1>4 DEF RootToolCall
<1>12. CASE RootMessageFinish(t)
    BY <1>12, <1>1, <1>3, <1>8, <1>9 DEF RootMessageFinish
<1>13. CASE RootTool(t) \/ SubagentLifecycle(t) \/ RootValues(t)
    BY <1>13, <1>1, <1>2, <1>3, <1>6, <1>7 DEF RootTool, SubagentLifecycle, RootValues, Others
<1> QED  BY <1>10, <1>11, <1>12, <1>13 DEF GraphEvent

LEMMA BeginStep ==
    ASSUME OwnInv, NEW t \in Turns, Begin(t)
    PROVE  \E q : QuietStep(pubs[pub[t]], q) /\ Publishes(t, q)
<1>1. Record(pubs[pub[t]])
    BY DEF OwnInv, Begin
<1>2. Quiets(<<Frame("started", "")>>)
    BY QuietFrame, QuietOne DEF Whats
<1>3. QuietStep(pubs[pub[t]], Write(pubs[pub[t]], <<Frame("started", "")>>))
    BY <1>1, <1>2, QuietWrite
<1> QED  BY <1>3 DEF Begin

LEMMA Matched ==
    /\ "interrupted" \in Matching("completed")
    /\ "success" \in Matching("completed")
    /\ "error_during_execution" \in Matching("failed")
    /\ "cancelled" \in Matching("cancelled")
BY Zenon DEF Matching

\* What the ways a turn ends publish.
Ends(p, q) ==
    Keeps(p, q) /\ (p.closed \/ Said(q.out))

LEMMA QuietThenEnd ==
    ASSUME NEW p, NEW m, NEW outcome \in Outcomes, NEW subtype \in Subtypes,
           subtype \in Matching(outcome), Record(p), QuietStep(p, m)
    PROVE  Ends(p, TurnEnd(m, subtype, outcome))
<1> DEFINE q == TurnEnd(m, subtype, outcome)
<1>1. Record(m) /\ Keeps(p, m) /\ (Final(p.out) => Final(m.out)) /\ (Ended(m.out) => Ended(p.out))
    BY QuietKeeps DEF Keeps
<1>2. EndStep(m, q, subtype, outcome)
    BY <1>1, EndOne
<1>3. Keeps(m, q) /\ (m.closed \/ Said(q.out))
    BY <1>1, <1>2, EndKeeps
<1> HIDE DEF q
<1>4. p.closed \/ Said(q.out)
    BY <1>1, <1>3 DEF Keeps
<1>5. Final(p.out) /\ (p.closed \/ ~Ended(p.out)) => Final(q.out)
    BY <1>1, <1>3 DEF Keeps
<1>6. Keeps(p, q)
    BY <1>1, <1>3, <1>5 DEF Keeps
<1> QED  BY <1>4, <1>6 DEF Ends, q

LEMMA InterruptEnds ==
    ASSUME NEW p, Record(p), NEW messages, Quiets(messages), NEW streamed
    PROVE  Ends(p, Interrupt(Write(p, messages), streamed))
<1> DEFINE w == Write(p, messages)
           m == IF streamed THEN Assistant(w, 0) ELSE w
<1>1. QuietStep(p, w) /\ Record(w)
    BY QuietWrite
<1>2. QuietStep(w, Assistant(w, 0))
    BY <1>1, QuietAssistant
<1>3. QuietStep(p, m)
    BY <1>1, <1>2, QuietTwice
<1>4. Interrupt(w, streamed) = TurnEnd(m, "interrupted", "completed")
    BY DEF Interrupt
<1> HIDE DEF m
<1> QED  BY <1>3, <1>4, Matched, QuietThenEnd DEF Outcomes, Subtypes

LEMMA FinalEnds ==
    ASSUME NEW p, Record(p), NEW streamed, NEW isError
    PROVE  Ends(p, FinalResult(p, streamed, isError))
<1> DEFINE s == IF streamed THEN Assistant(p, 0) ELSE p
<1>1. QuietStep(p, p)
    BY DEF QuietStep, Grows, QuietFrom, Record
<1>2. QuietStep(p, s) /\ Record(s)
    BY <1>1, QuietAssistant
<1> HIDE DEF s
<1>3. QuietStep(p, MessageFinish(s)) /\ QuietStep(p, MessageFinish(p))
    BY <1>2, QuietMessageFinish, QuietTwice
<1>4. /\ Ends(p, TurnEnd(MessageFinish(s), "success", "completed"))
      /\ Ends(p, TurnEnd(MessageFinish(p), "error_during_execution", "failed"))
    BY <1>3, Matched, QuietThenEnd DEF Outcomes, Subtypes
<1> QED  BY <1>4 DEF FinalResult, s

LEMMA ResultEnds ==
    ASSUME NEW p, Record(p), NEW subtype \in Subtypes
    PROVE  /\ Ends(p, Result(p, subtype))
           /\ subtype = "cancelled" /\ Final(p.out) => Final(Result(p, subtype).out)
BY ResultOne, ResultKeeps DEF Ends

LEMMA StopEnds ==
    ASSUME NEW p, Record(p)
    PROVE  /\ Ends(p, Result(TurnEnd(p, "cancelled", "cancelled"), "cancelled"))
           /\ Final(p.out) => Final(Result(TurnEnd(p, "cancelled", "cancelled"), "cancelled").out)
<1> DEFINE m == TurnEnd(p, "cancelled", "cancelled")
           q == Result(m, "cancelled")
<1>1. "cancelled" \in Subtypes /\ "cancelled" \in Outcomes
    BY DEF Subtypes, Outcomes
<1>2. Keeps(p, m) /\ Record(m) /\ (p.closed \/ Said(m.out)) /\ (Final(p.out) => Final(m.out))
    BY <1>1, Matched, EndOne, EndKeeps
<1> HIDE DEF m
<1>3. Keeps(m, q) /\ (m.closed \/ Said(q.out)) /\ (Final(m.out) => Final(q.out))
    BY <1>1, <1>2, ResultOne, ResultKeeps
<1> HIDE DEF q
<1>4. Keeps(p, q) /\ (p.closed \/ Said(q.out)) /\ (Final(p.out) => Final(q.out))
    BY <1>2, <1>3 DEF Keeps
<1> QED  BY <1>4 DEF Ends, q, m

-----------------------------------------------------------------------------
(* OwnInv *)

LEMMA OwnStarts == Init => OwnInv
<1> SUFFICES ASSUME Init PROVE OwnInv
    OBVIOUS
<1>1. NewPublisher.out = <<>> /\ NewRun.calls = 0
    BY Zenon DEF NewPublisher, NewRun
<1>2. pubs = [o \in Turns |-> pubs[o]] /\ \A o \in Turns : pubs[o].out = <<>>
    BY <1>1 DEF Init
<1>3. run = [t \in Turns |-> run[t]] /\ \A t \in Turns : run[t].calls \in Nat
    BY <1>1 DEF Init
<1>4. /\ pc \in [Turns -> PCs] /\ pub \in [Turns -> Turns \cup {None}]
      /\ \A t \in Turns : pc[t] = "unsent" /\ pub[t] = None
    BY DEF Init, PCs
<1>5. Requests \subseteq Turns
    BY DEF Turns
<1>6. \A o \in Turns : Record(pubs[o])
    <2>1. <<>> \in Seq(Frames)
        OBVIOUS
    <2> QED  BY <1>2, <2>1, Zenon DEF Record
<1> QED  BY <1>2, <1>3, <1>4, <1>5, <1>6 DEF OwnInv

\* A step of one turn that leaves the publishers' records in order.
LEMMA OwnTurn ==
    ASSUME OwnInv, NEW t \in Turns, NEW q, NEW to \in {"running", "stamping", "ended"},
           pub[t] \in Turns, Record(q),
           pubs' = [pubs EXCEPT ![pub[t]] = q],
           pc' = [pc EXCEPT ![t] = to],
           UNCHANGED <<pub, publisher>>,
           to # "ended" => holder = t /\ holder' = holder,
           to = "ended" => holder' = IF holder = t THEN None ELSE holder,
           \/ UNCHANGED run
           \/ \E streamed, calls : /\ calls \in Nat
                                 /\ run' = [run EXCEPT ![t] = [streamed |-> streamed,
                                                              calls |-> calls]]
    PROVE  OwnInv'
<1>1. pubs' = [o \in Turns |-> pubs'[o]] /\ \A o \in Turns : Record(pubs'[o])
    BY DEF OwnInv, Record
<1>2. run' = [u \in Turns |-> run'[u]] /\ \A u \in Turns : run'[u].calls \in Nat
    BY DEF OwnInv
<1>3. /\ pc' \in [Turns -> PCs]
      /\ \A u \in Turns : pc'[u] = IF u = t THEN to ELSE pc[u]
    BY DEF OwnInv, PCs
<1>4. \A u \in Turns : pc'[u] \in {"preparing", "running", "stamping"} => holder' = u
    BY <1>3 DEF OwnInv
<1>5. \A r \in Requests : r \in Turns
    BY DEF Turns
<1> QED  BY <1>1, <1>2, <1>3, <1>4, <1>5 DEF OwnInv

LEMMA OwnOther ==
    ASSUME OwnInv, UNCHANGED <<pubs, run>>,
           \/ \E r \in Requests : HandleMessage(r) \/ Start(r) \/ Acquire(r) \/ CancelUnstarted(r)
           \/ \E w \in Wakes : WakeBegins(w)
           \/ \E t \in Turns : FirstCommit(t)
           \/ MinutePasses
           \/ UNCHANGED vars
    PROVE  OwnInv'
<1> USE DEF Turns
<1>1. pubs' = [o \in Turns |-> pubs'[o]] /\ \A o \in Turns : Record(pubs'[o])
    BY DEF OwnInv, Record
<1>2. run' = [u \in Turns |-> run'[u]] /\ \A u \in Turns : run'[u].calls \in Nat
    BY DEF OwnInv
<1>3. ASSUME NEW r \in Requests, HandleMessage(r) PROVE OwnInv'
    <2>1. PICK x \in {"created", "noturn"} : pc' = [pc EXCEPT ![r] = x]
        BY <1>3 DEF HandleMessage
    <2>2. pc' \in [Turns -> PCs] /\ \A t \in Turns : pc'[t] = IF t = r THEN x ELSE pc[t]
        BY <2>1 DEF OwnInv, PCs
    <2>3. publisher' = r /\ UNCHANGED <<pub, holder>> /\ pc[r] = "unsent"
        BY <1>3 DEF HandleMessage
    <2> QED  BY <1>1, <1>2, <2>2, <2>3 DEF OwnInv
<1>4. ASSUME NEW r \in Requests, Start(r) PROVE OwnInv'
    BY <1>1, <1>2, <1>4, ConstantsAssumption DEF ConstantsAssumption, Start, OwnInv, PCs
<1>5. ASSUME NEW r \in Requests, Acquire(r) PROVE OwnInv'
    BY <1>1, <1>2, <1>5, ConstantsAssumption DEF ConstantsAssumption, Acquire, OwnInv, PCs
<1>6. ASSUME NEW r \in Requests, CancelUnstarted(r) PROVE OwnInv'
    BY <1>1, <1>2, <1>6, ConstantsAssumption
       DEF ConstantsAssumption, CancelUnstarted, Leaves, OwnInv, PCs
<1>7. ASSUME NEW w \in Wakes, WakeBegins(w) PROVE OwnInv'
    BY <1>1, <1>2, <1>7, ConstantsAssumption DEF ConstantsAssumption, WakeBegins, OwnInv, PCs
<1>8. ASSUME MinutePasses \/ \E t \in Turns : FirstCommit(t) PROVE OwnInv'
    <2>1. UNCHANGED <<publisher, holder, pc, pub>>
        BY <1>8 DEF MinutePasses, FirstCommit
    <2> QED  BY <1>1, <1>2, <2>1 DEF OwnInv
<1>9. CASE UNCHANGED vars
    BY <1>1, <1>2, <1>9 DEF vars, OwnInv
<1> QED  BY <1>3, <1>4, <1>5, <1>6, <1>7, <1>8, <1>9

-----------------------------------------------------------------------------
(* EndInv *)

LEMMA EndStarts == Init => EndInv
<1> SUFFICES ASSUME Init PROVE EndInv
    OBVIOUS
<1>1. NewPublisher.out = <<>> /\ ~NewPublisher.closed
    BY Zenon DEF NewPublisher
<1>2. \A o \in Turns : pubs[o] = NewPublisher /\ pc[o] = "unsent"
    BY DEF Init
<1>3. Closing(<<>>) /\ Final(<<>>) /\ ~Ended(<<>>)
    BY DEF Closing, Final, Ended
<1> QED  BY <1>1, <1>2, <1>3 DEF EndInv

\* A turn that runs its graph, or prepares to, has an open publisher without a
\* terminal event, or one that another turn closed.
LEMMA NotEnded ==
    ASSUME OwnInv, EndInv, NEW t \in Turns, pc[t] \in {"preparing", "running"}
    PROVE  pubs[pub[t]].closed \/ ~Ended(pubs[pub[t]].out)
<1>1. pub[t] \in Turns /\ holder = t
    BY DEF OwnInv
<1> SUFFICES ASSUME ~pubs[pub[t]].closed, Ended(pubs[pub[t]].out) PROVE FALSE
    OBVIOUS
<1>2. PICK u \in Turns : pc[u] = "stamping" /\ pub[u] = pub[t]
    BY <1>1 DEF EndInv
<1>3. holder = u
    BY <1>2 DEF OwnInv
<1> QED  BY <1>1, <1>2, <1>3

\* A step that publishes nothing.
LEMMA EndOther ==
    ASSUME OwnInv, EndInv, UNCHANGED pubs,
           \A t \in Turns : /\ pc'[t] = "stamping" <=> pc[t] = "stamping"
                            /\ pc[t] \in {"stamping", "ended"} =>
                                  pc'[t] = pc[t] /\ pub'[t] = pub[t]
                            /\ pc'[t] = "ended" /\ pc[t] # "ended" => pub'[t] = None
                            /\ pub[t] # None => pub'[t] = pub[t]
    PROVE  EndInv'
<1>1. \A o \in Turns : Ended(pubs[o].out) /\ ~pubs[o].closed =>
          \E t \in Turns : pc'[t] = "stamping" /\ pub'[t] = o
    BY DEF EndInv
<1>2. \A o \in Turns : pubs[o].closed => \E t \in Turns : pc'[t] = "ended" /\ pub'[t] = o
    BY DEF EndInv
<1>3. \A t \in Turns : pc'[t] = "stamping" =>
          pubs[pub'[t]].closed \/ Said(pubs[pub'[t]].out)
    BY DEF EndInv
<1>4. ASSUME NEW t \in Turns, pc'[t] = "ended", pub'[t] # None,
             \A u \in Turns \ {t} : pub'[u] # pub'[t]
      PROVE  Said(pubs[pub'[t]].out)
    <2>1. pc[t] = "ended" /\ pub'[t] = pub[t]
        BY <1>4
    <2>2. \A u \in Turns \ {t} : pub[u] # pub[t]
        BY <1>4, <2>1
    <2> QED  BY <1>4, <2>1, <2>2 DEF EndInv
<1>5. \A o \in Turns : Closing(pubs[o].out) /\ Final(pubs[o].out)
    BY DEF EndInv
<1> QED  BY <1>1, <1>2, <1>3, <1>4, <1>5 DEF EndInv

\* A turn publishes and goes on.
LEMMA EndContinues ==
    ASSUME OwnInv, EndInv, NEW t \in Turns, NEW q, NEW to \in {"running", "stamping"},
           pc[t] \in {"preparing", "running"},
           pubs' = [pubs EXCEPT ![pub[t]] = q],
           pc' = [pc EXCEPT ![t] = to],
           UNCHANGED pub,
           Keeps(pubs[pub[t]], q),
           to = "running" => (Ended(q.out) => Ended(pubs[pub[t]].out)),
           to = "stamping" => (pubs[pub[t]].closed \/ Said(q.out))
    PROVE  EndInv'
<1> DEFINE o == pub[t]
           p == pubs[o]
<1>1. o \in Turns
    BY DEF OwnInv
<1>2. \A x \in Turns : pubs'[x] = IF x = o THEN q ELSE pubs[x]
    BY DEF OwnInv
<1>3. \A u \in Turns : pc'[u] = IF u = t THEN to ELSE pc[u]
    BY DEF OwnInv
<1>4. p.closed \/ ~Ended(p.out)
    BY NotEnded
<1>5. /\ q.closed <=> p.closed
      /\ Closing(q.out) /\ Final(q.out)
      /\ Said(p.out) => Said(q.out)
    BY <1>1, <1>4 DEF Keeps, EndInv
<1>6. \A x \in Turns : Closing(pubs'[x].out) /\ Final(pubs'[x].out)
    BY <1>2, <1>5 DEF EndInv
<1>7. ASSUME NEW x \in Turns, Ended(pubs'[x].out), ~pubs'[x].closed
      PROVE  \E u \in Turns : pc'[u] = "stamping" /\ pub[u] = x
    <2>1. CASE to = "stamping" /\ x = o
        BY <2>1, <1>3
    <2>2. CASE to = "running" /\ x = o
        <3>1. Ended(p.out) /\ ~p.closed
            BY <2>2, <1>2, <1>5, <1>7
        <3> QED  BY <3>1, <1>4
    <2>3. CASE x # o
        <3>1. Ended(pubs[x].out) /\ ~pubs[x].closed
            BY <2>3, <1>2, <1>7
        <3>2. PICK u \in Turns : pc[u] = "stamping" /\ pub[u] = x
            BY <3>1 DEF EndInv
        <3> QED  BY <3>2, <1>3
    <2> QED  BY <2>1, <2>2, <2>3
<1>8. ASSUME NEW x \in Turns, pubs'[x].closed
      PROVE  \E u \in Turns : pc'[u] = "ended" /\ pub[u] = x
    <2>1. pubs[x].closed
        BY <1>2, <1>5, <1>8
    <2>2. PICK u \in Turns : pc[u] = "ended" /\ pub[u] = x
        BY <2>1 DEF EndInv
    <2> QED  BY <2>2, <1>3
<1>9. ASSUME NEW u \in Turns, pc'[u] = "stamping"
      PROVE  pubs'[pub[u]].closed \/ Said(pubs'[pub[u]].out)
    <2>1. CASE u = t
        BY <2>1, <1>1, <1>2, <1>3, <1>5, <1>9
    <2>2. CASE u # t
        <3>1. pc[u] = "stamping" /\ pub[u] \in Turns
            BY <2>2, <1>3, <1>9 DEF OwnInv
        <3>2. pubs[pub[u]].closed \/ Said(pubs[pub[u]].out)
            BY <3>1 DEF EndInv
        <3> QED  BY <3>1, <3>2, <1>2, <1>5
    <2> QED  BY <2>1, <2>2
<1>10. ASSUME NEW u \in Turns, pc'[u] = "ended", pub[u] # None,
              \A v \in Turns \ {u} : pub[v] # pub[u]
       PROVE  Said(pubs'[pub[u]].out)
    <2>1. pc[u] = "ended" /\ u # t
        BY <1>3, <1>10
    <2>2. Said(pubs[pub[u]].out) /\ pub[u] \in Turns
        <3>1. pub[u] \in Turns
            BY <1>10 DEF OwnInv
        <3>2. Said(pubs[pub[u]].out)
            BY <2>1, <1>10 DEF EndInv
        <3> QED  BY <3>1, <3>2
    <2>3. pub[u] # o
        BY <2>1, <1>10
    <2> QED  BY <2>2, <2>3, <1>2
<1> QED  BY <1>6, <1>7, <1>8, <1>9, <1>10 DEF EndInv

\* A turn publishes its last frames, closes and ends.
LEMMA EndCloses ==
    ASSUME OwnInv, EndInv, NEW t \in Turns, NEW q,
           pc[t] \in {"waiting", "preparing", "running", "stamping"},
           PublishesAndCloses(t, q), Leaves(t),
           Ends(pubs[pub[t]], q), Final(q.out)
    PROVE  EndInv'
<1> DEFINE o == pub[t]
           p == pubs[o]
<1>0. /\ pubs' = [pubs EXCEPT ![pub[t]] = Closed(q)]
      /\ pc' = [pc EXCEPT ![t] = "ended"]
      /\ UNCHANGED pub
    BY DEF PublishesAndCloses, Leaves
<1>1. o \in Turns
    BY DEF OwnInv
<1>2. Closed(q).closed /\ Closed(q).out = q.out
    BY Zenon DEF Closed
<1>3. \A x \in Turns : pubs'[x] = IF x = o THEN Closed(q) ELSE pubs[x]
    BY <1>0 DEF OwnInv
<1>4. \A u \in Turns : pc'[u] = IF u = t THEN "ended" ELSE pc[u]
    BY <1>0 DEF OwnInv
<1>5. Closing(q.out) /\ (p.closed \/ Said(q.out))
    BY <1>1 DEF Ends, Keeps, EndInv
<1>6. \A x \in Turns : Closing(pubs'[x].out) /\ Final(pubs'[x].out)
    BY <1>2, <1>3, <1>5 DEF EndInv
<1>7. ASSUME NEW x \in Turns, Ended(pubs'[x].out), ~pubs'[x].closed
      PROVE  \E u \in Turns : pc'[u] = "stamping" /\ pub[u] = x
    <2>1. x # o /\ Ended(pubs[x].out) /\ ~pubs[x].closed
        BY <1>2, <1>3, <1>7
    <2>2. PICK u \in Turns : pc[u] = "stamping" /\ pub[u] = x
        BY <2>1 DEF EndInv
    <2> QED  BY <2>1, <2>2, <1>4
<1>8. ASSUME NEW x \in Turns, pubs'[x].closed
      PROVE  \E u \in Turns : pc'[u] = "ended" /\ pub[u] = x
    <2>1. CASE x = o
        BY <2>1, <1>4
    <2>2. CASE x # o
        <3>1. PICK u \in Turns : pc[u] = "ended" /\ pub[u] = x
            BY <2>2, <1>3, <1>8 DEF EndInv
        <3> QED  BY <3>1, <1>4
    <2> QED  BY <2>1, <2>2
<1>9. ASSUME NEW u \in Turns, pc'[u] = "stamping"
      PROVE  pubs'[pub[u]].closed \/ Said(pubs'[pub[u]].out)
    <2>1. pc[u] = "stamping" /\ pub[u] \in Turns
        BY <1>4, <1>9 DEF OwnInv
    <2>2. pubs[pub[u]].closed \/ Said(pubs[pub[u]].out)
        BY <2>1 DEF EndInv
    <2> QED  BY <2>1, <2>2, <1>2, <1>3
<1>10. ASSUME NEW u \in Turns, pc'[u] = "ended", pub[u] # None,
              \A v \in Turns \ {u} : pub[v] # pub[u]
       PROVE  Said(pubs'[pub[u]].out)
    <2>1. CASE u = t
        <3>1. ~p.closed
            <4> SUFFICES ASSUME p.closed PROVE FALSE
                OBVIOUS
            <4>1. PICK v \in Turns : pc[v] = "ended" /\ pub[v] = o
                BY <1>1 DEF EndInv
            <4> QED  BY <4>1, <2>1, <1>10
        <3> QED  BY <3>1, <2>1, <1>1, <1>2, <1>3, <1>5
    <2>2. CASE u # t
        <3>1. Said(pubs[pub[u]].out) /\ pub[u] \in Turns
            <4>1. pc[u] = "ended"
                BY <2>2, <1>4, <1>10
            <4>2. pub[u] \in Turns
                BY <1>10 DEF OwnInv
            <4>3. Said(pubs[pub[u]].out)
                BY <4>1, <1>10 DEF EndInv
            <4> QED  BY <4>2, <4>3
        <3>2. pub[u] # o
            BY <2>2, <1>10
        <3> QED  BY <3>1, <3>2, <1>3
    <2> QED  BY <2>1, <2>2
<1> QED  BY <1>0, <1>6, <1>7, <1>8, <1>9, <1>10 DEF EndInv

-----------------------------------------------------------------------------
(* Theorems *)

LEMMA ContinueStep ==
    ASSUME OwnInv, EndInv, NEW t \in Turns, Begin(t) \/ GraphEvent(t) \/ Finish(t)
    PROVE  OwnInv' /\ EndInv'
<1> DEFINE p == pubs[pub[t]]
<1>1. CASE Begin(t) \/ GraphEvent(t)
    <2>1. /\ pc[t] \in {"preparing", "running"}
          /\ pc' = [pc EXCEPT ![t] = "running"]
          /\ UNCHANGED <<pub, publisher, holder>>
          /\ \/ UNCHANGED run
             \/ \E streamed, calls : /\ calls \in Nat
                                   /\ run' = [run EXCEPT ![t] = [streamed |-> streamed,
                                                                calls |-> calls]]
        <3>1. CASE Begin(t)
            BY <3>1 DEF Begin
        <3>2. CASE GraphEvent(t)
            <4>1. pc[t] = "running" /\ pc' = pc
                BY <3>2, EventStep
            <4>2. pc' = [pc EXCEPT ![t] = "running"]
                BY <4>1 DEF OwnInv
            <4> QED  BY <3>2, <4>1, <4>2, EventStep
        <3> QED  BY <1>1, <3>1, <3>2
    <2>2. PICK q : QuietStep(p, q) /\ pubs' = [pubs EXCEPT ![pub[t]] = q]
        BY <1>1, BeginStep, EventStep DEF Publishes
    <2>3. Record(p) /\ pub[t] \in Turns /\ holder = t
        BY <2>1 DEF OwnInv
    <2>4. Keeps(p, q) /\ (Ended(q.out) => Ended(p.out))
        BY <2>2, <2>3, QuietKeeps
    <2>5. OwnInv'
        BY <2>1, <2>2, <2>3, <2>4, OwnTurn DEF Keeps
    <2>6. EndInv'
        BY <2>1, <2>2, <2>4, EndContinues
    <2> QED  BY <2>5, <2>6
<1>2. CASE Finish(t)
    <2> DEFINE q == FinalResult(p, run[t].streamed, FALSE)
    <2>1. /\ pc[t] = "running" /\ pc' = [pc EXCEPT ![t] = "stamping"]
          /\ UNCHANGED <<pub, publisher, holder, run>>
          /\ pubs' = [pubs EXCEPT ![pub[t]] = q]
        BY <1>2 DEF Finish, Publishes
    <2>2. Record(p) /\ pub[t] \in Turns /\ holder = t
        BY <2>1 DEF OwnInv
    <2>3. Ends(p, q)
        BY <2>2, FinalEnds
    <2> HIDE DEF q
    <2>4. OwnInv'
        BY <2>1, <2>2, <2>3, OwnTurn DEF Ends, Keeps
    <2>5. EndInv'
        BY <2>1, <2>3, EndContinues DEF Ends
    <2> QED  BY <2>4, <2>5
<1> QED  BY <1>1, <1>2

\* What the ways a turn ends have in common.
LEMMA CloseStep ==
    ASSUME OwnInv, EndInv, NEW t \in Turns, NEW q,
           pc[t] \in {"waiting", "preparing", "running", "stamping"},
           PublishesAndCloses(t, q), Leaves(t),
           Ends(pubs[pub[t]], q), Final(q.out)
    PROVE  OwnInv' /\ EndInv'
<1>1. /\ pubs' = [pubs EXCEPT ![pub[t]] = Closed(q)]
      /\ pc' = [pc EXCEPT ![t] = "ended"]
      /\ holder' = IF holder = t THEN None ELSE holder
      /\ UNCHANGED <<publisher, pub, run>>
    BY DEF PublishesAndCloses, Leaves
<1>2. pub[t] \in Turns
    BY DEF OwnInv
<1>3. Record(Closed(q))
    <2>1. Closed(q).out = q.out
        BY Zenon DEF Closed
    <2> QED  BY <2>1 DEF Ends, Keeps, Record
<1>4. OwnInv'
    BY <1>1, <1>2, <1>3, OwnTurn
<1>5. EndInv'
    BY EndCloses
<1> QED  BY <1>4, <1>5

LEMMA LastStep ==
    ASSUME OwnInv, EndInv, NEW t \in Turns,
           Ask(t) \/ Stamped(t) \/ GraphFails(t) \/ PrepareFails(t) \/ CancelRun(t) \/ CancelEarly(t)
    PROVE  OwnInv' /\ EndInv'
<1> DEFINE p == pubs[pub[t]]
<1>1. pc[t] \in {"waiting", "preparing", "running", "stamping"}
    BY DEF Ask, Stamped, GraphFails, PrepareFails, CancelRun, CancelEarly
<1>2. pub[t] \in Turns /\ Record(p) /\ Final(p.out)
    BY <1>1 DEF OwnInv, EndInv
<1>3. ASSUME NEW q, pc[t] \in {"preparing", "running"}, Ends(p, q)
      PROVE  Final(q.out)
    BY <1>2, <1>3, NotEnded DEF Ends, Keeps
<1>4. CASE Ask(t)
    <2>1. PICK messages \in {<<>>, NewMessages} :
              PublishesAndCloses(t, Interrupt(Write(p, messages), run[t].streamed))
        BY <1>4 DEF Ask
    <2>2. Quiets(messages)
        <3>1. Frame("other", "") \in Frames /\ IsQuiet(Frame("other", ""))
            BY QuietFrame DEF Whats
        <3> DEFINE f == Frame("other", "")
        <3>2. f \in Frames /\ IsQuiet(f)
            BY <3>1
        <3> HIDE DEF f
        <3>3. Quiets(<<f, f>>)
            BY <3>2 DEF Quiets
        <3> QED  BY <3>3, QuietNone DEF f, NewMessages
    <2>3. Ends(p, Interrupt(Write(p, messages), run[t].streamed))
        BY <1>2, <2>2, InterruptEnds
    <2>4. pc[t] = "running" /\ Leaves(t)
        BY <1>4 DEF Ask
    <2> QED  BY <1>3, <2>1, <2>3, <2>4, CloseStep
<1>5. CASE Stamped(t)
    <2>1. pc[t] = "stamping" /\ PublishesAndCloses(t, p) /\ Leaves(t)
        BY <1>5 DEF Stamped
    <2>2. Ends(p, p)
        BY <1>2, <2>1 DEF Ends, Keeps, EndInv
    <2> QED  BY <1>2, <2>1, <2>2, CloseStep
<1>6. CASE GraphFails(t)
    <2> DEFINE q == FinalResult(p, run[t].streamed, TRUE)
    <2>1. pc[t] = "running" /\ Leaves(t) /\ PublishesAndCloses(t, q)
        BY <1>6 DEF GraphFails
    <2>2. Ends(p, q)
        BY <1>2, FinalEnds
    <2> HIDE DEF q
    <2> QED  BY <1>3, <2>1, <2>2, CloseStep
<1>7. CASE PrepareFails(t)
    <2>1. /\ pc[t] = "preparing" /\ Leaves(t)
          /\ PublishesAndCloses(t, Result(p, "error_during_execution"))
        BY <1>7 DEF PrepareFails, FailureOf
    <2>2. Ends(p, Result(p, "error_during_execution"))
        BY <1>2, ResultEnds DEF Subtypes
    <2> QED  BY <1>3, <2>1, <2>2, CloseStep
<1>8. CASE CancelRun(t)
    <2> DEFINE q == Result(TurnEnd(p, "cancelled", "cancelled"), "cancelled")
    <2>1. Leaves(t) /\ PublishesAndCloses(t, q)
        BY <1>8 DEF CancelRun
    <2>2. Ends(p, q) /\ Final(q.out)
        BY <1>2, StopEnds
    <2> QED  BY <1>1, <2>1, <2>2, CloseStep
<1>9. CASE CancelEarly(t)
    <2> DEFINE q == Result(p, "cancelled")
    <2>1. Leaves(t) /\ PublishesAndCloses(t, q)
        BY <1>9 DEF CancelEarly
    <2>2. Ends(p, q) /\ Final(q.out)
        BY <1>2, ResultEnds DEF Subtypes
    <2> QED  BY <1>1, <2>1, <2>2, CloseStep
<1> QED  BY <1>4, <1>5, <1>6, <1>7, <1>8, <1>9

LEMMA OtherStep ==
    ASSUME OwnInv, EndInv,
           \/ \E r \in Requests : HandleMessage(r) \/ Start(r) \/ Acquire(r) \/ CancelUnstarted(r)
           \/ \E w \in Wakes : WakeBegins(w)
           \/ \E t \in Turns : FirstCommit(t)
           \/ MinutePasses
           \/ UNCHANGED vars
    PROVE  OwnInv' /\ EndInv'
<1>1. UNCHANGED <<pubs, run>>
    BY DEF HandleMessage, Start, Acquire, CancelUnstarted, Leaves, WakeBegins, FirstCommit,
           MinutePasses, vars
<1>2. OwnInv'
    BY <1>1, OwnOther
<1>3. \A t \in Turns : /\ pc'[t] = "stamping" <=> pc[t] = "stamping"
                       /\ pc[t] \in {"stamping", "ended"} => pc'[t] = pc[t] /\ pub'[t] = pub[t]
                       /\ pc'[t] = "ended" /\ pc[t] # "ended" => pub'[t] = None
                       /\ pub[t] # None => pub'[t] = pub[t]
    <2> Requests \subseteq Turns /\ Wakes \subseteq Turns
        BY DEF Turns
    <2>1. ASSUME NEW r \in Requests, HandleMessage(r) \/ Start(r) \/ Acquire(r) \/ CancelUnstarted(r)
          PROVE  <1>3!:
        BY <2>1 DEF HandleMessage, Start, Acquire, CancelUnstarted, Leaves, OwnInv
    <2>2. ASSUME NEW w \in Wakes, WakeBegins(w)
          PROVE  <1>3!:
        BY <2>2 DEF WakeBegins, OwnInv
    <2>3. ASSUME MinutePasses \/ UNCHANGED vars \/ \E t \in Turns : FirstCommit(t)
          PROVE  <1>3!:
        BY <2>3 DEF MinutePasses, FirstCommit, vars
    <2> QED  BY <2>1, <2>2, <2>3
<1>4. EndInv'
    BY <1>1, <1>3, EndOther
<1> QED  BY <1>2, <1>4

LEMMA StreamSteps == OwnInv /\ EndInv /\ [Next]_vars => (OwnInv /\ EndInv)'
<1> SUFFICES ASSUME OwnInv, EndInv, [Next]_vars PROVE OwnInv' /\ EndInv'
    OBVIOUS
<1>1. ASSUME NEW t \in Turns, Begin(t) \/ GraphEvent(t) \/ Finish(t) PROVE OwnInv' /\ EndInv'
    BY <1>1, ContinueStep
<1>2. ASSUME NEW t \in Turns,
             Ask(t) \/ Stamped(t) \/ GraphFails(t) \/ PrepareFails(t) \/ CancelRun(t) \/ CancelEarly(t)
      PROVE  OwnInv' /\ EndInv'
    BY <1>2, LastStep
<1> QED  BY <1>1, <1>2, OtherStep DEF Next, Step

LEMMA StreamInv == Spec => [](OwnInv /\ EndInv)
<1>1. Init => OwnInv /\ EndInv
    BY OwnStarts, EndStarts
<1> QED  BY <1>1, StreamSteps, PTL DEF Spec

LEMMA OutSequences == OwnInv => \A o \in Turns : DOMAIN pubs[o].out = 1..Len(pubs[o].out)
BY DEF OwnInv, Record

\* A client that stops at a terminal event has the result it closes, for any
\* interleaving of turns, stops and exceptions (publish_turn_end).
THEOREM ResultFirst == Spec => []ResultBeforeTerminal
<1>1. OwnInv /\ EndInv => ResultBeforeTerminal
    BY OutSequences DEF EndInv, Closing, ResultBeforeTerminal
<1> QED  BY <1>1, StreamInv, PTL

\* No question, reply or error follows a terminal event of its publisher, for
\* any number of turns that share one (the lock of the session, close).
THEOREM NothingNew == Spec => []NothingNewAfterTerminal
<1>1. OwnInv /\ EndInv => NothingNewAfterTerminal
    BY OutSequences DEF EndInv, Final, NothingNewAfterTerminal
<1> QED  BY <1>1, StreamInv, PTL

\* A turn that has a publisher of its own never ends without a result on it.
THEOREM EndsSaid == Spec => []EndedTurnsSaySo
<1>1. OwnInv /\ EndInv => EndedTurnsSaySo
    <2> SUFFICES ASSUME OwnInv, EndInv, NEW t \in Turns,
                        pc[t] = "ended", pub[t] # None,
                        \A u \in Turns \ {t} : pub[u] # pub[t]
                 PROVE  \E i \in DOMAIN pubs[pub[t]].out : pubs[pub[t]].out[i].what = "result"
        BY DEF EndedTurnsSaySo
    <2>1. Said(pubs[pub[t]].out)
        BY DEF EndInv
    <2>2. pub[t] \in Turns
        BY DEF OwnInv
    <2> QED  BY <2>1, <2>2, OutSequences DEF Said
<1> QED  BY <1>1, StreamInv, PTL

-----------------------------------------------------------------------------
(* The text of a message *)

\* Before position i of s a text block, or a message, is open.
BlockOpen(s, i) ==
    \E j \in 1..(i - 1) :
        /\ s[j] = Frame("block-start", "text")
        /\ \A k \in (j + 1)..(i - 1) : s[k].what \notin {"block-finish", "message-finish"}

MessageOpen(s, i) ==
    \E j \in 1..(i - 1) :
        /\ s[j].what = "message-start"
        /\ \A k \in (j + 1)..(i - 1) : s[k].what # "message-finish"

Deltas(s) ==
    \A i \in 1..Len(s) : s[i].what = "delta" => BlockOpen(s, i) /\ MessageOpen(s, i)

\* An open publisher remembers what is open at the end of what it wrote.
Tidy(p) ==
    /\ Record(p)
    /\ Deltas(p.out)
    /\ ~p.closed => /\ p.block => BlockOpen(p.out, Len(p.out) + 1)
                    /\ p.message => MessageOpen(p.out, Len(p.out) + 1)

TextInv == \A o \in Turns : Tidy(pubs[o])

\* Frames among whats only.
Only(u, whats) == u \in Seq(Frames) /\ \A i \in 1..Len(u) : u[i].what \in whats

LEMMA OpenGrows ==
    ASSUME NEW a \in Seq(Frames), NEW b, Grows(a, b), NEW i \in 1..(Len(a) + 1)
    PROVE  /\ BlockOpen(a, i) <=> BlockOpen(b, i)
           /\ MessageOpen(a, i) <=> MessageOpen(b, i)
<1>1. \A j \in 1..(i - 1) : b[j] = a[j]
    BY DEF Grows
<1>2. \A j \in 1..(i - 1) : \A k \in (j + 1)..(i - 1) : k \in 1..(i - 1)
    OBVIOUS
<1>3. BlockOpen(a, i) <=> BlockOpen(b, i)
    BY <1>1, <1>2 DEF BlockOpen
<1>4. MessageOpen(a, i) <=> MessageOpen(b, i)
    BY <1>1, <1>2 DEF MessageOpen
<1> QED  BY <1>3, <1>4

LEMMA StaysOpen ==
    ASSUME NEW s \in Seq(Frames), NEW i \in 1..(Len(s) + 1), NEW j \in i..(Len(s) + 1)
    PROVE  /\ /\ BlockOpen(s, i)
              /\ \A k \in i..(j - 1) : s[k].what \notin {"block-finish", "message-finish"}
              => BlockOpen(s, j)
           /\ /\ MessageOpen(s, i)
              /\ \A k \in i..(j - 1) : s[k].what # "message-finish"
              => MessageOpen(s, j)
<1>1. ASSUME BlockOpen(s, i),
             \A k \in i..(j - 1) : s[k].what \notin {"block-finish", "message-finish"}
      PROVE  BlockOpen(s, j)
    <2>1. PICK m \in 1..(i - 1) :
              /\ s[m] = Frame("block-start", "text")
              /\ \A k \in (m + 1)..(i - 1) : s[k].what \notin {"block-finish", "message-finish"}
        BY <1>1 DEF BlockOpen
    <2>2. m \in 1..(j - 1)
        OBVIOUS
    <2>3. \A k \in (m + 1)..(j - 1) : k \in (m + 1)..(i - 1) \/ k \in i..(j - 1)
        OBVIOUS
    <2> QED  BY <1>1, <2>1, <2>2, <2>3 DEF BlockOpen
<1>2. ASSUME MessageOpen(s, i), \A k \in i..(j - 1) : s[k].what # "message-finish"
      PROVE  MessageOpen(s, j)
    <2>1. PICK m \in 1..(i - 1) :
              /\ s[m].what = "message-start"
              /\ \A k \in (m + 1)..(i - 1) : s[k].what # "message-finish"
        BY <1>2 DEF MessageOpen
    <2>2. m \in 1..(j - 1)
        OBVIOUS
    <2>3. \A k \in (m + 1)..(j - 1) : k \in (m + 1)..(i - 1) \/ k \in i..(j - 1)
        OBVIOUS
    <2> QED  BY <1>2, <2>1, <2>2, <2>3 DEF MessageOpen
<1> QED  BY <1>1, <1>2

\* Frames without a delta keep every delta where it can be read.
LEMMA AppendOther ==
    ASSUME NEW a \in Seq(Frames), Deltas(a), NEW u, Only(u, Whats \ {"delta"})
    PROVE  /\ a \o u \in Seq(Frames)
           /\ Deltas(a \o u)
           /\ /\ BlockOpen(a, Len(a) + 1)
              /\ \A i \in 1..Len(u) : u[i].what \notin {"block-finish", "message-finish"}
              => BlockOpen(a \o u, Len(a \o u) + 1)
           /\ /\ MessageOpen(a, Len(a) + 1)
              /\ \A i \in 1..Len(u) : u[i].what # "message-finish"
              => MessageOpen(a \o u, Len(a \o u) + 1)
<1> DEFINE b == a \o u
<1>1. u \in Seq(Frames) /\ \A i \in 1..Len(u) : u[i].what # "delta"
    BY DEF Only
<1>2. b \in Seq(Frames) /\ Grows(a, b) /\ Len(b) = Len(a) + Len(u)
      /\ \A i \in 1..Len(u) : b[Len(a) + i] = u[i]
    BY <1>1, Appending
<1> HIDE DEF b
<1>3. \A k \in (Len(a) + 1)..Len(b) : k - Len(a) \in 1..Len(u) /\ b[k] = u[k - Len(a)]
    <2> TAKE k \in (Len(a) + 1)..Len(b)
    <2>1. k - Len(a) \in 1..Len(u) /\ k = Len(a) + (k - Len(a))
        BY <1>1, <1>2
    <2> QED  BY <1>2, <2>1
<1>4. Deltas(b)
    <2> SUFFICES ASSUME NEW i \in 1..Len(b), b[i].what = "delta"
                 PROVE  BlockOpen(b, i) /\ MessageOpen(b, i)
        BY DEF Deltas
    <2>1. i \in 1..Len(a)
        BY <1>1, <1>2, <1>3, SMTT(60)
    <2>2. a[i].what = "delta"
        BY <1>2, <2>1 DEF Grows
    <2>3. BlockOpen(a, i) /\ MessageOpen(a, i)
        BY <2>1, <2>2 DEF Deltas
    <2>4. i \in 1..(Len(a) + 1)
        BY <2>1
    <2> QED  BY <1>2, <2>3, <2>4, OpenGrows
<1>5. Len(a) + 1 \in 1..(Len(a) + 1) /\ Len(a) + 1 \in 1..(Len(b) + 1)
      /\ Len(b) + 1 \in (Len(a) + 1)..(Len(b) + 1) /\ (Len(b) + 1) - 1 = Len(b)
    BY <1>1, <1>2
<1>6. /\ BlockOpen(a, Len(a) + 1) => BlockOpen(b, Len(a) + 1)
      /\ MessageOpen(a, Len(a) + 1) => MessageOpen(b, Len(a) + 1)
    BY <1>2, <1>5, OpenGrows
<1>7. ASSUME BlockOpen(a, Len(a) + 1),
             \A i \in 1..Len(u) : u[i].what \notin {"block-finish", "message-finish"}
      PROVE  BlockOpen(b, Len(b) + 1)
    <2>1. \A k \in (Len(a) + 1)..((Len(b) + 1) - 1) :
              b[k].what \notin {"block-finish", "message-finish"}
        BY <1>3, <1>5, <1>7
    <2> QED  BY <1>2, <1>5, <1>6, <1>7, <2>1, StaysOpen
<1>8. ASSUME MessageOpen(a, Len(a) + 1), \A i \in 1..Len(u) : u[i].what # "message-finish"
      PROVE  MessageOpen(b, Len(b) + 1)
    <2>1. \A k \in (Len(a) + 1)..((Len(b) + 1) - 1) : b[k].what # "message-finish"
        BY <1>3, <1>5, <1>8
    <2> QED  BY <1>2, <1>5, <1>6, <1>8, <2>1, StaysOpen
<1> QED  BY <1>2, <1>4, <1>7, <1>8 DEF b

\* An operation that writes no delta, and remembers as open what it leaves open.
LEMMA TidyOther ==
    ASSUME NEW p, Tidy(p), NEW u, Only(u, Whats \ {"delta"}), NEW q,
           q.closed <=> p.closed, q.out = Write(p, u).out,
           q.block => /\ p.block
                      /\ \A i \in 1..Len(u) : u[i].what \notin {"block-finish", "message-finish"},
           q.message => p.message /\ \A i \in 1..Len(u) : u[i].what # "message-finish"
    PROVE  Tidy(q)
<1>1. p.out \in Seq(Frames) /\ Deltas(p.out)
    BY DEF Tidy, Record
<1>2. CASE p.closed
    <2>1. q.out = p.out
        BY <1>2, WriteClosed
    <2> QED  BY <1>1, <1>2, <2>1 DEF Tidy, Record
<1>3. CASE ~p.closed
    <2>1. q.out = p.out \o u
        BY <1>3, WriteClosed
    <2> DEFINE a == p.out
               b == a \o u
    <2>2. /\ p.block => BlockOpen(a, Len(a) + 1)
          /\ p.message => MessageOpen(a, Len(a) + 1)
        BY <1>3 DEF Tidy
    <2> HIDE DEF a
    <2>3. a \in Seq(Frames) /\ Deltas(a) /\ q.out = b
        BY <1>1, <2>1 DEF a
    <2>4. /\ b \in Seq(Frames)
          /\ Deltas(b)
          /\ q.block => BlockOpen(b, Len(b) + 1)
          /\ q.message => MessageOpen(b, Len(b) + 1)
        BY <2>2, <2>3, AppendOther
    <2> HIDE DEF b
    <2> QED  BY <2>3, <2>4 DEF Tidy, Record
<1> QED  BY <1>2, <1>3

LEMMA TidyWrite ==
    ASSUME NEW p, Tidy(p), NEW u,
           Only(u, Whats \ {"delta", "block-finish", "message-finish"})
    PROVE  Tidy(Write(p, u))
<1> DEFINE q == Write(p, u)
<1>1. Only(u, Whats \ {"delta"})
      /\ \A i \in 1..Len(u) : u[i].what \notin {"block-finish", "message-finish"}
    BY DEF Only
<1>2. (q.closed <=> p.closed) /\ (q.block <=> p.block) /\ (q.message <=> p.message)
    BY Zenon DEF Write
<1> QED  BY <1>1, <1>2, TidyOther

\* The frames the operations write.
LEMMA FrameWhat ==
    ASSUME NEW what \in Whats, NEW detail \in {"", "text", "tool"} \cup Subtypes \cup Outcomes
    PROVE  Frame(what, detail) \in Frames /\ Frame(what, detail).what = what
BY DEF Frame, Frames

LEMMA OnlyOne ==
    ASSUME NEW f \in Frames, NEW whats, f.what \in whats
    PROVE  Only(<<f>>, whats)
BY DEF Only

LEMMA OnlyTwo ==
    ASSUME NEW f \in Frames, NEW g \in Frames, NEW whats, f.what \in whats, g.what \in whats
    PROVE  Only(<<f, g>>, whats)
BY DEF Only

LEMMA FrameOnly ==
    ASSUME NEW what \in Whats, NEW detail \in {"", "text", "tool"} \cup Subtypes \cup Outcomes,
           NEW whats, what \in whats
    PROVE  Only(<<Frame(what, detail)>>, whats)
<1>1. Frame(what, detail) \in Frames /\ Frame(what, detail).what \in whats
    BY FrameWhat
<1> QED  BY <1>1, OnlyOne

LEMMA OnlyNone == ASSUME NEW whats PROVE Only(<<>>, whats)
BY DEF Only

LEMMA OnlyConcat ==
    ASSUME NEW s, NEW u, NEW whats, Only(s, whats), Only(u, whats)
    PROVE  Only(s \o u, whats)
BY DEF Only

\* Deltas go where the block and the message that publish_stream_event_text
\* opened, or found open, are.
LEMMA TidyText ==
    ASSUME NEW p, Tidy(p)
    PROVE  Tidy(StreamText(p))
<1> DEFINE f == Frame("message-start", "")
           g == Frame("block-start", "text")
           d == Frame("delta", "text")
           m == OpenMessage(p)
           k == OpenBlock(p)
           u == m \o k \o <<d>>
           q == StreamText(p)
           a == p.out
           b == a \o m
           c == b \o k
           e == c \o <<d>>
<1>1. /\ f \in Frames /\ f.what = "message-start"
      /\ g \in Frames /\ g.what = "block-start"
      /\ d \in Frames /\ d.what = "delta"
    BY FrameWhat DEF Whats
<1>2. g = Frame("block-start", "text")
    OBVIOUS
<1>3. m = IF p.message THEN <<>> ELSE <<f>>
    BY DEF OpenMessage
<1>4. k = IF p.block THEN <<>> ELSE <<g>>
    BY DEF OpenBlock
<1>5. q.out = Write(p, u).out /\ (q.closed <=> p.closed)
    <2> HIDE DEF u
    <2>1. StreamText(p) = Flags(Write(p, u), TRUE, TRUE)
        BY DEF StreamText, u
    <2>2. q = Flags(Write(p, u), TRUE, TRUE)
        BY <2>1
    <2> HIDE DEF q
    <2> QED  BY <2>2, Zenon DEF Flags, Write
<1>6. a \in Seq(Frames) /\ Deltas(a)
    BY DEF Tidy, Record
<1> HIDE DEF f, g, d, q
<1>7. CASE p.closed
    <2> HIDE DEF u
    <2>1. q.out = a
        BY <1>5, <1>7, WriteClosed
    <2>2. Tidy(q)
        BY <1>5, <1>6, <1>7, <2>1 DEF Tidy, Record
    <2> QED  BY <2>2 DEF q
<1>8. CASE ~p.closed
    <2>1. /\ p.block => BlockOpen(a, Len(a) + 1)
          /\ p.message => MessageOpen(a, Len(a) + 1)
        BY <1>8 DEF Tidy
    <2> HIDE DEF a, m, k
    <2>2. m \in Seq(Frames) /\ k \in Seq(Frames) /\ <<d>> \in Seq(Frames)
        BY <1>1, <1>3, <1>4
    <2>3. a \o u = e /\ b \in Seq(Frames)
        BY <1>6, <2>2, ConcatAssociative, ConcatProperties
    <2>4. q.out = e
        <3>1. Write(p, u).out = p.out \o u
            BY <1>8, WriteClosed
        <3> QED  BY <1>5, <2>3, <3>1 DEF a
    <2>5. Deltas(b) /\ MessageOpen(b, Len(b) + 1) /\ (p.block => BlockOpen(b, Len(b) + 1))
        <3>1. CASE p.message
            <4>1. b = a
                BY <3>1, <1>3, <1>6, ConcatEmptySeq
            <4> QED  BY <3>1, <4>1, <1>6, <2>1
        <3>2. CASE ~p.message
            <4>1. m = <<f>> /\ Only(<<f>>, Whats \ {"delta"})
                BY <3>2, <1>1, <1>3, OnlyOne DEF Whats
            <4>2. Deltas(b) /\ (p.block => BlockOpen(b, Len(b) + 1))
                <5>1. \A i \in 1..Len(<<f>>) :
                          <<f>>[i].what \notin {"block-finish", "message-finish"}
                    BY <1>1
                <5> QED  BY <4>1, <5>1, <1>6, <2>1, AppendOther
            <4>3. Len(b) = Len(a) + 1 /\ b[Len(b)] = f /\ Len(b) \in 1..Len(b)
                BY <4>1, <1>1, <1>6
            <4>4. MessageOpen(b, Len(b) + 1)
                BY <4>3, <1>1, <1>6 DEF MessageOpen
            <4> QED  BY <4>2, <4>4
        <3> QED  BY <3>1, <3>2
    <2> HIDE DEF b
    <2>6. Deltas(c) /\ MessageOpen(c, Len(c) + 1) /\ BlockOpen(c, Len(c) + 1) /\ c \in Seq(Frames)
        <3>1. CASE p.block
            <4>1. c = b
                BY <3>1, <1>4, <2>3, ConcatEmptySeq
            <4> QED  BY <3>1, <4>1, <2>3, <2>5
        <3>2. CASE ~p.block
            <4>1. k = <<g>> /\ Only(<<g>>, Whats \ {"delta"})
                BY <3>2, <1>1, <1>4, OnlyOne DEF Whats
            <4>2. Deltas(c) /\ MessageOpen(c, Len(c) + 1) /\ c \in Seq(Frames)
                <5>1. \A i \in 1..Len(<<g>>) : <<g>>[i].what # "message-finish"
                    BY <1>1
                <5> QED  BY <4>1, <5>1, <2>3, <2>5, AppendOther
            <4>3. Len(c) = Len(b) + 1 /\ c[Len(c)] = g /\ Len(c) \in 1..Len(c)
                BY <4>1, <1>1, <2>3
            <4>4. BlockOpen(c, Len(c) + 1)
                BY <4>3, <2>3 DEF BlockOpen, g
            <4> QED  BY <4>2, <4>4
        <3> QED  BY <3>1, <3>2
    <2> HIDE DEF c
    <2>7. /\ e \in Seq(Frames) /\ Grows(c, e)
          /\ Len(e) = Len(c) + 1 /\ e[Len(c) + 1] = d
        <3>1. Grows(c, e)
            BY <2>2, <2>6, Appending
        <3>2. e \in Seq(Frames)
            BY <2>2, <2>6
        <3>3. Len(e) = Len(c) + 1 /\ e[Len(c) + 1] = d
            BY <1>1, <2>6
        <3> QED  BY <3>1, <3>2, <3>3
    <2> HIDE DEF e
    <2>8. /\ BlockOpen(e, Len(c) + 1) /\ MessageOpen(e, Len(c) + 1)
          /\ \A i \in 1..Len(c) : BlockOpen(c, i) /\ MessageOpen(c, i) =>
                                  BlockOpen(e, i) /\ MessageOpen(e, i)
        <3>1. Len(c) + 1 \in 1..(Len(c) + 1) /\ \A i \in 1..Len(c) : i \in 1..(Len(c) + 1)
            BY <2>6
        <3> QED  BY <3>1, <2>6, <2>7, OpenGrows
    <2>9. Deltas(e)
        <3> SUFFICES ASSUME NEW i \in 1..Len(e), e[i].what = "delta"
                     PROVE  BlockOpen(e, i) /\ MessageOpen(e, i)
            BY DEF Deltas
        <3>1. CASE i = Len(c) + 1
            BY <3>1, <2>8
        <3>2. CASE i # Len(c) + 1
            <4>1. i \in 1..Len(c)
                BY <3>2, <2>6, <2>7
            <4>2. c[i].what = "delta"
                BY <4>1, <2>7 DEF Grows
            <4>3. BlockOpen(c, i) /\ MessageOpen(c, i)
                BY <4>1, <4>2, <2>6 DEF Deltas
            <4> QED  BY <4>1, <4>3, <2>8
        <3> QED  BY <3>1, <3>2
    <2>10. BlockOpen(e, Len(e) + 1) /\ MessageOpen(e, Len(e) + 1)
        <3>1. /\ Len(c) + 1 \in 1..(Len(e) + 1) /\ Len(e) + 1 \in (Len(c) + 1)..(Len(e) + 1)
              /\ \A i \in (Len(c) + 1)..((Len(e) + 1) - 1) : i = Len(c) + 1
            BY <2>6, <2>7
        <3>2. \A i \in (Len(c) + 1)..((Len(e) + 1) - 1) :
                  e[i].what \notin {"block-finish", "message-finish"}
            BY <3>1, <2>7, <1>1
        <3> QED  BY <3>1, <3>2, <2>7, <2>8, StaysOpen
    <2>11. Tidy(q)
        BY <2>4, <2>7, <2>9, <2>10 DEF Tidy, Record
    <2> QED  BY <2>11 DEF q
<1> QED  BY <1>7, <1>8

LEMMA ToolsOnly ==
    ASSUME NEW calls \in Nat
    PROVE  Only(Repeat(ToolFrames, calls), {"block-start", "block-finish", "other"})
<1> DEFINE whats == {"block-start", "block-finish", "other"}
           x == Frame("block-start", "tool")
           y == Frame("block-finish", "tool")
           z == Frame("other", "")
           n == calls * 3
           f(i) == ToolFrames[((i - 1) % 3) + 1]
<1>1. /\ x \in Frames /\ y \in Frames /\ z \in Frames
      /\ x.what \in whats /\ y.what \in whats /\ z.what \in whats
    BY FrameWhat DEF Whats
<1>2. ToolFrames = <<x, y, z>>
    BY DEF ToolFrames
<1> HIDE DEF x, y, z
<1>3. ToolFrames \in Seq(Frames) /\ Len(ToolFrames) = 3
      /\ \A i \in 1..3 : ToolFrames[i] \in Frames /\ ToolFrames[i].what \in whats
    BY <1>1, <1>2
<1>4. n \in Nat /\ \A i \in 1..n : ((i - 1) % 3) + 1 \in 1..3
    OBVIOUS
<1>5. Repeat(ToolFrames, calls) = [i \in 1..n |-> f(i)]
    BY <1>3 DEF Repeat
<1>6. \A i \in 1..n : f(i) \in Frames /\ f(i).what \in whats
    BY <1>3, <1>4
<1> HIDE DEF n, f, whats
<1>7. Repeat(ToolFrames, calls) \in Seq(Frames) /\ Len(Repeat(ToolFrames, calls)) = n
    BY <1>4, <1>5, <1>6
<1>8. Only(Repeat(ToolFrames, calls), whats)
    BY <1>4, <1>5, <1>6, <1>7 DEF Only
<1> QED  BY <1>8 DEF whats

LEMMA OnlyMore ==
    ASSUME NEW u, NEW whats, NEW more, Only(u, whats), whats \subseteq more
    PROVE  Only(u, more)
BY DEF Only

LEMMA FinishOnly ==
    ASSUME NEW p
    PROVE  /\ Only(FinishBlock(p), {"block-finish"})
           /\ ~p.block => FinishBlock(p) = <<>>
<1>1. Frame("block-finish", "text") \in Frames
      /\ Frame("block-finish", "text").what = "block-finish"
    BY FrameWhat DEF Whats
<1>2. Only(<<Frame("block-finish", "text")>>, {"block-finish"})
    BY <1>1, OnlyOne
<1> QED  BY <1>2, OnlyNone DEF FinishBlock

\* publish_assistant leaves the message open, and no block.
LEMMA TidyAssistant ==
    ASSUME NEW p, Tidy(p), NEW calls \in Nat
    PROVE  Tidy(Assistant(p, calls))
<1> DEFINE u == FinishBlock(p) \o Repeat(ToolFrames, calls)
           q == Assistant(p, calls)
<1>1. Only(u, {"block-start", "block-finish", "other"})
    <2>1. Only(FinishBlock(p), {"block-start", "block-finish", "other"})
        BY FinishOnly, OnlyMore
    <2> QED  BY <2>1, ToolsOnly, OnlyConcat
<1> HIDE DEF u
<1>2. Only(u, Whats \ {"delta"}) /\ \A i \in 1..Len(u) : u[i].what # "message-finish"
    BY <1>1 DEF Only, Whats
<1>3. q = Flags(Write(p, u), p.message, FALSE)
    BY DEF Assistant, u
<1> HIDE DEF q
<1>4. /\ q.out = Write(p, u).out /\ (q.closed <=> p.closed)
      /\ ~q.block /\ (q.message <=> p.message)
    BY <1>3, Zenon DEF Flags, Write
<1>5. Tidy(q)
    BY <1>2, <1>4, TidyOther
<1> QED  BY <1>5 DEF q

\* publish_message_finish and publish_result leave nothing open.
LEMMA TidyMessageFinish ==
    ASSUME NEW p, Tidy(p)
    PROVE  Tidy(MessageFinish(p))
<1> DEFINE finish == IF p.message THEN <<Frame("message-finish", "")>> ELSE <<>>
           u == FinishBlock(p) \o finish
           q == MessageFinish(p)
<1>1. Only(u, {"block-finish", "message-finish"})
    <2>1. Only(FinishBlock(p), {"block-finish", "message-finish"})
        BY FinishOnly, OnlyMore
    <2>2. Only(<<Frame("message-finish", "")>>, {"block-finish", "message-finish"})
        BY FrameOnly DEF Whats
    <2>3. Only(finish, {"block-finish", "message-finish"})
        BY <2>2, OnlyNone
    <2> QED  BY <2>1, <2>3, OnlyConcat
<1>2. q = Flags(Write(p, u), FALSE, FALSE)
    BY DEF MessageFinish
<1> HIDE DEF u, q
<1>3. Only(u, Whats \ {"delta"})
    BY <1>1, OnlyMore DEF Whats
<1>4. q.out = Write(p, u).out /\ (q.closed <=> p.closed) /\ ~q.block /\ ~q.message
    BY <1>2, Zenon DEF Flags, Write
<1>5. Tidy(q)
    BY <1>3, <1>4, TidyOther
<1> QED  BY <1>5 DEF q

LEMMA TidyResult ==
    ASSUME NEW p, Tidy(p), NEW subtype \in Subtypes
    PROVE  Tidy(Result(p, subtype))
<1> DEFINE u == <<Frame("message-finish", ""), Frame("result", subtype)>>
           q == Result(p, subtype)
<1>1. Only(u, Whats \ {"delta"})
    <2>1. /\ Frame("message-finish", "") \in Frames
          /\ Frame("message-finish", "").what \in Whats \ {"delta"}
          /\ Frame("result", subtype) \in Frames
          /\ Frame("result", subtype).what \in Whats \ {"delta"}
        BY FrameWhat DEF Whats
    <2> QED  BY <2>1, OnlyTwo
<1> HIDE DEF u
<1>2. q.out = Write(p, u).out /\ (q.closed <=> p.closed) /\ ~q.block /\ ~q.message
    <2>1. q = [closed |-> p.closed, awaiting |-> subtype = "interrupted", message |-> FALSE,
               block |-> FALSE, out |-> Write(p, u).out]
        BY DEF Result, u
    <2> HIDE DEF q
    <2> QED  BY <2>1, Zenon
<1>3. Tidy(q)
    BY <1>1, <1>2, TidyOther
<1> QED  BY <1>3

LEMMA TidyTurnEnd ==
    ASSUME NEW p, Tidy(p), NEW subtype \in Subtypes, NEW outcome \in Outcomes
    PROVE  Tidy(TurnEnd(p, subtype, outcome))
<1> DEFINE whats == Whats \ {"delta", "block-finish", "message-finish"}
<1>1. Only(<<Frame("terminal", outcome)>>, whats)
    <2>1. "terminal" \in Whats /\ "terminal" \in whats
        BY DEF Whats
    <2> HIDE DEF whats
    <2> QED  BY <2>1, FrameOnly
<1>2. Tidy(Result(p, subtype))
    BY TidyResult
<1> QED  BY <1>1, <1>2, TidyWrite DEF TurnEnd

LEMMA TidyOthers ==
    ASSUME NEW p, Tidy(p)
    PROVE  /\ Tidy(Write(p, <<>>))
           /\ Tidy(Write(p, <<Frame("started", "")>>))
           /\ Tidy(Write(p, <<Frame("other", "")>>))
           /\ Tidy(Write(p, NewMessages))
<1> DEFINE whats == Whats \ {"delta", "block-finish", "message-finish"}
<1>1. Only(<<>>, whats)
    BY OnlyNone
<1>2. Only(<<Frame("started", "")>>, whats) /\ Only(<<Frame("other", "")>>, whats)
    <2>1. /\ "started" \in Whats /\ "started" \in whats
          /\ "other" \in Whats /\ "other" \in whats
        BY DEF Whats
    <2> HIDE DEF whats
    <2> QED  BY <2>1, FrameOnly
<1>3. Only(NewMessages, whats)
    <2> DEFINE f == Frame("other", "")
    <2>1. f \in Frames /\ f.what \in whats
        BY FrameWhat DEF Whats
    <2> HIDE DEF f, whats
    <2>2. Only(<<f, f>>, whats)
        BY <2>1, OnlyTwo
    <2> QED  BY <2>2 DEF f, NewMessages
<1> QED  BY <1>1, <1>2, <1>3, TidyWrite

LEMMA TidyEnds ==
    ASSUME NEW p, Tidy(p), NEW streamed, NEW isError
    PROVE  /\ Tidy(Interrupt(p, streamed))
           /\ Tidy(FinalResult(p, streamed, isError))
           /\ Tidy(Result(TurnEnd(p, "cancelled", "cancelled"), "cancelled"))
           /\ Tidy(Result(p, "cancelled"))
           /\ Tidy(FailureOf(p))
<1> DEFINE s == IF streamed THEN Assistant(p, 0) ELSE p
<1>1. Tidy(s)
    BY TidyAssistant
<1> HIDE DEF s
<1>2. Tidy(MessageFinish(s)) /\ Tidy(MessageFinish(p))
    BY <1>1, TidyMessageFinish
<1>3. /\ Tidy(TurnEnd(s, "interrupted", "completed"))
      /\ Tidy(TurnEnd(MessageFinish(s), "success", "completed"))
      /\ Tidy(TurnEnd(MessageFinish(p), "error_during_execution", "failed"))
      /\ Tidy(TurnEnd(p, "cancelled", "cancelled"))
    BY <1>1, <1>2, TidyTurnEnd DEF Subtypes, Outcomes
<1>4. Tidy(Result(TurnEnd(p, "cancelled", "cancelled"), "cancelled"))
    BY <1>3, TidyResult DEF Subtypes
<1>5. Tidy(Result(p, "cancelled")) /\ Tidy(FailureOf(p))
    BY TidyResult DEF Subtypes, FailureOf
<1> QED  BY <1>3, <1>4, <1>5 DEF Interrupt, FinalResult, s

LEMMA TidyClosed ==
    ASSUME NEW p, Tidy(p)
    PROVE  Tidy(Closed(p))
<1>1. Closed(p).closed /\ Closed(p).out = p.out
    BY Zenon DEF Closed
<1> QED  BY <1>1 DEF Tidy, Record

\* Every step leaves the publishers alone, or takes the one a turn writes to to
\* what one of the operations makes of it.
LEMMA TextStep ==
    ASSUME OwnInv, TextInv, [Next]_vars
    PROVE  TextInv'
<1>1. ASSUME NEW t \in Turns, NEW q, pub[t] \in Turns => Tidy(q),
             pc[t] \in {"waiting", "preparing", "running", "stamping"},
             pubs' = [pubs EXCEPT ![pub[t]] = q]
      PROVE  TextInv'
    <2>1. pub[t] \in Turns /\ Tidy(q)
        BY <1>1 DEF OwnInv
    <2>2. \A o \in Turns : pubs'[o] = IF o = pub[t] THEN q ELSE pubs[o]
        BY <1>1 DEF OwnInv
    <2>3. \A o \in Turns : Tidy(pubs'[o])
        BY <2>1, <2>2 DEF TextInv
    <2> QED  BY <2>3 DEF TextInv, Tidy, Record
<1>2. ASSUME UNCHANGED pubs PROVE TextInv'
    BY <1>2 DEF TextInv, Tidy, Record
<1>3. ASSUME NEW t \in Turns, GraphEvent(t) PROVE TextInv'
    <2> DEFINE p == pubs[pub[t]]
    <2>1. pc[t] = "running"
        BY <1>3, EventStep
    <2>2. pub[t] \in Turns /\ run[t].calls \in Nat
        BY <2>1 DEF OwnInv
    <2>3. Tidy(p)
        BY <2>2 DEF TextInv
    <2>4. ASSUME NEW q, Tidy(q), NEW streamed, NEW calls, Handles(t, q, streamed, calls)
          PROVE  TextInv'
        BY <1>1, <2>1, <2>4 DEF Handles, Publishes
    <2>5. /\ Tidy(StreamText(p))
          /\ Tidy(MessageFinish(p)) /\ Tidy(MessageFinish(Assistant(p, run[t].calls)))
          /\ Tidy(Write(p, <<Frame("other", "")>>)) /\ Tidy(Write(p, NewMessages))
        BY <2>2, <2>3, TidyText, TidyMessageFinish, TidyAssistant, TidyOthers
    <2>6. CASE RootText(t) \/ SubagentText(t)
        BY <2>4, <2>5, <2>6 DEF RootText, SubagentText
    <2>7. CASE RootToolCall(t)
        BY <2>3, <2>4, <2>7 DEF RootToolCall
    <2>8. CASE RootMessageFinish(t)
        BY <2>4, <2>5, <2>8 DEF RootMessageFinish
    <2>9. CASE RootTool(t) \/ SubagentLifecycle(t) \/ RootValues(t)
        BY <2>4, <2>5, <2>9 DEF RootTool, SubagentLifecycle, RootValues, Others
    <2> QED  BY <1>3, <2>6, <2>7, <2>8, <2>9 DEF GraphEvent
<1>4. ASSUME NEW t \in Turns, Begin(t) \/ Finish(t) PROVE TextInv'
    <2>1. pc[t] \in {"preparing", "running"}
        BY <1>4 DEF Begin, Finish
    <2>2. pub[t] \in Turns => Tidy(pubs[pub[t]])
        BY DEF TextInv
    <2>3. pub[t] \in Turns => /\ Tidy(Write(pubs[pub[t]], <<Frame("started", "")>>))
                              /\ Tidy(FinalResult(pubs[pub[t]], run[t].streamed, FALSE))
        BY <2>2, TidyOthers, TidyEnds
    <2> QED  BY <1>1, <1>4, <2>1, <2>3 DEF Begin, Finish, Publishes
<1>5. ASSUME NEW t \in Turns, NEW q, Tidy(pubs[pub[t]]) => Tidy(q),
             pc[t] \in {"waiting", "preparing", "running", "stamping"},
             PublishesAndCloses(t, q)
      PROVE  TextInv'
    <2>1. pub[t] \in Turns => Tidy(Closed(q))
        BY <1>5, TidyClosed DEF TextInv
    <2> QED  BY <1>1, <1>5, <2>1 DEF PublishesAndCloses
<1>6. ASSUME NEW t \in Turns,
             Ask(t) \/ Stamped(t) \/ GraphFails(t) \/ PrepareFails(t) \/ CancelRun(t) \/ CancelEarly(t)
      PROVE  TextInv'
    <2> DEFINE p == pubs[pub[t]]
    <2>1. CASE Ask(t)
        <3>1. PICK messages \in {<<>>, NewMessages} :
                  PublishesAndCloses(t, Interrupt(Write(p, messages), run[t].streamed))
            BY <2>1 DEF Ask
        <3>2. Tidy(p) => Tidy(Interrupt(Write(p, messages), run[t].streamed))
            BY TidyOthers, TidyEnds
        <3>3. pc[t] = "running"
            BY <2>1 DEF Ask
        <3> QED  BY <1>5, <3>1, <3>2, <3>3
    <2>2. CASE Stamped(t)
        BY <1>5, <2>2 DEF Stamped
    <2>3. CASE GraphFails(t)
        <3>1. Tidy(p) => Tidy(FinalResult(p, run[t].streamed, TRUE))
            BY TidyEnds
        <3> QED  BY <1>5, <2>3, <3>1 DEF GraphFails
    <2>4. Tidy(p) => /\ Tidy(Result(TurnEnd(p, "cancelled", "cancelled"), "cancelled"))
                     /\ Tidy(Result(p, "cancelled"))
                     /\ Tidy(FailureOf(p))
        BY TidyEnds
    <2>5. CASE PrepareFails(t)
        BY <1>5, <2>4, <2>5 DEF PrepareFails
    <2>6. CASE CancelRun(t)
        BY <1>5, <2>4, <2>6 DEF CancelRun
    <2>7. CASE CancelEarly(t)
        BY <1>5, <2>4, <2>7 DEF CancelEarly
    <2> QED  BY <1>6, <2>1, <2>2, <2>3, <2>5, <2>6, <2>7
<1>7. ASSUME \/ \E r \in Requests : HandleMessage(r) \/ Start(r) \/ Acquire(r) \/ CancelUnstarted(r)
             \/ \E w \in Wakes : WakeBegins(w)
             \/ \E t \in Turns : FirstCommit(t)
             \/ MinutePasses
             \/ UNCHANGED vars
      PROVE  TextInv'
    BY <1>2, <1>7 DEF HandleMessage, Start, Acquire, CancelUnstarted, WakeBegins, FirstCommit,
                      MinutePasses, vars
<1> QED  BY <1>3, <1>4, <1>6, <1>7 DEF Next, Step

\* A client can append every text delta to an open block of an open message, for
\* any interleaving of the turns that share a publisher (publish_stream_event_text,
\* publish_assistant, publish_message_finish).
THEOREM DeltasReadable == Spec => []DeltasInOpenBlocks
<1>1. Init => TextInv
    <2> SUFFICES ASSUME Init PROVE TextInv
        OBVIOUS
    <2>1. NewPublisher.out = <<>> /\ ~NewPublisher.block /\ ~NewPublisher.message
        BY Zenon DEF NewPublisher
    <2>2. \A o \in Turns : pubs[o] = NewPublisher
        BY DEF Init
    <2>3. Deltas(<<>>) /\ <<>> \in Seq(Frames)
        BY DEF Deltas
    <2>4. Tidy(NewPublisher)
        BY <2>1, <2>3, Zenon DEF Tidy, Record
    <2> QED  BY <2>2, <2>4, Zenon DEF TextInv
<1>2. OwnInv /\ TextInv /\ [Next]_vars => TextInv'
    BY TextStep
<1>3. OwnInv /\ TextInv => DeltasInOpenBlocks
    <2> SUFFICES ASSUME OwnInv, TextInv, NEW o \in Turns, NEW i \in DOMAIN pubs[o].out,
                        pubs[o].out[i].what = "delta"
                 PROVE  /\ \E j \in 1..(i - 1) :
                             /\ pubs[o].out[j] = Frame("block-start", "text")
                             /\ NoneBetween(o, j, i, {"block-finish", "message-finish"})
                        /\ \E j \in 1..(i - 1) :
                             /\ pubs[o].out[j].what = "message-start"
                             /\ NoneBetween(o, j, i, {"message-finish"})
        BY DEF DeltasInOpenBlocks
    <2>1. i \in 1..Len(pubs[o].out)
        BY OutSequences
    <2>2. BlockOpen(pubs[o].out, i) /\ MessageOpen(pubs[o].out, i)
        BY <2>1 DEF TextInv, Tidy, Deltas
    <2>3. \E j \in 1..(i - 1) :
             /\ pubs[o].out[j] = Frame("block-start", "text")
             /\ NoneBetween(o, j, i, {"block-finish", "message-finish"})
        BY <2>2 DEF BlockOpen, NoneBetween
    <2>4. \E j \in 1..(i - 1) :
             /\ pubs[o].out[j].what = "message-start"
             /\ NoneBetween(o, j, i, {"message-finish"})
        BY <2>2 DEF MessageOpen, NoneBetween
    <2> QED  BY <2>3, <2>4
<1> QED  BY <1>1, <1>2, <1>3, StreamInv, PTL DEF Spec

-----------------------------------------------------------------------------
(* The question a turn stopped on *)

\* The turn a question waits on has a publisher of its own, and no other turn
\* ended before its first commit.
Undisturbed(a) == \A t \in Turns \ {a} : pub[t] # pub[a] /\ ~EndedEarly(t)

\* A run commits between its beginning and its end, and none drains before.
CommittedInv ==
    \A t \in Turns : /\ t \in committed => pc[t] \in {"running", "stamping", "ended"}
                     /\ pc[t] = "stamping" => t \in committed

\* While a question waits, the run inside the lock has not committed; and what
\* neither trimming nor an earlier turn's expiry may remove is there.
WaitsInv ==
    asked # None =>
        /\ asked \in Turns
        /\ pc[asked] = "ended"
        /\ pub[asked] \in Turns
        /\ \A t \in Turns : pc[t] \in {"running", "stamping"} => t \notin committed

KeptInv ==
    asked # None /\ Undisturbed(asked) => QuestionOnStream(asked) /\ expiry # "minute"

QuestionInv == stream \in Seq(Entries) /\ CommittedInv /\ WaitsInv /\ KeptInv

LEMMA NotSentinel ==
    ASSUME NEW o
    PROVE  [by |-> o, frame |-> Frame("result", "interrupted")].frame # Sentinel
BY DEF Frame, Sentinel

\* Ascending lists the elements of a finite set of integers, all of them: the
\* number of smaller elements is one to one onto 0..(n - 1).
LEMMA AscendingCovers ==
    ASSUME NEW S \in SUBSET Int, IsFiniteSet(S)
    PROVE  /\ Cardinality(S) \in Nat
           /\ \A i \in 1..Cardinality(S) : Ascending(S)[i] \in S
           /\ \A x \in S : \E i \in 1..Cardinality(S) : Ascending(S)[i] = x
<1> DEFINE n == Cardinality(S)
           Below(x) == {y \in S : y < x}
           Rank(x) == Cardinality(Below(x))
           f == [x \in S |-> Rank(x)]
<1>1. n \in Nat
    BY FS_CardinalityType
<1>2. ASSUME NEW x \in S
      PROVE  IsFiniteSet(Below(x)) /\ Rank(x) \in 0..(n - 1)
    <2>1. Below(x) \in SUBSET S /\ x \notin Below(x)
        OBVIOUS
    <2>2. IsFiniteSet(Below(x)) /\ Rank(x) <= n /\ Rank(x) # n
        BY <2>1, FS_Subset
    <2>3. Rank(x) \in Nat
        BY <2>2, FS_CardinalityType
    <2> QED  BY <1>1, <2>2, <2>3
<1>3. ASSUME NEW x \in S, NEW z \in S, x < z
      PROVE  Rank(x) < Rank(z)
    <2>1. Below(x) \in SUBSET Below(z) /\ x \in Below(z) /\ x \notin Below(x)
        <3>1. \A y \in S : y < x => y < z
            BY <1>3
        <3>2. ~ x < x
            OBVIOUS
        <3> QED  BY <1>3, <3>1, <3>2
    <2>2. Rank(x) <= Rank(z) /\ Rank(x) # Rank(z)
        BY <1>2, <2>1, FS_Subset
    <2>3. Rank(x) \in Nat /\ Rank(z) \in Nat
        BY <1>2, FS_CardinalityType
    <2> QED  BY <2>2, <2>3
<1> HIDE DEF n, Rank
<1>4. \A x \in S : Rank(x) \in 0..(n - 1)
    BY <1>2
<1>5. \A x, z \in S : Rank(x) = Rank(z) => x = z
    <2> SUFFICES ASSUME NEW x \in S, NEW z \in S, Rank(x) = Rank(z), x # z PROVE FALSE
        OBVIOUS
    <2>1. x < z \/ z < x
        OBVIOUS
    <2>2. Rank(x) \in Int /\ Rank(z) \in Int
        BY <1>1, <1>4
    <2>3. Rank(x) < Rank(z) \/ Rank(z) < Rank(x)
        BY <2>1, <1>3
    <2> QED  BY <2>2, <2>3
<1>6. f \in Surjection(S, 0..(n - 1))
    <2>1. f \in Injection(S, 0..(n - 1))
        BY <1>2, <1>5 DEF Injection, IsInjective
    <2>2. IsFiniteSet(0..(n - 1)) /\ Cardinality(0..(n - 1)) = n
        <3>1. 0 \in Int /\ n - 1 \in Int
            BY <1>1
        <3> QED  BY <1>1, <3>1, FS_Interval
    <2> QED  BY <2>1, <2>2, FS_Injection DEF n
<1>7. \A k \in 0..(n - 1) : \E x \in S : Rank(x) = k
    BY <1>6 DEF Surjection
<1>8. Ascending(S) = [i \in 1..n |-> CHOOSE x \in S : Rank(x) = i - 1]
    BY DEF Ascending, n, Rank
<1>9. \A i \in 1..n : Ascending(S)[i] \in S /\ Rank(Ascending(S)[i]) = i - 1
    <2> TAKE i \in 1..n
    <2>1. i - 1 \in 0..(n - 1)
        BY <1>1
    <2>2. \E x \in S : Rank(x) = i - 1
        BY <2>1, <1>7
    <2> QED  BY <2>2, <1>8
<1>10. \A x \in S : \E i \in 1..n : Ascending(S)[i] = x
    <2> TAKE x \in S
    <2>1. Rank(x) + 1 \in 1..n /\ Rank(x) \in Int
        BY <1>1, <1>4
    <2>2. Rank(Ascending(S)[Rank(x) + 1]) = Rank(x)
        BY <2>1, <1>9
    <2> QED  BY <2>1, <2>2, <1>5, <1>9
<1> QED  BY <1>1, <1>9, <1>10 DEF n

\* _trim_sentinel removes sentinels only.
LEMMA TrimKeeps ==
    ASSUME NEW s \in Seq(Entries)
    PROVE  /\ TrimSentinel(s) \in Seq(Entries)
           /\ \A i \in 1..Len(s) : s[i].frame # Sentinel =>
                  \E j \in 1..Len(TrimSentinel(s)) : TrimSentinel(s)[j] = s[i]
<1> DEFINE kept == {i \in DOMAIN s : i + 10 <= Len(s) \/ s[i].frame # Sentinel}
           n == Cardinality(kept)
           f == [i \in 1..n |-> s[Ascending(kept)[i]]]
<1>1. TrimSentinel(s) = f
    BY DEF TrimSentinel
<1>2. kept \in SUBSET Int /\ kept \in SUBSET (1..Len(s)) /\ IsFiniteSet(kept)
    <2>1. DOMAIN s = 1..Len(s) /\ Len(s) \in Nat
        OBVIOUS
    <2>2. kept \in SUBSET (1..Len(s))
        BY <2>1
    <2>3. IsFiniteSet(1..Len(s))
        <3>1. 1 \in Int /\ Len(s) \in Int
            BY <2>1
        <3> QED  BY <3>1, FS_Interval
    <2>4. IsFiniteSet(kept)
        <3> HIDE DEF kept
        <3> QED  BY <2>2, <2>3, FS_Subset
    <2> QED  BY <2>2, <2>4
<1>3. \A i \in 1..Len(s) : s[i].frame # Sentinel => i \in kept
    OBVIOUS
<1> HIDE DEF kept
<1>4. /\ n \in Nat
      /\ \A i \in 1..n : Ascending(kept)[i] \in kept
      /\ \A x \in kept : \E i \in 1..n : Ascending(kept)[i] = x
    BY <1>2, AscendingCovers
<1> HIDE DEF n
<1>5. \A i \in 1..n : s[Ascending(kept)[i]] \in Entries
    <2>1. \A k \in 1..Len(s) : s[k] \in Entries
        OBVIOUS
    <2>2. \A i \in 1..n : Ascending(kept)[i] \in 1..Len(s)
        BY <1>2, <1>4
    <2> QED  BY <2>1, <2>2
<1>6. f \in Seq(Entries) /\ Len(f) = n
    BY <1>4, <1>5
<1>7. ASSUME NEW i \in 1..Len(s), s[i].frame # Sentinel
      PROVE  \E j \in 1..Len(f) : f[j] = s[i]
    <2>1. PICK j \in 1..n : Ascending(kept)[j] = i
        BY <1>3, <1>4, <1>7
    <2>2. f[j] = s[i]
        BY <2>1
    <2> QED  BY <1>6, <2>2
<1> QED  BY <1>1, <1>6, <1>7

\* What a turn's publisher adds to the stream.
LEMMA AppendedEntries ==
    ASSUME NEW o \in Turns, NEW q, Record(pubs[o]), Record(q),
           Len(pubs[o].out) <= Len(q.out)
    PROVE  /\ Appended(o, q) \in Seq(Entries)
           /\ Len(Appended(o, q)) = Len(q.out) - Len(pubs[o].out)
           /\ \A i \in 1..(Len(q.out) - Len(pubs[o].out)) :
                  Appended(o, q)[i] = [by |-> o, frame |-> q.out[Len(pubs[o].out) + i]]
<1> DEFINE m == Len(pubs[o].out)
           n == Len(q.out) - m
           e(i) == [by |-> o, frame |-> q.out[m + i]]
<1>1. m \in Nat /\ n \in Nat /\ q.out \in Seq(Frames)
    BY DEF Record
<1>2. \A i \in 1..n : m + i \in 1..Len(q.out)
    BY <1>1
<1>3. \A i \in 1..n : e(i) \in Entries
    BY <1>1, <1>2 DEF Entries
<1>4. Appended(o, q) = [i \in 1..n |-> e(i)]
    BY DEF Appended
<1> HIDE DEF n, e
<1>5. /\ Appended(o, q) \in Seq(Entries)
      /\ Len(Appended(o, q)) = n
      /\ \A i \in 1..n : Appended(o, q)[i] = e(i)
    BY <1>1, <1>3, <1>4
<1> QED  BY <1>5 DEF n, e

\* What a turn writes to the stream.
LEMMA PublishesEntries ==
    ASSUME OwnInv, stream \in Seq(Entries), NEW t \in Turns, pub[t] \in Turns,
           NEW q, Record(q), Len(pubs[pub[t]].out) <= Len(q.out),
           Publishes(t, q) \/ PublishesAndCloses(t, q)
    PROVE  stream' \in Seq(Entries)
<1> DEFINE o == pub[t]
           new == Appended(o, q)
           last == [by |-> o, frame |-> Sentinel]
<1>1. new \in Seq(Entries)
    BY AppendedEntries DEF OwnInv
<1>2. last \in Entries
    BY DEF Entries
<1>3. \/ stream' = stream
      \/ stream' = stream \o new
      \/ stream' = stream \o new \o <<last>>
    BY DEF Publishes, PublishesAndCloses
<1> HIDE DEF new, last
<1>4. stream \o new \in Seq(Entries) /\ <<last>> \in Seq(Entries)
    BY <1>1, <1>2
<1>5. stream \o new \o <<last>> \in Seq(Entries)
    <2> DEFINE s == stream \o new
               u == <<last>>
    <2>1. s \in Seq(Entries) /\ u \in Seq(Entries)
        BY <1>4
    <2> HIDE DEF s, u
    <2>2. s \o u \in Seq(Entries)
        BY <2>1
    <2> QED  BY <2>2 DEF s, u
<1> QED  BY <1>3, <1>4, <1>5

\* A step that changes neither the publishers nor who runs or has ended.
LEMMA QuestionOther ==
    ASSUME OwnInv, QuestionInv, UNCHANGED <<pubs, expiry, asked, committed>>,
           stream' \in Seq(Entries),
           \A e \in Entries :
               e.frame # Sentinel /\ (\E i \in 1..Len(stream) : stream[i] = e)
               => \E i \in 1..Len(stream') : stream'[i] = e,
           \A t \in Turns : /\ pc[t] \in {"running", "stamping", "ended"} => pc'[t] = pc[t]
                            /\ pc'[t] \in {"running", "stamping"} => pc'[t] = pc[t]
                            /\ pub[t] # None => pub'[t] = pub[t]
    PROVE  QuestionInv'
<1>1. CommittedInv'
    BY DEF QuestionInv, CommittedInv
<1>2. WaitsInv'
    <2> SUFFICES ASSUME asked # None
                 PROVE  /\ asked \in Turns
                        /\ pc'[asked] = "ended"
                        /\ pub'[asked] \in Turns
                        /\ \A t \in Turns : pc'[t] \in {"running", "stamping"} => t \notin committed
        BY DEF WaitsInv
    <2>1. /\ asked \in Turns
          /\ pc[asked] = "ended"
          /\ pub[asked] \in Turns
          /\ \A t \in Turns : pc[t] \in {"running", "stamping"} => t \notin committed
        BY DEF QuestionInv, WaitsInv
    <2>2. pub'[asked] = pub[asked]
        BY <2>1, ConstantsAssumption DEF ConstantsAssumption
    <2> QED  BY <2>1, <2>2
<1>3. KeptInv'
    <2> SUFFICES ASSUME asked # None, Undisturbed(asked)'
                 PROVE  QuestionOnStream(asked)' /\ expiry # "minute"
        BY DEF KeptInv
    <2> DEFINE e == [by |-> pub[asked], frame |-> Frame("result", "interrupted")]
    <2>1. asked \in Turns /\ pub[asked] \in Turns /\ pub'[asked] = pub[asked]
        BY ConstantsAssumption DEF QuestionInv, WaitsInv, ConstantsAssumption
    <2>2. ASSUME NEW t \in Turns \ {asked}
          PROVE  pub[t] # pub[asked] /\ ~EndedEarly(t)
        <3>1. pub'[t] # pub[asked] /\ ~EndedEarly(t)'
            BY <2>1, <2>2 DEF Undisturbed
        <3>2. pub[t] # pub[asked]
            BY <3>1, <2>1, <2>2, ConstantsAssumption DEF ConstantsAssumption
        <3>3. ASSUME EndedEarly(t) PROVE FALSE
            <4>1. pc[t] = "ended" /\ pub[t] # None
                BY <3>3 DEF EndedEarly
            <4>2. pc'[t] = "ended" /\ pub'[t] = pub[t]
                BY <2>2, <4>1
            <4> QED  BY <3>1, <3>3, <4>1, <4>2 DEF EndedEarly
        <3> QED  BY <3>2, <3>3
    <2>3. QuestionOnStream(asked) /\ expiry # "minute"
        BY <2>2 DEF Undisturbed, QuestionInv, KeptInv
    <2>4. \E i \in 1..Len(stream) : stream[i] = e
        <3>1. DOMAIN stream = 1..Len(stream)
            BY DEF QuestionInv
        <3> QED  BY <2>3, <3>1 DEF QuestionOnStream
    <2>5. e \in Entries /\ e.frame # Sentinel
        <3>1. Frame("result", "interrupted") \in Frames
            BY FrameWhat DEF Whats, Subtypes
        <3> QED  BY <2>1, <3>1, NotSentinel DEF Entries
    <2>6. \E i \in 1..Len(stream') : stream'[i] = e
        BY <2>4, <2>5
    <2>7. \E i \in DOMAIN stream' : stream'[i] = [by |-> pub'[asked], frame |-> Frame("result", "interrupted")]
        BY <2>1, <2>6
    <2> QED  BY <2>3, <2>7 DEF QuestionOnStream
<1> QED  BY <1>1, <1>2, <1>3 DEF QuestionInv

\* Requests, wake-ups and the lock.
LEMMA QuestionWaits ==
    ASSUME OwnInv, QuestionInv,
           \/ \E r \in Requests : HandleMessage(r) \/ Start(r) \/ Acquire(r) \/ CancelUnstarted(r)
           \/ \E w \in Wakes : WakeBegins(w)
           \/ UNCHANGED vars
    PROVE  QuestionInv'
<1> Requests \subseteq Turns /\ Wakes \subseteq Turns
    BY DEF Turns
<1>1. UNCHANGED <<pubs, expiry, asked, committed>>
    BY DEF HandleMessage, Start, Acquire, CancelUnstarted, WakeBegins, vars
<1>2. stream' = stream \/ stream' = TrimSentinel(stream)
    BY DEF HandleMessage, Start, Acquire, CancelUnstarted, WakeBegins, vars
<1>3. stream \in Seq(Entries)
    BY DEF QuestionInv
<1>4. /\ stream' \in Seq(Entries)
      /\ \A e \in Entries :
             e.frame # Sentinel /\ (\E i \in 1..Len(stream) : stream[i] = e)
             => \E i \in 1..Len(stream') : stream'[i] = e
    BY <1>2, <1>3, TrimKeeps
<1>5. \A t \in Turns : /\ pc[t] \in {"running", "stamping", "ended"} => pc'[t] = pc[t]
                       /\ pc'[t] \in {"running", "stamping"} => pc'[t] = pc[t]
                       /\ pub[t] # None => pub'[t] = pub[t]
    <2>1. ASSUME NEW r \in Requests, HandleMessage(r) \/ Start(r) \/ Acquire(r) \/ CancelUnstarted(r)
          PROVE  <1>5!:
        BY <2>1 DEF HandleMessage, Start, Acquire, CancelUnstarted, Leaves, OwnInv
    <2>2. ASSUME NEW w \in Wakes, WakeBegins(w)
          PROVE  <1>5!:
        BY <2>2 DEF WakeBegins, OwnInv
    <2>3. CASE UNCHANGED vars
        BY <2>3 DEF vars
    <2> QED  BY <2>1, <2>2, <2>3
<1> QED  BY <1>1, <1>4, <1>5, QuestionOther

\* A minute after a close only a question that is disturbed can be lost.
LEMMA QuestionExpires ==
    ASSUME OwnInv, QuestionInv, MinutePasses
    PROVE  QuestionInv'
<1>1. /\ expiry = "minute" /\ stream' = <<>> /\ expiry' = "none"
      /\ UNCHANGED <<pc, pub, asked, committed>>
    BY DEF MinutePasses
<1>2. stream' \in Seq(Entries)
    BY <1>1
<1>3. CommittedInv' /\ WaitsInv'
    BY <1>1 DEF QuestionInv, CommittedInv, WaitsInv
<1>4. ~(asked # None /\ Undisturbed(asked))
    BY <1>1 DEF QuestionInv, KeptInv
<1>5. Undisturbed(asked)' <=> Undisturbed(asked)
    BY <1>1 DEF Undisturbed, EndedEarly
<1>6. KeptInv'
    BY <1>1, <1>4, <1>5 DEF KeptInv
<1> QED  BY <1>2, <1>3, <1>6 DEF QuestionInv

\* The first commit closes the question that was open.
LEMMA QuestionCommits ==
    ASSUME QuestionInv, NEW t \in Turns, FirstCommit(t)
    PROVE  QuestionInv'
<1>1. /\ pc[t] = "running" /\ asked' = None /\ committed' = committed \cup {t}
      /\ UNCHANGED <<stream, pc>>
    BY DEF FirstCommit
<1>2. CommittedInv'
    BY <1>1 DEF QuestionInv, CommittedInv
<1> QED  BY <1>1, <1>2 DEF QuestionInv, WaitsInv, KeptInv

\* A run that begins or goes on over a question that waits has not committed, and
\* what it writes comes after the question.
LEMMA QuestionRuns ==
    ASSUME OwnInv, QuestionInv, NEW t \in Turns,
           Begin(t) \/ GraphEvent(t) \/ Finish(t)
    PROVE  QuestionInv'
<1> DEFINE p == pubs[pub[t]]
<1>1. PICK q : /\ Publishes(t, q)
               /\ pub[t] \in Turns => Record(q) /\ Len(p.out) <= Len(q.out)
    <2>1. CASE Begin(t) \/ GraphEvent(t)
        <3>1. PICK q : QuietStep(p, q) /\ Publishes(t, q)
            BY <2>1, BeginStep, EventStep
        <3>2. pub[t] \in Turns => Record(p)
            BY DEF OwnInv
        <3>3. pub[t] \in Turns => Record(q) /\ Len(p.out) <= Len(q.out)
            BY <3>1, <3>2, QuietKeeps DEF Keeps
        <3> QED  BY <3>1, <3>3
    <2>2. CASE Finish(t)
        <3> DEFINE q == FinalResult(p, run[t].streamed, FALSE)
        <3>1. pub[t] \in Turns => Record(p)
            BY DEF OwnInv
        <3>2. pub[t] \in Turns => Ends(p, q)
            BY <3>1, FinalEnds
        <3>3. Publishes(t, q)
            BY <2>2 DEF Finish
        <3> HIDE DEF q
        <3>4. pub[t] \in Turns => Record(q) /\ Len(p.out) <= Len(q.out)
            BY <3>2 DEF Ends, Keeps
        <3> QED  BY <3>3, <3>4
    <2> QED  BY <2>1, <2>2
<1>2. UNCHANGED <<pub, asked, committed>>
    BY EventStep DEF Begin, Finish
<1>3. \/ pc[t] = "preparing" /\ pc' = [pc EXCEPT ![t] = "running"]
      \/ pc[t] = "running" /\ pc' = pc
      \/ pc[t] = "running" /\ pc' = [pc EXCEPT ![t] = "stamping"] /\ t \in committed
    BY EventStep DEF Begin, Finish
<1>4. \A u \in Turns \ {t} : pc'[u] = pc[u]
    BY <1>3 DEF OwnInv
<1>5. /\ pub[t] \in Turns
      /\ pc[t] \in {"preparing", "running"} /\ pc'[t] \in {"running", "stamping"}
      /\ pc'[t] = "stamping" => t \in committed
    BY <1>3 DEF OwnInv
<1>6. stream' \in Seq(Entries)
    BY <1>1, <1>5, PublishesEntries DEF QuestionInv
<1>7. CommittedInv'
    BY <1>2, <1>4, <1>5 DEF QuestionInv, CommittedInv
<1>8. WaitsInv'
    <2> SUFFICES ASSUME asked # None PROVE WaitsInv'
        BY <1>2 DEF WaitsInv
    <2>1. /\ asked \in Turns /\ pc[asked] = "ended" /\ pub[asked] \in Turns
          /\ \A u \in Turns : pc[u] \in {"running", "stamping"} => u \notin committed
        BY DEF QuestionInv, WaitsInv
    <2>2. t \notin committed
        BY <1>5, <2>1 DEF QuestionInv, CommittedInv
    <2>3. pc'[asked] = "ended"
        BY <1>4, <1>5, <2>1
    <2>4. \A u \in Turns : pc'[u] \in {"running", "stamping"} => u \notin committed
        BY <1>4, <2>1, <2>2
    <2> QED  BY <1>2, <2>1, <2>3, <2>4 DEF WaitsInv
<1>9. KeptInv'
    <2> SUFFICES ASSUME asked # None, Undisturbed(asked)'
                 PROVE  QuestionOnStream(asked)' /\ expiry' # "minute"
        BY <1>2 DEF KeptInv
    <2>1. Undisturbed(asked)
        <3>1. pc[t] # "ended" /\ pc'[t] # "ended"
            BY <1>5
        <3> QED  BY <1>2, <1>4, <3>1 DEF Undisturbed, EndedEarly
    <2>2. QuestionOnStream(asked) /\ expiry # "minute"
        BY <2>1 DEF QuestionInv, KeptInv
    <2> DEFINE new == Appended(pub[t], q)
    <2>3. stream' = stream \o new /\ UNCHANGED expiry
        BY <1>1 DEF Publishes
    <2>4. new \in Seq(Entries) /\ stream \in Seq(Entries)
        BY <1>1, <1>5, AppendedEntries DEF OwnInv, QuestionInv
    <2> HIDE DEF new
    <2>5. \A i \in DOMAIN stream : i \in DOMAIN (stream \o new) /\ (stream \o new)[i] = stream[i]
        BY <2>4
    <2> QED  BY <1>2, <2>2, <2>3, <2>5 DEF QuestionOnStream
<1> QED  BY <1>6, <1>7, <1>8, <1>9 DEF QuestionInv

\* An entry of b in a \o b.
LEMMA SecondPart ==
    ASSUME NEW S, NEW a \in Seq(S), NEW b \in Seq(S), NEW i \in 1..Len(b)
    PROVE  /\ a \o b \in Seq(S)
           /\ Len(a) + i \in 1..Len(a \o b)
           /\ (a \o b)[Len(a) + i] = b[i]
<1>1. a \o b \in Seq(S) /\ Len(a \o b) = Len(a) + Len(b)
    BY ConcatProperties
<1>2. \A j \in 1..(Len(a) + Len(b)) :
         (a \o b)[j] = IF j <= Len(a) THEN a[j] ELSE b[j - Len(a)]
    BY ConcatProperties
<1>3. Len(a) \in Nat /\ Len(b) \in Nat
    BY LenProperties
<1> DEFINE k == Len(a) + i
<1>4. k \in 1..(Len(a) + Len(b)) /\ ~(k <= Len(a)) /\ k - Len(a) = i
    BY <1>3
<1> HIDE DEF k
<1>5. (a \o b)[k] = b[i]
    BY <1>2, <1>4
<1> QED  BY <1>1, <1>4, <1>5 DEF k

\* A turn that stops on a question puts it on the stream, for a day.
LEMMA QuestionAsks ==
    ASSUME OwnInv, EndInv, QuestionInv, NEW t \in Turns, Ask(t)
    PROVE  QuestionInv'
<1> DEFINE p == pubs[pub[t]]
<1>1. PICK messages \in {<<>>, NewMessages} :
          PublishesAndCloses(t, Interrupt(Write(p, messages), run[t].streamed))
    BY DEF Ask
<1> DEFINE m == IF run[t].streamed THEN Assistant(Write(p, messages), 0) ELSE Write(p, messages)
           q == Interrupt(Write(p, messages), run[t].streamed)
<1>2. /\ pc[t] = "running" /\ Leaves(t) /\ PublishesAndCloses(t, q)
      /\ asked' = t /\ committed' = committed \cup {t}
    BY <1>1 DEF Ask
<1>3. pub[t] \in Turns /\ holder = t /\ Record(p)
    BY <1>2 DEF OwnInv
<1>4. QuietStep(p, m) /\ Record(m)
    <2>1. Quiets(messages)
        <3> DEFINE f == Frame("other", "")
        <3>1. f \in Frames /\ IsQuiet(f)
            BY QuietFrame DEF Whats
        <3> HIDE DEF f
        <3>2. Quiets(<<f, f>>)
            BY <3>1, SMTT(60) DEF Quiets
        <3>3. NewMessages = <<f, f>>
            BY DEF f, NewMessages
        <3>4. Quiets(NewMessages)
            BY <3>2, <3>3, ZenonT(60)
        <3>5. messages = <<>> \/ messages = NewMessages
            OBVIOUS
        <3> QED  BY <3>4, <3>5, QuietNone, ZenonT(60)
    <2> DEFINE w == Write(p, messages)
    <2>2. QuietStep(p, w) /\ Record(w)
        BY <1>3, <2>1, QuietWrite
    <2>3. QuietStep(w, Assistant(w, 0))
        BY <2>2, QuietAssistant
    <2>4. QuietStep(p, m)
        BY <1>3, <2>2, <2>3, QuietTwice
    <2>5. Record(m)
        BY <1>3, <2>4, QuietKeeps DEF Keeps
    <2> QED  BY <2>4, <2>5
<1>5. q = TurnEnd(m, "interrupted", "completed")
    BY DEF Interrupt
<1> HIDE DEF m
<1>6. EndStep(m, q, "interrupted", "completed") /\ Record(q)
    BY <1>4, <1>5, EndOne DEF Subtypes, Outcomes
<1>7. q.awaiting
    <2>1. q = Write(Result(m, "interrupted"), <<Frame("terminal", "completed")>>)
        BY <1>5 DEF TurnEnd
    <2> HIDE DEF q
    <2> QED  BY <2>1, Zenon DEF Write, Result
<1> HIDE DEF q
<1>8. Len(p.out) <= Len(m.out) /\ Len(m.out) <= Len(q.out) /\ (q.closed <=> p.closed)
    BY <1>4, <1>6 DEF QuietStep, EndStep, Grows
<1>9. /\ Len(p.out) \in Nat /\ Len(m.out) \in Nat /\ Len(q.out) \in Nat
      /\ Len(p.out) <= Len(q.out)
    BY <1>3, <1>4, <1>6, <1>8, SMTT(60) DEF Record
<1>10. stream' \in Seq(Entries)
    BY <1>2, <1>3, <1>6, <1>9, PublishesEntries DEF QuestionInv
<1>11. /\ pc' = [pc EXCEPT ![t] = "ended"] /\ UNCHANGED pub
       /\ pubs' = [pubs EXCEPT ![pub[t]] = Closed(q)]
    BY <1>2 DEF Leaves, PublishesAndCloses
<1>12. \A u \in Turns : pc'[u] = IF u = t THEN "ended" ELSE pc[u]
    BY <1>11 DEF OwnInv
<1>13. CommittedInv' /\ WaitsInv'
    <2>1. \A u \in Turns \ {t} : pc[u] \notin {"running", "stamping"}
        BY <1>3 DEF OwnInv
    <2>2. CommittedInv'
        BY <1>2, <1>12 DEF QuestionInv, CommittedInv
    <2>3. WaitsInv'
        BY <1>2, <1>3, <1>11, <1>12, <2>1 DEF WaitsInv
    <2> QED  BY <2>2, <2>3
<1>14. KeptInv'
    <2> SUFFICES ASSUME Undisturbed(t)' PROVE QuestionOnStream(t)' /\ expiry' # "minute"
        BY <1>2 DEF KeptInv
    <2>1. ~p.closed
        <3> SUFFICES ASSUME p.closed PROVE FALSE
            OBVIOUS
        <3>1. PICK u \in Turns : pc[u] = "ended" /\ pub[u] = pub[t]
            BY <1>3 DEF EndInv
        <3>2. u # t
            BY <3>1, <1>2
        <3> QED  BY <3>1, <3>2, <1>11 DEF Undisturbed
    <2>2. /\ ~q.closed
          /\ Len(q.out) > Len(m.out) + 1
          /\ q.out[Len(q.out) - 1] = Frame("result", "interrupted")
        BY <2>1, <1>4, <1>6, <1>8 DEF QuietStep, EndStep
    <2>3. /\ stream' = stream \o Appended(pub[t], q) \o <<[by |-> pub[t], frame |-> Sentinel]>>
          /\ expiry' = "day"
        BY <1>2, <1>7, <2>2 DEF PublishesAndCloses, CloseExpiry
    <2> DEFINE i == Len(q.out) - 1 - Len(p.out)
               new == Appended(pub[t], q)
               last == [by |-> pub[t], frame |-> Sentinel]
    <2>4. i \in 1..(Len(q.out) - Len(p.out)) /\ Len(p.out) + i = Len(q.out) - 1
        <3> DEFINE a == Len(p.out)
                   b == Len(m.out)
                   c == Len(q.out)
        <3>1. a \in Nat /\ b \in Nat /\ c \in Nat /\ a <= b /\ c > b + 1
            BY <1>8, <1>9, <2>2
        <3> HIDE DEF a, b, c
        <3>2. (c - 1) - a \in 1..(c - a) /\ a + ((c - 1) - a) = c - 1
            BY <3>1
        <3> QED  BY <3>2 DEF a, b, c
    <2> HIDE DEF i
    <2>5. /\ new \in Seq(Entries) /\ i \in 1..Len(new)
          /\ new[i] = [by |-> pub[t], frame |-> q.out[Len(p.out) + i]]
        BY <1>3, <1>6, <1>9, <2>4, AppendedEntries, ZenonT(60)
    <2>6. last \in Entries
        BY <1>3 DEF Entries
    <2> HIDE DEF new, last
    <2>7. \E k \in DOMAIN stream' : stream'[k] = new[i]
        <3>1. stream \in Seq(Entries)
            BY DEF QuestionInv
        <3>2. /\ stream \o new \in Seq(Entries)
              /\ Len(stream) + i \in 1..Len(stream \o new)
              /\ (stream \o new)[Len(stream) + i] = new[i]
            BY <3>1, <2>5, SecondPart
        <3> DEFINE s == stream \o new
                   k == Len(stream) + i
        <3>3. s \in Seq(Entries) /\ k \in 1..Len(s) /\ s[k] = new[i]
            BY <3>2
        <3>4. stream' = s \o <<last>>
            BY <2>3 DEF new, last
        <3> HIDE DEF s, k
        <3>5. k \in DOMAIN (s \o <<last>>) /\ (s \o <<last>>)[k] = s[k]
            BY <3>3, <2>6
        <3> QED  BY <3>3, <3>4, <3>5
    <2>8. new[i] = [by |-> pub[t], frame |-> Frame("result", "interrupted")]
        BY <2>2, <2>4, <2>5
    <2> QED  BY <1>11, <2>3, <2>7, <2>8 DEF QuestionOnStream
<1> QED  BY <1>10, <1>13, <1>14 DEF QuestionInv

\* A turn that ends otherwise: after its first commit no question waits, and
\* before it the turn ends early.
LEMMA QuestionEnds ==
    ASSUME OwnInv, QuestionInv, NEW t \in Turns, NEW q,
           pc[t] \in {"waiting", "preparing", "running", "stamping"},
           PublishesAndCloses(t, q), Leaves(t), UNCHANGED <<asked, committed>>,
           Ends(pubs[pub[t]], q)
    PROVE  QuestionInv'
<1> DEFINE p == pubs[pub[t]]
<1>1. pc' = [pc EXCEPT ![t] = "ended"] /\ UNCHANGED pub
    BY DEF Leaves
<1>2. pub[t] \in Turns
    BY DEF OwnInv
<1>3. Record(q) /\ Len(p.out) <= Len(q.out)
    BY DEF Ends, Keeps
<1>4. stream' \in Seq(Entries)
    BY <1>2, <1>3, PublishesEntries DEF QuestionInv
<1>5. \A u \in Turns : pc'[u] = IF u = t THEN "ended" ELSE pc[u]
    BY <1>1 DEF OwnInv
<1>6. CommittedInv'
    BY <1>5 DEF QuestionInv, CommittedInv
<1>7. WaitsInv'
    BY <1>1, <1>5 DEF QuestionInv, WaitsInv
<1>8. KeptInv'
    <2> SUFFICES ASSUME asked # None, Undisturbed(asked)' PROVE FALSE
        BY DEF KeptInv
    <2>1. /\ asked \in Turns /\ pc[asked] = "ended"
          /\ \A u \in Turns : pc[u] \in {"running", "stamping"} => u \notin committed
        BY DEF QuestionInv, WaitsInv
    <2>2. t # asked
        BY <2>1
    <2>3. t \notin committed
        BY <2>1 DEF QuestionInv, CommittedInv
    <2>4. pub[t] # None
        BY <1>2, ConstantsAssumption DEF ConstantsAssumption
    <2>5. EndedEarly(t)'
        BY <1>1, <1>5, <2>3, <2>4 DEF EndedEarly
    <2> QED  BY <2>2, <2>5 DEF Undisturbed
<1> QED  BY <1>4, <1>6, <1>7, <1>8 DEF QuestionInv

LEMMA QuestionLast ==
    ASSUME OwnInv, EndInv, QuestionInv, NEW t \in Turns,
           Stamped(t) \/ GraphFails(t) \/ PrepareFails(t) \/ CancelRun(t) \/ CancelEarly(t)
    PROVE  QuestionInv'
<1> DEFINE p == pubs[pub[t]]
<1>1. /\ pc[t] \in {"waiting", "preparing", "running", "stamping"}
      /\ Leaves(t) /\ UNCHANGED <<asked, committed>>
    BY DEF Stamped, GraphFails, PrepareFails, CancelRun, CancelEarly
<1>2. Record(p)
    BY <1>1 DEF OwnInv
<1> SUFFICES \E q : PublishesAndCloses(t, q) /\ Ends(p, q)
    BY <1>1, QuestionEnds
<1>3. CASE Stamped(t)
    <2>1. pc[t] = "stamping" /\ PublishesAndCloses(t, p)
        BY <1>3 DEF Stamped
    <2>2. Ends(p, p)
        BY <1>1, <1>2, <2>1 DEF Ends, Keeps, EndInv, Record
    <2> QED  BY <2>1, <2>2
<1>4. CASE GraphFails(t)
    <2>1. PublishesAndCloses(t, FinalResult(p, run[t].streamed, TRUE))
        BY <1>4 DEF GraphFails
    <2> QED  BY <1>2, <2>1, FinalEnds
<1>5. CASE CancelRun(t)
    <2>1. PublishesAndCloses(t, Result(TurnEnd(p, "cancelled", "cancelled"), "cancelled"))
        BY <1>5 DEF CancelRun
    <2> QED  BY <1>2, <2>1, StopEnds
<1>6. CASE PrepareFails(t) \/ CancelEarly(t)
    <2>1. PICK subtype \in Subtypes : PublishesAndCloses(t, Result(p, subtype))
        BY <1>6 DEF PrepareFails, CancelEarly, FailureOf, Subtypes
    <2> QED  BY <1>2, <2>1, ResultEnds
<1> QED  BY <1>3, <1>4, <1>5, <1>6

\* A question a client has not answered is still on the stream, whatever requests
\* trim and whatever the closes of earlier turns expire (_trim_sentinel, close):
\* as long as its turn has a publisher of its own and no turn ended before the
\* graph's first commit (async_execute), which leaves the question open.
THEOREM QuestionStays == Spec => []QuestionKept
<1>1. Init => QuestionInv
    <2> SUFFICES ASSUME Init PROVE QuestionInv
        OBVIOUS
    <2>1. stream = <<>> /\ asked = None /\ committed = {} /\ \A t \in Turns : pc[t] = "unsent"
        BY DEF Init
    <2>2. <<>> \in Seq(Entries)
        OBVIOUS
    <2> QED  BY <2>1, <2>2 DEF QuestionInv, CommittedInv, WaitsInv, KeptInv
<1>2. OwnInv /\ EndInv /\ QuestionInv /\ [Next]_vars => QuestionInv'
    BY QuestionRuns, QuestionCommits, QuestionAsks, QuestionLast, QuestionWaits, QuestionExpires
       DEF Next, Step
<1>3. QuestionInv => QuestionKept
    BY DEF QuestionInv, KeptInv, Undisturbed, QuestionKept
<1> QED  BY <1>1, <1>2, <1>3, StreamInv, PTL DEF Spec
=============================================================================
