------------------------- MODULE HeaderBlockProofs --------------------------
(***************************************************************************)
(* The types of the operators on frames and header blocks; and what the    *)
(* header block tracker tells about the frames received so far, for every  *)
(* sequence of frames: that an event which completes a block is about the  *)
(* very frames that hold it, however many CONTINUATION frames and frames   *)
(* of other types there were, and errors passed over before.               *)
(***************************************************************************)
EXTENDS HeaderBlocks, SequenceTheorems, TLAPS

(***************************************************************************)
(* Types of the operators                                                  *)
(***************************************************************************)
\* The frames the client makes are frames: the constructors of package frame.
LEMMA ConstructorTypes ==
    /\ ConnectionPreface \in Frame
    /\ GoAwayFrame \in Frame
    /\ \A flags \in SUBSET Flags : SettingsFrame(flags) \in Frame
    /\ \A flags \in SUBSET Flags, data \in Seq(Item) : PingFrame(flags, data) \in Frame
    /\ \A s \in StreamIds, flags \in SUBSET Flags, block \in Seq(Item) :
          /\ HeadersFrame(s, flags, block) \in Frame
          /\ DataFrame(s, flags, block) \in Frame
  BY StreamIdsAssumption
     DEF Frame, FrameTypes, Flags, ConnectionPreface, GoAwayFrame, SettingsFrame,
         PingFrame, HeadersFrame, DataFrame

\* The tracker of client/event.go returns a tracker and an event.
LEMMA ConsumeType ==
    ASSUME NEW t \in Tracker, NEW f \in Frame
    PROVE  Consume(t, f).tracker \in Tracker /\ Consume(t, f).event \in Event
  <1>1. Idle \in Tracker /\ NoBlock \in Event
    BY StreamIdsAssumption DEF Idle, NoBlock, Tracker, Event
  <1>2. \A s \in Tracker : Keep(s).tracker \in Tracker /\ Keep(s).event \in Event
    BY <1>1 DEF Keep
  <1>3. \A s \in Tracker : Refuse(s).tracker \in Tracker /\ Refuse(s).event \in Event
    BY <1>1 DEF Refuse, NoBlock, Event
  <1>4. \A s \in StreamIds, end \in BOOLEAN, block \in Seq(Item) :
           Finish(s, end, block).tracker \in Tracker /\ Finish(s, end, block).event \in Event
    BY <1>1 DEF Finish, Event, Decodes
  <1>5. /\ f.stream \in StreamIds /\ f.payload \in Seq(Item)
        /\ StartsEnd(f) \in BOOLEAN
        /\ t.stream \in StreamIds /\ t.block \in Seq(Item) /\ t.end \in BOOLEAN
    BY DEF Frame, Tracker, StartsEnd
  <1>6. t.block \o f.payload \in Seq(Item)
    BY <1>5
  <1>7. /\ ConsumeHeaderStart(t, f).tracker \in Tracker
        /\ ConsumeHeaderStart(t, f).event \in Event
    <2>1. [stream |-> f.stream, block |-> f.payload, end |-> StartsEnd(f)] \in Tracker
      BY <1>5 DEF Tracker
    <2> QED
      BY <2>1, <1>1, <1>2, <1>3, <1>4, <1>5 DEF ConsumeHeaderStart
  <1>8. /\ ConsumeContinuation(t, f).tracker \in Tracker
        /\ ConsumeContinuation(t, f).event \in Event
    <2>1. [t EXCEPT !.block = @ \o f.payload] \in Tracker
      BY <1>6 DEF Tracker
    <2> QED
      BY <2>1, <1>1, <1>2, <1>3, <1>4, <1>5, <1>6 DEF ConsumeContinuation
  <1> QED
    BY <1>2, <1>7, <1>8 DEF Consume

(***************************************************************************)
(* Blocks                                                                  *)
(***************************************************************************)
\* A history h is a sequence of frames; whatever else the client did in between
\* stands there as a frame that belongs to no block.
Starts(f) == f.type \in {"HEADERS", "PUSH_PROMISE"}
IsPart(f) == Starts(f) \/ f.type = "CONTINUATION"
Closes(f) == "END_HEADERS" \in f.flags

Follows(f, first) == f.type = "CONTINUATION" /\ f.stream = first.stream

\* h[j] opens a block that nothing has ended or broken.
OpenAt(h, j) ==
    /\ Starts(h[j])
    /\ \A i \in j..Len(h) :
          IsPart(h[i]) => ~Closes(h[i]) /\ (i # j => Follows(h[i], h[j]))

\* h[j] to h[n] hold exactly one whole block.
WholeBlock(h, j, n) ==
    /\ j <= n /\ Starts(h[j]) /\ IsPart(h[n])
    /\ \A i \in j..n :
          IsPart(h[i]) => (Closes(h[i]) <=> i = n) /\ (i # j => Follows(h[i], h[j]))

\* A pending block is one that the history has open.
Tracks(t, h) ==
    t.stream # 0 =>
        \E j \in DOMAIN h : /\ OpenAt(h, j)
                            /\ t.stream = h[j].stream /\ t.end = StartsEnd(h[j])

\* The event is the end of the block that h[j] opened.
Reports(event, first) ==
    event.complete /\ event.stream = first.stream /\ event.endStream = StartsEnd(first)

\* At most one block is open.
LEMMA OneOpen ==
    ASSUME NEW h \in Seq(Frame), NEW j \in DOMAIN h, NEW k \in DOMAIN h,
           OpenAt(h, j), OpenAt(h, k)
    PROVE  j = k
  <1>1. ASSUME NEW a \in DOMAIN h, NEW b \in DOMAIN h, OpenAt(h, a), OpenAt(h, b), a < b
        PROVE  FALSE
    <2>1. b \in a..Len(h) /\ b # a
      BY <1>1
    <2>2. Starts(h[b]) /\ IsPart(h[b])
      BY <1>1 DEF OpenAt, IsPart
    <2>3. Follows(h[b], h[a])
      BY <1>1, <2>1, <2>2 DEF OpenAt
    <2> QED
      BY <2>2, <2>3 DEF Follows, Starts
  <1> QED
    BY <1>1

\* The history with one more frame.
LEMMA Grown ==
    ASSUME NEW h \in Seq(Frame), NEW f \in Frame
    PROVE  LET g == Append(h, f) IN
           /\ g \in Seq(Frame) /\ Len(g) = Len(h) + 1 /\ g[Len(g)] = f
           /\ \A i \in DOMAIN h : i \in DOMAIN g /\ i < Len(g) /\ g[i] = h[i]
           /\ \A i \in 1..Len(g) : i \in DOMAIN h \/ i = Len(g)
           /\ DOMAIN g = 1..Len(g) /\ DOMAIN h = 1..Len(h) /\ Len(h) \in Nat
  OBVIOUS

\* The same as a function, for histories that are defined entry by entry.
LEMMA AppendIs ==
    ASSUME NEW S, NEW s \in Seq(S), NEW x \in S
    PROVE  Append(s, x) = [k \in 1..(Len(s) + 1) |-> IF k = Len(s) + 1 THEN x ELSE s[k]]
  <1> DEFINE t == [k \in 1..(Len(s) + 1) |-> IF k = Len(s) + 1 THEN x ELSE s[k]]
             u == Append(s, x)
  <1>1. t \in Seq(S) /\ Len(t) = Len(s) + 1
    OBVIOUS
  <1>2. u \in Seq(S) /\ Len(u) = Len(s) + 1
    OBVIOUS
  <1>3. \A k \in 1..(Len(s) + 1) : u[k] = t[k]
    OBVIOUS
  <1> HIDE DEF t, u
  <1>4. u = t
    BY <1>1, <1>2, <1>3, SeqEqual
  <1> QED
    BY <1>4 DEF t, u

\* A frame that is no part of a block, or continues it, leaves it open.
LEMMA StaysOpen ==
    ASSUME NEW h \in Seq(Frame), NEW f \in Frame, NEW j \in DOMAIN h, OpenAt(h, j),
           IsPart(f) => ~Closes(f) /\ Follows(f, h[j])
    PROVE  OpenAt(Append(h, f), j)
  <1> DEFINE g == Append(h, f)
  <1>1. /\ Len(g) = Len(h) + 1 /\ g[Len(g)] = f /\ j < Len(g) /\ g[j] = h[j]
        /\ \A i \in DOMAIN h : g[i] = h[i]
        /\ \A i \in 1..Len(g) : i \in DOMAIN h \/ i = Len(g)
        /\ DOMAIN h = 1..Len(h)
    BY Grown
  <1> HIDE DEF g
  <1>2. ASSUME NEW i \in j..Len(g), IsPart(g[i])
        PROVE  ~Closes(g[i]) /\ (i # j => Follows(g[i], g[j]))
    <2>1. CASE i \in DOMAIN h
      BY <1>1, <1>2, <2>1 DEF OpenAt
    <2>2. CASE i = Len(g)
      BY <1>1, <1>2, <2>2
    <2> QED
      BY <1>1, <1>2, <2>1, <2>2
  <1> QED
    BY <1>1, <1>2 DEF OpenAt, g

\* A CONTINUATION with END_HEADERS makes an open block whole.
LEMMA Completes ==
    ASSUME NEW h \in Seq(Frame), NEW f \in Frame, NEW j \in DOMAIN h, OpenAt(h, j),
           Closes(f), Follows(f, h[j])
    PROVE  WholeBlock(Append(h, f), j, Len(h) + 1)
  <1> DEFINE g == Append(h, f)
             n == Len(h) + 1
  <1>1. /\ Len(g) = n /\ g[n] = f /\ j < n /\ g[j] = h[j]
        /\ \A i \in DOMAIN h : g[i] = h[i] /\ i < n
        /\ \A i \in 1..n : i \in DOMAIN h \/ i = n
        /\ DOMAIN h = 1..Len(h) /\ n \in Nat /\ j \in Nat
    BY Grown
  <1>2. Starts(g[j]) /\ IsPart(g[n])
    BY <1>1 DEF OpenAt, Follows, IsPart
  <1> HIDE DEF g
  <1>3. ASSUME NEW i \in j..n, IsPart(g[i])
        PROVE  (Closes(g[i]) <=> i = n) /\ (i # j => Follows(g[i], g[j]))
    <2>1. CASE i \in DOMAIN h
      BY <1>1, <1>3, <2>1 DEF OpenAt
    <2>2. CASE i = n
      BY <1>1, <1>3, <2>2
    <2> QED
      BY <1>1, <1>3, <2>1, <2>2
  <1> QED
    BY <1>1, <1>2, <1>3 DEF WholeBlock, g

\* Before its last frame, a block of several frames is open.
LEMMA WasOpen ==
    ASSUME NEW h \in Seq(Frame), NEW f \in Frame, NEW j \in 1..(Len(h) + 1),
           WholeBlock(Append(h, f), j, Len(h) + 1), j # Len(h) + 1
    PROVE  /\ j \in DOMAIN h /\ OpenAt(h, j)
           /\ IsPart(f) /\ Closes(f) /\ Follows(f, h[j])
  <1> DEFINE g == Append(h, f)
             n == Len(h) + 1
  <1>1. /\ g[n] = f /\ j \in DOMAIN h /\ g[j] = h[j] /\ j <= n
        /\ \A i \in DOMAIN h : g[i] = h[i] /\ i < n
        /\ DOMAIN h = 1..Len(h) /\ n \in Nat /\ j \in Nat /\ Len(h) \in Nat
    BY Grown
  <1>2. /\ Starts(g[j]) /\ IsPart(g[n])
        /\ \A i \in j..n :
              IsPart(g[i]) => (Closes(g[i]) <=> i = n) /\ (i # j => Follows(g[i], g[j]))
    BY DEF WholeBlock
  <1> HIDE DEF g
  <1>3. IsPart(f) /\ Closes(f) /\ Follows(f, h[j])
    BY <1>1, <1>2
  <1>4. ASSUME NEW i \in j..Len(h), IsPart(h[i])
        PROVE  ~Closes(h[i]) /\ (i # j => Follows(h[i], h[j]))
    <2>1. i \in DOMAIN h /\ i \in j..n /\ i # n
      BY <1>1, <1>4
    <2> QED
      BY <1>1, <1>2, <1>4, <2>1
  <1> QED
    BY <1>1, <1>2, <1>3, <1>4 DEF OpenAt

\* What is pending stays what the history has open.
LEMMA ConsumeTracks ==
    ASSUME NEW h \in Seq(Frame), NEW t \in Tracker, NEW f \in Frame, Tracks(t, h)
    PROVE  Tracks(Consume(t, f).tracker, Append(h, f))
  <1> DEFINE g == Append(h, f)
             u == Consume(t, f).tracker
  <1>1. /\ g[Len(g)] = f /\ Len(g) \in DOMAIN g
        /\ \A j \in DOMAIN h : j \in DOMAIN g /\ g[j] = h[j]
    BY Grown
  <1>2. CASE u.stream = 0
    BY <1>2 DEF Tracks
  <1>3. CASE u.stream # 0 /\ Starts(f)
    <2>1. u = [stream |-> f.stream, block |-> f.payload, end |-> StartsEnd(f)] /\ ~Closes(f)
      BY <1>3 DEF Consume, ConsumeHeaderStart, Starts, Closes, Keep, Refuse, Finish, Idle
    <2>2. \A i \in Len(g)..Len(g) : i = Len(g)
      BY Grown
    <2>3. OpenAt(g, Len(g))
      BY <1>1, <1>3, <2>1, <2>2 DEF OpenAt
    <2> QED
      BY <1>1, <2>1, <2>3 DEF Tracks
  <1>4. ASSUME u.stream # 0, u.stream = t.stream, u.end = t.end,
               \A j \in DOMAIN h : h[j].stream = t.stream =>
                   (IsPart(f) => ~Closes(f) /\ Follows(f, h[j]))
        PROVE  Tracks(u, g)
    <2>1. PICK j \in DOMAIN h : /\ OpenAt(h, j)
                                /\ t.stream = h[j].stream /\ t.end = StartsEnd(h[j])
      BY <1>4 DEF Tracks
    <2>2. OpenAt(g, j)
      BY <1>4, <2>1, StaysOpen
    <2> HIDE DEF g, u
    <2> QED
      BY <1>1, <1>4, <2>1, <2>2 DEF Tracks
  <1>5. CASE u.stream # 0 /\ f.type = "CONTINUATION"
    <2>1. /\ t.stream # 0 /\ f.stream = t.stream /\ ~Closes(f)
          /\ u = [t EXCEPT !.block = @ \o f.payload]
      BY <1>5 DEF Consume, ConsumeContinuation, Closes, Keep, Refuse, Finish, Idle
    <2>2. u.stream = t.stream /\ u.end = t.end
      BY <2>1 DEF Tracker
    <2>3. \A j \in DOMAIN h : h[j].stream = t.stream => Follows(f, h[j])
      BY <1>5, <2>1 DEF Follows
    <2> QED
      BY <1>4, <1>5, <2>1, <2>2, <2>3
  <1>6. CASE u.stream # 0 /\ ~IsPart(f)
    <2>1. u = t
      BY <1>6 DEF Consume, Keep, IsPart, Starts
    <2> QED
      BY <1>4, <1>6, <2>1
  <1> QED
    BY <1>2, <1>3, <1>5, <1>6 DEF IsPart

\* An event that completes a block is about a block that is whole; and the
\* last frame of a whole block either completes it or is refused with an error.
LEMMA ConsumeReports ==
    ASSUME NEW h \in Seq(Frame), NEW t \in Tracker, NEW f \in Frame, Tracks(t, h)
    PROVE  LET g == Append(h, f)
               n == Len(h) + 1
               event == Consume(t, f).event
           IN  /\ event.complete =>
                     \E j \in 1..n : WholeBlock(g, j, n) /\ Reports(event, g[j])
               /\ \A j \in 1..n : WholeBlock(g, j, n) => event.error \/ Reports(event, g[j])
  <1> DEFINE g == Append(h, f)
             n == Len(h) + 1
             event == Consume(t, f).event
  <1>1. /\ g[n] = f /\ n \in 1..n /\ n \in Nat
        /\ \A j \in DOMAIN h : j \in 1..n /\ g[j] = h[j]
    BY Grown
  <1>2. ASSUME event.complete, Starts(f)
        PROVE  \E j \in 1..n : WholeBlock(g, j, n) /\ Reports(event, g[j])
    <2>1. Closes(f) /\ Reports(event, f)
      BY <1>2 DEF Consume, ConsumeHeaderStart, Starts, Closes, Keep, Refuse, Finish, NoBlock,
                  Reports
    <2>2. \A i \in n..n : i = n
      BY <1>1
    <2>3. WholeBlock(g, n, n)
      BY <1>1, <1>2, <2>1, <2>2 DEF WholeBlock, IsPart
    <2> QED
      BY <1>1, <2>1, <2>3
  <1>3. ASSUME event.complete, f.type = "CONTINUATION"
        PROVE  \E j \in 1..n : WholeBlock(g, j, n) /\ Reports(event, g[j])
    <2>1. /\ Closes(f) /\ t.stream # 0 /\ f.stream = t.stream
          /\ event.stream = t.stream /\ event.endStream = t.end
      BY <1>3 DEF Consume, ConsumeContinuation, Closes, Keep, Refuse, Finish, NoBlock
    <2>2. PICK j \in DOMAIN h : /\ OpenAt(h, j)
                                /\ t.stream = h[j].stream /\ t.end = StartsEnd(h[j])
      BY <2>1 DEF Tracks
    <2>3. Follows(f, h[j])
      BY <1>3, <2>1, <2>2 DEF Follows
    <2>4. WholeBlock(g, j, n)
      BY <2>1, <2>2, <2>3, Completes
    <2> HIDE DEF g, event, n
    <2> QED
      BY <1>1, <1>3, <2>1, <2>2, <2>4 DEF Reports
  <1>4. ASSUME event.complete, ~IsPart(f)
        PROVE  FALSE
    BY <1>4 DEF Consume, Keep, NoBlock, IsPart, Starts
  <1>5. ASSUME NEW j \in 1..n, WholeBlock(g, j, n), ~event.error PROVE Reports(event, g[j])
    <2>1. CASE j = n
      <3>1. Starts(f) /\ Closes(f)
        BY <1>1, <1>5, <2>1 DEF WholeBlock
      <3>2. Reports(event, f)
        BY <1>5, <3>1 DEF Consume, ConsumeHeaderStart, Starts, Closes, Refuse, Finish, NoBlock,
                         Reports
      <3> QED
        BY <1>1, <2>1, <3>2
    <2>2. CASE j # n
      <3>1. j \in DOMAIN h /\ OpenAt(h, j) /\ Closes(f) /\ Follows(f, h[j])
        BY <1>5, <2>2, WasOpen
      <3>2. f.type = "CONTINUATION" /\ f.stream = h[j].stream
        BY <3>1 DEF Follows
      <3>3. t.stream # 0 /\ event.complete /\ event.stream = t.stream /\ event.endStream = t.end
        BY <1>5, <3>1, <3>2 DEF Consume, ConsumeContinuation, Closes, Refuse, Finish, NoBlock
      <3>4. PICK k \in DOMAIN h : /\ OpenAt(h, k)
                                  /\ t.stream = h[k].stream /\ t.end = StartsEnd(h[k])
        BY <3>3 DEF Tracks
      <3>5. k = j
        BY <3>1, <3>4, OneOpen
      <3> HIDE DEF g, event
      <3> QED
        BY <1>1, <3>1, <3>3, <3>4, <3>5 DEF Reports
    <2> QED
      BY <2>1, <2>2
  <1> HIDE DEF g, n, event
  <1>6. event.complete => \E j \in 1..n : WholeBlock(g, j, n) /\ Reports(event, g[j])
    BY <1>2, <1>3, <1>4 DEF IsPart
  <1> QED
    BY <1>5, <1>6 DEF g, n, event
=============================================================================
