------------------------- MODULE FrameStreamProofs --------------------------
(***************************************************************************)
(* FrameStream implements FrameChannel, for every set of frames, every     *)
(* number of them and every capacity of the stream.                        *)
(***************************************************************************)
EXTENDS FrameStream, FrameCodecProofs

\* s lies in the stream, behind the first from octets.
Part(s, stream, from) ==
    /\ s \in Seq(Octet) /\ from \in Nat
    /\ from + Len(s) <= Len(stream)
    /\ \A i \in 1..Len(s) : s[i] = stream[from + i]

\* ends[i]: the octets that the first i frames take.
Written(stream, ends) ==
    /\ stream \in Seq(Octet) /\ ends \in [0..Len(sent) -> Nat]
    /\ ends[0] = 0 /\ ends[Len(sent)] = Len(stream)
    /\ \A i \in 1..Len(sent) : \E octets \in Seq(Octet) :
          /\ Carries(octets, sent[i])
          /\ Part(octets, stream, ends[i - 1])
          /\ ends[i] = ends[i - 1] + Len(octets)

\* The octets that the receiver has taken out of its buffer.
Consumed(ends) == ends[Len(delivered)] + (IF head = {} THEN 0 ELSE HeaderLength)

\* Buffer, wire and unsent data follow each other in the stream.
InTransit(stream, from) ==
    /\ Part(buf, stream, from)
    /\ Part(wire, stream, from + Len(buf))
    /\ Part(data, stream, from + Len(buf) + Len(wire))
    /\ writer = "open" => from + Len(buf) + Len(wire) + Len(data) = Len(stream)

Typed ==
    /\ sent \in Seq(Frames)
    /\ delivered \in Seq(UNION {Forms(f) : f \in Frames})
    /\ buf \in Seq(Octet) /\ wire \in Seq(Octet) /\ data \in Seq(Octet)
    /\ Len(delivered) <= Len(sent)

HeadKnown ==
    head # {} => /\ Len(delivered) < Len(sent)
                 /\ head = {Arriving(sent[Len(delivered) + 1])}

\* Until an error ends ReceiveFrame's loop, what is on its way is what was marshalled.
Flows ==
    ~broken => /\ HeadKnown
               /\ \E stream, ends : Written(stream, ends) /\ InTransit(stream, Consumed(ends))

(***************************************************************************)
(* Parts                                                                   *)
(***************************************************************************)
LEMMA PartOfLonger ==
    ASSUME NEW s, NEW stream \in Seq(Octet), NEW from, Part(s, stream, from),
           NEW more \in Seq(Octet), NEW longer, Joined(Octet, longer, stream, more)
    PROVE  Part(s, longer, from)
<1>1. Len(s) \in Nat /\ Len(stream) \in Nat /\ from \in Nat /\ Len(longer) >= Len(stream)
  BY LenProperties DEF Part, Joined
<1>2. from + Len(s) <= Len(longer)
  BY <1>1 DEF Part
<1>3. ASSUME NEW i \in 1..Len(s) PROVE s[i] = longer[from + i]
  <2>1. from + i \in 1..Len(stream) /\ s[i] = stream[from + i]
    BY <1>1 DEF Part
  <2> QED
    BY <2>1 DEF Joined
<1> QED
  BY <1>2, <1>3 DEF Part

LEMMA EmptyPart ==
    ASSUME NEW stream \in Seq(Octet), NEW from \in Nat, from <= Len(stream)
    PROVE  Part(<<>>, stream, from)
BY DEF Part

\* The first n octets of one part join the part before it.
Moved(stream, from, s, t, n, more, rest) ==
    /\ Part(more, stream, from) /\ Part(rest, stream, from + Len(more))
    /\ Len(more) = Len(s) + n /\ Len(rest) = Len(t) - n

LEMMA PartMoves ==
    ASSUME NEW stream \in Seq(Octet), NEW from, NEW s, NEW t, Part(s, stream, from),
           Part(t, stream, from + Len(s)), NEW n \in 1..Len(t)
    PROVE  Moved(stream, from, s, t, n, s \o SubSeq(t, 1, n), SubSeq(t, n + 1, Len(t)))
<1>a. PICK first, rest : first = SubSeq(t, 1, n) /\ rest = SubSeq(t, n + 1, Len(t))
  OBVIOUS
<1>b. PICK more : more = s \o first
  OBVIOUS
<1>1. /\ s \in Seq(Octet) /\ t \in Seq(Octet) /\ from \in Nat /\ Len(s) \in Nat /\ Len(t) \in Nat
      /\ n \in Nat /\ n <= Len(t) /\ from + Len(s) + Len(t) <= Len(stream) /\ Len(stream) \in Nat
  BY LenProperties DEF Part
<1>2. first \in Seq(Octet) /\ Len(first) = n /\ \A i \in 1..n : first[i] = t[i]
  <2>1. PICK start : start = 0
    OBVIOUS
  <2>2. /\ SubSeq(t, start + 1, n) \in Seq(Octet)
        /\ Len(SubSeq(t, start + 1, n)) = IF start <= n THEN n - start ELSE 0
        /\ \A i \in 1..(n - start) : SubSeq(t, start + 1, n)[i] = t[start + i]
    BY <1>1, <2>1, SubSequence
  <2>3. start + 1 = 1 /\ n - start = n /\ start <= n /\ \A i \in 1..n : start + i = i
    BY <1>1, <2>1
  <2> QED
    BY <1>a, <2>2, <2>3
<1>3. /\ rest \in Seq(Octet) /\ Len(rest) = Len(t) - n
      /\ \A i \in 1..(Len(t) - n) : rest[i] = t[n + i]
  <2>1. PICK end : end = Len(t)
    OBVIOUS
  <2>2. /\ SubSeq(t, n + 1, end) \in Seq(Octet)
        /\ Len(SubSeq(t, n + 1, end)) = IF n <= end THEN end - n ELSE 0
        /\ \A i \in 1..(end - n) : SubSeq(t, n + 1, end)[i] = t[n + i]
    BY <1>1, <2>1, SubSequence
  <2> QED
    BY <1>1, <1>a, <2>1, <2>2
<1>4. Joined(Octet, more, s, first)
  BY <1>1, <1>b, <1>2, ConcatJoins
<1>5. /\ more \in Seq(Octet) /\ Len(more) = Len(s) + n
      /\ \A i \in 1..Len(s) : more[i] = s[i]
      /\ \A i \in 1..n : more[Len(s) + i] = first[i]
  BY <1>2, <1>4 DEF Joined
<1>6. ASSUME NEW i \in 1..Len(more) PROVE more[i] = stream[from + i]
  <2>1. CASE i <= Len(s)
    <3>1. i \in 1..Len(s)
      BY <1>1, <1>5, <2>1
    <3> QED
      BY <1>5, <3>1 DEF Part
  <2>2. CASE i > Len(s)
    <3>1. PICK j : j = i - Len(s) /\ j \in 1..n /\ j \in 1..Len(t) /\ Len(s) + j = i
      BY <1>1, <1>5, <2>2
    <3>2. more[i] = t[j]
      BY <1>2, <1>5, <3>1
    <3>3. t[j] = stream[from + Len(s) + j] /\ from + Len(s) + j = from + i
      BY <1>1, <3>1 DEF Part
    <3> QED
      BY <3>2, <3>3
  <2> QED
    BY <1>1, <1>5, <2>1, <2>2
<1>7. Part(more, stream, from)
  BY <1>1, <1>5, <1>6 DEF Part
<1>8. ASSUME NEW i \in 1..Len(rest) PROVE rest[i] = stream[from + Len(more) + i]
  <2>1. PICK j : j = n + i /\ j \in 1..Len(t) /\ i \in 1..(Len(t) - n)
    BY <1>1, <1>3
  <2>2. rest[i] = t[j]
    BY <1>3, <2>1
  <2>3. t[j] = stream[from + Len(s) + j] /\ from + Len(s) + j = from + Len(more) + i
    BY <1>1, <1>3, <1>5, <2>1 DEF Part
  <2> QED
    BY <2>2, <2>3
<1>9. Part(rest, stream, from + Len(more))
  BY <1>1, <1>3, <1>5, <1>8, SMTT(20) DEF Part
<1>10. Moved(stream, from, s, t, n, more, rest)
  BY <1>3, <1>5, <1>7, <1>9 DEF Moved
<1> QED
  BY <1>10, <1>a, <1>b

(***************************************************************************)
(* Init and Next                                                           *)
(***************************************************************************)
LEMMA FramesMarshal ==
    ASSUME NEW f \in Frames, NEW octets \in Marshal(f)
    PROVE  Carries(octets, f)
BY FramesAssumption, MarshalCarries

LEMMA InitFlows == Init => Typed /\ Flows
<1> SUFFICES ASSUME Init PROVE Typed /\ Flows
  OBVIOUS
<1>1. Typed
  BY DEF Init, Typed
<1>2. PICK stream, ends : stream = <<>> /\ ends = [i \in {0} |-> 0]
  OBVIOUS
<1>3. Written(stream, ends)
  <2>1. Len(sent) = 0 /\ 0..0 = {0} /\ stream \in Seq(Octet) /\ Len(stream) = 0
    BY <1>2 DEF Init
  <2>2. ends \in [0..Len(sent) -> Nat] /\ ends[0] = 0
    BY <1>2, <2>1
  <2> QED
    BY <2>1, <2>2 DEF Written
<1>4. InTransit(stream, Consumed(ends))
  <2>1. Consumed(ends) = 0
    BY <1>2 DEF Init, Consumed
  <2> QED
    BY <1>2, <2>1 DEF Init, InTransit, Part
<1> QED
  BY <1>1, <1>3, <1>4 DEF Flows, HeadKnown, Init

LEMMA SendFrameStep ==
    ASSUME Typed, Flows, NEW f \in Frames, SendFrame(f)
    PROVE  Typed' /\ Flows' /\ [Channel!Next]_<<sent, delivered, broken>>
<1>1. CASE Marshal(f) = {} /\ writer' = "closed" /\ UNCHANGED <<sent, data>>
  <2>1. UNCHANGED <<sent, data, wire, head, buf, delivered, broken>> /\ writer' # "open"
    BY <1>1 DEF SendFrame
  <2>2. Typed'
    BY <2>1 DEF Typed
  <2>3. ASSUME NEW stream, NEW ends, Written(stream, ends), InTransit(stream, Consumed(ends))
        PROVE  Written(stream, ends)' /\ InTransit(stream, Consumed(ends))'
    <3>1. Written(stream, ends)' /\ Consumed(ends)' = Consumed(ends)
      BY <2>1, <2>3 DEF Written, Consumed
    <3>2. InTransit(stream, Consumed(ends))'
      BY <2>1, <2>3, <3>1 DEF InTransit, Part
    <3> QED
      BY <3>1, <3>2
  <2>4. Flows'
    BY <2>1, <2>3 DEF Flows, HeadKnown
  <2> QED
    BY <2>1, <2>2, <2>4
<1>2. ASSUME NEW octets \in Marshal(f), data' = octets, sent' = Append(sent, f), UNCHANGED writer
      PROVE  Typed' /\ Flows' /\ [Channel!Next]_<<sent, delivered, broken>>
  <2>1. /\ writer = "open" /\ data = <<>>
        /\ UNCHANGED <<wire, head, buf, delivered, broken>>
    BY DEF SendFrame
  <2>2. Carries(octets, f) /\ octets \in Seq(Octet) /\ Len(octets) \in Nat
    BY FramesMarshal, LenProperties DEF Carries
  <2>3. PICK n : n = Len(sent) /\ n \in Nat
    BY LenProperties DEF Typed
  <2>4. /\ sent' \in Seq(Frames) /\ Len(sent') = n + 1 /\ sent'[n + 1] = f
        /\ \A i \in 1..n : sent'[i] = sent[i]
    BY <1>2, <2>3, AppendProperties DEF Typed
  <2>5. Typed'
    <3>1. Len(delivered) \in Nat /\ Len(delivered) <= n
      BY <2>3, LenProperties DEF Typed
    <3>2. Len(delivered') <= Len(sent')
      BY <2>1, <2>3, <2>4, <3>1
    <3> QED
      BY <1>2, <2>1, <2>2, <2>4, <3>2 DEF Typed
  <2>6. HeadKnown => HeadKnown'
    <3>1. Len(delivered) \in Nat
      BY LenProperties DEF Typed
    <3>2. Len(delivered) < n => Len(delivered) < n + 1 /\ Len(delivered) + 1 \in 1..n
      BY <2>3, <3>1
    <3> QED
      BY <2>1, <2>3, <2>4, <3>2 DEF HeadKnown
  <2>7. ASSUME NEW stream, NEW ends, Written(stream, ends), InTransit(stream, Consumed(ends))
        PROVE  \E stream2, ends2 : Written(stream2, ends2)' /\ InTransit(stream2, Consumed(ends2))'
    <3>1. /\ stream \in Seq(Octet) /\ Len(stream) \in Nat
          /\ ends \in [0..n -> Nat] /\ ends[0] = 0 /\ ends[n] = Len(stream)
          /\ \A i \in 1..n : \E o \in Seq(Octet) :
                Carries(o, sent[i]) /\ Part(o, stream, ends[i - 1]) /\ ends[i] = ends[i - 1] + Len(o)
      BY <2>3, <2>7, LenProperties DEF Written
    <3>2. PICK stream2, ends2 :
            /\ stream2 = stream \o octets
            /\ ends2 = [i \in 0..(n + 1) |-> IF i <= n THEN ends[i] ELSE Len(stream) + Len(octets)]
      OBVIOUS
    <3>3. Joined(Octet, stream2, stream, octets)
      BY <2>2, <3>1, <3>2, ConcatJoins
    <3>4. /\ stream2 \in Seq(Octet) /\ Len(stream2) = Len(stream) + Len(octets)
          /\ \A i \in 1..Len(octets) : stream2[Len(stream) + i] = octets[i]
      BY <3>3 DEF Joined
    <3>5. /\ ends2 \in [0..(n + 1) -> Nat] /\ ends2[0] = 0 /\ ends2[n + 1] = Len(stream2)
          /\ \A i \in 0..n : ends2[i] = ends[i]
      BY <2>2, <2>3, <3>1, <3>2, <3>4
    <3>6. ASSUME NEW i \in 1..(n + 1)
          PROVE  \E o \in Seq(Octet) : /\ Carries(o, sent'[i])
                                       /\ Part(o, stream2, ends2[i - 1])
                                       /\ ends2[i] = ends2[i - 1] + Len(o)
      <4>1. CASE i \in 1..n
        <5>1. PICK o \in Seq(Octet) :
                Carries(o, sent[i]) /\ Part(o, stream, ends[i - 1]) /\ ends[i] = ends[i - 1] + Len(o)
          BY <3>1, <4>1
        <5>2. Part(o, stream2, ends[i - 1])
          BY <2>2, <3>1, <3>3, <5>1, PartOfLonger
        <5>3. ends2[i] = ends[i] /\ ends2[i - 1] = ends[i - 1] /\ sent'[i] = sent[i]
          BY <2>3, <2>4, <3>5, <4>1
        <5> QED
          BY <5>1, <5>2, <5>3
      <4>2. CASE i = n + 1
        <5>0. i - 1 = n /\ n \in 0..n
          BY <2>3, <4>2
        <5>1. ends2[i - 1] = Len(stream) /\ ends2[i] = Len(stream) + Len(octets) /\ sent'[i] = f
          <6>1. ends2[n] = Len(stream) /\ ends2[n + 1] = Len(stream) + Len(octets)
            BY <3>1, <3>4, <3>5, <5>0
          <6> QED
            BY <2>4, <4>2, <5>0, <6>1
        <5>2. Part(octets, stream2, Len(stream))
          BY <2>2, <3>1, <3>4 DEF Part
        <5> QED
          BY <2>2, <5>1, <5>2
      <4> QED
        BY <2>3, <4>1, <4>2
    <3>7. Written(stream2, ends2)'
      BY <2>4, <3>4, <3>5, <3>6 DEF Written
    <3>8. PICK from : from = Consumed(ends)
      OBVIOUS
    <3>9. Consumed(ends2)' = from
      <4>1. Len(delivered) \in 0..n
        BY <2>3, LenProperties DEF Typed
      <4> QED
        BY <2>1, <3>5, <3>8, <4>1 DEF Consumed
    <3>10. InTransit(stream2, from)'
      <4>1. /\ Part(buf, stream, from) /\ Part(wire, stream, from + Len(buf))
            /\ from + Len(buf) + Len(wire) + Len(data) = Len(stream)
        BY <2>1, <2>7, <3>8 DEF InTransit
      <4>2. Part(buf, stream2, from) /\ Part(wire, stream2, from + Len(buf))
        BY <2>2, <3>1, <3>3, <4>1, PartOfLonger
      <4>3. from \in Nat /\ Len(buf) \in Nat /\ Len(wire) \in Nat /\ Len(data) = 0
        BY <2>1, <4>1, LenProperties DEF Part, Typed
      <4>4. from + Len(buf) + Len(wire) = Len(stream)
        BY <4>1, <4>3
      <4>5. Part(octets, stream2, Len(stream))
        BY <2>2, <3>1, <3>4 DEF Part
      <4>6. Part(octets, stream2, from + Len(buf) + Len(wire))
        BY <4>4, <4>5
      <4>7. from + Len(buf) + Len(wire) + Len(octets) = Len(stream2)
        BY <3>4, <4>4
      <4> QED
        BY <1>2, <2>1, <4>2, <4>6, <4>7 DEF InTransit
    <3> QED
      BY <3>7, <3>9, <3>10
  <2>8. Flows'
    BY <2>1, <2>6, <2>7 DEF Flows
  <2>9. Channel!Send
    BY <1>2, <2>1 DEF Channel!Send
  <2> QED
    BY <2>5, <2>8, <2>9 DEF Channel!Next
<1> QED
  BY <1>1, <1>2 DEF SendFrame

LEMMA WriteStep ==
    ASSUME Typed, Flows, Write
    PROVE  Typed' /\ Flows' /\ [Channel!Next]_<<sent, delivered, broken>>
<1>1. PICK n \in 1..Len(data) : /\ wire' = wire \o SubSeq(data, 1, n)
                                /\ data' = SubSeq(data, n + 1, Len(data))
  BY DEF Write, Rest
<1>2. UNCHANGED <<sent, writer, head, buf, delivered, broken>>
  BY DEF Write
<1>3. wire' \in Seq(Octet) /\ data' \in Seq(Octet)
  <2>1. PICK start, end : start = 0 /\ end = Len(data) /\ start + 1 = 1
    OBVIOUS
  <2>2. /\ data \in Seq(Octet) /\ wire \in Seq(Octet) /\ end \in Nat /\ n \in Nat /\ n <= end
    BY <2>1, LenProperties DEF Typed
  <2>3. SubSeq(data, start + 1, n) \in Seq(Octet) /\ SubSeq(data, n + 1, end) \in Seq(Octet)
    BY <2>1, <2>2, SubSequence
  <2> QED
    BY <1>1, <2>1, <2>2, <2>3, ConcatProperties
<1>4. Typed'
  BY <1>2, <1>3 DEF Typed
<1>5. ASSUME NEW stream, NEW ends, Written(stream, ends), InTransit(stream, Consumed(ends))
      PROVE  Written(stream, ends)' /\ InTransit(stream, Consumed(ends))'
  <2>1. Written(stream, ends)' /\ Consumed(ends)' = Consumed(ends)
    BY <1>2, <1>5 DEF Written, Consumed
  <2>2. PICK from, at : from = Consumed(ends) /\ at = from + Len(buf)
    OBVIOUS
  <2>3. /\ Part(buf, stream, from) /\ Part(wire, stream, at) /\ Part(data, stream, at + Len(wire))
        /\ writer = "open" => at + Len(wire) + Len(data) = Len(stream)
        /\ stream \in Seq(Octet)
    BY <1>5, <2>2 DEF InTransit, Written
  <2>4. Moved(stream, at, wire, data, n, wire', data')
    BY <1>1, <2>3, PartMoves
  <2>5. /\ Part(wire', stream, at) /\ Part(data', stream, at + Len(wire'))
        /\ Len(wire') + Len(data') = Len(wire) + Len(data)
        /\ Len(wire') \in Nat /\ Len(data') \in Nat /\ Len(wire) \in Nat /\ Len(data) \in Nat
        /\ at \in Nat
    BY <2>3, <2>4, LenProperties DEF Moved, Part
  <2>6. at + Len(wire') + Len(data') = at + Len(wire) + Len(data)
    BY <2>5
  <2>7. InTransit(stream, from)'
    BY <1>2, <2>2, <2>3, <2>5, <2>6 DEF InTransit
  <2> QED
    BY <2>1, <2>2, <2>7
<1>6. Flows'
  BY <1>2, <1>5 DEF Flows, HeadKnown
<1> QED
  BY <1>2, <1>4, <1>6

LEMMA CloseWriterStep ==
    ASSUME Typed, Flows, CloseWriter
    PROVE  Typed' /\ Flows' /\ [Channel!Next]_<<sent, delivered, broken>>
<1>1. /\ writer' = "closed" /\ data' = <<>> /\ UNCHANGED <<sent, wire, head, buf, delivered, broken>>
  BY DEF CloseWriter
<1>2. Typed'
  BY <1>1 DEF Typed
<1>3. ASSUME NEW stream, NEW ends, Written(stream, ends), InTransit(stream, Consumed(ends))
      PROVE  Written(stream, ends)' /\ InTransit(stream, Consumed(ends))'
  <2>1. Written(stream, ends)' /\ Consumed(ends)' = Consumed(ends)
    BY <1>1, <1>3 DEF Written, Consumed
  <2>2. PICK from : from = Consumed(ends)
    OBVIOUS
  <2>3. PICK at : at = from + Len(buf) + Len(wire)
    OBVIOUS
  <2>4. Part(buf, stream, from) /\ Part(wire, stream, from + Len(buf)) /\ stream \in Seq(Octet)
    BY <1>3, <2>2 DEF InTransit, Written
  <2>5. at \in Nat /\ at <= Len(stream)
    BY <2>3, <2>4, LenProperties DEF Part
  <2>6. Part(<<>>, stream, at)
    BY <2>4, <2>5, EmptyPart
  <2>7. InTransit(stream, from)'
    BY <1>1, <2>3, <2>4, <2>6 DEF InTransit
  <2> QED
    BY <2>1, <2>2, <2>7
<1>4. Flows'
  BY <1>1, <1>3 DEF Flows, HeadKnown
<1> QED
  BY <1>1, <1>2, <1>4

LEMMA ReadStep ==
    ASSUME Typed, Flows, Read
    PROVE  Typed' /\ Flows' /\ [Channel!Next]_<<sent, delivered, broken>>
<1>1. PICK n \in 1..Len(wire) : /\ buf' = buf \o SubSeq(wire, 1, n)
                                /\ wire' = SubSeq(wire, n + 1, Len(wire))
  BY DEF Read
<1>2. UNCHANGED <<sent, data, writer, head, delivered, broken>>
  BY DEF Read
<1>3. buf' \in Seq(Octet) /\ wire' \in Seq(Octet)
  <2>1. PICK start, end : start = 0 /\ end = Len(wire) /\ start + 1 = 1
    OBVIOUS
  <2>2. /\ buf \in Seq(Octet) /\ wire \in Seq(Octet) /\ end \in Nat /\ n \in Nat /\ n <= end
    BY <2>1, LenProperties DEF Typed
  <2>3. SubSeq(wire, start + 1, n) \in Seq(Octet) /\ SubSeq(wire, n + 1, end) \in Seq(Octet)
    BY <2>1, <2>2, SubSequence
  <2> QED
    BY <1>1, <2>1, <2>2, <2>3, ConcatProperties
<1>4. Typed'
  BY <1>2, <1>3 DEF Typed
<1>5. ASSUME NEW stream, NEW ends, Written(stream, ends), InTransit(stream, Consumed(ends))
      PROVE  Written(stream, ends)' /\ InTransit(stream, Consumed(ends))'
  <2>1. Written(stream, ends)' /\ Consumed(ends)' = Consumed(ends)
    BY <1>2, <1>5 DEF Written, Consumed
  <2>2. PICK from : from = Consumed(ends)
    OBVIOUS
  <2>3. /\ Part(buf, stream, from) /\ Part(wire, stream, from + Len(buf))
        /\ Part(data, stream, from + Len(buf) + Len(wire))
        /\ writer = "open" => from + Len(buf) + Len(wire) + Len(data) = Len(stream)
        /\ stream \in Seq(Octet)
    BY <1>5, <2>2 DEF InTransit, Written
  <2>4. Moved(stream, from, buf, wire, n, buf', wire')
    BY <1>1, <2>3, PartMoves
  <2>5. /\ Part(buf', stream, from) /\ Part(wire', stream, from + Len(buf'))
        /\ Len(buf') + Len(wire') = Len(buf) + Len(wire)
        /\ Len(buf') \in Nat /\ Len(wire') \in Nat /\ Len(buf) \in Nat /\ Len(wire) \in Nat
        /\ from \in Nat
    BY <2>3, <2>4, LenProperties DEF Moved, Part
  <2>6. from + Len(buf') + Len(wire') = from + Len(buf) + Len(wire)
    BY <2>5
  <2>7. InTransit(stream, from)'
    BY <1>2, <2>3, <2>5, <2>6 DEF InTransit
  <2> QED
    BY <2>1, <2>2, <2>7
<1>6. Flows'
  BY <1>2, <1>5 DEF Flows, HeadKnown
<1> QED
  BY <1>2, <1>4, <1>6

LEMMA ReadEOFStep ==
    ASSUME Typed, Flows, ReadEOF
    PROVE  Typed' /\ Flows' /\ [Channel!Next]_<<sent, delivered, broken>>
<1>1. broken' = TRUE /\ UNCHANGED <<sent, data, writer, wire, head, buf, delivered>>
  BY DEF ReadEOF
<1>2. Typed' /\ Flows'
  BY <1>1 DEF Typed, Flows
<1>3. Channel!Break
  BY <1>1 DEF Channel!Break
<1> QED
  BY <1>2, <1>3 DEF Channel!Next

\* Parts of the same length in the same place are equal.
LEMMA SameParts ==
    ASSUME NEW stream, NEW from, NEW s, NEW t, Part(s, stream, from), Part(t, stream, from),
           Len(s) = Len(t)
    PROVE  s = t
<1>1. s \in Seq(Octet) /\ t \in Seq(Octet) /\ \A i \in 1..Len(s) : s[i] = t[i]
  BY DEF Part
<1> QED
  BY <1>1, SeqEqual

\* Octets behind those of the delivered frames belong to another one.
LEMMA OctetsAhead ==
    ASSUME Typed, NEW stream, NEW ends, Written(stream, ends),
           NEW k, k = Len(delivered), NEW s, Part(s, stream, ends[k]), Len(s) > 0
    PROVE  k < Len(sent)
<1>1. PICK n : n = Len(sent) /\ n \in Nat
  BY LenProperties DEF Typed
<1>2. k \in Nat /\ k <= n
  BY <1>1, LenProperties DEF Typed
<1>3. ends[k] \in Nat /\ ends[n] = Len(stream)
  BY <1>1, <1>2 DEF Written
<1>4. ends[k] + Len(s) <= Len(stream) /\ Len(s) \in Nat /\ Len(stream) \in Nat
  BY LenProperties DEF Part, Written
<1>5. k # n
  BY <1>3, <1>4
<1> QED
  BY <1>1, <1>2, <1>5

\* The octets of the frame that is next.
LEMMA FrameAhead ==
    ASSUME Typed, NEW stream, NEW ends, Written(stream, ends), NEW k, k = Len(delivered), k < Len(sent)
    PROVE  /\ k \in Nat /\ k + 1 \in 1..Len(sent) /\ sent[k + 1] \in Frames
           /\ ends[k] \in Nat /\ ends[k + 1] \in Nat
           /\ \E octets \in Seq(Octet) : /\ Carries(octets, sent[k + 1])
                                         /\ Part(octets, stream, ends[k])
                                         /\ ends[k + 1] = ends[k] + Len(octets)
<1>1. PICK n : n = Len(sent) /\ n \in Nat
  BY LenProperties DEF Typed
<1>2. k \in Nat /\ k < n
  BY <1>1, LenProperties DEF Typed
<1>3. k + 1 \in 1..n /\ (k + 1) - 1 = k /\ k \in 0..n /\ k + 1 \in 0..n
  BY <1>1, <1>2
<1>4. sent[k + 1] \in Frames
  BY <1>1, <1>3 DEF Typed
<1>5. \E octets \in Seq(Octet) : /\ Carries(octets, sent[k + 1])
                                 /\ Part(octets, stream, ends[(k + 1) - 1])
                                 /\ ends[k + 1] = ends[(k + 1) - 1] + Len(octets)
  BY <1>1, <1>3 DEF Written
<1>6. ends[k] \in Nat /\ ends[k + 1] \in Nat
  BY <1>1, <1>3 DEF Written
<1> QED
  BY <1>1, <1>2, <1>3, <1>4, <1>5, <1>6

\* Nine octets of the next frame are its header.
LEMMA HeaderAhead ==
    ASSUME NEW stream, NEW from, NEW f, NEW octets, Carries(octets, f), Part(octets, stream, from),
           NEW s, Part(s, stream, from), Len(s) = HeaderLength
    PROVE  ParseHeader(s) = Arriving(f)
<1>1. PICK start, end : start = 0 /\ end = HeaderLength /\ start + 1 = 1 /\ end \in Nat
  BY DEF HeaderLength
<1>2. /\ octets \in Seq(Octet) /\ s \in Seq(Octet) /\ Len(octets) \in Nat
      /\ Len(Payload(f)) \in Nat /\ Len(octets) = end + Len(Payload(f))
  BY <1>1, LenProperties DEF Carries, Part
<1>3. end <= Len(octets) /\ end = start + Len(s)
  BY <1>1, <1>2
<1>4. ASSUME NEW i \in 1..Len(s) PROVE octets[start + i] = s[i]
  <2>1. i \in 1..Len(octets) /\ start + i = i
    BY <1>1, <1>2, <1>3
  <2>2. octets[i] = stream[from + i] /\ s[i] = stream[from + i]
    BY <2>1 DEF Part
  <2> QED
    BY <2>1, <2>2
<1>5. SubSeq(octets, start + 1, end) = s
  BY <1>1, <1>2, <1>3, <1>4, PartAt
<1>6. SubSeq(octets, 1, HeaderLength) = s
  BY <1>1, <1>5
<1> QED
  BY <1>6 DEF Carries

\* The octets behind the header are the payload.
LEMMA PayloadAhead ==
    ASSUME NEW stream, NEW from, NEW f, NEW octets, Carries(octets, f), Part(octets, stream, from),
           NEW s, Part(s, stream, from + HeaderLength), Len(s) = Len(Payload(f))
    PROVE  s = Payload(f) /\ from + Len(octets) = from + HeaderLength + Len(s)
<1>1. PICK p : p = Payload(f) /\ p \in Seq(Octet) /\ Len(p) \in Nat
  BY LenProperties DEF Carries
<1>2. from \in Nat /\ HeaderLength \in Nat /\ Len(octets) = HeaderLength + Len(p)
      /\ Len(octets) \in Nat /\ from + Len(octets) <= Len(stream)
  BY <1>1 DEF Carries, Part, HeaderLength
<1>3. ASSUME NEW i \in 1..Len(p) PROVE p[i] = stream[from + HeaderLength + i]
  <2>1. PICK j : j = HeaderLength + i /\ j \in 1..Len(octets) /\ from + j = from + HeaderLength + i
    BY <1>1, <1>2
  <2>2. octets[j] = p[i]
    BY <1>1, <2>1 DEF Carries
  <2>3. octets[j] = stream[from + j]
    BY <2>1 DEF Part
  <2> QED
    BY <2>1, <2>2, <2>3
<1>4. from + HeaderLength + Len(p) = from + Len(octets)
  BY <1>1, <1>2
<1>5. Part(p, stream, from + HeaderLength)
  BY <1>1, <1>2, <1>3, <1>4 DEF Part
<1>6. s = p
  BY <1>1, <1>5, SameParts
<1> QED
  BY <1>1, <1>4, <1>6

\* What Unmarshal makes of the payload of a frame is a form of the frame.
LEMMA FormsAreRead ==
    ASSUME NEW f \in Frames
    PROVE  Unmarshal(Arriving(f), Payload(f)) = Forms(f)
<1>1. CASE f.raw
  BY <1>1 DEF Payload, Forms
<1>2. CASE ~f.raw
  BY <1>2, FramesAssumption, FramesAreRead DEF Forms, Reads
<1> QED
  BY <1>1, <1>2

LEMMA ReceiveHeaderStep ==
    ASSUME Typed, Flows, ReceiveHeader
    PROVE  Typed' /\ Flows' /\ [Channel!Next]_<<sent, delivered, broken>>
<1>1. /\ ~broken /\ head = {} /\ Len(buf) = HeaderLength /\ head' = {ParseHeader(buf)} /\ buf' = <<>>
      /\ UNCHANGED <<sent, data, writer, wire, delivered, broken>>
  BY DEF ReceiveHeader, Wanted
<1>2. Typed'
  BY <1>1 DEF Typed
<1>3. ASSUME NEW stream, NEW ends, Written(stream, ends), InTransit(stream, Consumed(ends))
      PROVE  HeadKnown' /\ Written(stream, ends)' /\ InTransit(stream, Consumed(ends))'
  <2>1. PICK k, from : k = Len(delivered) /\ from = ends[k]
    OBVIOUS
  <2>2. Consumed(ends) = from + 0 /\ InTransit(stream, from + 0)
    BY <1>1, <1>3, <2>1 DEF Consumed
  <2>3. from \in Nat
    <3>1. Len(delivered) \in 0..Len(sent)
      BY LenProperties DEF Typed
    <3> QED
      BY <1>3, <2>1, <3>1 DEF Written
  <2>4. InTransit(stream, from)
    <3>1. from + 0 = from
      BY <2>3
    <3> QED
      BY <2>2, <3>1
  <2>5. /\ Part(buf, stream, from) /\ Part(wire, stream, from + Len(buf))
        /\ Part(data, stream, from + Len(buf) + Len(wire))
        /\ writer = "open" => from + Len(buf) + Len(wire) + Len(data) = Len(stream)
        /\ stream \in Seq(Octet)
    BY <1>3, <2>4 DEF InTransit, Written
  <2>6. k < Len(sent)
    <3>1. Len(buf) > 0
      BY <1>1 DEF HeaderLength
    <3> QED
      BY <1>3, <2>1, <2>5, <3>1, OctetsAhead
  <2>7. PICK octets \in Seq(Octet) : Carries(octets, sent[k + 1]) /\ Part(octets, stream, from)
    BY <1>3, <2>1, <2>6, FrameAhead
  <2>8. head' = {Arriving(sent[k + 1])}
    BY <1>1, <2>5, <2>7, HeaderAhead
  <2>9. HeadKnown'
    BY <1>1, <2>1, <2>6, <2>8 DEF HeadKnown
  <2>10. Written(stream, ends)'
    BY <1>1, <1>3 DEF Written
  <2>11. PICK next : next = from + HeaderLength
    OBVIOUS
  <2>12. next \in Nat /\ next = from + Len(buf)
    BY <1>1, <2>3, <2>11 DEF HeaderLength
  <2>13. Consumed(ends)' = next
    BY <1>1, <2>1, <2>11 DEF Consumed
  <2>14. /\ Part(wire, stream, next) /\ Part(data, stream, next + Len(wire))
         /\ writer = "open" => next + Len(wire) + Len(data) = Len(stream)
    BY <2>5, <2>12
  <2>15. next <= Len(stream) /\ next + Len(<<>>) = next
    <3>1. Len(wire) \in Nat /\ Len(stream) \in Nat /\ next + Len(wire) <= Len(stream)
      BY <2>5, <2>14, LenProperties DEF Typed, Part
    <3> QED
      BY <2>12, <3>1
  <2>16. Part(<<>>, stream, next)
    BY <2>5, <2>12, <2>15, EmptyPart
  <2>17. InTransit(stream, next)'
    BY <1>1, <2>14, <2>15, <2>16 DEF InTransit
  <2> QED
    BY <2>9, <2>10, <2>13, <2>17
<1>4. Flows'
  BY <1>1, <1>3 DEF Flows
<1> QED
  BY <1>1, <1>2, <1>4

LEMMA ReceivePayloadStep ==
    ASSUME Typed, Flows, ReceivePayload
    PROVE  Typed' /\ Flows' /\ [Channel!Next]_<<sent, delivered, broken>>
<1>1. /\ ~broken /\ head # {} /\ Len(buf) = Wanted /\ head' = {} /\ buf' = <<>>
      /\ UNCHANGED <<sent, data, writer, wire>>
  BY DEF ReceivePayload
<1>2. PICK k : k = Len(delivered)
  OBVIOUS
<1>3. PICK f : f = sent[k + 1]
  OBVIOUS
<1>4. k < Len(sent) /\ head = {Arriving(f)}
  BY <1>1, <1>2, <1>3 DEF Flows, HeadKnown
<1>5. k \in Nat /\ k + 1 \in Nat /\ k + 1 <= Len(sent) /\ f \in Frames
  <2>1. k \in Nat /\ Len(sent) \in Nat
    BY <1>2, LenProperties DEF Typed
  <2>2. k + 1 \in 1..Len(sent)
    BY <1>4, <2>1
  <2> QED
    BY <1>3, <2>1, <2>2 DEF Typed
<1>6. PICK stream, ends : Written(stream, ends) /\ InTransit(stream, Consumed(ends))
  BY <1>1 DEF Flows
<1>7. PICK from : from = ends[k]
  OBVIOUS
<1>8. Consumed(ends) = from + HeaderLength
  BY <1>1, <1>2, <1>7 DEF Consumed
<1>9. from \in Nat /\ ends[k + 1] \in Nat
      /\ \E octets \in Seq(Octet) : /\ Carries(octets, f) /\ Part(octets, stream, from)
                                    /\ ends[k + 1] = from + Len(octets)
  BY <1>2, <1>3, <1>4, <1>6, <1>7, FrameAhead
<1>10. PICK octets \in Seq(Octet) : /\ Carries(octets, f) /\ Part(octets, stream, from)
                                    /\ ends[k + 1] = from + Len(octets)
  BY <1>9
<1>11. Len(buf) = Len(Payload(f))
  <2>1. Wanted = Arriving(f).length
    BY <1>4 DEF Wanted
  <2>2. f.header \in Header
    BY <1>5, FramesAssumption DEF Usual, Frame
  <2>3. Arriving(f).length = Len(Payload(f))
    BY <2>2 DEF Arriving, Header
  <2> QED
    BY <1>1, <2>1, <2>3
<1>12. /\ Part(buf, stream, from + HeaderLength)
       /\ Part(wire, stream, from + HeaderLength + Len(buf))
       /\ Part(data, stream, from + HeaderLength + Len(buf) + Len(wire))
       /\ writer = "open" => from + HeaderLength + Len(buf) + Len(wire) + Len(data) = Len(stream)
       /\ stream \in Seq(Octet)
  BY <1>6, <1>8 DEF InTransit, Written
<1>13. buf = Payload(f) /\ ends[k + 1] = from + HeaderLength + Len(buf)
  BY <1>10, <1>11, <1>12, PayloadAhead
<1>14. PICK next : next = ends[k + 1]
  OBVIOUS
<1>15. /\ Part(wire, stream, next) /\ Part(data, stream, next + Len(wire))
       /\ writer = "open" => next + Len(wire) + Len(data) = Len(stream)
  BY <1>12, <1>13, <1>14
<1>16. Unmarshal(Arriving(f), buf) = Forms(f)
  BY <1>5, <1>13, FormsAreRead
<1>17. CASE \E g \in Forms(f) : delivered' = Append(delivered, g) /\ UNCHANGED broken
  <2>1. PICK g \in Forms(f) : delivered' = Append(delivered, g) /\ UNCHANGED broken
    BY <1>17
  <2>2. g \in UNION {Forms(h) : h \in Frames}
    BY <1>5, <2>1
  <2>3. /\ delivered' \in Seq(UNION {Forms(h) : h \in Frames})
        /\ Len(delivered') = k + 1
    BY <1>2, <2>1, <2>2, AppendProperties DEF Typed
  <2>4. Typed'
    BY <1>1, <1>5, <2>3 DEF Typed
  <2>5. Consumed(ends)' = next
    <3>1. Consumed(ends)' = ends[k + 1] + 0
      BY <1>1, <2>3 DEF Consumed
    <3> QED
      BY <1>9, <1>14, <3>1
  <2>6. Written(stream, ends)'
    BY <1>1, <1>6 DEF Written
  <2>7. next \in Nat /\ next <= Len(stream) /\ next + Len(<<>>) = next
    <3>1. Len(wire) \in Nat /\ Len(stream) \in Nat /\ next + Len(wire) <= Len(stream)
      BY <1>12, <1>15, LenProperties DEF Typed, Part
    <3> QED
      BY <1>9, <1>14, <3>1
  <2>8. Part(<<>>, stream, next)
    BY <1>12, <2>7, EmptyPart
  <2>9. InTransit(stream, next)'
    BY <1>1, <1>15, <2>7, <2>8 DEF InTransit
  <2>10. Flows'
    BY <1>1, <2>5, <2>6, <2>9 DEF Flows, HeadKnown
  <2>11. Channel!Deliver
    BY <1>1, <1>2, <1>3, <1>4, <2>1 DEF Channel!Deliver
  <2> QED
    BY <2>4, <2>10, <2>11 DEF Channel!Next
<1>18. CASE broken' = TRUE /\ UNCHANGED delivered
  <2>1. Typed' /\ Flows'
    BY <1>1, <1>18 DEF Typed, Flows
  <2>2. Channel!Break
    BY <1>1, <1>18 DEF Channel!Break
  <2> QED
    BY <2>1, <2>2 DEF Channel!Next
<1> QED
  BY <1>4, <1>16, <1>17, <1>18 DEF ReceivePayload

LEMMA StutteringStep ==
    ASSUME Typed, Flows, UNCHANGED vars
    PROVE  Typed' /\ Flows' /\ UNCHANGED <<sent, delivered, broken>>
<1>1. Typed' /\ UNCHANGED <<sent, delivered, broken>>
  BY DEF Typed, vars
<1>2. ASSUME NEW stream, NEW ends, Written(stream, ends), InTransit(stream, Consumed(ends))
      PROVE  Written(stream, ends)' /\ InTransit(stream, Consumed(ends))'
  <2>1. Written(stream, ends)' /\ Consumed(ends)' = Consumed(ends)
    BY <1>2 DEF Written, Consumed, vars
  <2>2. InTransit(stream, Consumed(ends))'
    BY <1>2, <2>1 DEF InTransit, vars
  <2> QED
    BY <2>1, <2>2
<1>3. Flows'
  BY <1>2 DEF Flows, HeadKnown, vars
<1> QED
  BY <1>1, <1>3

LEMMA StepsFlow ==
    ASSUME Typed, Flows, [Next]_vars
    PROVE  Typed' /\ Flows' /\ [Channel!Next]_<<sent, delivered, broken>>
<1>1. CASE \E f \in Frames : SendFrame(f)
  BY <1>1, SendFrameStep
<1>2. CASE Write
  BY <1>2, WriteStep
<1>3. CASE CloseWriter
  BY <1>3, CloseWriterStep
<1>4. CASE Read
  BY <1>4, ReadStep
<1>5. CASE ReceiveHeader
  BY <1>5, ReceiveHeaderStep
<1>6. CASE ReceivePayload
  BY <1>6, ReceivePayloadStep
<1>7. CASE ReadEOF
  BY <1>7, ReadEOFStep
<1>8. CASE UNCHANGED vars
  BY <1>8, StutteringStep
<1>9. CASE Done
  BY <1>9, StutteringStep DEF Done
<1> QED
  BY <1>1, <1>2, <1>3, <1>4, <1>5, <1>6, <1>7, <1>8, <1>9 DEF Next, Sender, Receiver

\* What is between the ends of a connection: as long as ReceiveFrame has
\* returned no error, the octets it has not taken, those on the wire and
\* those SendRaw still holds are the encoding of the frames not yet
\* delivered, and a header it has read is that of the next of them.
THEOREM StreamFlows == FairSpec => [](Typed /\ Flows)
<1>1. Init => Typed /\ Flows
  BY InitFlows
<1>2. Typed /\ Flows /\ [Next]_vars => Typed' /\ Flows'
  BY StepsFlow
<1> QED
  BY <1>1, <1>2, PTL DEF FairSpec

\* SendFrame and ReceiveFrame over a byte stream are a channel of frames:
\* frames arrive whole, in order, each in the form its octets have, for any
\* frames, any split of the octets by Read and Write, and any moment of
\* closing (ImplementsChannel).
THEOREM StreamImplementsChannel == FairSpec => ImplementsChannel
<1>1. Init => Channel!Init
  BY DEF Init, Channel!Init
<1>2. Typed /\ Flows /\ [Next]_vars => [Channel!Next]_<<sent, delivered, broken>>
  BY StepsFlow
<1> QED
  BY <1>1, <1>2, StreamFlows, PTL DEF FairSpec, ImplementsChannel, Channel!Spec
=============================================================================
