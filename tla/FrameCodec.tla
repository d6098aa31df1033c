----------------------------- MODULE FrameCodec -----------------------------
(***************************************************************************)
(* Package frame and internal/wire: frames as octets.  A frame in memory   *)
(* is one record for all types, whose fields a type does not use keep the  *)
(* zero value; parsers return a set, empty when they refuse.               *)
(***************************************************************************)
EXTENDS Naturals, Sequences

\* Octets are 0..Base - 1.  Base is 256 in the code; TLC, whose integers have
\* 32 bits, takes 64, the smallest that holds every flag.
CONSTANT Base

ASSUME BaseAssumption == Base \in {64, 256}

Octet == 0..(Base - 1)

(***************************************************************************)
(* internal/wire: big-endian numbers.                                      *)
(***************************************************************************)
PutUint16(v) == <<(v \div Base) % Base, v % Base>>
PutUint24(v) == <<((v \div Base) \div Base) % Base, (v \div Base) % Base, v % Base>>
PutUint32(v) ==
    <<(((v \div Base) \div Base) \div Base) % Base, ((v \div Base) \div Base) % Base,
      (v \div Base) % Base, v % Base>>

ReadUint16(s) == s[1] * Base + s[2]
ReadUint24(s) == ReadUint16(s) * Base + s[3]
ReadUint32(s) == ReadUint24(s) * Base + s[4]

MaxUint16 == Base * Base - 1
MaxUint24 == Base * Base * Base - 1
MaxUint32 == Base * Base * Base * Base - 1
HighBit == (Base * Base * Base * Base) \div 2

\* v & 0x7fffffff
Low31(v) == v % HighBit

(***************************************************************************)
(* Types and flags.                                                        *)
(***************************************************************************)
DATA == 0
HEADERS == 1
PRIORITY == 2
RST_STREAM == 3
SETTINGS == 4
PUSH_PROMISE == 5
PING == 6
GOAWAY == 7
WINDOW_UPDATE == 8
CONTINUATION == 9
KnownTypes == 0..9

FlagPadded == 8
FlagPriority == 32

HasFlag(header, bit) == (header.flags \div bit) % 2 = 1
IsPadded(header) == HasFlag(header, FlagPadded)

HeaderLength == 9
SettingLength == 6
PingLength == 8
PriorityLength == 5

NoPriority == [exclusive |-> FALSE, dep |-> 0, weight |-> 0]

Header == [length : 0..MaxUint32, type : Octet, flags : Octet, stream : 0..MaxUint32]
Priority == [exclusive : BOOLEAN, dep : 0..MaxUint32, weight : Octet]
Setting == [id : 0..MaxUint16, value : 0..MaxUint32]

\* number: error code or window increment; stream: promised or last stream;
\* raw: a RawFrame, whatever its type.
Frame == [header : Header, pad : Octet, priority : Priority, stream : 0..MaxUint32,
          number : 0..MaxUint32, settings : Seq(Setting), data : Seq(Octet), raw : BOOLEAN]

Blank(header) ==
    [header |-> header, pad |-> 0, priority |-> NoPriority, stream |-> 0,
     number |-> 0, settings |-> <<>>, data |-> <<>>, raw |-> FALSE]

(***************************************************************************)
(* Payload, MarshalBinary.                                                 *)
(***************************************************************************)
Padded(f, content) ==
    IF IsPadded(f.header)
    THEN <<f.pad>> \o content \o [i \in 1..f.pad |-> 0]
    ELSE content

PriorityOctets(p) ==
    PutUint32(Low31(p.dep) + (IF p.exclusive THEN HighBit ELSE 0)) \o <<p.weight>>

SettingOctets(s) == PutUint16(s.id) \o PutUint32(s.value)

SettingsOctets(settings) ==
    [k \in 1..(SettingLength * Len(settings)) |->
        SettingOctets(settings[1 + ((k - 1) \div SettingLength)])[1 + ((k - 1) % SettingLength)]]

GoAwayOctets(stream, code, debug) == (PutUint32(Low31(stream)) \o PutUint32(code)) \o debug

Payload(f) ==
    LET type == f.header.type IN
    IF f.raw THEN f.data ELSE
    CASE type = DATA -> Padded(f, f.data)
      [] type = HEADERS ->
            Padded(f, (IF HasFlag(f.header, FlagPriority) THEN PriorityOctets(f.priority)
                       ELSE <<>>) \o f.data)
      [] type = PUSH_PROMISE -> Padded(f, PutUint32(Low31(f.stream)) \o f.data)
      [] type = PRIORITY -> PriorityOctets(f.priority)
      [] type = SETTINGS -> SettingsOctets(f.settings)
      [] type = RST_STREAM -> PutUint32(f.number)
      [] type = WINDOW_UPDATE -> PutUint32(Low31(f.number))
      [] type = GOAWAY -> GoAwayOctets(f.stream, f.number, f.data)
      [] type \in {PING, CONTINUATION} -> f.data

MarshalHeader(header) ==
    IF header.length > MaxUint24 THEN {}
    ELSE {PutUint24(header.length) \o <<header.type, header.flags>>
          \o PutUint32(Low31(header.stream))}

\* A raw frame keeps the length it was given; encode computes the others'.
Marshal(f) ==
    LET header == IF f.raw THEN f.header ELSE [f.header EXCEPT !.length = Len(Payload(f))]
    IN  {head \o Payload(f) : head \in MarshalHeader(header)}

(***************************************************************************)
(* ParseHeader, Unmarshal.                                                 *)
(***************************************************************************)
ParseHeader(s) ==
    [length |-> ReadUint24(s), type |-> s[4], flags |-> s[5],
     stream |-> Low31(ReadUint32(SubSeq(s, 6, 9)))]

Accept(condition, f) == IF condition THEN {f} ELSE {}

PadOffset(header) == IF IsPadded(header) THEN 1 ELSE 0

PadLength(header, p) == IF IsPadded(header) THEN p[1] ELSE 0

\* Mutant: the pad length octet itself is not counted.
FitsWithoutPadOctet(header, fixed, p) ==
    /\ IsPadded(header) => p # <<>>
    /\ Len(p) >= PadOffset(header) + fixed
    /\ Len(p) >= fixed + PadLength(header, p)

\* The payload holds the pad length, fixed octets, and the padding.
Fits(header, fixed, p) ==
    /\ IsPadded(header) => p # <<>>
    /\ Len(p) >= PadOffset(header) + fixed
    /\ Len(p) >= PadOffset(header) + fixed + PadLength(header, p)

FixedPart(header, fixed, p) == SubSeq(p, PadOffset(header) + 1, PadOffset(header) + fixed)

\* Mutant: the padding is taken for content.
ContentAndPadding(header, fixed, p) == SubSeq(p, PadOffset(header) + fixed + 1, Len(p))

Content(header, fixed, p) ==
    SubSeq(p, PadOffset(header) + fixed + 1, Len(p) - PadLength(header, p))

ParsePriority(s) ==
    LET dep == ReadUint32(s)
    IN  [exclusive |-> dep >= HighBit, dep |-> Low31(dep), weight |-> s[5]]

ParseHeaders(header, p) ==
    LET fixed == IF HasFlag(header, FlagPriority) THEN PriorityLength ELSE 0
    IN  Accept(Fits(header, fixed, p),
            [Blank(header) EXCEPT
                !.pad = PadLength(header, p),
                !.priority = IF fixed = 0 THEN NoPriority
                             ELSE ParsePriority(FixedPart(header, fixed, p)),
                !.data = Content(header, fixed, p)])

ParseSetting(s) == [id |-> ReadUint16(s), value |-> ReadUint32(SubSeq(s, 3, 6))]

Unmarshal(header, p) ==
    LET type == header.type
        frame == Blank(header)
    IN
    IF Len(p) # header.length THEN {} ELSE
    CASE type = DATA ->
            Accept(Fits(header, 0, p),
                [frame EXCEPT !.pad = PadLength(header, p), !.data = Content(header, 0, p)])
      [] type = HEADERS -> ParseHeaders(header, p)
      [] type = PRIORITY ->
            Accept(Len(p) = PriorityLength, [frame EXCEPT !.priority = ParsePriority(p)])
      [] type = RST_STREAM -> Accept(Len(p) = 4, [frame EXCEPT !.number = ReadUint32(p)])
      [] type = SETTINGS ->
            Accept(Len(p) % SettingLength = 0,
                [frame EXCEPT !.settings =
                    [i \in 1..(Len(p) \div SettingLength) |->
                       ParseSetting(SubSeq(p, SettingLength * (i - 1) + 1, SettingLength * i))]])
      [] type = PUSH_PROMISE ->
            Accept(Fits(header, 4, p),
                [frame EXCEPT !.pad = PadLength(header, p),
                              !.stream = Low31(ReadUint32(FixedPart(header, 4, p))),
                              !.data = Content(header, 4, p)])
      [] type = PING -> Accept(Len(p) = PingLength, [frame EXCEPT !.data = p])
      [] type = GOAWAY ->
            Accept(Len(p) >= 8,
                [frame EXCEPT !.stream = Low31(ReadUint32(p)),
                              !.number = ReadUint32(SubSeq(p, 5, 8)),
                              !.data = SubSeq(p, 9, Len(p))])
      [] type = WINDOW_UPDATE ->
            Accept(Len(p) = 4, [frame EXCEPT !.number = Low31(ReadUint32(p))])
      [] type = CONTINUATION -> {[frame EXCEPT !.data = p]}
      [] OTHER -> {[frame EXCEPT !.data = p, !.raw = TRUE]}

(***************************************************************************)
(* The form in which a frame arrives: its length is that of its payload,   *)
(* identifiers have 31 bits, and padding and priority exist only under     *)
(* their flags.  The octets of a raw frame are read as its type has them.  *)
(***************************************************************************)
Arriving(f) == [f.header EXCEPT !.length = Len(Payload(f)), !.stream = Low31(@)]

CanonicalPriority(p) == [p EXCEPT !.dep = Low31(@)]

HasPadding(header) == header.type \in {DATA, HEADERS, PUSH_PROMISE} /\ IsPadded(header)

HasPriority(header) ==
    \/ header.type = PRIORITY
    \/ header.type = HEADERS /\ HasFlag(header, FlagPriority)

Canonical(f) ==
    [f EXCEPT !.header = Arriving(f),
              !.pad = IF HasPadding(f.header) THEN @ ELSE 0,
              !.priority = IF HasPriority(f.header) THEN CanonicalPriority(@) ELSE NoPriority,
              !.stream = Low31(@),
              !.number = IF f.header.type = WINDOW_UPDATE THEN Low31(@) ELSE @]

Forms(f) == IF f.raw THEN Unmarshal(Arriving(f), f.data) ELSE {Canonical(f)}

\* What the program may hold as a frame: a field that a type does not have is zero.
Usual(f) ==
    LET type == f.header.type IN
    /\ f \in Frame
    /\ ~f.raw => type \in KnownTypes
    /\ f.raw \/ type \notin {PUSH_PROMISE, GOAWAY} => f.stream = 0
    /\ f.raw \/ type \notin {RST_STREAM, GOAWAY, WINDOW_UPDATE} => f.number = 0
    /\ f.raw \/ type # SETTINGS => f.settings = <<>>
    /\ ~f.raw /\ type \in {PRIORITY, RST_STREAM, SETTINGS, WINDOW_UPDATE} => f.data = <<>>
    /\ ~f.raw /\ type = PING => Len(f.data) = PingLength
=============================================================================
