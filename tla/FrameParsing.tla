---------------------------- MODULE FrameParsing ----------------------------
(***************************************************************************)
(* Unmarshal against a peer that may put any octets into a frame: for a    *)
(* header, the payload grows octet by octet, and every stage is parsed.    *)
(***************************************************************************)
EXTENDS FrameCodec

CONSTANTS
    Headers,    \* types and flags of the frames
    Values,     \* the octets to try
    MaxLength   \* bound: octets of payload

\* ReceiveHeader reads 24 bits of length, and 31 of a stream identifier.
ASSUME ParsingAssumption ==
    /\ \A h \in Headers : h \in Header /\ h.stream < HighBit
    /\ Values \subseteq Octet /\ MaxLength \in 0..MaxUint24

VARIABLES header, payload

vars == <<header, payload>>

Init == header \in Headers /\ payload = <<>> /\ header.length = 0

Grow ==
    /\ Len(payload) < MaxLength
    /\ \E octet \in Values : payload' = Append(payload, octet)
    /\ header' = [header EXCEPT !.length = @ + 1]

Next == Grow

Spec == Init /\ [][Next]_vars

(***************************************************************************)
(* Octets that Unmarshal may forget: padding, and the reserved bit of an   *)
(* identifier or an increment.                                             *)
(***************************************************************************)
IsPadding(i) ==
    /\ HasPadding(header)
    /\ i > Len(payload) - payload[1]

IsReserved(i) ==
    CASE header.type = PUSH_PROMISE                 -> i = PadOffset(header) + 1
      [] header.type \in {GOAWAY, WINDOW_UPDATE}    -> i = 1
      [] OTHER                                      -> FALSE

\* A frame that Unmarshal accepts is the frame that was sent: marshalled
\* again it has the same header and the same octets, except for padding and
\* reserved bits, which come out as zero.  In particular no length, pad
\* length or fixed field makes a parser read beyond the payload or lose a
\* part of it, and equal frames on the wire are equal frames in memory
\* (parse*Frame, Payload, encode).
AcceptedIsFaithful ==
    \A f \in Unmarshal(header, payload) :
        \E octets \in Marshal(f) :
            /\ ParseHeader(SubSeq(octets, 1, HeaderLength)) = header
            /\ Len(octets) = HeaderLength + Len(payload)
            /\ \A i \in DOMAIN payload :
                  LET octet == octets[HeaderLength + i] IN
                  CASE IsPadding(i)                     -> octet = 0
                    [] IsReserved(i) /\ ~IsPadding(i)   -> octet = payload[i] % (Base \div 2)
                    [] OTHER                            -> octet = payload[i]
=============================================================================
