------------------------------- MODULE Frames -------------------------------
(***************************************************************************)
(* The vocabulary every module shares: HTTP/2 frames as package frame      *)
(* presents them to the rest of the program, once parsed.  A payload is a  *)
(* sequence of opaque items: header fields in a header block, bytes in a   *)
(* DATA or PING frame.  Layout (padding, priority fields, lengths) is the  *)
(* business of FrameCodec.                                                 *)
(***************************************************************************)
EXTENDS Naturals, Sequences

CONSTANTS
    StreamIds,    \* the stream identifiers in use; 0 is the connection
    Item,         \* header fields, DATA bytes, PING bytes
    Undecodable   \* the item that makes an HPACK block fail to decode

ASSUME StreamIdsAssumption == StreamIds \subseteq Nat /\ 0 \in StreamIds
ASSUME UndecodableAssumption == Undecodable \in Item

\* "OTHER" stands for the types no loop of the client looks at (PRIORITY,
\* WINDOW_UPDATE, RST_STREAM, unknown types); "MALFORMED" for bytes that
\* ParseHeader or Unmarshal refuses; "PREFACE" for the connection preface,
\* which is no frame but is sent like one.
FrameTypes == {"DATA", "HEADERS", "SETTINGS", "PUSH_PROMISE", "PING", "GOAWAY",
               "CONTINUATION", "OTHER", "MALFORMED", "PREFACE"}

Flags == {"ACK", "END_STREAM", "END_HEADERS"}

Frame == [type : FrameTypes, stream : StreamIds, flags : SUBSET Flags,
          payload : Seq(Item)]

SettingsFrame(flags) ==
    [type |-> "SETTINGS", stream |-> 0, flags |-> flags, payload |-> <<>>]

PingFrame(flags, data) ==
    [type |-> "PING", stream |-> 0, flags |-> flags, payload |-> data]

HeadersFrame(stream, flags, block) ==
    [type |-> "HEADERS", stream |-> stream, flags |-> flags, payload |-> block]

DataFrame(stream, flags, data) ==
    [type |-> "DATA", stream |-> stream, flags |-> flags, payload |-> data]

GoAwayFrame == [type |-> "GOAWAY", stream |-> 0, flags |-> {}, payload |-> <<>>]

ConnectionPreface ==
    [type |-> "PREFACE", stream |-> 0, flags |-> {}, payload |-> <<>>]

\* ReceiveFrame returns these, and an error for the rest.
Parses(f) == f.type \notin {"MALFORMED", "PREFACE"}
=============================================================================
