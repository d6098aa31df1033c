---------------------------- MODULE FrameStream -----------------------------
(***************************************************************************)
(* One direction of a connection, octet by octet: SendFrame and SendRaw of *)
(* client/client.go on one end, ReceiveFrame and ReceiveRaw on the other,  *)
(* and between them a byte stream that may take and give any part of what  *)
(* it is asked for, and may be closed at any point.                        *)
(***************************************************************************)
EXTENDS FrameCodec

CONSTANTS
    Frames,     \* the frames the program sends
    MaxFrames,  \* bound: frames sent
    Capacity    \* bound: octets in flight

\* A script can give a raw frame another length than its payload has; what
\* follows it on the wire is then no frame, and no subject of this module.
ASSUME FramesAssumption ==
    /\ \A f \in Frames : /\ Usual(f)
                         /\ f.raw => f.header.length = Len(f.data) \/ f.header.length > MaxUint24
    /\ MaxFrames \in Nat /\ Capacity \in Nat

VARIABLES
    sent,       \* frames marshalled, in order
    data,       \* SendRaw: octets still to write
    writer,     \* "open", or "closed" after an error or the last frame
    wire,       \* octets in flight
    head,       \* ReceiveFrame: the header read, if any
    buf,        \* ReceiveRaw: octets read so far
    delivered,  \* frames ReceiveFrame returned
    broken      \* ReceiveFrame returned an error

vars == <<sent, data, writer, wire, head, buf, delivered, broken>>

Init ==
    /\ sent = <<>> /\ data = <<>> /\ writer = "open" /\ wire = <<>>
    /\ head = {} /\ buf = <<>> /\ delivered = <<>> /\ broken = FALSE

(***************************************************************************)
(* Sending                                                                 *)
(***************************************************************************)
\* A frame that does not marshal writes nothing: the program ends.
SendFrame(f) ==
    /\ writer = "open" /\ data = <<>> /\ Len(sent) < MaxFrames
    /\ \/ \E octets \in Marshal(f) : data' = octets /\ sent' = Append(sent, f) /\ UNCHANGED writer
       \/ Marshal(f) = {} /\ writer' = "closed" /\ UNCHANGED <<sent, data>>
    /\ UNCHANGED <<wire, head, buf, delivered, broken>>

\* Mutant: SendRaw does not look at what Write returned.
RestAfterOneWrite(n) == <<>>

Rest(n) == SubSeq(data, n + 1, Len(data))

\* One call of conn.Write: it takes some octets, or fails.
Write ==
    /\ writer = "open" /\ data # <<>>
    /\ \E n \in 1..Len(data) :
          /\ Len(wire) + n <= Capacity
          /\ wire' = wire \o SubSeq(data, 1, n)
          /\ data' = Rest(n)
    /\ UNCHANGED <<sent, writer, head, buf, delivered, broken>>

\* An error of conn.Write, the end of the program, a crash.
CloseWriter ==
    /\ writer = "open"
    /\ writer' = "closed" /\ data' = <<>>
    /\ UNCHANGED <<sent, wire, head, buf, delivered, broken>>

(***************************************************************************)
(* Receiving                                                               *)
(***************************************************************************)
\* What io.ReadFull has been asked for.
Wanted == IF head = {} THEN HeaderLength ELSE (CHOOSE h \in head : TRUE).length

\* One call of conn.Read within io.ReadFull.
Read ==
    /\ ~broken /\ Len(buf) < Wanted
    /\ \E n \in 1..Len(wire) :
          /\ Len(buf) + n <= Wanted
          /\ buf' = buf \o SubSeq(wire, 1, n)
          /\ wire' = SubSeq(wire, n + 1, Len(wire))
    /\ UNCHANGED <<sent, data, writer, head, delivered, broken>>

ReceiveHeader ==
    /\ ~broken /\ head = {} /\ Len(buf) = Wanted
    /\ head' = {ParseHeader(buf)} /\ buf' = <<>>
    /\ UNCHANGED <<sent, data, writer, wire, delivered, broken>>

\* An empty payload needs no Read.
ReceivePayload ==
    /\ ~broken /\ head # {} /\ Len(buf) = Wanted
    /\ \E h \in head :
          \/ \E f \in Unmarshal(h, buf) : delivered' = Append(delivered, f) /\ UNCHANGED broken
          \/ Unmarshal(h, buf) = {} /\ broken' = TRUE /\ UNCHANGED delivered
    /\ head' = {} /\ buf' = <<>>
    /\ UNCHANGED <<sent, data, writer, wire>>

\* The end of the stream, between two frames or within one.
ReadEOF ==
    /\ ~broken /\ Len(buf) < Wanted
    /\ writer = "closed" /\ wire = <<>>
    /\ broken' = TRUE
    /\ UNCHANGED <<sent, data, writer, wire, head, buf, delivered>>

Done == writer = "closed" /\ broken /\ UNCHANGED vars

Sender == (\E f \in Frames : SendFrame(f)) \/ Write

Receiver == Read \/ ReceiveHeader \/ ReceivePayload \/ ReadEOF

Next == Sender \/ CloseWriter \/ Receiver \/ Done

\* A reader in ReceiveFrame and a writer in SendRaw go on; the program need
\* not send.
FairSpec == Init /\ [][Next]_vars /\ WF_vars(Receiver) /\ WF_vars(Write)

(***************************************************************************)
(* Properties                                                              *)
(***************************************************************************)
Channel == INSTANCE FrameChannel WITH
              Frames <- Frames, Forms <- Forms,
              sent <- sent, delivered <- delivered, broken <- broken

\* Short writes and reads, frames cut off by a close, padding, priority
\* fields, reserved bits and payloads that no parser takes: whatever happens,
\* ReceiveFrame returns the frames that were sent, in order, in their
\* canonical form, and never anything else (SendRaw, ReceiveRaw, Marshal,
\* Unmarshal).
ImplementsChannel == Channel!Spec

\* A frame that SendRaw has begun to write arrives, unless the connection is
\* closed under it or the reader has refused an earlier frame.
FramesArrive ==
    \A n \in 1..MaxFrames :
        Len(sent) = n ~> Len(delivered) >= n \/ writer = "closed" \/ broken
=============================================================================
