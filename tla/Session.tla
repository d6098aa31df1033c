------------------------------ MODULE Session -------------------------------
(***************************************************************************)
(* One run of `mh2c request`, `mh2c ping` or `mh2c observe`, from the dial *)
(* to the exit of the process (cmd/mh2c/main.go, session.go, request.go),  *)
(* against a peer that may send any frames and close at any time.          *)
(*                                                                         *)
(* The client is one thread.  Its program counter pc stands before the     *)
(* next blocking operation (a read, a write, a file), so that whatever the *)
(* peer does in between interleaves with it; everything the code does from *)
(* one blocking operation to the next is one action.                       *)
(***************************************************************************)
EXTENDS Capture

CONSTANTS
    Configs,        \* the command lines to consider
    PeerFrames,     \* the frames the peer of a command may send
    PingSize,       \* items in the data of a PING: 8 bytes in the protocol
    MaxPeerFrames,  \* bound: frames the peer of a command sends
    MaxInFlight     \* bound: frames on their way to the client

Modes == {"request", "ping", "observe"}

Config ==
    [mode : Modes, streamID : StreamIds,
     fields : Seq(Item), body : Seq(Item),     \* request
     pingData : Seq(Item),                     \* ping
     maxRecv : Nat,                            \* observe; 0 is no limit
     decodeHeaders : BOOLEAN, save : SUBSET {"body", "headers"},
     streamFilter : SUBSET StreamIds,          \* the filter, if any
     sendGoAway : BOOLEAN, timeout : BOOLEAN]

ASSUME ConfigsAssumption ==
    /\ Configs \subseteq Config
    /\ \A c \in Configs : /\ c.mode = "ping" => c.save = {}
                          /\ \A s, t \in c.streamFilter : s = t
ASSUME PeerFramesAssumption ==
    /\ PeerFrames \in [Modes -> SUBSET Frame]
    /\ \A mode \in Modes : \A f \in PeerFrames[mode] : f.type # "PREFACE"
ASSUME BoundsAssumption ==
    PingSize \in Nat /\ MaxPeerFrames \in [Modes -> Nat] /\ MaxInFlight \in Nat

VARIABLES
    cfg,        \* the command line, fixed
    pc,         \* where the client is
    held,       \* the frame the current loop iteration works on
    tracker,    \* received header block
    cap,        \* capture manager
    received,   \* frames counted by the observe loop
    sawGoAway,  \* what the receive loop returned to run()
    result,     \* how the command ended
    saved,      \* files written
    inbox,      \* frames from the peer, not read yet
    peer,       \* the peer's end: is it open, how many frames it sent
    expired,    \* the --timeout has elapsed
    log         \* history: frames sent and received, in the client's order

client == <<cfg, pc, held, tracker, cap, received, sawGoAway, result, saved>>
vars == <<client, inbox, peer, expired, log>>

PCs == {"dial", "preface", "settings", "handshake", "handshake_answer",
        "prepare", "headers", "data", "ping", "receive", "receive_answer",
        "finish", "flush", "exited"}

Sent(f) == [dir |-> "sent", frame |-> f]
Received(f) == [dir |-> "received", frame |-> f]

(***************************************************************************)
(* Configuration of the output controller.                                 *)
(***************************************************************************)
CaptureKind(c) ==
    IF c.save = {} THEN "none"
    ELSE IF c.mode = "request" \/ c.streamFilter # {} THEN "explicit"
    ELSE "auto"

CaptureTarget(c) ==
    IF c.streamFilter # {} THEN CHOOSE s \in c.streamFilter : TRUE ELSE c.streamID

Init ==
    /\ cfg \in Configs
    /\ pc = "dial"
    /\ held = ConnectionPreface
    /\ tracker = Idle
    /\ cap = NewCapture(CaptureKind(cfg), CaptureTarget(cfg))
    /\ received = 0
    /\ sawGoAway = FALSE
    /\ result = "running"
    /\ saved = {}
    /\ inbox = <<>>
    /\ peer = [open |-> TRUE, sent |-> 0]
    /\ expired = FALSE
    /\ log = <<>>

Exit(outcome) == pc' = "exited" /\ result' = outcome

Continue(next) == pc' = next /\ UNCHANGED result

\* SendFrame and HandleSent.  A failed write leaves the frame unsent (or cut
\* short); a failed report comes after the peer has been sent it.
SendFrameAndReport(f, next) ==
    \/ Continue(next) /\ log' = Append(log, Sent(f))
    \/ Exit("error") /\ log' \in {log, Append(log, Sent(f))}

(***************************************************************************)
(* Connecting: client.New, startSession.                                   *)
(***************************************************************************)
Dial ==
    /\ pc = "dial"
    /\ Continue("preface") \/ Exit("error")
    /\ UNCHANGED <<cfg, held, tracker, cap, received, sawGoAway, saved,
                   inbox, peer, expired, log>>

SendPreface ==
    /\ pc = "preface"
    /\ SendFrameAndReport(ConnectionPreface, "settings")
    /\ UNCHANGED <<cfg, held, tracker, cap, received, sawGoAway, saved,
                   inbox, peer, expired>>

SendSettings ==
    /\ pc = "settings"
    /\ SendFrameAndReport(SettingsFrame({}), "handshake")
    /\ UNCHANGED <<cfg, held, tracker, cap, received, sawGoAway, saved,
                   inbox, peer, expired>>

(***************************************************************************)
(* Receiving.  Every loop starts with ReceiveFrame, which runs the header  *)
(* block tracker, and HandleReceived, which captures and prints the event. *)
(***************************************************************************)
Incoming == Head(inbox)
IncomingEvent == Consume(tracker, Incoming).event

\* Mutant: only SETTINGS are answered.
NeedsAnswerIfSettings(f) == f.type = "SETTINGS" /\ "ACK" \notin f.flags

NeedsAnswer(f) == f.type \in {"SETTINGS", "PING"} /\ "ACK" \notin f.flags

\* Mutant: the answer to a PING without its data.
AnswerWithoutData(f) ==
    IF f.type = "SETTINGS" THEN SettingsFrame({"ACK"}) ELSE PingFrame({"ACK"}, <<>>)

Answer(f) ==
    IF f.type = "SETTINGS" THEN SettingsFrame({"ACK"}) ELSE PingFrame({"ACK"}, f.payload)

\* HandleReceived refuses an event that failed to decode, before it is
\* captured, but only if someone wants the headers.
Refused(event) == event.error /\ (cfg.decodeHeaders \/ cap.kind # "none")

ReceiveFrame ==
    /\ inbox # <<>>
    /\ Parses(Incoming)
    /\ inbox' = Tail(inbox)
    /\ log' = Append(log, Received(Incoming))
    /\ held' = Incoming
    /\ tracker' = Consume(tracker, Incoming).tracker
    /\ cap' = IF Refused(IncomingEvent) THEN cap
              ELSE CaptureReceived(cap, Incoming, IncomingEvent)
    /\ UNCHANGED <<cfg, saved, peer, expired>>

\* The first frame that is a GOAWAY or a SETTINGS without ACK, once
\* answered, ends the handshake.
AfterHandshake ==
    CASE cfg.mode = "request" -> "prepare"
      [] cfg.mode = "ping"    -> "ping"
      [] cfg.mode = "observe" -> "receive"

\* Mutant: the acknowledgement of the client's SETTINGS ends the handshake.
HandshakeNextOnAck(f) ==
    CASE NeedsAnswer(f)                      -> "handshake_answer"
      [] f.type \in {"SETTINGS", "GOAWAY"}   -> AfterHandshake
      [] OTHER                               -> "handshake"

HandshakeNext(f) ==
    CASE NeedsAnswer(f)      -> "handshake_answer"
      [] f.type = "GOAWAY"   -> AfterHandshake
      [] OTHER               -> "handshake"

HandshakeReceive ==
    /\ pc = "handshake"
    /\ ReceiveFrame
    /\ \/ ~Refused(IncomingEvent) /\ Continue(HandshakeNext(Incoming))
       \/ Exit("error")
    /\ UNCHANGED <<received, sawGoAway>>

HandshakeAnswer ==
    /\ pc = "handshake_answer"
    /\ SendFrameAndReport(Answer(held),
                          IF held.type = "SETTINGS" THEN AfterHandshake ELSE "handshake")
    /\ UNCHANGED <<cfg, held, tracker, cap, received, sawGoAway, saved,
                   inbox, peer, expired>>

\* The answer of the receive loops (ackControlFrame): an answerable frame
\* ends no loop, so the next step is another read.
ReceiveAnswer ==
    /\ pc = "receive_answer"
    /\ SendFrameAndReport(Answer(held), "receive")
    /\ UNCHANGED <<cfg, held, tracker, cap, received, sawGoAway, saved,
                   inbox, peer, expired>>

\* Mutant: the end of file is not taken for an error.
ReadFailureButEOF == inbox # <<>> /\ ~Parses(Incoming)

\* The end of file, a reset or a frame that does not parse.
ReadFailure == IF inbox = <<>> THEN ~peer.open ELSE ~Parses(Incoming)

AtLimit == cfg.mode = "observe" /\ cfg.maxRecv > 0 /\ received >= cfg.maxRecv

\* At the limit of the observe loop the client does not read.
ReceiveFails ==
    /\ pc = "handshake" \/ (pc = "receive" /\ ~AtLimit)
    /\ ReadFailure
    /\ Exit("error")
    /\ UNCHANGED <<cfg, held, tracker, cap, received, sawGoAway, saved,
                   inbox, peer, expired, log>>

(***************************************************************************)
(* mh2c request: readRequestBody, buildRequestFields, sendRequest,         *)
(* receiveResponseFrames.                                                  *)
(***************************************************************************)
\* The body file may be unreadable, a --header malformed.
PrepareRequest ==
    /\ pc = "prepare"
    /\ Continue("headers") \/ Exit("error")
    /\ UNCHANGED <<cfg, held, tracker, cap, received, sawGoAway, saved,
                   inbox, peer, expired, log>>

SendHeaders ==
    /\ pc = "headers"
    /\ IF cfg.body = <<>>
       THEN SendFrameAndReport(
                HeadersFrame(cfg.streamID, {"END_HEADERS", "END_STREAM"}, cfg.fields),
                "receive")
       ELSE SendFrameAndReport(
                HeadersFrame(cfg.streamID, {"END_HEADERS"}, cfg.fields), "data")
    /\ UNCHANGED <<cfg, held, tracker, cap, received, sawGoAway, saved,
                   inbox, peer, expired>>

SendData ==
    /\ pc = "data"
    /\ SendFrameAndReport(DataFrame(cfg.streamID, {"END_STREAM"}, cfg.body), "receive")
    /\ UNCHANGED <<cfg, held, tracker, cap, received, sawGoAway, saved,
                   inbox, peer, expired>>

\* Mutant: the end of any stream's header block ends the response.
EndsAnyResponse(f, event) ==
    \/ event.complete /\ event.endStream
    \/ f.type = "DATA" /\ f.stream = cfg.streamID /\ "END_STREAM" \in f.flags

EndsResponse(f, event) ==
    \/ event.complete /\ event.stream = cfg.streamID /\ event.endStream
    \/ f.type = "DATA" /\ f.stream = cfg.streamID /\ "END_STREAM" \in f.flags

ResponseNext(f, event) ==
    CASE NeedsAnswer(f)                                -> "receive_answer"
      [] f.type = "GOAWAY" \/ EndsResponse(f, event)   -> "finish"
      [] OTHER                                         -> "receive"

\* This loop fails on any block that fails to decode, wanted or not.
ReceiveResponse ==
    /\ pc = "receive" /\ cfg.mode = "request"
    /\ ReceiveFrame
    /\ \/ /\ ~IncomingEvent.error
          /\ Continue(ResponseNext(Incoming, IncomingEvent))
          /\ sawGoAway' = (Incoming.type = "GOAWAY")
       \/ Exit("error") /\ UNCHANGED sawGoAway
    /\ UNCHANGED received

(***************************************************************************)
(* mh2c ping: parsePingData, receivePingFrames.                            *)
(***************************************************************************)
SendPing ==
    /\ pc = "ping"
    /\ IF Len(cfg.pingData) = PingSize
       THEN SendFrameAndReport(PingFrame({}, cfg.pingData), "receive")
       ELSE Exit("error") /\ UNCHANGED log
    /\ UNCHANGED <<cfg, held, tracker, cap, received, sawGoAway, saved,
                   inbox, peer, expired>>

\* Mutant: any acknowledgement of a PING will do.
EndsAnyPing(f) == f.type = "PING" /\ "ACK" \in f.flags

EndsPing(f) == f.type = "PING" /\ "ACK" \in f.flags /\ f.payload = cfg.pingData

\* Mutant: ping waits on after a GOAWAY.
PingNextAfterGoAway(f) ==
    CASE NeedsAnswer(f)   -> "receive_answer"
      [] EndsPing(f)      -> "finish"
      [] OTHER            -> "receive"

PingNext(f) ==
    CASE NeedsAnswer(f)                     -> "receive_answer"
      [] f.type = "GOAWAY" \/ EndsPing(f)   -> "finish"
      [] OTHER                              -> "receive"

ReceivePing ==
    /\ pc = "receive" /\ cfg.mode = "ping"
    /\ ReceiveFrame
    /\ \/ /\ ~Refused(IncomingEvent)
          /\ Continue(PingNext(Incoming))
          /\ sawGoAway' = (Incoming.type = "GOAWAY")
       \/ Exit("error") /\ UNCHANGED sawGoAway
    /\ UNCHANGED received

(***************************************************************************)
(* mh2c observe: receiveObserveFrames.                                     *)
(***************************************************************************)
ObserveNext(f) ==
    CASE NeedsAnswer(f)      -> "receive_answer"
      [] f.type = "GOAWAY"   -> "finish"
      [] OTHER               -> "receive"

\* Mutant: the counter runs down.
CountedDown == received - 1

Counted == received + 1

ReceiveObserve ==
    /\ pc = "receive" /\ cfg.mode = "observe" /\ ~AtLimit
    /\ ReceiveFrame
    /\ received' = Counted
    /\ \/ /\ ~Refused(IncomingEvent)
          /\ Continue(ObserveNext(Incoming))
          /\ sawGoAway' = (Incoming.type = "GOAWAY")
       \/ Exit("error") /\ UNCHANGED sawGoAway

ObserveLimit ==
    /\ pc = "receive" /\ AtLimit
    /\ Continue("finish")
    /\ UNCHANGED <<cfg, held, tracker, cap, received, sawGoAway, saved,
                   inbox, peer, expired, log>>

(***************************************************************************)
(* The end of run(), which only the successful paths reach.                *)
(***************************************************************************)
\* Mutant: a GOAWAY of the peer does not spare it the client's.
OwesGoAwayAlways == cfg.sendGoAway

OwesGoAway == cfg.sendGoAway /\ ~sawGoAway

\* Neither a failed write nor a failed report of the GOAWAY matters.
SendGoAway ==
    /\ pc = "finish"
    /\ Continue("flush")
    /\ IF OwesGoAway
       THEN log' \in {log, Append(log, Sent(GoAwayFrame))}
       ELSE UNCHANGED log
    /\ UNCHANGED <<cfg, held, tracker, cap, received, sawGoAway, saved,
                   inbox, peer, expired>>

File(name, content) == [file |-> name, content |-> content, whole |-> TRUE]

BodyFiles == {File("body", cap.body[s]) : s \in IF "body" \in cfg.save THEN Selected(cap) ELSE {}}
HeadersFiles ==
    {File("headers", cap.headers[s]) : s \in IF "headers" \in cfg.save THEN Selected(cap) ELSE {}}

\* os.WriteFile truncates the file before it writes: when it fails, it has not
\* touched the file, or has left a beginning of the content there.  The mark
\* "whole" is history: the write succeeded.
Remains(file) ==
    {{}} \cup {{[file EXCEPT !.content = SubSeq(@, 1, n), !.whole = FALSE]} :
                n \in 0..Len(file.content)}

\* The body is written first; either file may fail, and then the command does.
Flush ==
    /\ pc = "flush"
    /\ \/ Exit("ok") /\ saved' = BodyFiles \cup HeadersFiles
       \/ \E file \in BodyFiles : Exit("error") /\ saved' \in Remains(file)
       \/ \E file \in HeadersFiles :
             Exit("error") /\ \E remains \in Remains(file) : saved' = BodyFiles \cup remains
    /\ UNCHANGED <<cfg, held, tracker, cap, received, sawGoAway,
                   inbox, peer, expired, log>>

(***************************************************************************)
(* The environment: the peer, the transport, the clock.                    *)
(***************************************************************************)
Connected == pc \notin {"dial", "exited"}

PeerSend(f) ==
    /\ Connected /\ peer.open
    /\ peer.sent < MaxPeerFrames[cfg.mode] /\ Len(inbox) < MaxInFlight
    /\ inbox' = Append(inbox, f)
    /\ peer' = [peer EXCEPT !.sent = @ + 1]
    /\ UNCHANGED <<client, expired, log>>

\* A close delivers what is in flight; a reset, only a part of it.
PeerClose ==
    /\ Connected /\ peer.open
    /\ \E n \in 0..Len(inbox) : inbox' = SubSeq(inbox, 1, n)
    /\ peer' = [peer EXCEPT !.open = FALSE]
    /\ UNCHANGED <<client, expired, log>>

\* The context of --timeout is cancelled.  Nothing reads it: Dial has a limit
\* of its own, and no read or write of the connection has a deadline.
Expire ==
    /\ cfg.timeout /\ ~expired /\ pc # "exited"
    /\ expired' = TRUE
    /\ UNCHANGED <<client, inbox, peer, log>>

Terminated == pc = "exited" /\ UNCHANGED vars

ClientStep ==
    \/ Dial \/ SendPreface \/ SendSettings
    \/ HandshakeReceive \/ HandshakeAnswer \/ ReceiveAnswer \/ ReceiveFails
    \/ PrepareRequest \/ SendHeaders \/ SendData \/ ReceiveResponse
    \/ SendPing \/ ReceivePing
    \/ ReceiveObserve \/ ObserveLimit
    \/ SendGoAway \/ Flush

Environment == (\E f \in PeerFrames[cfg.mode] : PeerSend(f)) \/ PeerClose \/ Expire

Next == ClientStep \/ Environment \/ Terminated

Spec == Init /\ [][Next]_vars

\* The client runs whenever it can; the peer owes nothing.
FairSpec == Spec /\ WF_vars(ClientStep)

(***************************************************************************)
(* Types.                                                                  *)
(***************************************************************************)
LogEntry == [dir : {"sent", "received"}, frame : Frame]

\* Every variable keeps the type the code declares for it.
TypeOK ==
    /\ cfg \in Configs
    /\ pc \in PCs
    /\ held \in Frame
    /\ tracker \in Tracker
    /\ cap \in CaptureState
    /\ received \in Nat
    /\ sawGoAway \in BOOLEAN
    /\ result \in {"running", "ok", "error"}
    /\ saved \subseteq [file : {"body", "headers"}, content : Seq(Item), whole : BOOLEAN]
    /\ inbox \in Seq(Frame)
    /\ peer \in [open : BOOLEAN, sent : Nat]
    /\ expired \in BOOLEAN
    /\ log \in Seq(LogEntry)
=============================================================================
