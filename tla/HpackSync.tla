------------------------------ MODULE HpackSync -----------------------------
(***************************************************************************)
(* The HPACK tables of the client (client/client.go, hpack/codec.go) and   *)
(* of a conforming peer, with SETTINGS_HEADER_TABLE_SIZE on its way in     *)
(* both directions.  The client holds three tables: its encoder's, the     *)
(* decoder's that reads the peer's blocks, and a second decoder's that     *)
(* reads back its own blocks for the output.                               *)
(*                                                                         *)
(* In request mode the client keeps to the order of run(); a script sends  *)
(* what it likes when it likes: blocks in pieces and in any order, and     *)
(* with raw actions frames that the client itself does not understand.     *)
(***************************************************************************)
EXTENDS Hpack

CONSTANTS
    Plans,          \* commands to consider, with the bounds of the run
    FieldLists,     \* the headers of one HEADERS or PUSH_PROMISE
    SizeLists,      \* HEADER_TABLE_SIZE entries of one SETTINGS, in order
    HandmadeBlocks, \* what a frame of a script gives in hexadecimal
    InitialSize     \* initialHeaderTableSize

\* The frames that carry header blocks; raw: the script's action of that name.
Kind == [type : {"headers", "push_promise", "continuation"}, stream : Nat, raw : BOOLEAN]

\* frames: those a run may use.  Every counter bounds what one end does in it.
Plan == [mode : {"request", "script"}, maxTable : Nat, frames : SUBSET Kind,
         clientSettings : Nat, clientBlocks : Nat,
         peerSettings : Nat, peerBlocks : Nat, peerResizes : Nat]

ASSUME HpackAssumption ==
    /\ Plans \subseteq Plan /\ FieldLists \subseteq Seq(Field)
    /\ SizeLists \subseteq Seq(Nat) /\ HandmadeBlocks \subseteq Seq(Literals)
    /\ InitialSize \in Nat

VARIABLES
    plan,         \* the command, and what is left of the bounds
    stage,        \* request mode: how far run() is; "any" in a script
    encoder,      \* requestCodec's encoder
    tracker,      \* requestCodec's decoder, for sent frames
    decoder,      \* responseCodec's decoder
    pending,      \* sentHeaderBlock: the block that waits for the rest of it
    wire,         \* the block whose beginning the peer has been sent
    owed,         \* the sizes of each SETTINGS received and not acknowledged
    peerEncoder, peerDecoder,
    peerLimit,    \* the client's HEADER_TABLE_SIZE as the peer knows it
    unacked,      \* the peer's sizes that the client has not acknowledged
    asked,        \* the peer has a request to answer
    toPeer, toClient,
    verdict,      \* history: the last block decoded, by whom and how
    step          \* history: which tables are in step, and at which limit

client == <<stage, encoder, tracker, decoder, pending, wire, owed>>
peer == <<peerEncoder, peerDecoder, peerLimit, unacked, asked>>
vars == <<plan, client, peer, toPeer, toClient, verdict, step>>

Settings(sizes) == [type |-> "settings", sizes |-> sizes]
Ack == [type |-> "ack"]
\* History: the fields the sender means, and whether a receiver that decodes
\* other fields is excused.
Block(code, fields, excused) ==
    [type |-> "block", code |-> code, fields |-> fields, excused |-> excused]
\* A conforming peer ends the connection here and reads no further.
Broken == [type |-> "broken"]

NoBlock == [stream |-> 0, code |-> <<>>, fields |-> <<>>]
NoVerdict == [by |-> "nobody", right |-> TRUE, excused |-> FALSE]

\* NewRequestCodec sets the size of its encoder, which the first block announces.
Init ==
    /\ plan \in Plans
    /\ stage = IF plan.mode = "request" THEN "settings" ELSE "any"
    /\ encoder = SetSize(NewEncoder(InitialSize), InitialSize)
    /\ tracker = NewDecoder(InitialSize, InitialSize)
    /\ decoder = NewDecoder(InitialSize, plan.maxTable)
    /\ pending = NoBlock /\ wire = NoBlock
    /\ owed = <<>>
    /\ peerEncoder = NewEncoder(InitialSize)
    /\ peerDecoder = NewDecoder(InitialSize, InitialSize)
    /\ peerLimit = InitialSize
    /\ unacked = <<>>
    /\ asked = (plan.mode = "script")
    /\ toPeer = <<>> /\ toClient = <<>>
    /\ verdict = NoVerdict
    /\ step = [requests |-> TRUE, responses |-> TRUE, tracker |-> TRUE,
               told |-> plan.maxTable >= InitialSize,
               size |-> InitialSize, acked |-> InitialSize]

Spend(what) == plan[what] > 0 /\ plan' = [plan EXCEPT ![what] = @ - 1]

At(place) == stage \in {place, "any"}
Proceed(place) == stage' = IF stage = "any" THEN "any" ELSE place

(***************************************************************************)
(* The client's tables.                                                    *)
(***************************************************************************)
\* Mutant: the limit of the client becomes the size of its table at once.
ApplySentAtOnce(table, sizes) ==
    IF sizes = <<>> THEN table ELSE [Resize(table, Last(sizes)) EXCEPT !.allowed = Last(sizes)]

\* applySentFrame, SetDecoderAllowedMaxDynamicTableSize: of several the last counts.
ApplySent(table, sizes) == [table EXCEPT !.allowed = Last(<<@>> \o sizes)]

SetDecoderSize(table, n) == [Resize(table, n) EXCEPT !.allowed = n]

\* Mutants: one of the two tables is left alone.
SetMaxOfEncoder(codec, n) == [codec EXCEPT !.encoder = SetSize(@, n)]
SetMaxOfDecoder(codec, n) == [codec EXCEPT !.decoder = SetDecoderSize(@, n)]

SetMaxDynamicTableSize(codec, n) ==
    [encoder |-> SetSize(codec.encoder, n), decoder |-> SetDecoderSize(codec.decoder, n)]

\* Mutant: only the first HEADER_TABLE_SIZE counts.
ApplyFirst(codec, sizes) ==
    IF sizes = <<>> THEN codec ELSE SetMaxDynamicTableSize(codec, Head(sizes))

\* applyFrame
ApplyReceived(codec, sizes) == FoldLeft(SetMaxDynamicTableSize, codec, sizes)

(***************************************************************************)
(* The client.                                                             *)
(***************************************************************************)
SendSettings(sizes) ==
    /\ At("settings")
    /\ stage = "settings" => sizes = <<plan.maxTable>>
    /\ Spend("clientSettings") /\ Proceed("handshake")
    /\ decoder' = ApplySent(decoder, sizes)
    /\ toPeer' = Append(toPeer, Settings(sizes))
    /\ toClient' = [i \in DOMAIN toClient |->
                      IF toClient[i].type = "block"
                      THEN [toClient[i] EXCEPT !.excused = TRUE] ELSE toClient[i]]
    /\ step' = [step EXCEPT !.told = @ \/ sizes # <<>>]
    /\ UNCHANGED <<encoder, tracker, pending, wire, owed, peer, verdict>>

\* A RawFrame, which applySentFrame passes over.  step.told: the limit the peer
\* has been told is no higher than the client's own.
SendRawSettings(sizes) ==
    /\ stage = "any" /\ Spend("clientSettings")
    /\ toPeer' = Append(toPeer, Settings(sizes))
    /\ step' = [step EXCEPT !.told = IF sizes = <<>> THEN @ ELSE Last(sizes) <= decoder.allowed]
    /\ UNCHANGED <<client, peer, toClient, verdict>>

Arrived(type) == toClient # <<>> /\ Head(toClient).type = type

\* Outside scripts a SETTINGS is acknowledged before anything else is read.
MayRead == stage = "any" \/ (stage \in {"handshake", "response"} /\ owed = <<>>)

\* ReceiveFrame and applyFrame.  step.size: the last size received.
ReceiveSettings ==
    /\ Arrived("settings") /\ MayRead
    /\ toClient' = Tail(toClient)
    /\ LET codec == ApplyReceived([encoder |-> encoder, decoder |-> tracker],
                                  Head(toClient).sizes)
       IN  encoder' = codec.encoder /\ tracker' = codec.decoder
    /\ owed' = Append(owed, Head(toClient).sizes)
    /\ step' = [step EXCEPT !.tracker = @ /\ pending = NoBlock,
                            !.size = Last(<<@>> \o Head(toClient).sizes)]
    /\ UNCHANGED <<plan, stage, decoder, pending, wire, peer, toPeer, verdict>>

\* step.acked: the limit as the peer must take it, the last size that the
\* client has acknowledged.
SendAck ==
    /\ owed # <<>>
    /\ owed' = Tail(owed)
    /\ toPeer' = Append(toPeer, Ack)
    /\ stage' = IF stage = "handshake" THEN "request" ELSE stage
    /\ step' = [step EXCEPT !.requests = @ /\ wire = NoBlock,
                            !.acked = Last(<<@>> \o Head(owed))]
    /\ UNCHANGED <<plan, encoder, tracker, decoder, pending, wire, peer, toClient, verdict>>

CarriesUpdate(code) == \E i \in DOMAIN code : code[i].op = "size"

Right(reading, fields) == reading.ok /\ reading.fields = fields

\* ReceiveFrame and TrackReceivedFrame, for a whole block.
ReceiveBlock ==
    /\ Arrived("block") /\ MayRead
    /\ LET block == Head(toClient)
           reading == Decode(decoder, block.code)
       IN  /\ decoder' = reading.table
           /\ verdict' = [by |-> "client", right |-> Right(reading, block.fields),
                          excused |-> ~step.responses
                                        \/ (block.excused /\ CarriesUpdate(block.code))]
           /\ step' = [step EXCEPT !.responses = @ /\ Right(reading, block.fields)]
    /\ toClient' = Tail(toClient)
    /\ UNCHANGED <<plan, stage, encoder, tracker, pending, wire, owed, peer, toPeer>>

(***************************************************************************)
(* The frames of its header blocks.                                        *)
(***************************************************************************)
BlockFrame(kind, code, fields, whole) ==
    [type |-> kind.type, stream |-> kind.stream, code |-> code, fields |-> fields, whole |-> whole]

Starts(f) == f.type # "continuation"

Joined(block, f) ==
    [stream |-> f.stream, code |-> block.code \o f.code, fields |-> block.fields \o f.fields]

\* What headerBlockTracker drops, with all it was waiting to complete.
Unexpected(f) ==
    IF Starts(f) THEN pending # NoBlock ELSE pending = NoBlock \/ f.stream # pending.stream

\* On stream 0 it does not tell the beginning of a block from none.
Loses(f) == Unexpected(f) \/ (f.stream = 0 /\ ~f.whole)

\* It decodes a block once it is whole.
TrackSentFrame(f) ==
    \/ /\ Loses(f)
       /\ pending' = NoBlock
       /\ UNCHANGED <<tracker, verdict>>
    \/ /\ ~Loses(f) /\ ~f.whole
       /\ pending' = Joined(pending, f)
       /\ UNCHANGED <<tracker, verdict>>
    \/ /\ ~Loses(f) /\ f.whole
       /\ pending' = NoBlock
       /\ LET block == Joined(pending, f)
              reading == Decode(tracker, block.code)
          IN  /\ tracker' = reading.table
              /\ verdict' = [by |-> "tracker", right |-> Right(reading, block.fields),
                             excused |-> ~step'.tracker]

\* What a conforming peer takes from no client.
Breaks(f) ==
    \/ f.type = "push_promise" \/ f.stream = 0
    \/ IF Starts(f) THEN wire # NoBlock ELSE f.stream # wire.stream

\* SendRaw, up to what the peer makes of it.
WriteFrame(f) ==
    \/ /\ Breaks(f)
       /\ wire' = NoBlock
       /\ toPeer' = Append(toPeer, Broken)
    \/ /\ ~Breaks(f) /\ ~f.whole
       /\ wire' = Joined(wire, f)
       /\ UNCHANGED toPeer
    \/ /\ ~Breaks(f) /\ f.whole
       /\ wire' = NoBlock
       /\ LET block == Joined(wire, f)
          IN  toPeer' = Append(toPeer, Block(block.code, block.fields, ~step'.requests))

\* The client writes when it has received a larger size than it has acknowledged.
Untimely(code) == code # <<>> /\ step.size > step.acked

\* EncodeHeaders and SendFrame.  A CONTINUATION is never encoded.
SendHeaders(kind, fields, whole) ==
    /\ At("request")
    /\ kind.type # "continuation" /\ ~kind.raw
    /\ stage = "request" => kind.type = "headers" /\ whole
    /\ Spend("clientBlocks") /\ Proceed("response")
    /\ LET written == Encode(encoder, fields)
           f == BlockFrame(kind, written.code, fields, whole)
       IN  /\ encoder' = written.encoder
           /\ step' = [step EXCEPT !.requests = @ /\ ~Untimely(written.code) /\ ~Breaks(f),
                                   !.tracker = @ /\ ~Loses(f)]
           /\ WriteFrame(f) /\ TrackSentFrame(f)
    /\ UNCHANGED <<decoder, owed, peer, toClient>>

\* The encoder does not see what a script gives in hexadecimal, nor
\* TrackSentFrame a raw frame.
SendHandmade(kind, code, whole) ==
    /\ stage = "any"
    /\ Spend("clientBlocks")
    /\ LET f == BlockFrame(kind, code, <<>>, whole)
       IN  /\ step' = [step EXCEPT !.requests = @ /\ code = <<>> /\ ~Breaks(f),
                                   !.tracker = @ /\ (kind.raw \/ (code = <<>> /\ ~Loses(f)))]
           /\ WriteFrame(f)
           /\ IF kind.raw THEN UNCHANGED <<pending, tracker, verdict>> ELSE TrackSentFrame(f)
    /\ UNCHANGED <<stage, encoder, decoder, owed, peer, toClient>>

(***************************************************************************)
(* A conforming peer.                                                      *)
(***************************************************************************)
PeerSendSettings(sizes) ==
    /\ Spend("peerSettings")
    /\ unacked' = Append(unacked, sizes)
    /\ toClient' = Append(toClient, Settings(sizes))
    /\ UNCHANGED <<client, peerEncoder, peerDecoder, peerLimit, asked, toPeer, verdict, step>>

\* It may use less than the client allows, and announce what it uses already.
PeerResize(n) ==
    /\ n <= peerLimit
    /\ Spend("peerResizes")
    /\ peerEncoder' = SetSize(peerEncoder, n)
    /\ UNCHANGED <<client, peerDecoder, peerLimit, unacked, asked, toPeer, toClient, verdict, step>>

PeerSendBlock(f, instruction) ==
    /\ asked /\ Spend("peerBlocks")
    /\ instruction \in Representations(peerEncoder, f)
    /\ toClient' = Append(toClient,
                          Block(Announcements(peerEncoder) \o <<instruction>>, <<f>>,
                                ~step.told \/ \E i \in DOMAIN toPeer : toPeer[i].type = "settings"))
    /\ peerEncoder' = [AfterWriting(peerEncoder, instruction) EXCEPT !.announce = FALSE]
    /\ UNCHANGED <<client, peerDecoder, peerLimit, unacked, asked, toPeer, verdict, step>>

\* It shrinks its table to the smallest size it is told.
PeerApply(encoding, sizes) ==
    LET n == Min({encoding.max} \cup Range(sizes))
    IN  IF n < encoding.max THEN SetSize(encoding, n) ELSE encoding

PeerReceiveSettings(message) ==
    /\ message.type = "settings"
    /\ peerLimit' = Last(<<peerLimit>> \o message.sizes)
    /\ peerEncoder' = PeerApply(peerEncoder, message.sizes)
    /\ UNCHANGED <<peerDecoder, unacked, asked, verdict, step>>

PeerReceiveAck(message) ==
    /\ message.type = "ack"
    /\ peerDecoder' = [peerDecoder EXCEPT !.allowed = Last(<<@>> \o Head(unacked))]
    /\ unacked' = Tail(unacked)
    /\ UNCHANGED <<peerEncoder, peerLimit, asked, verdict, step>>

PeerReceiveBlock(message) ==
    /\ message.type = "block"
    /\ LET reading == InsistentDecode(peerDecoder, message.code)
       IN  /\ peerDecoder' = reading.table
           /\ verdict' = [by |-> "peer", right |-> Right(reading, message.fields),
                          excused |-> message.excused]
    /\ asked' = TRUE
    /\ UNCHANGED <<peerEncoder, peerLimit, unacked, step>>

PeerReceive ==
    /\ toPeer # <<>>
    /\ toPeer' = Tail(toPeer)
    /\ \/ PeerReceiveSettings(Head(toPeer))
       \/ PeerReceiveAck(Head(toPeer))
       \/ PeerReceiveBlock(Head(toPeer))
    /\ UNCHANGED <<plan, client, toClient>>

(***************************************************************************)
(* Specification.                                                          *)
(***************************************************************************)
ClientStep ==
    \/ \E sizes \in SizeLists \cup {<<plan.maxTable>>} : SendSettings(sizes)
    \/ \E sizes \in SizeLists : SendRawSettings(sizes)
    \/ ReceiveSettings \/ SendAck \/ ReceiveBlock
    \/ \E kind \in plan.frames, fields \in FieldLists, whole \in BOOLEAN :
          SendHeaders(kind, fields, whole)
    \/ \E kind \in plan.frames, code \in HandmadeBlocks, whole \in BOOLEAN :
          SendHandmade(kind, code, whole)

PeerStep ==
    \/ \E sizes \in SizeLists : PeerSendSettings(sizes)
    \/ \E n \in 0..peerLimit : PeerResize(n)
    \/ \E f \in Field : \E instruction \in Representations(peerEncoder, f) :
          PeerSendBlock(f, instruction)
    \/ PeerReceive

Next == ClientStep \/ PeerStep

Spec == Init /\ [][Next]_vars
=============================================================================
