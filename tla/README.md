# Verification of mh2c

TLA+ models of `mh2c`, a small HTTP/2 client for looking at frames, checked
with TLC and proved with TLAPS: every safety property of every passing run is a
theorem. Paths are relative to the repository;
`cmd/mh2c` is the program, `client`, `frame`, `hpack`, `tlsconn` its library.

- [The system](#the-system)
- [Modules](#modules)
- [Runs](#runs)
- [Where code and documentation disagree](#where-code-and-documentation-disagree)
- [Fairness](#fairness)
- [Proofs](#proofs)
- [What is left out](#what-is-left-out)
- [Plan](#plan)

## The system

One process makes one connection and runs one command in one thread. All the
concurrency is between that thread and the peer: the peer may send any frame
at any time, close or reset at any time, and keep silent for ever. What is
hard is therefore the order of things. Control frames arrive in the middle of
everything and must be answered; header blocks are spread over frames; each
loop waits for one frame among many; errors leave half-done work behind.

| Component | State it keeps | Operations | Talks to |
|---|---|---|---|
| command (`cmd/mh2c/main.go`, `session.go`, `request.go`) | where it is, the stream id, `sawGoAway` | `run`, `startSession`, `sendRequest`, the three receive loops | client, output controller |
| client (`client/client.go`) | connection, two HPACK codecs | `SendFrame`, `ReceiveFrame`, `SendRaw`, `ReceiveRaw`, `Close` | connection, codec, trackers |
| header block tracker (`client/event.go`) | pending stream, block so far, its END_STREAM | `consume` | called by every send and receive |
| output controller (`output.go`, `output_filter.go`, `output_writer.go`) | filters, format, the output file | `PrintNotice`, `HandleSent`, `HandleReceived`, `Flush` | capture, rendering, writer |
| capture (`output_capture.go`) | headers and body per stream, the selected stream | `RecordHeaders`, `RecordData`, `Flush` | files |
| script (`script*.go`) | action, iteration, `sawGoAway`; frames received by a receive action | `validateScript`, `executeScript`, `executeReceiveAction`, `buildScriptFrame` | client, output controller |
| frame codec (`frame`, `internal/wire`) | none | `MarshalBinary`, `ParseHeader`, `Unmarshal` | |
| HPACK codec (`hpack/codec.go`) | two dynamic tables (in the x/net library) | `Encode`, `DecodeDetailed`, table sizes | |
| TLS (`tlsconn`) | connection | `Dial` | network |
| configuration (`config.go`, `script.go`) | the options, merged from flags and script | `parseConfig`, `validateExecutionConfig`, `applyScriptConnection` | endpoint, controller |
| endpoint, rendering, script parser | none | `resolveEndpoint`; cutting and showing payloads; text to values | |

What makes each correct:

- **command**: SETTINGS and PING are answered at once, once, with the right
  data; the command's own frames come after the handshake; a loop ends at the
  frame it waits for, not before and not after; the closing GOAWAY is sent
  last, once, and only when it should be; the connection's end ends it.
- **tracker and capture**: what is saved is exactly the content of the right
  stream, whatever way the headers were split and whatever came between.
- **script**: what validation accepts is what is sent, as often as it says and
  on the stream ids it says; each receive action takes the frames it waits for
  and leaves the rest to the next.
- **configuration**: nothing is touched before the command line and the script are
  accepted; the target called, the fields sent and the lines printed are those asked
  for; the frame and direction filters hide and do nothing else, the stream filter
  also names the stream to save.
- **HPACK**: a block means the same at both ends while either end changes the
  size of its table, and the client reads its own blocks as the peer does.
- **codec and client**: frames arrive whole, in order and unchanged across
  split writes and reads; nothing that is refused is delivered; nothing that
  is accepted loses a part.

`PROJECT.json` lists the hazards behind these at their lines.

## Modules

```
Frames <- HeaderBlocks <- Capture <- Session <- SessionProperties <- SessionClaims <- MCSession
   ^            ^
 Script <--- ScriptRun <- ScriptProperties <- MCScript

Hpack <- HpackSync <- HpackProperties <- MCHpack
Output, Request <- Invocation <- InvocationProperties <- InvocationClaims <- MCInvocation

SessionProperties: Session implements Conversation
FrameCodec <- FrameStream <- MCFrameStream      FrameStream implements FrameChannel
FrameCodec <- FrameParsing <- MCFrameParsing

HeaderBlocks <- HeaderBlockProofs        (lemmas for the next two)
SessionProperties <- SessionProofs
ScriptProperties <- ScriptProofs
InvocationProperties <- InvocationProofs
HpackProperties <- HpackProofs
FrameCodec <- FrameCodecProofs           (lemmas for the next two)
FrameStream <- FrameStreamProofs
FrameParsing <- FrameParsingProofs
```

**Frames** is the shared vocabulary: a frame as the program sees it once it is
parsed. A payload is a sequence of opaque items, one of which (`Undecodable`)
makes a header block fail to decode.

**HeaderBlocks** is the tracker of `client/event.go` as functions from
(tracker, frame) to (tracker, event), every branch of `consume`.

**Capture** is the capture manager of `output_capture.go`.

**Session** is one run of `mh2c request`, `ping` or `observe`. `pc` stands
before the next blocking operation (a read, a write, a file) and one action
goes from there to the next, so that everything the peer can do between two
blocking operations interleaves. The correspondence:

| `pc` | Code | Actions |
|---|---|---|
| `dial`, `preface`, `settings` | `client.New`, first lines of `startSession` | `Dial`, `SendPreface`, `SendSettings` |
| `handshake`, `handshake_answer` | loop of `startSession` | `HandshakeReceive`, `HandshakeAnswer`, `ReceiveFails` |
| `prepare`, `headers`, `data` | `readRequestBody` ... `sendRequest` | `PrepareRequest`, `SendHeaders`, `SendData` |
| `ping` | `parsePingData`, the PING | `SendPing` |
| `receive`, `receive_answer` | `receiveResponseFrames`, `receivePingFrames`, `receiveObserveFrames`, `ackControlFrame` | `ReceiveResponse`, `ReceivePing`, `ReceiveObserve`, `ObserveLimit`, `ReceiveAnswer`, `ReceiveFails` |
| `finish`, `flush` | end of `run` | `SendGoAway`, `Flush` |

`inbox` is the connection towards the client, a queue of whole frames (that
this is a sound view of the octets is what FrameStream shows). `log` is a
history variable: the frames sent and received in the client's order; the
properties read it and no action does. A failed write leaves the frame out of
`log`, a failed report of a frame that was sent leaves it in. `Flush` writes the
body and then the headers; `Remains` is what a failed `os.WriteFile` may leave of a
file: nothing touched, or any beginning of the content, the empty one included.

**Conversation** is the abstract specification of such a run, as the peer sees
it: the client greets, shakes hands, works, waits, takes leave and closes, and
says and hears nothing else. What is to be answered is answered before anything
else; a failure may cut the conversation off anywhere; and whenever it is for the
client to speak it goes on (`WF_vars(Turn)`), so that only in listening does it
depend on the peer. `SessionProperties` maps `pc` to the phase and each entry
of `log` to what it is in the conversation; `HoldsConversation` says that Session
implements it, in all three modes.

**Script** holds the rules for an action's table: what `validateScript`
accepts, how an iteration of a repeated action differs, which frame
`buildScriptFrame` makes or refuses. A table is a function on the fields that
are set. Wrong kinds and texts that do not parse are two model values; numbers
are integers, and the widths of 8, 24 and 32 bits are constants, so that TLC
can exceed all of them with small numbers and proofs hold for the real ones. `Lengths`
is how long the frame of a table is: its fixed parts (`PartSize`), its padding and its
content, where a header list, whose encoding depends on the table, has any
length from one octet for each field up. `Marshals` refuses what 24 bits cannot say.
**ScriptRun** executes a script against the same peer.

**FrameCodec** is package `frame` and `internal/wire` octet by octet: a parser
is an operator that returns the frame or the empty set. The base of an octet
is a constant: 256 in the code; 64 under TLC, whose integers have 32 bits. 64 is
the smallest that leaves every flag its own bit.
**FrameStream** adds `SendRaw` and `ReceiveRaw` and a byte stream that takes
and gives any part of what it is asked for. **FrameChannel** is its abstract
specification: frames arrive whole, in order, each in the one form its octets
have, until the channel breaks. **FrameParsing** confronts `Unmarshal` with
octets that no marshaller made.

**Hpack** is the external part of HPACK, from RFC 7541: tables, instructions, an
encoder that announces its sizes, a lenient decoder (x/net's) and an insistent one
(a strict peer's). **HpackSync** holds the client's three tables (the
encoder's, the tracker's for its own blocks, the decoder's for responses) and
a conforming peer's two, with SETTINGS and acknowledgements in flight both ways.
`SendSettings` has `applySentFrame` (`ApplySent`), `ReceiveSettings` has `applyFrame`
(`ApplyReceived`, which sets both tables of the codec for one size after the
other). In request mode `stage` keeps the order of `run`. A script may do anything at any time:
send the frames of its header blocks in any order and on any stream, encoded
(`SendHeaders`) or by hand (`SendHandmade`), and with raw actions frames that
`TrackSentFrame` and `applySentFrame` pass over (`SendRawSettings`). `pending` is what
the tracker of sent frames holds of a block, with every branch of `consume`
(`TrackSentFrame`); `wire` is what the peer has been sent of one. They part where the
tracker drops a block, and at raw frames. A peer that is sent what HTTP/2 forbids ends the
connection (`Breaks`, the message `Broken`, behind which it reads nothing). A block carries its
meaning as a history field, and `step` remembers what may excuse a wrong reading: which tables are
in step, whether the peer was told the client's limit, and which size the client
has received last and which it has acknowledged last.

**Invocation** is `run()` around the session: `parseConfig`, the tools (`describe`,
`template`, `validate`), the script's connection table, `resolveEndpoint`, the
output file, the dial, `buildRequestFields` after the handshake, and then any events
of a session, in any order, handed to the output controller, which captures the DATA of
each stream (which of them is saved, `Session` says). **Output** has the
filters and the cutting of payloads, over bytes that are whole characters, halves
of one, or none; **Request** has the endpoint and the header fields. uint32, int and
uint are constants, so that TLC exceeds each of them.

**SessionProperties**, **ScriptProperties**, **HpackProperties** and
**InvocationProperties** state the properties,
**SessionClaims** and **InvocationClaims** what documentation says and the code does
not do. The modules that end in **Proofs** hold the theorems.

A few operators have a mutant beside them: the same operator with a bug that
someone could plausibly write. `PROJECT.json` names, for each property of each
run, one that the property catches. They are otherwise unused.

## Runs

| Run | Shows |
|---|---|
| `session_control` | `AnswersFollow`, `WorkFollowsHandshake`, `GoAwayIsFinal`, `HoldsConversation` (refinement), and under fairness `CloseEnds`, `AwaitedFrameEnds`: every command, a request with and without a body, SETTINGS, PING, GOAWAY and malformed frames at any point |
| `session_files` | `TypeOK`, `StopsWhenDone`, `SavedFilesExact`: header blocks split, empty, undecodable, promised, or of another stream; ping with acknowledgements of other PINGs; observe with `--max-recv`, automatic and explicit capture |
| `scripts` | `TypeOK`; `SendsTheScript`, `NoOverflow`, `RefusesOnlyRanges` for several hundred action tables; `ReceivesEnough`, `AcksAsAsked`, `GoAwayOnlyToSilent` for `count`, every `until`, repeated receives; `ScriptEnds` |
| `frame_stream` | `ImplementsChannel` (refinement), `FramesArrive` |
| `frame_parsing` | `AcceptedIsFaithful` |
| `hpack_sync` | `ResponsesDecode`, `RequestsDecode`, `SentBlocksReadBack`: a block is read as it was meant but for the circumstances each names, blocks in pieces, by hand and in raw frames included; `SessionsDecode`: outside scripts there are none |
| `options` | `NothingBeforeAccepted`, `TargetAsNamed`, `RequestFieldsExact`, `OutputAsFiltered`, `PayloadShownFaithfully` over a thousand command lines and scripts |
| `claim_*` | one disagreement each, see below |

Every run explores its whole state space: tens of thousands to 1.6 million states, seconds
to a minute and a half.

Bounds, and why they are enough:

- `MaxPeerFrames` (3 to 5, by command) frames from the peer in a run. The loops keep no
  memory of earlier frames but the tracker, the capture and a counter: one
  frame ends the handshake, two make a split header block, one comes between
  or behind, one ends the loop. The observe limit is 2, so that a frame may come
  before, at and behind it.
- `MaxInFlight` (1 or 2) frames in the inbox. The client takes frames one at a
  time and cannot look ahead; 2 lets frames wait behind the one that ends a loop.
- Three stream ids: the connection, the requested stream and another.
- `PingSize = 1`: only equality of PING data, and one wrong size, matter.
- Scripts: `MaxUint8 = 1`, `MaxUint24 = 3`, `MaxUint32 = 7`, with values at,
  below and above each; `repeat` up to one more than the widest stepped range. Parts of
  a payload have 0 or 1 octets, a header field at most 2, so that content, padding and
  framing alone and together meet the three octets a frame may have and exceed them.
- FrameStream: two frames, 8 octets in flight, fewer than a frame, so that
  writes block and frames meet in the buffer. Seventeen frames cover every type
  with each of its optional parts, raw frames that do not parse, and one whose
  length is beyond 24 bits.
- FrameParsing: payloads up to the bound of `frame_parsing.cfg` over the octets 0, 2
  (a pad length that may or may not fit) and 33 (the highest bit set).

- HpackSync: two fields and tables of 0 to 2 fields (eviction counts fields, not
  octets), so that any change of size evicts something; up to two SETTINGS from
  each end, two blocks from the peer and three blocks or pieces from the client, with up to two sizes each, equal to the initial one, below
  and above it: the smallest that let two changes cross each other and a block. Seven
  plans (`MCPlans`) divide what a run may do: tables larger and smaller than the
  client's, raw SETTINGS, whole blocks under two SETTINGS of the peer, blocks in pieces
  around one, pieces out of order over the streams 0, 1 and 3, raw frames, and requests.
- Invocation: 32 bits are 3, int 4 and uint 5, ports end at 5. Two events of
  twelve, on as many streams as the filters and the capture tell apart: the controller
  remembers nothing from one event to the next but what is captured. Payloads of up to three bytes, limits of 0, 1, 2 and around each width.

Deadlock is checked everywhere but in `frame_parsing` and `hpack_sync`, where
the run simply stops when its bounds are used up.

## Where code and documentation disagree

| Run | Documentation | Code |
|---|---|---|
| `claim_goaway` | "send GOAWAY before exit when peer did not" (`config.go:299`) | A GOAWAY in the handshake is forgotten; the client sends its own. For the same reason observe reads on, where it should print "until `GOAWAY`" (`README.md:172`). |
| `claim_timeout` | "overall timeout" (`config.go:294`) | The timeout reaches only `Dial`, which ignores it; a silent peer blocks the client for ever. |
| `claim_body` | "`--save-body path` stores the captured response body in request/observe mode" (`README.md:186`) | If the peer closes without GOAWAY, observe fails before `Flush` and a body captured to its end is lost. |
| `claim_promise` | "save the decoded response headers to a file" (`config.go:321`), "stores decoded response headers" (`README.md:187`) | Every header block of the stream is recorded, that of a PUSH_PROMISE too: the fields of the promised request are saved among those of the response. |
| `claim_stream_id` | "request stream ID", "stream-id must be greater than 0" (`config.go:296`, `331`) | Checked as a uint, used as a uint32: 2^32 becomes stream 0. |

Close to the last: validation looks at the range of some numbers only. A stream
id, pad length or frame type out of range passes `mh2c script validate` and fails
when its frame is built, after the frames of the earlier actions were sent; so does any
frame (DATA, HEADERS, GOAWAY, raw without a length and so on) whose payload is longer than
2^24 - 1 octets, which only the marshaller refuses. The same happens to a raw action with a
`length` beyond 24 bits, of which `script_spec.go:164` says that it is "sent exactly as provided".
`RefusesOnlyRanges` states that nothing else is found so late.

And options are not all looked at before the output file is emptied and the server
called. `NothingBeforeAccepted` states it for every check of `parseConfig`,
`validateScript`, `applyScriptConnection` and `resolveEndpoint`; three refusals come
after file, dial and handshake: `--data` with `--body-file` (`request.go:16`), a malformed
`--header` (`request.go:33`) and a `--ping-data` that is not 8 bytes
(`session.go:165`, called at `main.go:114`).

What the properties of passing runs have to except, and no document excludes:

- `PayloadShownFaithfully`: a `--data-limit` beyond 2^63 - 1 is negative when it is
  compared and huge when it is used, and the first payload shown makes the program
  panic. And data that is not UTF-8 is shown as text, marked truncated, if
  the limit cuts it.
- `SavedFilesExact`: the headers file has the fields of PUSH_PROMISE (`claim_promise`). A
  failed write may leave an empty or partial file, of which the property promises only that
  it is a beginning, the last one, and that the command fails.
- `ResponsesDecode`: the client applies the limit of its SETTINGS when it
  sends them, not when the peer acknowledges them; a block that announces a table size
  meanwhile may be refused. Below the initial 4096, the limit of a script that
  sends no SETTINGS is one the peer never hears of. And SETTINGS sent by a raw action
  is a `RawFrame`, which `applySentFrame` passes over: the peer hears a limit that
  the client does not apply, and a block that announces more than the client allows is refused.
- `SentBlocksReadBack`: SETTINGS of the peer between the frames of a script's header
  block evict from the table that is to read that block back. Frames out of order make the
  tracker drop blocks that the encoder has written: HEADERS or PUSH_PROMISE
  while a block is pending (both are lost), a CONTINUATION without one or on another
  stream, a beginning on stream 0. Blocks in hexadecimal insert what the encoder does
  not know; in raw frames they are not read at all and do no harm here.
- `RequestsDecode`: a script that writes while the last size it has received is above the
  one it has acknowledged last, acknowledges a size in the middle of a
  block, or gives blocks in hexadecimal, raw ones included, parts its encoder from the
  peer. To delay an acknowledgement is harmless otherwise. Frames of blocks in an order that
  HTTP/2 forbids end the connection, and nothing is read behind them.
- `OutputAsFiltered`: the stream filter, too, is truncated to 32 bits, so the property
  speaks of stream numbers that fit; `claim_stream_id` is about the others. That
  `--stream-filter` also selects what is saved is documented ("display and capture a
  specific stream ID", `config.go:297`), and part of the property.
- `RequestFieldsExact`: a pseudo-header that the user gives comes after the other
  fields the program adds.

## Fairness

`Session` and `ScriptRun`: weak fairness of `ClientStep` only. The client is a
single thread that blocks only in reads and writes; a step is enabled when it
need not block, and a thread that can run runs. In particular writes do not
block for ever: a peer that never reads is outside the model. The peer, the
clock and the network owe nothing, so a property that
needs a frame has it in its premise (`AwaitedFrameEnds`), or the end of the
connection (`CloseEnds`, `ScriptEnds`).

`Conversation`: weak fairness of the client's turns, which the one of `ClientStep`
implies.

`FrameStream`: weak fairness of the receiver, which sits in `ReceiveFrame`, and
of `Write`, the loop of `SendRaw`. Nothing makes the program send.

## Proofs

`tlapm` checks these for all values of the constants: any command lines, any
scripts, any peer frames, any number of them in flight, any integer widths in the
right order. Assumptions on the constants say what the libraries hand to the
program and no more: options are those package flag can make
(`ConfigsAssumption`, `CommandLinesAssumption`), a URL has at most one port, script
values have TOML types (`ScriptsAssumption`), stream ids are 32 bits and include
all of them (`StreamIdsAssumption`, `StreamsAssumption`), what arrives are frames
(`PeerFramesAssumption`), integer widths are in order (`WidthsAssumption`,
`OutputWidths`, `PortsAssumption`), payloads are of bytes and fit in memory
(`EventsAssumption`), header fields and sizes are sequences of what they are
(`HpackAssumption`), parts of a payload have a size and a header field at least one octet
(`SizesAssumption`), the frames of FrameStream are those the program builds
(`FramesAssumption`) and headers are those `ParseHeader` returns
(`ParsingAssumption`). TLC evaluates each of them in the run of its component.

### Session

**`SessionProofs!TypeCorrect`** (`TypeOK`). By lemmas on what the
operators return (`ConsumeType`, `CaptureType`, `SendType`, `ReceiveType`) and
one step per action.

**`SessionProofs!AnswersCorrect`** (`AnswersFollow`). `AnswersFollow`
alone is not inductive: when the client stands before an answer, nothing says that
the last frame in the log is the one it holds. `AnswerInv` adds that, and
that in every other state no question is open unless the command failed.
A step that sends something else cannot then start with a question open, and the
answer step answers the last entry.

**`SessionProofs!OrderCorrect`** (`WorkFollowsHandshake`). The
property speaks of entries already in the log; whether the next one is in order
depends on the program counter. `OrderInv` says what each phase knows: how much of the
prologue has been sent, that no frame which could end the handshake has been
received while the client is still in it (at `handshake_answer`, none but
the last), and past it that some entry ended it and was acknowledged
(`Opens`). That the last entry is the SETTINGS about to be acknowledged is
`AnswerInv`'s. `GrowsEnds` shows that a longer log has the same end of the handshake.

**`SessionProofs!GoAwayCorrect`** (`GoAwayIsFinal`). `GoAwayInv` adds
that no GOAWAY has been sent before the end of `run()`, that while `sawGoAway` is
false the only GOAWAY received is the one that ended the handshake, and that
`sawGoAway` is true at the end only. The step that receives a GOAWAY in the
handshake needs `OrderInv` to know that nothing ended it before.

**`SessionProofs!ConversationHeld`** (`Spec => Peers!SafeSpec`): every
step of Session is a step of Conversation or none of its business. This is the
safety half of the property `HoldsConversation`; the other half is its fairness.
The refinement mapping reads the phase off `pc` and what was said off the last
entries of `log`, so that each kind of step needs what earlier invariants know of
them: `AnswerInv` that an answer meets its question, `OrderInv` that work follows a
greeting. The leave-taking needs one more, `FarewellInv`: the conversation
lets nobody say GOAWAY to a peer that just did, and a client that forgot the
GOAWAY of the handshake has by the end heard something else. That hangs on the
observe counter: a limit is reached only by a frame of the loop.

**`SessionProofs!LoopsCorrect`** (`StopsWhenDone`): a loop ends well if and
only if it received what it waits for, and receives nothing more. The property
looks at the log, the code at its tracker, at a counter and at the frame in
hand. Three invariants relate them. `Tracks` says that a pending stream of the
tracker is a header block that the log has open, opened by a frame with the
END_STREAM the tracker remembers; its lemmas (`ConsumeTracks`, `ConsumeReports` in
`HeaderBlockProofs`) are about any history and any tracker, and say that the
event of a frame completes a block exactly if the history has a whole block that
ends there. `LoopInv` says that in the loop the counter is the
number of frames since the loop began, and that what is awaited has not come (but for
a limit that is spent and not yet noticed). `OnPath` keeps the modes apart.

**`SessionProofs!FilesCorrect`** (`SavedFilesExact`): a file that was written holds
exactly what it should, and one whose writing failed a beginning of it (`Begins`: an
undamaged file that holds it would begin so). The property does not compute a content but describes it:
`Joins(content, I, text)` says that each item of the texts numbered by `I` stands in
`content` at the place given by how many items come before it, and nothing
else does, so that no fold has to be unrolled. `JoinsAppend` adds a text behind the
others. The invariant has a part for each store on the way: `Holds`, the tracker's
fragments are the parts of the block it has open; `Gathered`, what the capture manager
has for each stream joins the DATA and the whole blocks received of it so far, and the
selected stream of an automatic capture is the first that ended; `FilesInv`, while the
command runs nothing is saved and the capture is of the kind and target it asked for,
and once it has exited what is saved is what was gathered, or of the last file a beginning. `ReceivedKeepsGathered`
needs `Holds` to know which block the last frame completed (`BlockNow`, `BlocksApart`).

### Scripts

**`ScriptProofs!RepeatsFit`** (`NoOverflow`). `validateActionRepeat`
bounds `repeat` by a division; `actionForRepeatIteration` adds and multiplies
in 64 bits that wrap. `StepBound` shows from the first that the sum without
wrapping stays within 32 bits, `NoWrap` that the wrapping sum is then the same.
`RunInv` carries what connects the two: from the load on the script
is valid, and while an action is executed `AtIteration` holds, that is, the
iteration is below the repeat count of the action at `index`.

**`ScriptProofs!ScriptTypeCorrect`** (`TypeOK`). The types hold only because
numbers out of range never get into a frame: `BuildType` shows it from what
`validateScript` and `buildScriptFrame` check together, and needs `RunInv`.

**`ScriptProofs!ScriptAcksCorrect`** (`AcksAsAsked`). `AckInv` adds that a client
about to answer has just received the frame it holds, in this iteration, and was
asked to answer it.

**`ScriptProofs!ScriptGoAwayCorrect`** (`GoAwayOnlyToSilent`). `GoAwayInv` follows
a GOAWAY from the receive action that read it (`gotGoAway`) to the script
(`sawGoAway`), and says that nothing has closed a run that goes on.

**`ScriptProofs!ScriptRefusalsCorrect`** (`RefusesOnlyRanges`), by
`ContentStays`: of what validation looked at, an iteration changes only the stream
id; all that is left to refuse are ranges and lengths.

**`ScriptProofs!ScriptSendsCorrect`** (`SendsTheScript`): each entry sent is an
iteration of the script as the documentation means it, and what was sent before it
are exactly the iterations before it. `SendInv` says that while the run goes on, the
iterations sent are exactly those before the one at hand, where an iteration
that sends nothing counts for nothing; that `finish` stands behind the last
action; and that the run is at a receive action when it receives. `AdvancePast`
and `AdvanceLeaves` say what the end of an iteration moves into the past, which
needs `Count` to be positive, and `StreamExact` that the frame is the meant one.

**`ScriptProofs!ScriptReceivesCorrect`** (`ReceivesEnough`). `ReceiveInv` says
that within a receive action `count` is the number of frames of this iteration,
that none of them was enough (but for one still to be answered), and that
whatever was received belongs to an iteration that is over or to the one at hand.
For `until = "end_stream"` it needs `Tracks`, as the loops do. `Elsewhere` is the
frame rule for all steps outside receive actions.

### Invocation

**`InvocationProofs!NothingHappensEarly`** (`NothingBeforeAccepted`) and
**`TargetIsNamed`** (`TargetAsNamed`: host, port, path and :authority, each from the script
before the flags, and a URL before the parts). `StageInv` says what each stage of `run()`
has established when it hands over: the flags were accepted before the script is
read, everything was before the output file is opened, and from the dial on
the endpoint and the controller are those of the effective options.
`ResolvesUrl` and `ResolvesParts` then say which endpoint that is.

**`FieldsExact`** (`RequestFieldsExact`). `FieldsInv`: fields, once made, are
`BuildRequestFields` of the user's headers and some body. What that is for all headers
is a matter of lemmas. `OneMoreField` adds one field to a sequence that has
one of each of certain names (`Fresh`), unless the user gives it; `DefaultsFresh`
applies it four times, `AddedFields` once more for the content-length, and
`FieldsAre` puts the user's fields after them, by position. The property asks for
the user's fields in order as a sublist (`Lists`), which needs only that position map.

**`FiltersHide`** (`OutputAsFiltered`) and **`PayloadsShown`**
(`PayloadShownFaithfully`). `OutputInv` relates the lines shown and the data
captured of each stream to the events handled, as sublists (`Lists`): there is an increasing map
onto the chosen positions. That the stream to save is the one named is `StageInv`'s. It says further that nothing that failed to decode is
handled where it would be decoded and that only a limit that is negative
as an int panics. That the cut of a text loses at most one character is about
the greatest prefix of whole characters; `GreatestExists` gets it from the well-foundedness of
the naturals, since neither it nor its value is computed by anything the provers evaluate.

### Frames

**`FrameStreamProofs!StreamFlows`** and **`StreamImplementsChannel`**
(`ImplementsChannel`). The invariant lays all octets the sender ever
marshalled behind one another and says where each part of them is: what is
delivered ends where a frame ends, and behind it stand, without a gap, what
`ReceiveRaw` has read, what is on the wire and what `SendRaw` has still to write
(`Flows`); a header that has been read is that of the frame at hand (`HeadKnown`). A
step moves a piece from one part to the next (`PartMoves`). That the receiver then
reads the frame that was sent is `FrameCodecProofs`: for each of the types,
`Unmarshal` gives back from the octets of a frame its canonical form (`DataReads`
... `GoAwayReads`, `MarshalCarries`). Numbers are read back by the arithmetic of
their digits; that of SETTINGS, a sequence of any length, by position. The theorem
holds for octets of 8 bits and for the smaller ones of the runs (`BaseAssumption`).

**`FrameParsingProofs!AcceptedFramesAreFaithful`** (`AcceptedIsFaithful`). The
other direction: whatever `Unmarshal` accepts marshals to the octets it came
from, but for padding and reserved bits. The invariant is the type of the state;
the property is a matter of lemmas, one for each type (`DataKept` ... `UnknownKept`),
over what a part of a payload writes when it was read from it (`PriorityWrites`,
`SettingsWrite`, `PaddedWrites`). `ParsingAssumption` says that headers come out of
`ParseHeader`, which clears the reserved bit.

### HPACK

**`HpackProofs!TablesKeepStep`** (`Inv`), and from it **`PeerBlocksAreRead`**
(`ResponsesDecode`), **`ClientBlocksAreRead`** (`RequestsDecode`),
**`OwnBlocksAreReported`** (`SentBlocksReadBack`) and **`SessionsAreRead`**
(`SessionsDecode`): for any fields, any sizes, any commands and scripts, and any number
of messages in flight.

The argument has three layers.

1. *Folds.* `Encode`, `Decode` and `ApplyReceived` are folds over sequences of any
   length. The library's induction theorems cannot be used, but the induction can be
   had over sets: a set of numbers that has 0 and the successor of each of its members
   is `Nat`, since the naturals are well founded (`SetInduction`), and so for
   sequences (`SeqInduction`). `FoldExists` and `RunOn` derive from it that a
   fold takes one step for each element (`ReadOnLaws`, `WriteOnLaws`,
   `ApplyReceivedLaws`).
2. *What is written is read.* `InStep(d, e)`: the decoder `d` has the table of the
   encoder `e`, or, while `e` has sizes to announce, `e` has that table cut to the
   lowest of them. `FieldIsRead` and `FragmentIsRead` say that the decoder reads
   what such an encoder writes, the announcements included, and is in step again; that it
   refuses exactly if the announced size is beyond its limit. `SetBothKeeps` and
   `SetSizeKeeps` say that changes of size keep the two in step, on both ends or on
   the encoder's alone; both are facts on cutting a sequence twice (`CutCut`).
3. *Messages in flight.* The two ends are in step only when what is under way has
   arrived. `Hears(R, S, q, a, z)` says that an end in state `a` which takes the
   messages of `q` one after the other, as `R` allows, comes to `z`. Each step of the
   system takes the first link of such a chain (`HearsFirst`), adds one (`HearsMore`),
   or changes all alike (`HearsAlike`).

The inductive invariant `Inv` says: `TrackerInv`, the client's own reader, unless one
of the excuses has parted them, is in step with its encoder behind what `pending` holds
already; `PeerInv`, the peer, once it has heard everything in `toPeer` and what `wire` holds
already, will likewise be in step with the client's encoder, will have
the limit the client acknowledged last, and will be owed just the sizes that
the client has received or will; `ClientInv`, the client, once it has read the blocks in
`toClient`, will be in step with the peer's encoder, and no block announces a size
beyond the client's limit without an excuse; `SessionInv`, outside
scripts no SETTINGS travels behind a request, and the encoder stands at the
size acknowledged last whenever the client may write; `VerdictInv`, the properties.
Each of these follows from the others only one step later: the reading of a
block needs the chains, the chains need the limits, and a limit is one the other end was
told. TLC checked all parts on the instance of `hpack_sync`.

This proof changed the model. An earlier `RequestsDecode` excused a block written while
*some* SETTINGS was unacknowledged and looked at the last acknowledged one only
if there was one; the induction failed for a peer that sends two SETTINGS of which the
first lowers the table, and TLC, given the sizes 0 and 1, found a script that acknowledges one
of them and writes. `owed` now keeps the sizes of each SETTINGS, and the excuse compares
two histories, `step.size`, the last size received, with `step.acked`, the last
acknowledged. Comparing the encoder's own size instead would have excused an encoder
that does not follow the peer at all; `TrackerInv` says that the encoder stands at `step.size`.

### Only checked by TLC

All liveness (`CloseEnds`, `AwaitedFrameEnds`, `ScriptEnds`, `FramesArrive`, the
fairness half of `HoldsConversation`): it needs ENABLED. That the documentation is
contradicted (`claim_*`) needs no proof: a counterexample is one.

## What is left out

- HPACK in Session and ScriptRun: a block decodes to its fields or fails; when it
  fails is HpackSync. Huffman coding and octet sizes of fields.
- Between the frames of a block on the wire, the peer of HpackSync takes SETTINGS and
  acknowledgements, for which a real one may end the connection: it reads on where that
  one stops. SETTINGS of a script that are themselves malformed, and acknowledgements
  that answer nothing, are not sent. The decoder of Hpack takes any number of size updates at
  the head of a block, where x/net may refuse the second; a conforming peer's are within both.
- Flow control, stream states and frame size limits: the client has none.
- The wording and layout of text and JSON lines, of the usage and of the
  descriptions. A failed print is an error of the step.
- How package flag splits arguments, net/url a URL and the TOML library a file; the
  outcome, refusals included, is an input of Invocation.
- The example reader of JSON lines, which is no part of the client.
- TLS and ALPN: a dial succeeds or fails.
- Sleeping takes no time; the timeout elapses at any moment.
- `SendRawFrame` with a length it corrects: the program does not call it. A raw
  action that gives a wrong length which fits 24 bits: what follows on the wire is no
  frame (`FramesAssumption`).

## Plan

Done: all modules, runs and theorems above. Every invariant and every safety
property that a run checks is proved.

What could follow: the liveness properties by hand-made progress arguments once the
provers support ENABLED, and HeaderBlocks over HpackSync, so that a block of Session
fails to decode exactly when the tables say so.
