------------------------- MODULE SessionProperties --------------------------
(***************************************************************************)
(* What a run of the client promises, stated over the history of frames it *)
(* sent and received.                                                      *)
(***************************************************************************)
EXTENDS Session, FiniteSets

IsReceived(i) == log[i].dir = "received"
IsSent(i) == log[i].dir = "sent"
Type(i) == log[i].frame.type
Has(i, flag) == flag \in log[i].frame.flags
StreamOf(i) == log[i].frame.stream

\* The receive loop ended well.
Finished == pc \in {"finish", "flush"} \/ result = "ok"

(***************************************************************************)
(* Answers                                                                 *)
(***************************************************************************)
Asks(entry) ==
    /\ entry.dir = "received" /\ entry.frame.type \in {"SETTINGS", "PING"}
    /\ "ACK" \notin entry.frame.flags

IsAck(entry) == entry.dir = "sent" /\ "ACK" \in entry.frame.flags

\* ack acknowledges entry: same type, ACK, and a PING's own data.
Answers(ack, entry) ==
    /\ IsAck(ack) /\ ack.frame.type = entry.frame.type
    /\ entry.frame.type = "PING" => ack.frame.payload = entry.frame.payload

\* Every SETTINGS and PING of the peer is answered before the client reads or
\* sends anything else, with the PING's own data, and the client sends no
\* acknowledgement that was not asked for: startSession and ackControlFrame,
\* across all loops.  Only an error cuts an answer off.
AnswersFollow ==
    \A i \in DOMAIN log :
        /\ Asks(log[i]) =>
              IF i = Len(log)
              THEN pc \in {"handshake_answer", "receive_answer"} \/ result = "error"
              ELSE Answers(log[i + 1], log[i])
        /\ IsAck(log[i]) => i > 1 /\ Asks(log[i - 1]) /\ Answers(log[i], log[i - 1])

(***************************************************************************)
(* Order                                                                   *)
(***************************************************************************)
\* log[i] is the frame that ended the handshake.
EndsHandshake(i) ==
    LET ends(j) == IsReceived(j) /\ (Type(j) = "GOAWAY" \/ (Type(j) = "SETTINGS" /\ ~Has(j, "ACK")))
    IN  ends(i) /\ \A j \in 1..(i - 1) : ~ends(j)

\* Frames sent on the command's own behalf, neither prologue nor answers.
IsWork(i) ==
    IsSent(i) /\ (Type(i) \in {"HEADERS", "DATA", "GOAWAY"} \/ (Type(i) = "PING" /\ ~Has(i, "ACK")))

\* The preface and the client's SETTINGS come first, and the command's own
\* frames only after the peer's SETTINGS was received and acknowledged (or
\* the peer gave up with a GOAWAY): startSession returns to run() in no other
\* way.
WorkFollowsHandshake ==
    \A i \in DOMAIN log :
        /\ log[i] = Sent(ConnectionPreface) <=> i = 1
        /\ i = 2 => log[i] = Sent(SettingsFrame({}))
        /\ IsWork(i) =>
              \E j \in 3..(i - 1) :
                 /\ EndsHandshake(j)
                 /\ Type(j) = "SETTINGS" => j + 1 < i /\ Answers(log[j + 1], log[j])

\* The GOAWAY is the last thing the client sends, it sends one at most, only
\* if the command line allows it and the command succeeded, and not to a peer
\* whose own GOAWAY ended a receive loop: sawGoAway at the end of run().
GoAwayIsFinal ==
    \A i \in DOMAIN log :
        IsSent(i) /\ Type(i) = "GOAWAY" =>
            /\ i = Len(log) /\ cfg.sendGoAway
            /\ pc # "exited" => pc = "flush"
            /\ \A j \in 1..(i - 1) :
                  IsReceived(j) /\ Type(j) = "GOAWAY" => EndsHandshake(j)

(***************************************************************************)
(* Header blocks, as the history tells them                                *)
(***************************************************************************)
StartsBlock(i) == IsReceived(i) /\ Type(i) \in {"HEADERS", "PUSH_PROMISE"}
IsHeaderFrame(i) == StartsBlock(i) \/ (IsReceived(i) /\ Type(i) = "CONTINUATION")

\* log[k] to log[n] hold exactly one whole header block.
IsBlock(k, n) ==
    /\ k <= n /\ StartsBlock(k) /\ IsHeaderFrame(n)
    /\ \A i \in k..n : IsHeaderFrame(i) =>
          /\ Has(i, "END_HEADERS") <=> i = n
          /\ i > k => Type(i) = "CONTINUATION" /\ StreamOf(i) = StreamOf(k)

EndsStreamAt(s, n) ==
    \/ IsReceived(n) /\ Type(n) = "DATA" /\ StreamOf(n) = s /\ Has(n, "END_STREAM")
    \/ \E k \in 1..n : /\ IsBlock(k, n) /\ Type(k) = "HEADERS"
                       /\ StreamOf(k) = s /\ Has(k, "END_STREAM")

(***************************************************************************)
(* The end of the receive loops                                            *)
(***************************************************************************)
\* The receive loop starts after log[i].
StartsLoop(i) ==
    CASE cfg.mode = "request" -> IsSent(i) /\ Has(i, "END_STREAM")
      [] cfg.mode = "ping"    -> IsSent(i) /\ Type(i) = "PING" /\ ~Has(i, "ACK")
      [] cfg.mode = "observe" -> EndsHandshake(i)

\* log[n] is what the command was waiting for.
IsAwaited(n) ==
    \E i \in 1..(n - 1) :
        /\ StartsLoop(i) /\ IsReceived(n)
        /\ \/ Type(n) = "GOAWAY"
           \/ cfg.mode = "request" /\ EndsStreamAt(cfg.streamID, n)
           \/ /\ cfg.mode = "ping" /\ Type(n) = "PING" /\ Has(n, "ACK")
              /\ log[n].frame.payload = cfg.pingData
           \/ /\ cfg.mode = "observe" /\ cfg.maxRecv > 0
              /\ Cardinality({j \in (i + 1)..n : IsReceived(j)}) >= cfg.maxRecv

\* A receive loop ends well exactly when it has received what the command
\* waits for: the end of its response (in DATA, or in HEADERS whose block
\* CONTINUATION frames complete), the acknowledgement of its own PING, the
\* frame that exhausts --max-recv, or a GOAWAY; and it reads nothing more.
StopsWhenDone ==
    /\ Finished => \E n \in DOMAIN log : IsAwaited(n)
    /\ \A n \in DOMAIN log : IsAwaited(n) => \A j \in (n + 1)..Len(log) : ~IsReceived(j)

(***************************************************************************)
(* Captured files                                                          *)
(***************************************************************************)
\* A text is cut into pieces; <<i, k>> is the k-th item of piece i.
Items(I, text) == UNION {{i} \X DOMAIN text[i] : i \in I}

UpTo(item, items) == {p \in items : p[1] < item[1] \/ (p[1] = item[1] /\ p[2] <= item[2])}

\* content is the beginning of the pieces I of text, one after the other: it
\* has room for no more than their items, and those that have a place there
\* are in it.
Begins(content, I, text) ==
    LET items == Items(I, text)
        place(item) == Cardinality(UpTo(item, items))
    IN  /\ Len(content) <= Cardinality(items)
        /\ \A item \in items :
              place(item) <= Len(content) => content[place(item)] = text[item[1]][item[2]]

\* content is all of them.
Joins(content, I, text) ==
    LET items == Items(I, text)
    IN  /\ Len(content) = Cardinality(items)
        /\ \A item \in items : content[Cardinality(UpTo(item, items))] = text[item[1]][item[2]]

Payloads == [i \in DOMAIN log |-> log[i].frame.payload]

BodyFrames(s) == {i \in DOMAIN log : IsReceived(i) /\ Type(i) = "DATA" /\ StreamOf(i) = s}

\* The frames of all whole header blocks of s.
BlockFrames(s) ==
    {i \in DOMAIN log :
        /\ IsHeaderFrame(i)
        /\ \E k \in 1..i, n \in i..Len(log) : IsBlock(k, n) /\ StreamOf(k) = s}

\* A block without fields is not recorded, so it neither ends nor names a stream.
Recorded(s, n) ==
    \/ IsReceived(n) /\ Type(n) = "DATA" /\ StreamOf(n) = s
    \/ \E k \in 1..n : /\ IsBlock(k, n) /\ StreamOf(k) = s
                       /\ \E i \in k..n : IsHeaderFrame(i) /\ log[i].frame.payload # <<>>

EndRecorded(s, n) == Recorded(s, n) /\ EndsStreamAt(s, n)

\* The stream whose content is to be saved, if there is any.
SavedStream ==
    IF CaptureKind(cfg) = "explicit"
    THEN {s \in {CaptureTarget(cfg)} : \E n \in DOMAIN log : Recorded(s, n)}
    ELSE {s \in StreamIds \ {0} :
            \E n \in DOMAIN log :
                /\ EndRecorded(s, n)
                /\ \A t \in StreamIds \ {0}, m \in 1..(n - 1) : ~EndRecorded(t, m)}

Pieces(file, s) == IF file.file = "body" THEN BodyFrames(s) ELSE BlockFrames(s)

HoldsContent(file, s) == Joins(file.content, Pieces(file, s), Payloads)

HoldsBeginning(file, s) == Begins(file.content, Pieces(file, s), Payloads)

Names(files) == {file.file : file \in files}
Damaged == {file \in saved : ~file.whole}

\* A command that ends well has saved what it was asked to: all the DATA, and
\* the fields of all whole header blocks, those of a PUSH_PROMISE among them
\* (see SavedHeadersAreResponses), of the stream that was asked for or, in
\* observe mode, of the first stream to end, in the order received, and
\* nothing of any other stream.  A command that fails before the end of run()
\* saves nothing.  One that fails to write a file leaves a beginning of it at
\* most, no file after it, and the body before it whole.
SavedFilesExact ==
    /\ \A file \in saved, s \in SavedStream :
          IF file.whole THEN HoldsContent(file, s) ELSE HoldsBeginning(file, s)
    /\ result = "ok" =>
          Damaged = {} /\ Names(saved) = IF SavedStream = {} THEN {} ELSE cfg.save
    /\ result = "error" /\ saved # {} =>
          /\ SavedStream # {} /\ Names(saved) \subseteq cfg.save
          /\ Names(saved \ Damaged) \subseteq {"body"}
          /\ "body" \in Names(Damaged) => Names(saved) = {"body"}
          /\ "headers" \in Names(Damaged) /\ "body" \in cfg.save => "body" \in Names(saved \ Damaged)

(***************************************************************************)
(* The conversation                                                        *)
(***************************************************************************)
PhaseAt(place) ==
    CASE place = "dial" -> "connecting"
      [] place \in {"preface", "settings"} -> "greeting"
      [] place \in {"handshake", "handshake_answer"} -> "shaking"
      [] place \in {"prepare", "headers", "data", "ping"} -> "working"
      [] place \in {"receive", "receive_answer"} -> "waiting"
      [] place = "finish" -> "leaving"
      [] place \in {"flush", "exited"} -> "closed"

Phase == PhaseAt(pc)

\* An entry of the history as the conversation has it.
HeardKind(entry) ==
    IF Asks(entry) \/ entry.frame.type = "GOAWAY" THEN entry.frame.type ELSE "other"

OwnWords == [PREFACE |-> "preface", SETTINGS |-> "greeting", GOAWAY |-> "farewell"]

SaidKind(f) ==
    IF "ACK" \in f.flags THEN f.type
    ELSE IF f.type \in DOMAIN OwnWords THEN OwnWords[f.type] ELSE "work"

Utterance(entry) ==
    IF entry.dir = "received" THEN [by |-> "peer", kind |-> HeardKind(entry)]
    ELSE [by |-> "client", kind |-> SaidKind(entry.frame)]

Transcript == [i \in DOMAIN log |-> Utterance(log[i])]

Peers == INSTANCE Conversation WITH phase <- Phase, transcript <- Transcript

\* All three commands hold the one conversation that Conversation states,
\* answers, farewell, failures and all, and never stop at a moment when it is
\* for the client to speak (run, startSession and the receive loops).
HoldsConversation == Peers!Spec

(***************************************************************************)
(* Liveness                                                                *)
(***************************************************************************)
Exited == pc = "exited"

\* The end of the connection ends the command, in whichever loop it is.
CloseEnds == ~peer.open ~> Exited

\* Once a receive loop runs, a GOAWAY on its way, the DATA that ends the
\* response, or the acknowledgement of the PING ends the command, whatever
\* the peer sends before it; and so does the limit of the observe loop.
AwaitedFrameEnds ==
    pc = "receive" /\ ( \/ AtLimit
                        \/ \E i \in DOMAIN inbox :
                              \/ inbox[i].type = "GOAWAY"
                              \/ cfg.mode = "request" /\ EndsResponse(inbox[i], NoBlock)
                              \/ cfg.mode = "ping" /\ EndsPing(inbox[i]) ) ~> Exited
=============================================================================
