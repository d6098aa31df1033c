--------------------------- MODULE SessionProofs ----------------------------
(***************************************************************************)
(* Proofs about Session, for every set of command lines, of frames and of  *)
(* streams, and without a bound on what the peer sends: the types; that    *)
(* every SETTINGS and PING is answered at once; the order of what the      *)
(* client sends (prologue, handshake, the command's own frames, the        *)
(* GOAWAY); that Session implements Conversation, step by step: whatever   *)
(* the command, what goes over the connection is the one conversation; and *)
(* how a command ends: a receive loop ends well exactly when the command   *)
(* has received what it waits for, the command reads nothing after that,   *)
(* and the files it saves hold what it was asked to save.                  *)
(***************************************************************************)
EXTENDS SessionProperties, HeaderBlockProofs, FiniteSetTheorems

(***************************************************************************)
(* Types                                                                   *)
(***************************************************************************)
\* Capturing keeps the capture manager well formed: output_capture.go.
LEMMA CaptureType ==
    ASSUME NEW c \in CaptureState, NEW f \in Frame, NEW e \in Event
    PROVE  CaptureReceived(c, f, e) \in CaptureState
  <1>1. \A d \in CaptureState, s \in StreamIds : SelectStream(d, s) \in CaptureState
    BY DEF SelectStream, CaptureState
  <1>2. \A s \in StreamIds, fields \in Seq(Item), end \in BOOLEAN :
           RecordHeaders(c, s, fields, end) \in CaptureState
    <2> TAKE s \in StreamIds, fields \in Seq(Item), end \in BOOLEAN
    <2>1. c.headers[s] \o fields \in Seq(Item)
      BY DEF CaptureState
    <2>2. [c EXCEPT !.known = @ \cup {s}, !.headers[s] = @ \o fields] \in CaptureState
      BY <2>1 DEF CaptureState
    <2> QED
      BY <2>2, <1>1 DEF RecordHeaders
  <1>3. \A s \in StreamIds, data \in Seq(Item), end \in BOOLEAN :
           RecordData(c, s, data, end) \in CaptureState
    <2> TAKE s \in StreamIds, data \in Seq(Item), end \in BOOLEAN
    <2>1. c.body[s] \o data \in Seq(Item)
      BY DEF CaptureState
    <2>2. [c EXCEPT !.known = @ \cup {s}, !.body[s] = @ \o data] \in CaptureState
      BY <2>1 DEF CaptureState
    <2> QED
      BY <2>2, <1>1 DEF RecordData
  <1>4. /\ f.stream \in StreamIds /\ f.payload \in Seq(Item)
        /\ ("END_STREAM" \in f.flags) \in BOOLEAN
        /\ e.stream \in StreamIds /\ e.headers \in Seq(Item) /\ e.endStream \in BOOLEAN
    BY DEF Frame, Event
  <1> QED
    BY <1>2, <1>3, <1>4 DEF CaptureReceived

\* The command line's own fields, where an action uses them.
LEMMA ConfigType ==
    ASSUME TypeOK
    PROVE  /\ cfg.mode \in Modes /\ cfg.streamID \in StreamIds
           /\ cfg.fields \in Seq(Item) /\ cfg.body \in Seq(Item) /\ cfg.pingData \in Seq(Item)
           /\ cfg.maxRecv \in Nat /\ AfterHandshake \in {"prepare", "ping", "receive"}
  <1>1. cfg \in Config
    BY ConfigsAssumption DEF TypeOK
  <1> QED
    BY <1>1 DEF Config, Modes, AfterHandshake

\* What the manager gathers makes files.
LEMMA FilesTyped ==
    ASSUME TypeOK, NEW s \in StreamIds
    PROVE  /\ File("body", cap.body[s]) \in
                  [file : {"body", "headers"}, content : Seq(Item), whole : BOOLEAN]
           /\ File("headers", cap.headers[s]) \in
                  [file : {"body", "headers"}, content : Seq(Item), whole : BOOLEAN]
  <1>1. cap.body[s] \in Seq(Item) /\ cap.headers[s] \in Seq(Item)
    BY DEF TypeOK, CaptureState
  <1> QED
    BY <1>1 DEF File

\* A write that fails leaves nothing, or one file that is damaged and begins as
\* the whole would.
LEMMA RemainsIs ==
    ASSUME NEW file \in [file : {"body", "headers"}, content : Seq(Item), whole : BOOLEAN],
           NEW remains \in Remains(file)
    PROVE  /\ remains \subseteq [file : {"body", "headers"}, content : Seq(Item), whole : BOOLEAN]
           /\ \A left \in remains :
                 /\ left.file = file.file /\ ~left.whole
                 /\ left.content \in Seq(Item) /\ Len(left.content) <= Len(file.content)
                 /\ \A i \in 1..Len(left.content) : left.content[i] = file.content[i]
           /\ \A left, other \in remains : left = other
  <1>1. CASE remains = {}
    BY <1>1
  <1>2. CASE remains # {}
    <2>1. PICK n \in 0..Len(file.content) :
             remains = {[file EXCEPT !.content = SubSeq(@, 1, n), !.whole = FALSE]}
      BY <1>2 DEF Remains
    <2>2. PICK c \in Seq(Item) : c = file.content
      OBVIOUS
    <2>3. PICK d : d = SubSeq(c, 1, n)
      OBVIOUS
    <2>4. d \in Seq(Item) /\ Len(d) = n /\ \A i \in 1..n : d[i] = c[i]
      BY <2>2, <2>3
    <2>5. PICK left : left = [file EXCEPT !.content = d, !.whole = FALSE]
      OBVIOUS
    <2>6. remains = {left}
      BY <2>1, <2>2, <2>3, <2>5
    <2>7. /\ left \in [file : {"body", "headers"}, content : Seq(Item), whole : BOOLEAN]
          /\ left.file = file.file /\ left.content = d /\ left.whole = FALSE
      BY <2>4, <2>5
    <2> QED
      BY <2>2, <2>4, <2>6, <2>7
  <1> QED
    BY <1>1, <1>2

\* Sending a frame keeps the types of the three variables it changes.
LEMMA SendType ==
    ASSUME TypeOK, NEW f \in Frame, NEW next \in PCs, SendFrameAndReport(f, next)
    PROVE  pc' \in PCs /\ result' \in {"running", "ok", "error"} /\ log' \in Seq(LogEntry)
  <1>1. Append(log, Sent(f)) \in Seq(LogEntry)
    BY DEF TypeOK, Sent, LogEntry
  <1> QED
    BY <1>1 DEF TypeOK, SendFrameAndReport, Continue, Exit, PCs

\* So does receiving one.
LEMMA ReceiveType ==
    ASSUME TypeOK, ReceiveFrame
    PROVE  /\ cfg' \in Configs /\ held' \in Frame /\ tracker' \in Tracker
           /\ cap' \in CaptureState
           /\ saved' \subseteq [file : {"body", "headers"}, content : Seq(Item), whole : BOOLEAN]
           /\ inbox' \in Seq(Frame) /\ peer' \in [open : BOOLEAN, sent : Nat]
           /\ expired' \in BOOLEAN /\ log' \in Seq(LogEntry)
           /\ Incoming \in Frame /\ IncomingEvent \in Event
  <1>1. Incoming \in Frame /\ Tail(inbox) \in Seq(Frame)
    BY DEF TypeOK, ReceiveFrame, Incoming
  <1>2. IncomingEvent \in Event /\ Consume(tracker, Incoming).tracker \in Tracker
    BY <1>1, ConsumeType DEF TypeOK, IncomingEvent
  <1>3. CaptureReceived(cap, Incoming, IncomingEvent) \in CaptureState
    BY <1>1, <1>2, CaptureType DEF TypeOK
  <1>4. Append(log, Received(Incoming)) \in Seq(LogEntry)
    BY <1>1 DEF TypeOK, Received, LogEntry
  <1> QED
    BY <1>1, <1>2, <1>3, <1>4 DEF TypeOK, ReceiveFrame

\* The empty tracker, capture manager and history that Init installs.
LEMMA InitType == Init => TypeOK
  <1> SUFFICES ASSUME Init PROVE TypeOK
    OBVIOUS
  <1>1. cfg \in Config /\ cfg \in Configs
    BY ConfigsAssumption DEF Init
  <1>2. CaptureKind(cfg) \in CaptureKinds /\ CaptureTarget(cfg) \in StreamIds
    <2>1. cfg.streamFilter \subseteq StreamIds /\ cfg.streamID \in StreamIds
      BY <1>1 DEF Config
    <2> QED
      BY <2>1 DEF CaptureKind, CaptureKinds, CaptureTarget
  <1>3. cap \in CaptureState
    BY <1>2, StreamIdsAssumption DEF Init, NewCapture, CaptureState
  <1>4. tracker \in Tracker
    BY StreamIdsAssumption DEF Init, Idle, Tracker
  <1>5. held \in Frame
    BY ConstructorTypes DEF Init
  <1>6. inbox \in Seq(Frame) /\ log \in Seq(LogEntry)
    BY DEF Init
  <1>7. peer \in [open : BOOLEAN, sent : Nat]
    BY DEF Init
  <1> QED
    BY <1>1, <1>3, <1>4, <1>5, <1>6, <1>7 DEF Init, TypeOK, PCs

\* Every action of the client and of its environment keeps the types.
LEMMA NextType == TypeOK /\ [Next]_vars => TypeOK'
  <1> SUFFICES ASSUME TypeOK, [Next]_vars PROVE TypeOK'
    OBVIOUS
  <1> USE DEF PCs
  <1>1. CASE Dial
    BY <1>1 DEF TypeOK, Dial, Continue, Exit
  <1>2. CASE SendPreface
    BY <1>2, SendType, ConstructorTypes DEF TypeOK, SendPreface
  <1>3. CASE SendSettings
    <2>1. SettingsFrame({}) \in Frame
      BY ConstructorTypes
    <2> QED
      BY <1>3, <2>1, SendType DEF TypeOK, SendSettings
  <1>4. CASE HandshakeReceive
    <2>1. HandshakeNext(Incoming) \in PCs
      BY ConfigType DEF HandshakeNext
    <2> QED
      BY <1>4, <2>1, ReceiveType DEF TypeOK, HandshakeReceive, Continue, Exit
  <1>5. Answer(held) \in Frame
    <2>1. {"ACK"} \in SUBSET Flags /\ held.payload \in Seq(Item)
      BY DEF Flags, TypeOK, Frame
    <2> QED
      BY <2>1, ConstructorTypes DEF Answer
  <1>6. CASE HandshakeAnswer
    <2> DEFINE next == IF held.type = "SETTINGS" THEN AfterHandshake ELSE "handshake"
    <2>1. next \in PCs
      BY ConfigType
    <2>2. SendFrameAndReport(Answer(held), next)
      BY <1>6 DEF HandshakeAnswer
    <2> HIDE DEF next
    <2> QED
      BY <1>5, <1>6, <2>1, <2>2, SendType DEF TypeOK, HandshakeAnswer
  <1>7. CASE ReceiveAnswer
    BY <1>5, <1>7, SendType DEF TypeOK, ReceiveAnswer
  <1>8. CASE ReceiveFails
    BY <1>8 DEF TypeOK, ReceiveFails, Exit
  <1>9. CASE PrepareRequest
    BY <1>9 DEF TypeOK, PrepareRequest, Continue, Exit
  <1>10. CASE SendHeaders
    <2>1. /\ HeadersFrame(cfg.streamID, {"END_HEADERS", "END_STREAM"}, cfg.fields) \in Frame
          /\ HeadersFrame(cfg.streamID, {"END_HEADERS"}, cfg.fields) \in Frame
      BY ConfigType, ConstructorTypes DEF Flags
    <2> QED
      BY <1>10, <2>1, SendType DEF TypeOK, SendHeaders
  <1>11. CASE SendData
    <2>1. DataFrame(cfg.streamID, {"END_STREAM"}, cfg.body) \in Frame
      BY ConfigType, ConstructorTypes DEF Flags
    <2> QED
      BY <1>11, <2>1, SendType DEF TypeOK, SendData
  <1>12. CASE ReceiveResponse
    <2>1. ResponseNext(Incoming, IncomingEvent) \in PCs
      BY DEF ResponseNext
    <2> QED
      BY <1>12, <2>1, ReceiveType DEF TypeOK, ReceiveResponse, Continue, Exit
  <1>13. CASE SendPing
    <2>1. PingFrame({}, cfg.pingData) \in Frame
      BY ConfigType, ConstructorTypes
    <2> QED
      BY <1>13, <2>1, SendType DEF TypeOK, SendPing, Exit
  <1>14. CASE ReceivePing
    <2>1. PingNext(Incoming) \in PCs
      BY DEF PingNext
    <2> QED
      BY <1>14, <2>1, ReceiveType DEF TypeOK, ReceivePing, Continue, Exit
  <1>15. CASE ReceiveObserve
    <2>1. ObserveNext(Incoming) \in PCs
      BY DEF ObserveNext
    <2>2. received' \in Nat
      BY <1>15 DEF TypeOK, ReceiveObserve, Counted
    <2>3. pc' \in PCs /\ result' \in {"running", "ok", "error"} /\ sawGoAway' \in BOOLEAN
      BY <1>15, <2>1 DEF TypeOK, ReceiveObserve, Continue, Exit
    <2> QED
      BY <1>15, <2>2, <2>3, ReceiveType DEF TypeOK, ReceiveObserve
  <1>16. CASE ObserveLimit
    BY <1>16 DEF TypeOK, ObserveLimit, Continue
  <1>17. CASE SendGoAway
    <2>1. Append(log, Sent(GoAwayFrame)) \in Seq(LogEntry)
      BY ConstructorTypes DEF TypeOK, Sent, LogEntry
    <2> QED
      BY <1>17, <2>1 DEF TypeOK, SendGoAway, Continue
  <1>18. CASE Flush
    <2>1. PICK F : F = [file : {"body", "headers"}, content : Seq(Item), whole : BOOLEAN]
      OBVIOUS
    <2>2. BodyFiles \subseteq F /\ HeadersFiles \subseteq F
      <3>1. Selected(cap) \subseteq StreamIds
        BY DEF TypeOK, CaptureState, Selected
      <3>2. \A s \in StreamIds : File("body", cap.body[s]) \in F /\ File("headers", cap.headers[s]) \in F
        BY <2>1, FilesTyped
      <3> QED
        BY <3>1, <3>2 DEF BodyFiles, HeadersFiles
    <2>3. \A file \in F : \A remains \in Remains(file) : remains \subseteq F
      BY <2>1, RemainsIs
    <2>4. saved' \subseteq F
      BY <1>18, <2>2, <2>3 DEF Flush
    <2> QED
      BY <1>18, <2>1, <2>4 DEF TypeOK, Flush, Exit
  <1>19. ASSUME NEW f \in PeerFrames[cfg.mode], PeerSend(f) PROVE TypeOK'
    <2>1. cfg.mode \in Modes
      BY ConfigsAssumption DEF TypeOK, Config
    <2>2. f \in Frame
      BY <2>1, PeerFramesAssumption
    <2>3. /\ inbox' \in Seq(Frame) /\ peer' \in [open : BOOLEAN, sent : Nat]
          /\ UNCHANGED <<client, expired, log>>
      BY <1>19, <2>2 DEF TypeOK, PeerSend
    <2> QED
      BY <2>3 DEF TypeOK, client
  <1>20. CASE PeerClose
    <2>1. \A n \in 0..Len(inbox) : SubSeq(inbox, 1, n) \in Seq(Frame)
      BY DEF TypeOK
    <2> QED
      BY <1>20, <2>1 DEF TypeOK, PeerClose, client
  <1>21. CASE Expire
    BY <1>21 DEF TypeOK, Expire, client
  <1>22. CASE UNCHANGED vars
    BY <1>22 DEF TypeOK, vars, client
  <1> QED
    BY <1>1, <1>2, <1>3, <1>4, <1>6, <1>7, <1>8, <1>9, <1>10, <1>11, <1>12, <1>13,
       <1>14, <1>15, <1>16, <1>17, <1>18, <1>19, <1>20, <1>21, <1>22
       DEF Next, ClientStep, Environment, Terminated

\* The variables of a run keep the types the code declares for them, whatever
\* the command line and the peer's frames.
THEOREM TypeCorrect == Spec => []TypeOK
  <1>1. Init => TypeOK
    BY InitType
  <1>2. TypeOK /\ [Next]_vars => TypeOK'
    BY NextType
  <1> QED
    BY <1>1, <1>2, PTL DEF Spec

(***************************************************************************)
(* Answers.                                                                *)
(***************************************************************************)
Answering == {"handshake_answer", "receive_answer"}

\* AnswersFollow says what the history holds; to be inductive it needs what
\* the program counter knows of the history's end.
AnswerInv ==
    /\ AnswersFollow
    /\ pc \in Answering => /\ log # <<>> /\ log[Len(log)] = Received(held)
                           /\ NeedsAnswer(held)
    /\ result = "error" => pc = "exited"

\* A history may grow by an entry that answers the last one if that one asks,
\* that acknowledges nothing else, and that, if it asks, is about to be answered.
LEMMA AnswersExtend ==
    ASSUME TypeOK, AnswersFollow, NEW e \in LogEntry, log' = Append(log, e),
           log # <<>> /\ Asks(log[Len(log)]) => Answers(e, log[Len(log)]),
           IsAck(e) => log # <<>> /\ Asks(log[Len(log)]) /\ Answers(e, log[Len(log)]),
           Asks(e) => pc' \in Answering \/ result' = "error"
    PROVE  AnswersFollow'
  <1> DEFINE n == Len(log)
  <1>1. /\ n \in Nat /\ DOMAIN log = 1..n
        /\ Len(log') = n + 1 /\ DOMAIN log' = 1..(n + 1)
        /\ log'[n + 1] = e
        /\ \A i \in 1..n : log'[i] = log[i]
        /\ log # <<>> <=> n # 0
    BY DEF TypeOK
  <1> HIDE DEF n
  <1> SUFFICES ASSUME NEW i \in 1..(n + 1)
               PROVE  /\ Asks(log'[i]) =>
                           IF i = n + 1
                           THEN pc' \in {"handshake_answer", "receive_answer"} \/ result' = "error"
                           ELSE Answers(log'[i + 1], log'[i])
                      /\ IsAck(log'[i]) => /\ i > 1 /\ Asks(log'[i - 1])
                                           /\ Answers(log'[i], log'[i - 1])
    BY <1>1 DEF AnswersFollow, Asks, IsAck, Answers
  <1>2. CASE i = n + 1
    <2>1. log'[i] = e /\ (n # 0 => i > 1 /\ log'[i - 1] = log[n])
      BY <1>1, <1>2
    <2>2. Asks(e) => pc' \in {"handshake_answer", "receive_answer"} \/ result' = "error"
      BY DEF Answering
    <2>3. IsAck(e) => n # 0 /\ Asks(log[n]) /\ Answers(e, log[n])
      BY <1>1 DEF n
    <2> QED
      BY <1>2, <2>1, <2>2, <2>3
  <1>3. CASE i \in 1..n
    <2>1. /\ log'[i] = log[i] /\ i # n + 1
          /\ i > 1 => i - 1 \in 1..n /\ log'[i - 1] = log[i - 1]
          /\ i < n => i + 1 \in 1..n /\ log'[i + 1] = log[i + 1]
          /\ i = n => log'[i + 1] = e
          /\ i = n \/ i < n
      BY <1>1, <1>3
    <2>2. /\ Asks(log[i]) => (i # n => Answers(log[i + 1], log[i]))
          /\ IsAck(log[i]) => i > 1 /\ Asks(log[i - 1]) /\ Answers(log[i], log[i - 1])
      BY <1>1, <1>3 DEF AnswersFollow
    <2>3. n # 0 /\ Asks(log[n]) => Answers(e, log[n])
      BY <1>1 DEF n
    <2>4. Asks(log'[i]) => Answers(log'[i + 1], log'[i])
      BY <1>1, <1>3, <2>1, <2>2, <2>3
    <2>5. IsAck(log'[i]) => i > 1 /\ Asks(log'[i - 1]) /\ Answers(log'[i], log'[i - 1])
      BY <2>1, <2>2
    <2> QED
      BY <2>1, <2>4, <2>5
  <1> QED
    BY <1>1, <1>2, <1>3

\* A step that sends or receives nothing leaves no question open unless it
\* ends the command with an error.
LEMMA AnswersKept ==
    ASSUME AnswerInv, log' = log,
           \/ pc \notin Answering /\ pc # "exited"
           \/ result' = "error"
           \/ pc' = pc /\ result' = result
    PROVE  AnswersFollow'
  BY DEF AnswerInv, AnswersFollow, Answering, Asks, Answers, IsAck

\* A frame the client sends on its own account is no acknowledgement.
LEMMA SendKeepsAnswers ==
    ASSUME TypeOK, AnswerInv, NEW f \in Frame, NEW next \in PCs \ Answering,
           SendFrameAndReport(f, next), pc \notin Answering, pc # "exited",
           "ACK" \notin f.flags
    PROVE  AnswerInv'
  <1>1. Sent(f) \in LogEntry /\ ~IsAck(Sent(f)) /\ ~Asks(Sent(f))
    BY DEF Sent, LogEntry, IsAck, Asks
  <1>2. log # <<>> => ~Asks(log[Len(log)])
    BY DEF AnswerInv, AnswersFollow, TypeOK, Answering
  <1>3. log' = Append(log, Sent(f)) => AnswersFollow'
    BY <1>1, <1>2, AnswersExtend DEF AnswerInv
  <1>4. log' = log => AnswersFollow'
    BY AnswersKept
  <1>5. AnswersFollow'
    BY <1>3, <1>4 DEF SendFrameAndReport
  <1> QED
    BY <1>5 DEF AnswerInv, SendFrameAndReport, Continue, Exit, Answering

\* The answer closes the question.
LEMMA AnswerKeepsAnswers ==
    ASSUME TypeOK, AnswerInv, NEW next \in PCs \ Answering,
           SendFrameAndReport(Answer(held), next), pc \in Answering
    PROVE  AnswerInv'
  <1> DEFINE a == Sent(Answer(held))
  <1>1. held \in Frame /\ log # <<>> /\ log[Len(log)] = Received(held) /\ NeedsAnswer(held)
    BY DEF AnswerInv, TypeOK
  <1>2. a \in LogEntry
    <2>1. {"ACK"} \in SUBSET Flags /\ held.payload \in Seq(Item)
      BY <1>1 DEF Flags, Frame
    <2>2. Answer(held) \in Frame
      BY <2>1, ConstructorTypes DEF Answer
    <2> QED
      BY <2>2 DEF Sent, LogEntry
  <1>3. Asks(log[Len(log)]) /\ Answers(a, log[Len(log)]) /\ ~Asks(a)
    BY <1>1 DEF NeedsAnswer, Asks, Answers, IsAck, Sent, Received, Answer,
                SettingsFrame, PingFrame
  <1>4. log' = Append(log, a) => AnswersFollow'
    BY <1>1, <1>2, <1>3, AnswersExtend DEF AnswerInv
  <1>5. log' = log => AnswersFollow'
    BY AnswersKept DEF SendFrameAndReport, Exit, Continue
  <1>6. AnswersFollow'
    BY <1>4, <1>5 DEF SendFrameAndReport
  <1> QED
    BY <1>6 DEF AnswerInv, SendFrameAndReport, Continue, Exit, Answering

\* A frame received opens a question if it needs an answer, and then the
\* loop is about to give it.
LEMMA ReceiveKeepsAnswers ==
    ASSUME TypeOK, AnswerInv, ReceiveFrame, pc \in {"handshake", "receive"},
           \/ /\ pc' \in Answering <=> NeedsAnswer(Incoming)
              /\ result' = result
           \/ Exit("error")
    PROVE  AnswerInv'
  <1> DEFINE e == Received(Incoming)
  <1>1. /\ e \in LogEntry /\ Incoming \in Frame
        /\ log' = Append(log, e) /\ held' = Incoming
        /\ log' # <<>> /\ log'[Len(log')] = e
    <2>1. Incoming \in Frame /\ log' = Append(log, e) /\ held' = Incoming
      BY ReceiveType DEF ReceiveFrame
    <2>2. e \in LogEntry
      BY <2>1 DEF Received, LogEntry
    <2> QED
      BY <2>1, <2>2 DEF TypeOK
  <1>2. Asks(e) <=> NeedsAnswer(Incoming)
    BY DEF Received, Asks, NeedsAnswer
  <1>3. ~IsAck(e)
    BY DEF Received, IsAck
  <1>4. log # <<>> => ~Asks(log[Len(log)])
    BY DEF AnswerInv, AnswersFollow, TypeOK, Answering
  <1>5. Asks(e) => pc' \in Answering \/ result' = "error"
    BY <1>2 DEF Exit
  <1> HIDE DEF e
  <1>6. AnswersFollow'
    BY <1>1, <1>3, <1>4, <1>5, AnswersExtend DEF AnswerInv
  <1>7. pc' \in Answering => NeedsAnswer(Incoming)
    BY DEF Exit, Answering
  <1>8. result' = "error" => pc' = "exited"
    BY DEF AnswerInv, Exit
  <1>9. pc' \in Answering => /\ log' # <<>> /\ log'[Len(log')] = Received(held')
                             /\ NeedsAnswer(held')
    BY <1>1, <1>7 DEF e
  <1> QED
    BY <1>6, <1>8, <1>9 DEF AnswerInv

\* Steps that neither send nor receive.
LEMMA QuietKeepsAnswers ==
    ASSUME TypeOK, AnswerInv, log' = log, held' = held,
           \/ pc \notin Answering /\ pc # "exited" /\ pc' \notin Answering
              /\ (result' = "error" => pc' = "exited" \/ result = "error")
           \/ pc' = pc /\ result' = result
    PROVE  AnswerInv'
  <1>1. AnswersFollow'
    BY AnswersKept
  <1> QED
    BY <1>1 DEF AnswerInv, Answering

\* Initially nothing was asked, and every step of the client or of its
\* environment preserves the invariant.
LEMMA AnswerInit == Init => AnswerInv
  BY DEF Init, AnswerInv, AnswersFollow, Answering

LEMMA AnswerStep == TypeOK /\ AnswerInv /\ [Next]_vars => AnswerInv'
  <1> SUFFICES ASSUME TypeOK, AnswerInv, [Next]_vars PROVE AnswerInv'
    OBVIOUS
  <1>1. CASE Dial
    BY <1>1, QuietKeepsAnswers DEF Dial, Continue, Exit, Answering
  <1>2. CASE SendPreface
    <2>1. "ACK" \notin ConnectionPreface.flags /\ "settings" \in PCs \ Answering
      BY DEF ConnectionPreface, PCs, Answering
    <2> QED
      BY <1>2, <2>1, SendKeepsAnswers, ConstructorTypes DEF SendPreface, Answering
  <1>3. CASE SendSettings
    <2>1. /\ SettingsFrame({}) \in Frame /\ "ACK" \notin SettingsFrame({}).flags
          /\ "handshake" \in PCs \ Answering
      BY ConstructorTypes DEF SettingsFrame, PCs, Answering
    <2> QED
      BY <1>3, <2>1, SendKeepsAnswers DEF SendSettings, Answering
  <1>4. CASE HandshakeReceive
    <2>1. HandshakeNext(Incoming) \in Answering <=> NeedsAnswer(Incoming)
      BY ConfigType DEF HandshakeNext, NeedsAnswer, Answering
    <2> QED
      BY <1>4, <2>1, ReceiveKeepsAnswers DEF HandshakeReceive, Continue
  <1>5. CASE HandshakeAnswer
    <2> DEFINE next == IF held.type = "SETTINGS" THEN AfterHandshake ELSE "handshake"
    <2>1. next \in PCs \ Answering
      BY ConfigType DEF PCs, Answering
    <2>2. SendFrameAndReport(Answer(held), next) /\ pc \in Answering
      BY <1>5 DEF HandshakeAnswer, Answering
    <2> HIDE DEF next
    <2> QED
      BY <2>1, <2>2, AnswerKeepsAnswers
  <1>6. CASE ReceiveAnswer
    <2>1. "receive" \in PCs \ Answering /\ pc \in Answering
      BY <1>6 DEF ReceiveAnswer, PCs, Answering
    <2> QED
      BY <1>6, <2>1, AnswerKeepsAnswers DEF ReceiveAnswer
  <1>7. CASE ReceiveFails
    BY <1>7, QuietKeepsAnswers DEF ReceiveFails, Exit, Answering
  <1>8. CASE PrepareRequest
    BY <1>8, QuietKeepsAnswers DEF PrepareRequest, Continue, Exit, Answering
  <1>9. CASE SendHeaders
    <2> DEFINE f(flags) == HeadersFrame(cfg.streamID, flags, cfg.fields)
    <2>1. /\ f({"END_HEADERS", "END_STREAM"}) \in Frame /\ f({"END_HEADERS"}) \in Frame
          /\ "ACK" \notin f({"END_HEADERS", "END_STREAM"}).flags
          /\ "ACK" \notin f({"END_HEADERS"}).flags
          /\ "receive" \in PCs \ Answering /\ "data" \in PCs \ Answering
      BY ConfigType, ConstructorTypes DEF Flags, HeadersFrame, PCs, Answering
    <2>2. \/ SendFrameAndReport(f({"END_HEADERS", "END_STREAM"}), "receive")
          \/ SendFrameAndReport(f({"END_HEADERS"}), "data")
      BY <1>9 DEF SendHeaders
    <2>3. pc \notin Answering /\ pc # "exited"
      BY <1>9 DEF SendHeaders, Answering
    <2> HIDE DEF f
    <2> QED
      BY <2>1, <2>2, <2>3, SendKeepsAnswers
  <1>10. CASE SendData
    <2>1. /\ DataFrame(cfg.streamID, {"END_STREAM"}, cfg.body) \in Frame
          /\ "ACK" \notin DataFrame(cfg.streamID, {"END_STREAM"}, cfg.body).flags
          /\ "receive" \in PCs \ Answering
      BY ConfigType, ConstructorTypes DEF Flags, DataFrame, PCs, Answering
    <2> QED
      BY <1>10, <2>1, SendKeepsAnswers DEF SendData, Answering
  <1>11. CASE ReceiveResponse
    <2>1. ResponseNext(Incoming, IncomingEvent) \in Answering <=> NeedsAnswer(Incoming)
      <3>1. NeedsAnswer(Incoming) => ~EndsResponse(Incoming, IncomingEvent)
        BY DEF NeedsAnswer, EndsResponse, IncomingEvent, Consume, Keep, NoBlock
      <3> QED
        BY <3>1 DEF ResponseNext, NeedsAnswer, Answering
    <2> QED
      BY <1>11, <2>1, ReceiveKeepsAnswers DEF ReceiveResponse, Continue
  <1>12. CASE SendPing
    <2>1. /\ PingFrame({}, cfg.pingData) \in Frame
          /\ "ACK" \notin PingFrame({}, cfg.pingData).flags
          /\ "receive" \in PCs \ Answering
      BY ConfigType, ConstructorTypes DEF PingFrame, PCs, Answering
    <2>2. CASE Len(cfg.pingData) = PingSize
      BY <1>12, <2>1, <2>2, SendKeepsAnswers DEF SendPing, Answering
    <2>3. CASE Len(cfg.pingData) # PingSize
      BY <1>12, <2>3, QuietKeepsAnswers DEF SendPing, Exit, Answering
    <2> QED
      BY <2>2, <2>3
  <1>13. CASE ReceivePing
    <2>1. PingNext(Incoming) \in Answering <=> NeedsAnswer(Incoming)
      BY DEF PingNext, NeedsAnswer, EndsPing, Answering
    <2> QED
      BY <1>13, <2>1, ReceiveKeepsAnswers DEF ReceivePing, Continue
  <1>14. CASE ReceiveObserve
    <2>1. ObserveNext(Incoming) \in Answering <=> NeedsAnswer(Incoming)
      BY DEF ObserveNext, NeedsAnswer, Answering
    <2> QED
      BY <1>14, <2>1, ReceiveKeepsAnswers DEF ReceiveObserve, Continue
  <1>15. CASE ObserveLimit
    BY <1>15, QuietKeepsAnswers DEF ObserveLimit, Continue, Answering
  <1>16. CASE SendGoAway
    <2>1. /\ GoAwayFrame \in Frame /\ "ACK" \notin GoAwayFrame.flags
          /\ "flush" \in PCs \ Answering /\ pc \notin Answering /\ pc # "exited"
      BY <1>16, ConstructorTypes DEF GoAwayFrame, PCs, Answering, SendGoAway
    <2>2. CASE log' = Append(log, Sent(GoAwayFrame))
      <3>1. SendFrameAndReport(GoAwayFrame, "flush")
        BY <1>16, <2>2 DEF SendGoAway, SendFrameAndReport
      <3> QED
        BY <2>1, <3>1, SendKeepsAnswers
    <2>3. CASE log' = log
      BY <1>16, <2>1, <2>3, QuietKeepsAnswers DEF SendGoAway, Continue, Answering
    <2> QED
      BY <1>16, <2>2, <2>3 DEF SendGoAway
  <1>17. CASE Flush
    BY <1>17, QuietKeepsAnswers DEF Flush, Exit, Answering
  <1>18. CASE Environment \/ UNCHANGED vars
    BY <1>18, QuietKeepsAnswers DEF Environment, PeerSend, PeerClose, Expire, vars, client
  <1> QED
    BY <1>1, <1>2, <1>3, <1>4, <1>5, <1>6, <1>7, <1>8, <1>9, <1>10, <1>11, <1>12, <1>13,
       <1>14, <1>15, <1>16, <1>17, <1>18 DEF Next, ClientStep, Terminated

\* Whatever the peer sends and whenever it closes, every SETTINGS and PING is
\* answered next and in kind, and nothing else is acknowledged: the receive
\* loops of cmd/mh2c/session.go, all three, and startSession.
THEOREM AnswersCorrect == Spec => []AnswersFollow
  <1>1. Init => AnswerInv
    BY AnswerInit
  <1>2. TypeOK /\ AnswerInv /\ [Next]_vars => AnswerInv'
    BY AnswerStep
  <1>3. AnswerInv => AnswersFollow
    BY DEF AnswerInv
  <1> QED
    BY <1>1, <1>2, <1>3, TypeCorrect, PTL DEF Spec

(***************************************************************************)
(* The order of what the client sends                                      *)
(***************************************************************************)
\* The program counters past the handshake.
Established == {"prepare", "headers", "data", "ping", "receive", "receive_answer",
                "finish", "flush"}

\* A frame that ends the handshake if it is the first.
Ends(entry) ==
    /\ entry.dir = "received"
    /\ \/ entry.frame.type = "GOAWAY"
       \/ entry.frame.type = "SETTINGS" /\ "ACK" \notin entry.frame.flags

\* log[j] ended the handshake and was acknowledged.
Opens(j) ==
    /\ EndsHandshake(j)
    /\ Type(j) = "SETTINGS" => j + 1 <= Len(log) /\ Answers(log[j + 1], log[j])

\* What the program counter knows of the history, phase by phase; the
\* property itself only speaks of entries already there.
OrderInv ==
    /\ pc \in {"dial", "preface"} => Len(log) = 0
    /\ pc = "settings" => Len(log) = 1
    /\ pc \notin {"dial", "preface", "settings", "exited"} => Len(log) >= 2
    /\ pc \in {"settings", "handshake"} => \A j \in 1..Len(log) : ~Ends(log[j])
    /\ pc = "handshake_answer" => \A j \in 1..(Len(log) - 1) : ~Ends(log[j])
    /\ pc \in Established => \E j \in 3..Len(log) : Opens(j)
    /\ WorkFollowsHandshake

\* A history grows at its end.
LEMMA Grows ==
    ASSUME TypeOK, NEW e \in LogEntry, log' = Append(log, e)
    PROVE  /\ Len(log) \in Nat /\ DOMAIN log = 1..Len(log)
           /\ Len(log') = Len(log) + 1 /\ DOMAIN log' = 1..(Len(log) + 1)
           /\ log'[Len(log) + 1] = e
           /\ \A i \in 1..Len(log) : log'[i] = log[i]
  BY DEF TypeOK

\* What ended the handshake stays what ended it.
LEMMA GrowsEnds ==
    ASSUME TypeOK, NEW e \in LogEntry, log' = Append(log, e)
    PROVE  /\ \A j \in 1..Len(log) : EndsHandshake(j)' <=> EndsHandshake(j)
           /\ \A j \in 1..Len(log) : Opens(j) => Opens(j)'
  <1>1. \A j \in 1..Len(log) : EndsHandshake(j)' <=> EndsHandshake(j)
    <2> SUFFICES ASSUME NEW j \in 1..Len(log) PROVE EndsHandshake(j)' <=> EndsHandshake(j)
      OBVIOUS
    <2>1. log'[j] = log[j] /\ \A k \in 1..(j - 1) : log'[k] = log[k]
      BY Grows
    <2> QED
      BY <2>1 DEF EndsHandshake, IsReceived, Type, Has
  <1>2. \A j \in 1..Len(log) : Opens(j) => Opens(j)'
    <2> SUFFICES ASSUME NEW j \in 1..Len(log), Opens(j) PROVE Opens(j)'
      OBVIOUS
    <2>1. log'[j] = log[j] /\ Len(log') = Len(log) + 1
      BY Grows
    <2>2. CASE Type(j) = "SETTINGS"
      <3>1. j + 1 \in 1..Len(log) /\ Answers(log[j + 1], log[j]) /\ EndsHandshake(j)
        BY <2>2, Grows DEF Opens
      <3>2. log'[j + 1] = log[j + 1]
        BY <3>1, Grows
      <3>3. Answers(log'[j + 1], log'[j])
        BY <3>1, <3>2, <2>1
      <3>4. j + 1 <= Len(log')
        BY <3>1, <2>1, Grows
      <3> QED
        BY <1>1, <3>1, <3>3, <3>4 DEF Opens, Answers, IsAck
    <2>3. CASE Type(j) # "SETTINGS"
      <3>1. EndsHandshake(j)' /\ Type(j)' # "SETTINGS"
        BY <1>1, <2>1, <2>3 DEF Opens, Type
      <3> QED
        BY <3>1 DEF Opens
    <2> QED
      BY <2>2, <2>3
  <1> QED
    BY <1>1, <1>2

\* A new entry that is neither the preface, nor the second, nor the command's
\* own before the handshake is over, is in order.
LEMMA WorkExtends ==
    ASSUME TypeOK, WorkFollowsHandshake, NEW e \in LogEntry, log' = Append(log, e),
           e = Sent(ConnectionPreface) <=> Len(log) = 0,
           Len(log) = 1 => e = Sent(SettingsFrame({})),
           /\ e.dir = "sent"
           /\ \/ e.frame.type \in {"HEADERS", "DATA", "GOAWAY"}
              \/ e.frame.type = "PING" /\ "ACK" \notin e.frame.flags
           => \E j \in 3..Len(log) : Opens(j)
    PROVE  WorkFollowsHandshake'
  <1>0. PICK n \in Nat : n = Len(log)
    BY Grows
  <1> DEFINE Body(i) == /\ log'[i] = Sent(ConnectionPreface) <=> i = 1
                        /\ i = 2 => log'[i] = Sent(SettingsFrame({}))
                        /\ IsWork(i)' =>
                             \E j \in 3..(i - 1) :
                                /\ EndsHandshake(j)'
                                /\ Type(j)' = "SETTINGS" =>
                                      j + 1 < i /\ Answers(log'[j + 1], log'[j])
  <1>1. /\ n \in Nat /\ DOMAIN log' = 1..(n + 1) /\ log'[n + 1] = e
        /\ \A i \in 1..n : log'[i] = log[i]
        /\ DOMAIN log = 1..n
    BY <1>0, Grows
  <1>2. ASSUME NEW i \in 1..n PROVE Body(i)
    <2>1. log'[i] = log[i] /\ (IsWork(i)' <=> IsWork(i))
      BY <1>1 DEF IsWork, IsSent, Type, Has
    <2>2. /\ log[i] = Sent(ConnectionPreface) <=> i = 1
          /\ i = 2 => log[i] = Sent(SettingsFrame({}))
      BY <1>1 DEF WorkFollowsHandshake
    <2>3. ASSUME IsWork(i)
          PROVE  \E j \in 3..(i - 1) :
                    /\ EndsHandshake(j)'
                    /\ Type(j)' = "SETTINGS" => j + 1 < i /\ Answers(log'[j + 1], log'[j])
      <3>1. PICK j \in 3..(i - 1) :
               /\ EndsHandshake(j)
               /\ Type(j) = "SETTINGS" => j + 1 < i /\ Answers(log[j + 1], log[j])
        BY <2>3, <1>1 DEF WorkFollowsHandshake
      <3>2. /\ j \in 1..n /\ log'[j] = log[j]
            /\ j + 1 < i => log'[j + 1] = log[j + 1]
        BY <1>1
      <3>3. EndsHandshake(j)' /\ (Type(j)' = "SETTINGS" <=> Type(j) = "SETTINGS")
        BY <1>0, <3>1, <3>2, GrowsEnds DEF Type
      <3> QED
        BY <3>1, <3>2, <3>3
    <2> QED
      BY <2>1, <2>2, <2>3
  <1>3. ASSUME NEW i \in 1..(n + 1), i = n + 1 PROVE Body(i)
    <2>1. IsWork(i)' => \E j \in 3..n : Opens(j)
      BY <1>0, <1>1, <1>3 DEF IsWork, IsSent, Type, Has
    <2>2. ASSUME NEW j \in 3..n, Opens(j)
          PROVE  /\ j \in 3..(i - 1) /\ EndsHandshake(j)'
                 /\ Type(j)' = "SETTINGS" => j + 1 < i /\ Answers(log'[j + 1], log'[j])
      <3>1. EndsHandshake(j) /\ j \in 1..n
        BY <2>2, <1>0, <1>1 DEF Opens
      <3>2. Type(j) = "SETTINGS" => j + 1 <= n /\ Answers(log[j + 1], log[j])
        BY <1>0, <2>2 DEF Opens
      <3>3. log'[j] = log[j] /\ (j + 1 <= n => log'[j + 1] = log[j + 1])
        BY <1>1, <3>1
      <3>4. EndsHandshake(j)' /\ (Type(j)' = "SETTINGS" <=> Type(j) = "SETTINGS")
        BY <1>0, <3>1, <3>3, GrowsEnds DEF Type
      <3> QED
        BY <1>1, <1>3, <3>2, <3>3, <3>4
    <2>3. /\ log'[i] = Sent(ConnectionPreface) <=> i = 1
          /\ i = 2 => log'[i] = Sent(SettingsFrame({}))
      BY <1>0, <1>1, <1>3
    <2>4. IsWork(i)' =>
             \E j \in 3..(i - 1) :
                /\ EndsHandshake(j)'
                /\ Type(j)' = "SETTINGS" => j + 1 < i /\ Answers(log'[j + 1], log'[j])
      <3> SUFFICES ASSUME NEW j \in 3..n, Opens(j)
                   PROVE  /\ j \in 3..(i - 1) /\ EndsHandshake(j)'
                          /\ Type(j)' = "SETTINGS" =>
                                j + 1 < i /\ Answers(log'[j + 1], log'[j])
        BY <2>1
      <3> QED
        BY <2>2
    <2> QED
      BY <2>3, <2>4
  <1> HIDE DEF Body
  <1>4. \A i \in 1..(n + 1) : Body(i)
    BY <1>1, <1>2, <1>3
  <1> QED
    BY <1>1, <1>4 DEF Body, WorkFollowsHandshake, Answers, IsAck

\* Steps that neither send nor receive.
LEMMA QuietKeepsOrder ==
    ASSUME TypeOK, OrderInv, log' = log,
           \/ pc' = pc \/ pc' = "exited" \/ (pc = "dial" /\ pc' = "preface")
           \/ pc \in Established /\ pc' \in Established
    PROVE  OrderInv'
  <1>1. WorkFollowsHandshake'
    BY DEF OrderInv, WorkFollowsHandshake, IsWork, IsSent, Type, Has, EndsHandshake,
           IsReceived, Answers, IsAck
  <1>2. \A j : Opens(j)' <=> Opens(j)
    BY DEF Opens, EndsHandshake, IsReceived, Type, Has, Answers, IsAck
  <1>3. \A j : Ends(log[j])' <=> Ends(log[j])
    BY DEF Ends
  <1> QED
    BY <1>1, <1>2, <1>3 DEF OrderInv, Established

\* Past the handshake the client may send and receive what it likes.
LEMMA EstablishedKeepsOrder ==
    ASSUME TypeOK, OrderInv, NEW e \in LogEntry, log' = Append(log, e),
           pc \in Established, pc' \in Established \cup {"exited"},
           e # Sent(ConnectionPreface)
    PROVE  OrderInv'
  <1>1. Len(log) \in Nat /\ Len(log) >= 2 /\ Len(log') = Len(log) + 1
    BY Grows DEF OrderInv, Established
  <1>2. PICK j \in 3..Len(log) : Opens(j)
    BY DEF OrderInv
  <1>3. WorkFollowsHandshake'
    BY <1>1, <1>2, WorkExtends DEF OrderInv
  <1>4. j \in 3..Len(log') /\ Opens(j)'
    BY <1>1, <1>2, GrowsEnds
  <1>5. /\ pc' \notin {"dial", "preface", "settings", "handshake", "handshake_answer"}
        /\ Len(log') >= 2
    BY <1>1 DEF Established
  <1> QED
    BY <1>3, <1>4, <1>5 DEF OrderInv

\* The prologue: the preface, then the client's SETTINGS.
LEMMA PrologueKeepsOrder ==
    ASSUME TypeOK, OrderInv, SendPreface \/ SendSettings
    PROVE  OrderInv'
  <1>1. CASE log' = log
    BY <1>1, QuietKeepsOrder DEF SendPreface, SendSettings, SendFrameAndReport, Continue, Exit,
                                 TypeOK
  <1>2. CASE SendPreface /\ log' = Append(log, Sent(ConnectionPreface))
    <2>1. Sent(ConnectionPreface) \in LogEntry
      BY ConstructorTypes DEF Sent, LogEntry
    <2>2. Len(log) = 0 /\ Len(log') = 1 /\ log'[1] = Sent(ConnectionPreface)
      BY <1>2, <2>1, Grows DEF OrderInv, SendPreface
    <2>3. pc' \in {"settings", "exited"}
      BY <1>2 DEF SendPreface, SendFrameAndReport, Continue, Exit
    <2>4. WorkFollowsHandshake'
      BY <1>2, <2>1, <2>2, WorkExtends DEF OrderInv, Sent, ConnectionPreface
    <2>5. \A j \in 1..Len(log') : ~Ends(log'[j])
      BY <2>2 DEF Ends, Sent
    <2>6. \A j \in 1..Len(log') : ~Ends(log[j])'
      BY <2>5 DEF Ends
    <2> QED
      BY <2>2, <2>3, <2>4, <2>6 DEF OrderInv, Established
  <1>3. CASE SendSettings /\ log' = Append(log, Sent(SettingsFrame({})))
    <2>1. /\ Sent(SettingsFrame({})) \in LogEntry
          /\ Sent(SettingsFrame({})) # Sent(ConnectionPreface)
      BY ConstructorTypes DEF Sent, LogEntry, SettingsFrame, ConnectionPreface
    <2>2. /\ Len(log) = 1 /\ Len(log') = 2 /\ log'[2] = Sent(SettingsFrame({}))
          /\ log'[1] = log[1] /\ ~Ends(log[1])
      BY <1>3, <2>1, Grows DEF OrderInv, SendSettings
    <2>3. pc' \in {"handshake", "exited"}
      BY <1>3 DEF SendSettings, SendFrameAndReport, Continue, Exit
    <2>4. WorkFollowsHandshake'
      BY <1>3, <2>1, <2>2, WorkExtends DEF OrderInv, Sent, SettingsFrame
    <2>5. \A j \in 1..Len(log') : ~Ends(log'[j])
      BY <2>2 DEF Ends, Sent
    <2>6. \A j \in 1..Len(log') : ~Ends(log[j])'
      BY <2>5 DEF Ends
    <2> QED
      BY <2>2, <2>3, <2>4, <2>6 DEF OrderInv, Established
  <1> QED
    BY <1>1, <1>2, <1>3 DEF SendPreface, SendSettings, SendFrameAndReport

\* The handshake reads until a GOAWAY, or a SETTINGS it is about to answer.
LEMMA HandshakeReceiveKeepsOrder ==
    ASSUME TypeOK, OrderInv, HandshakeReceive
    PROVE  OrderInv'
  <1> DEFINE e == Received(Incoming)
  <1>1. e \in LogEntry /\ log' = Append(log, e)
    BY ReceiveType DEF HandshakeReceive, ReceiveFrame, Received, LogEntry
  <1>2. PICK n \in Nat : n = Len(log)
    BY <1>1, Grows
  <1>3. /\ n >= 2 /\ Len(log') = n + 1 /\ log'[n + 1] = e
        /\ \A j \in 1..n : log'[j] = log[j] /\ ~Ends(log[j])
    BY <1>1, <1>2, Grows DEF OrderInv, HandshakeReceive
  <1>4. WorkFollowsHandshake'
    BY <1>1, <1>2, <1>3, WorkExtends DEF OrderInv, Received, Sent
  <1>5. pc' \in {"exited", "handshake", "handshake_answer"} \cup Established
    BY ConfigType DEF HandshakeReceive, HandshakeNext, Continue, Exit, Established
  <1>6. \A j \in 1..n : ~Ends(log'[j])
    BY <1>3
  <1>7. pc' = "handshake" => ~Ends(e)
    BY ConfigType DEF HandshakeReceive, HandshakeNext, Continue, Exit, Ends, Received, NeedsAnswer
  <1>8. pc' \in Established => e.frame.type = "GOAWAY" /\ Ends(e)
    BY DEF HandshakeReceive, HandshakeNext, Continue, Exit, Ends, Received, Established
  <1>9. pc' \in Established => Opens(n + 1)'
    <2> SUFFICES ASSUME NEW i \in Nat, i = n + 1, pc' \in Established PROVE Opens(i)'
      OBVIOUS
    <2>1. EndsHandshake(i)' <=> Ends(log'[i]) /\ \A j \in 1..(i - 1) : ~Ends(log'[j])
      BY DEF EndsHandshake, Ends, IsReceived, Type, Has
    <2>2. Ends(log'[i]) /\ \A j \in 1..(i - 1) : ~Ends(log'[j])
      BY <1>3, <1>6, <1>8
    <2>3. Type(i)' = "GOAWAY"
      BY <1>3, <1>8 DEF Type
    <2> QED
      BY <2>1, <2>2, <2>3 DEF Opens
  <1>10. pc' = "handshake" => \A j \in 1..Len(log') : ~Ends(log[j])'
    <2>1. pc' = "handshake" => \A j \in 1..(n + 1) : ~Ends(log'[j])
      BY <1>3, <1>6, <1>7
    <2> QED
      BY <1>3, <2>1 DEF Ends
  <1>11. \A j \in 1..(Len(log') - 1) : ~Ends(log[j])'
    BY <1>3, <1>6 DEF Ends
  <1>12. pc' \in Established => \E j \in 3..Len(log') : Opens(j)'
    BY <1>3, <1>9
  <1> QED
    BY <1>3, <1>4, <1>5, <1>10, <1>11, <1>12 DEF OrderInv, Established

\* The acknowledgement of the peer's SETTINGS opens the session.
LEMMA HandshakeAnswerKeepsOrder ==
    ASSUME TypeOK, OrderInv, AnswerInv, HandshakeAnswer
    PROVE  OrderInv'
  <1> DEFINE e == Sent(Answer(held))
  <1>1. CASE log' = log /\ pc' = "exited"
    BY <1>1, QuietKeepsOrder
  <1>2. CASE /\ log' = Append(log, e)
             /\ \/ pc' = "exited"
                \/ pc' = IF held.type = "SETTINGS" THEN AfterHandshake ELSE "handshake"
    <2>1. /\ held \in Frame /\ NeedsAnswer(held)
          /\ log # <<>> /\ log[Len(log)] = Received(held)
      BY DEF AnswerInv, TypeOK, HandshakeAnswer, Answering
    <2>2. e \in LogEntry
      <3>1. {"ACK"} \in SUBSET Flags /\ held.payload \in Seq(Item)
        BY <2>1 DEF Flags, Frame
      <3> QED
        BY <3>1, ConstructorTypes DEF Answer, Sent, LogEntry
    <2>3. PICK n \in Nat : n = Len(log)
      BY <2>2, <1>2, Grows
    <2>4. /\ n >= 2 /\ DOMAIN log = 1..n
          /\ Len(log') = n + 1 /\ log'[n + 1] = e
          /\ \A j \in 1..n : log'[j] = log[j]
          /\ \A j \in 1..(n - 1) : ~Ends(log[j])
      BY <1>2, <2>2, <2>3, Grows DEF OrderInv, HandshakeAnswer
    <2>5. /\ log[n] = Received(held) /\ log'[n] = Received(held)
          /\ Asks(log[n]) /\ Answers(e, log[n]) /\ IsAck(e) /\ ~Ends(e)
      BY <2>1, <2>3, <2>4 DEF NeedsAnswer, Asks, Answers, IsAck, Sent, Received, Answer,
                              SettingsFrame, PingFrame, Ends
    <2>6. n >= 3
      <3>1. 1 \in DOMAIN log /\ 2 \in DOMAIN log
        BY <2>4
      <3>2. log[2] = Sent(SettingsFrame({}))
        BY <3>1 DEF OrderInv, WorkFollowsHandshake
      <3> QED
        BY <2>4, <2>5, <3>2 DEF Sent, Received
    <2>7. WorkFollowsHandshake'
      <3>1. e # Sent(ConnectionPreface)
        BY <2>5 DEF IsAck, Sent, ConnectionPreface
      <3>2. ~(/\ e.dir = "sent"
              /\ \/ e.frame.type \in {"HEADERS", "DATA", "GOAWAY"}
                 \/ e.frame.type = "PING" /\ "ACK" \notin e.frame.flags)
        BY DEF Sent, Answer, SettingsFrame, PingFrame
      <3> HIDE DEF e
      <3> QED
        BY <1>2, <2>2, <2>3, <2>4, <3>1, <3>2, WorkExtends DEF OrderInv
    <2>8. CASE pc' = "exited"
      BY <2>4, <2>7, <2>8 DEF OrderInv, Established
    <2>9. CASE held.type = "SETTINGS" /\ pc' = AfterHandshake
      <3>1. pc' \in Established /\ pc' # "exited"
        BY <2>9, ConfigType DEF Established
      <3>2. Opens(n)'
        <4>1. EndsHandshake(n)' <=> Ends(log'[n]) /\ \A j \in 1..(n - 1) : ~Ends(log'[j])
          BY DEF EndsHandshake, Ends, IsReceived, Type, Has
        <4>2. Ends(log'[n])
          BY <2>1, <2>5, <2>9 DEF Ends, Received, NeedsAnswer
        <4>3. \A j \in 1..(n - 1) : ~Ends(log'[j])
          BY <2>4
        <4>4. n + 1 <= Len(log') /\ Answers(log'[n + 1], log'[n])
          BY <2>4, <2>5
        <4>5. n + 1 <= Len(log)' /\ Answers(log[n + 1], log[n])'
          BY <4>4 DEF Answers, IsAck
        <4> QED
          BY <4>1, <4>2, <4>3, <4>5 DEF Opens
      <3>3. n \in 3..Len(log')
        BY <2>4, <2>6
      <3>4. pc' \notin {"dial", "preface", "settings", "handshake", "handshake_answer"}
        BY <3>1 DEF Established
      <3>5. Len(log') >= 2
        BY <2>4
      <3> QED
        BY <2>7, <3>2, <3>3, <3>4, <3>5 DEF OrderInv
    <2>10. CASE held.type # "SETTINGS" /\ pc' = "handshake"
      <3>1. ~Ends(log[n])
        BY <2>1, <2>5, <2>10 DEF Ends, Received, NeedsAnswer
      <3>2. \A j \in 1..(n + 1) : ~Ends(log'[j])
        BY <2>4, <2>5, <3>1
      <3>3. \A j \in 1..Len(log') : ~Ends(log[j])'
        BY <2>4, <3>2 DEF Ends
      <3> QED
        BY <2>4, <2>7, <2>10, <3>3 DEF OrderInv, Established
    <2> QED
      BY <1>2, <2>8, <2>9, <2>10
  <1> QED
    BY <1>1, <1>2 DEF HandshakeAnswer, SendFrameAndReport, Continue, Exit

\* Sending past the handshake, with or without success.
LEMMA SendKeepsOrder ==
    ASSUME TypeOK, OrderInv, NEW f \in Frame, NEW next \in Established,
           SendFrameAndReport(f, next), pc \in Established, f.type # "PREFACE"
    PROVE  OrderInv'
  <1>1. Sent(f) \in LogEntry /\ Sent(f) # Sent(ConnectionPreface)
    BY DEF Sent, LogEntry, ConnectionPreface
  <1>2. pc' \in Established \cup {"exited"} /\ (log' = log \/ log' = Append(log, Sent(f)))
    BY DEF SendFrameAndReport, Continue, Exit
  <1>3. CASE log' = log
    BY <1>2, <1>3, QuietKeepsOrder
  <1>4. CASE log' = Append(log, Sent(f))
    BY <1>1, <1>2, <1>4, EstablishedKeepsOrder
  <1> QED
    BY <1>2, <1>3, <1>4

\* Receiving past the handshake.
LEMMA ReceiveKeepsOrder ==
    ASSUME TypeOK, OrderInv, ReceiveFrame, pc = "receive",
           pc' \in {"receive", "receive_answer", "finish", "exited"}
    PROVE  OrderInv'
  <1>1. /\ Received(Incoming) \in LogEntry /\ Received(Incoming) # Sent(ConnectionPreface)
        /\ log' = Append(log, Received(Incoming))
    BY ReceiveType DEF ReceiveFrame, Received, Sent, LogEntry
  <1> QED
    BY <1>1, EstablishedKeepsOrder DEF Established

\* No frame, no disorder; and every step of the client or of its environment
\* preserves the invariant.
LEMMA OrderInit == Init => OrderInv
  BY DEF Init, OrderInv, WorkFollowsHandshake, Established

LEMMA OrderStep == TypeOK /\ AnswerInv /\ OrderInv /\ [Next]_vars => OrderInv'
  <1> SUFFICES ASSUME TypeOK, AnswerInv, OrderInv, [Next]_vars PROVE OrderInv'
    OBVIOUS
  <1>1. CASE Dial
    BY <1>1, QuietKeepsOrder DEF Dial, Continue, Exit
  <1>2. CASE SendPreface \/ SendSettings
    BY <1>2, PrologueKeepsOrder
  <1>3. CASE HandshakeReceive
    BY <1>3, HandshakeReceiveKeepsOrder
  <1>4. CASE HandshakeAnswer
    BY <1>4, HandshakeAnswerKeepsOrder
  <1>5. CASE ReceiveAnswer
    <2>1. Answer(held) \in Frame /\ Answer(held).type # "PREFACE"
      <3>1. {"ACK"} \in SUBSET Flags /\ held.payload \in Seq(Item)
        BY DEF Flags, TypeOK, Frame
      <3> QED
        BY <3>1, ConstructorTypes DEF Answer, SettingsFrame, PingFrame
    <2>2. "receive" \in Established /\ pc \in Established
      BY <1>5 DEF ReceiveAnswer, Established
    <2> QED
      BY <1>5, <2>1, <2>2, SendKeepsOrder DEF ReceiveAnswer
  <1>6. CASE ReceiveFails \/ Flush
    BY <1>6, QuietKeepsOrder DEF ReceiveFails, Flush, Exit
  <1>7. CASE PrepareRequest \/ ObserveLimit
    BY <1>7, QuietKeepsOrder DEF PrepareRequest, ObserveLimit, Continue, Exit, Established
  <1>8. CASE SendHeaders
    <2> DEFINE f(flags) == HeadersFrame(cfg.streamID, flags, cfg.fields)
    <2>1. /\ f({"END_HEADERS", "END_STREAM"}) \in Frame /\ f({"END_HEADERS"}) \in Frame
          /\ \A flags : f(flags).type # "PREFACE"
      BY ConfigType, ConstructorTypes DEF Flags, HeadersFrame
    <2>2. \/ SendFrameAndReport(f({"END_HEADERS", "END_STREAM"}), "receive")
          \/ SendFrameAndReport(f({"END_HEADERS"}), "data")
      BY <1>8 DEF SendHeaders
    <2>3. {"receive", "data"} \subseteq Established /\ pc \in Established
      BY <1>8 DEF SendHeaders, Established
    <2> HIDE DEF f
    <2> QED
      BY <2>1, <2>2, <2>3, SendKeepsOrder
  <1>9. CASE SendData
    <2>1. /\ DataFrame(cfg.streamID, {"END_STREAM"}, cfg.body) \in Frame
          /\ DataFrame(cfg.streamID, {"END_STREAM"}, cfg.body).type # "PREFACE"
          /\ "receive" \in Established /\ pc \in Established
      BY <1>9, ConfigType, ConstructorTypes DEF Flags, DataFrame, SendData, Established
    <2> QED
      BY <1>9, <2>1, SendKeepsOrder DEF SendData
  <1>10. CASE SendPing
    <2>1. /\ PingFrame({}, cfg.pingData) \in Frame
          /\ PingFrame({}, cfg.pingData).type # "PREFACE"
          /\ "receive" \in Established /\ pc \in Established
      BY <1>10, ConfigType, ConstructorTypes DEF PingFrame, SendPing, Established
    <2>2. CASE Len(cfg.pingData) = PingSize
      BY <1>10, <2>1, <2>2, SendKeepsOrder DEF SendPing
    <2>3. CASE Len(cfg.pingData) # PingSize
      BY <1>10, <2>3, QuietKeepsOrder DEF SendPing, Exit
    <2> QED
      BY <2>2, <2>3
  <1>11. CASE ReceiveResponse \/ ReceivePing \/ ReceiveObserve
    <2>1. ReceiveFrame /\ pc = "receive"
      BY <1>11 DEF ReceiveResponse, ReceivePing, ReceiveObserve
    <2>2. pc' \in {"receive", "receive_answer", "finish", "exited"}
      BY <1>11 DEF ReceiveResponse, ReceivePing, ReceiveObserve, ResponseNext, PingNext,
                   ObserveNext, Continue, Exit
    <2> QED
      BY <2>1, <2>2, ReceiveKeepsOrder
  <1>12. CASE SendGoAway
    <2>1. /\ Sent(GoAwayFrame) \in LogEntry /\ Sent(GoAwayFrame) # Sent(ConnectionPreface)
          /\ pc \in Established /\ pc' \in Established
      BY <1>12, ConstructorTypes DEF SendGoAway, Continue, Established, Sent, LogEntry,
                                     GoAwayFrame, ConnectionPreface
    <2>2. log' = log \/ log' = Append(log, Sent(GoAwayFrame))
      BY <1>12 DEF SendGoAway
    <2> QED
      BY <2>1, <2>2, QuietKeepsOrder, EstablishedKeepsOrder
  <1>13. CASE Environment \/ UNCHANGED vars
    BY <1>13, QuietKeepsOrder DEF Environment, PeerSend, PeerClose, Expire, vars, client
  <1> QED
    BY <1>1, <1>2, <1>3, <1>4, <1>5, <1>6, <1>7, <1>8, <1>9, <1>10, <1>11, <1>12, <1>13
       DEF Next, ClientStep, Terminated

\* In every run the preface and the client's SETTINGS come first, and no frame
\* of the command goes out before the peer's SETTINGS was received and
\* acknowledged, or its GOAWAY received: startSession and its callers.
THEOREM OrderCorrect == Spec => []WorkFollowsHandshake
  <1>1. Init => OrderInv
    BY OrderInit
  <1>2. TypeOK /\ AnswerInv /\ OrderInv /\ [Next]_vars => OrderInv'
    BY OrderStep
  <1>3. OrderInv => WorkFollowsHandshake
    BY DEF OrderInv
  <1>4. Spec => []AnswerInv
    BY AnswerInit, AnswerStep, TypeCorrect, PTL DEF Spec
  <1> QED
    BY <1>1, <1>2, <1>3, <1>4, TypeCorrect, PTL DEF Spec

(***************************************************************************)
(* GOAWAY.                                                                 *)
(***************************************************************************)
SaysGoAway(entry) == entry.dir = "sent" /\ entry.frame.type = "GOAWAY"
HearsGoAway(entry) == entry.dir = "received" /\ entry.frame.type = "GOAWAY"

\* No GOAWAY goes out before the end, and until a receive loop saw the peer's
\* the only one of the peer's is the one that ended the handshake.
GoAwayInv ==
    /\ pc \notin {"flush", "exited"} => \A i \in 1..Len(log) : ~SaysGoAway(log[i])
    /\ pc # "exited" /\ ~sawGoAway =>
          \A j \in 1..Len(log) : HearsGoAway(log[j]) => EndsHandshake(j)
    /\ sawGoAway => pc \in {"finish", "flush", "exited"}
    /\ GoAwayIsFinal

\* Steps that neither send nor receive, up to the end.
LEMMA QuietKeepsGoAway ==
    ASSUME TypeOK, GoAwayInv, log' = log, cfg' = cfg, sawGoAway' = sawGoAway,
           \/ pc' = pc \/ pc' = "exited" \/ pc \notin {"finish", "flush", "exited"}
           \/ pc = "finish" /\ pc' = "flush"
    PROVE  GoAwayInv'
  <1>1. DOMAIN log = 1..Len(log)
    BY DEF TypeOK
  <1>2. \A i : EndsHandshake(i)' <=> EndsHandshake(i)
    BY DEF EndsHandshake, IsReceived, Type, Has
  <1>3. \A i \in DOMAIN log : IsSent(i) /\ Type(i) = "GOAWAY" => pc' \in {"flush", "exited"}
    BY <1>1 DEF GoAwayInv, SaysGoAway, IsSent, Type
  <1>4. GoAwayIsFinal'
    BY <1>2, <1>3 DEF GoAwayInv, GoAwayIsFinal, IsSent, IsReceived, Type
  <1> QED
    BY <1>2, <1>4 DEF GoAwayInv, SaysGoAway, HearsGoAway

\* Before the end the history may grow by anything but a GOAWAY of the
\* client's; one of the peer's ends the command, the handshake or the loop.
LEMMA GrowsKeepsGoAway ==
    ASSUME TypeOK, GoAwayInv, NEW e \in LogEntry, log' = Append(log, e), ~SaysGoAway(e),
           pc \notin {"finish", "flush", "exited"}, NEW n \in Nat, n = Len(log),
           \/ pc' = "exited"
           \/ /\ HearsGoAway(e) => EndsHandshake(n + 1)' \/ sawGoAway'
              /\ sawGoAway' => pc' = "finish"
    PROVE  GoAwayInv'
  <1>1. /\ Len(log') = n + 1 /\ DOMAIN log' = 1..(n + 1) /\ log'[n + 1] = e
        /\ \A i \in 1..n : log'[i] = log[i]
    BY Grows
  <1>2. ~sawGoAway /\ \A i \in 1..n : ~SaysGoAway(log[i])
    BY DEF GoAwayInv
  <1>3. \A i \in 1..(n + 1) : ~SaysGoAway(log'[i])
    BY <1>1, <1>2
  <1>4. GoAwayIsFinal'
    BY <1>1, <1>3 DEF GoAwayIsFinal, IsSent, Type, SaysGoAway
  <1>5. ASSUME pc' # "exited", ~sawGoAway', NEW j \in 1..(n + 1), HearsGoAway(log'[j])
        PROVE  EndsHandshake(j)'
    <2>1. CASE j \in 1..n
      BY <1>1, <1>2, <1>5, <2>1, GrowsEnds DEF GoAwayInv
    <2>2. CASE j = n + 1
      BY <1>1, <1>5, <2>2
    <2> QED
      BY <2>1, <2>2
  <1>6. \A i \in 1..Len(log') : ~SaysGoAway(log[i])'
    BY <1>1, <1>3 DEF SaysGoAway
  <1>7. pc' # "exited" /\ ~sawGoAway' =>
          \A j \in 1..Len(log') : HearsGoAway(log[j])' => EndsHandshake(j)'
    BY <1>1, <1>5 DEF HearsGoAway
  <1>8. sawGoAway' => pc' \in {"finish", "exited"}
    OBVIOUS
  <1> QED
    BY <1>4, <1>6, <1>7, <1>8 DEF GoAwayInv

\* The client's own GOAWAY.
LEMMA SendGoAwayKeepsGoAway ==
    ASSUME TypeOK, GoAwayInv, SendGoAway
    PROVE  GoAwayInv'
  <1>1. pc = "finish" /\ pc' = "flush" /\ cfg' = cfg /\ sawGoAway' = sawGoAway
    BY DEF SendGoAway, Continue
  <1>2. CASE log' = log
    BY <1>1, <1>2, QuietKeepsGoAway
  <1>3. CASE OwesGoAway /\ log' = Append(log, Sent(GoAwayFrame))
    <2>1. Sent(GoAwayFrame) \in LogEntry
      BY ConstructorTypes DEF Sent, LogEntry
    <2>2. PICK n \in Nat : n = Len(log)
      BY <1>3, <2>1, Grows
    <2>3. /\ Len(log') = n + 1 /\ DOMAIN log' = 1..(n + 1)
          /\ log'[n + 1] = Sent(GoAwayFrame)
          /\ \A i \in 1..n : log'[i] = log[i]
      BY <1>3, <2>1, <2>2, Grows
    <2>4. /\ ~sawGoAway /\ cfg.sendGoAway
          /\ \A i \in 1..n : ~SaysGoAway(log[i])
          /\ \A j \in 1..n : HearsGoAway(log[j]) => EndsHandshake(j)
      BY <1>1, <1>3, <2>2 DEF OwesGoAway, GoAwayInv
    <2>5. \A i \in 1..(n + 1) : SaysGoAway(log'[i]) => i = n + 1
      BY <2>3, <2>4
    <2>6. \A j \in 1..n : HearsGoAway(log'[j]) => EndsHandshake(j)'
      BY <1>3, <2>1, <2>2, <2>3, <2>4, GrowsEnds
    <2>7. ~HearsGoAway(log'[n + 1])
      BY <2>3 DEF HearsGoAway, Sent
    <2>8. \A j \in 1..Len(log') : HearsGoAway(log[j])' => EndsHandshake(j)'
      BY <2>3, <2>6, <2>7 DEF HearsGoAway
    <2>9. GoAwayIsFinal'
      BY <1>1, <2>3, <2>4, <2>5, <2>6
         DEF GoAwayIsFinal, IsSent, IsReceived, Type, SaysGoAway, HearsGoAway
    <2> QED
      BY <1>1, <2>8, <2>9 DEF GoAwayInv
  <1> QED
    BY <1>2, <1>3 DEF SendGoAway

\* Any other frame the client sends.
LEMMA SendKeepsGoAway ==
    ASSUME TypeOK, GoAwayInv, NEW f \in Frame, NEW next \in PCs, f.type # "GOAWAY",
           SendFrameAndReport(f, next), cfg' = cfg, sawGoAway' = sawGoAway,
           pc \notin {"finish", "flush", "exited"}
    PROVE  GoAwayInv'
  <1>1. Sent(f) \in LogEntry /\ ~SaysGoAway(Sent(f)) /\ ~HearsGoAway(Sent(f))
    BY DEF Sent, LogEntry, SaysGoAway, HearsGoAway
  <1>2. ~sawGoAway
    BY DEF GoAwayInv
  <1>3. CASE log' = log
    BY <1>3, QuietKeepsGoAway
  <1>4. CASE log' = Append(log, Sent(f))
    <2>1. PICK n \in Nat : n = Len(log)
      BY <1>1, <1>4, Grows
    <2> QED
      BY <1>1, <1>2, <1>4, <2>1, GrowsKeepsGoAway
  <1> QED
    BY <1>3, <1>4 DEF SendFrameAndReport

\* A GOAWAY received ends the handshake or the receive loop.
LEMMA ReceiveKeepsGoAway ==
    ASSUME TypeOK, OrderInv, GoAwayInv,
           HandshakeReceive \/ ReceiveResponse \/ ReceivePing \/ ReceiveObserve
    PROVE  GoAwayInv'
  <1> DEFINE e == Received(Incoming)
  <1>1. /\ e \in LogEntry /\ log' = Append(log, e) /\ ~SaysGoAway(e)
        /\ pc \in {"handshake", "receive"}
    BY ReceiveType DEF HandshakeReceive, ReceiveResponse, ReceivePing, ReceiveObserve,
                       ReceiveFrame, Received, LogEntry, SaysGoAway
  <1>2. PICK n \in Nat : n = Len(log)
    BY <1>1, Grows
  <1>3. HearsGoAway(e) <=> Incoming.type = "GOAWAY"
    BY DEF HearsGoAway, Received
  <1>4. ~sawGoAway
    BY <1>1 DEF GoAwayInv
  <1>5. CASE HandshakeReceive
    <2>1. HearsGoAway(e) => EndsHandshake(n + 1)'
      <3> SUFFICES ASSUME NEW i \in Nat, i = n + 1, HearsGoAway(e) PROVE EndsHandshake(i)'
        OBVIOUS
      <3>1. Ends(log'[i]) /\ \A j \in 1..(i - 1) : ~Ends(log'[j])
        BY <1>1, <1>2, <1>5, Grows DEF OrderInv, HandshakeReceive, Ends, HearsGoAway
      <3> QED
        BY <3>1 DEF EndsHandshake, Ends, IsReceived, Type, Has
    <2>2. ~sawGoAway'
      BY <1>4, <1>5 DEF HandshakeReceive
    <2> HIDE DEF e
    <2> QED
      BY <1>1, <1>2, <2>1, <2>2, GrowsKeepsGoAway
  <1>6. CASE ReceiveResponse \/ ReceivePing \/ ReceiveObserve
    <2>1. \/ pc' = "exited"
          \/ /\ sawGoAway' <=> Incoming.type = "GOAWAY"
             /\ sawGoAway' => pc' = "finish"
      BY <1>6 DEF ReceiveResponse, ReceivePing, ReceiveObserve, Continue, Exit, ResponseNext,
                  PingNext, ObserveNext, NeedsAnswer
    <2> HIDE DEF e
    <2> QED
      BY <1>1, <1>2, <1>3, <2>1, GrowsKeepsGoAway
  <1> QED
    BY <1>5, <1>6

\* Initially there is no GOAWAY, and every step preserves the invariant.
LEMMA GoAwayInit == Init => GoAwayInv
  BY DEF Init, GoAwayInv, GoAwayIsFinal

LEMMA GoAwayStep == TypeOK /\ OrderInv /\ GoAwayInv /\ [Next]_vars => GoAwayInv'
  <1> SUFFICES ASSUME TypeOK, OrderInv, GoAwayInv, [Next]_vars PROVE GoAwayInv'
    OBVIOUS
  <1>1. CASE Dial \/ PrepareRequest \/ ReceiveFails \/ ObserveLimit \/ Flush
    BY <1>1, QuietKeepsGoAway
       DEF Dial, PrepareRequest, ReceiveFails, ObserveLimit, Flush, Continue, Exit
  <1>2. CASE SendPreface \/ SendSettings
    <2>1. /\ {"settings", "handshake"} \subseteq PCs
          /\ ConnectionPreface \in Frame /\ ConnectionPreface.type # "GOAWAY"
          /\ SettingsFrame({}) \in Frame /\ SettingsFrame({}).type # "GOAWAY"
      BY ConstructorTypes DEF PCs, ConnectionPreface, SettingsFrame
    <2> QED
      BY <1>2, <2>1, SendKeepsGoAway DEF SendPreface, SendSettings
  <1>3. CASE HandshakeAnswer \/ ReceiveAnswer
    <2> DEFINE next == IF held.type = "SETTINGS" THEN AfterHandshake ELSE "handshake"
    <2>1. Answer(held) \in Frame /\ Answer(held).type # "GOAWAY"
      <3>1. {"ACK"} \in SUBSET Flags /\ held.payload \in Seq(Item)
        BY DEF Flags, TypeOK, Frame
      <3> QED
        BY <3>1, ConstructorTypes DEF Answer, SettingsFrame, PingFrame
    <2>2. next \in PCs /\ "receive" \in PCs
      BY ConfigType DEF PCs
    <2>3. /\ SendFrameAndReport(Answer(held), next) \/ SendFrameAndReport(Answer(held), "receive")
          /\ cfg' = cfg /\ sawGoAway' = sawGoAway /\ pc \notin {"finish", "flush", "exited"}
      BY <1>3 DEF HandshakeAnswer, ReceiveAnswer
    <2> HIDE DEF next
    <2> QED
      BY <2>1, <2>2, <2>3, SendKeepsGoAway
  <1>4. CASE HandshakeReceive \/ ReceiveResponse \/ ReceivePing \/ ReceiveObserve
    BY <1>4, ReceiveKeepsGoAway
  <1>5. CASE SendHeaders
    <2> DEFINE f(flags) == HeadersFrame(cfg.streamID, flags, cfg.fields)
    <2>1. /\ f({"END_HEADERS", "END_STREAM"}) \in Frame /\ f({"END_HEADERS"}) \in Frame
          /\ \A flags : f(flags).type # "GOAWAY"
      BY ConfigType, ConstructorTypes DEF Flags, HeadersFrame
    <2>2. /\ \/ SendFrameAndReport(f({"END_HEADERS", "END_STREAM"}), "receive")
             \/ SendFrameAndReport(f({"END_HEADERS"}), "data")
          /\ cfg' = cfg /\ sawGoAway' = sawGoAway /\ pc \notin {"finish", "flush", "exited"}
      BY <1>5 DEF SendHeaders
    <2>3. {"receive", "data"} \subseteq PCs
      BY DEF PCs
    <2> HIDE DEF f
    <2> QED
      BY <2>1, <2>2, <2>3, SendKeepsGoAway
  <1>6. CASE SendData
    <2>1. /\ DataFrame(cfg.streamID, {"END_STREAM"}, cfg.body) \in Frame
          /\ DataFrame(cfg.streamID, {"END_STREAM"}, cfg.body).type # "GOAWAY"
          /\ "receive" \in PCs
      BY ConfigType, ConstructorTypes DEF Flags, DataFrame, PCs
    <2> QED
      BY <1>6, <2>1, SendKeepsGoAway DEF SendData
  <1>7. CASE SendPing
    <2>1. /\ PingFrame({}, cfg.pingData) \in Frame
          /\ PingFrame({}, cfg.pingData).type # "GOAWAY"
          /\ "receive" \in PCs
      BY ConfigType, ConstructorTypes DEF PingFrame, PCs
    <2>2. CASE Len(cfg.pingData) = PingSize
      BY <1>7, <2>1, <2>2, SendKeepsGoAway DEF SendPing
    <2>3. CASE Len(cfg.pingData) # PingSize
      BY <1>7, <2>3, QuietKeepsGoAway DEF SendPing, Exit
    <2> QED
      BY <2>2, <2>3
  <1>8. CASE SendGoAway
    BY <1>8, SendGoAwayKeepsGoAway
  <1>9. CASE Environment \/ UNCHANGED vars
    BY <1>9, QuietKeepsGoAway DEF Environment, PeerSend, PeerClose, Expire, vars, client
  <1> QED
    BY <1>1, <1>2, <1>3, <1>4, <1>5, <1>6, <1>7, <1>8, <1>9 DEF Next, ClientStep, Terminated

\* In every run the client's GOAWAY is its last frame and its only one, is
\* sent only by a command that succeeded and was asked to, and never to a peer
\* whose own GOAWAY ended a receive loop: the end of run().
THEOREM GoAwayCorrect == Spec => []GoAwayIsFinal
  <1>1. Init => GoAwayInv
    BY GoAwayInit
  <1>2. TypeOK /\ OrderInv /\ GoAwayInv /\ [Next]_vars => GoAwayInv'
    BY GoAwayStep
  <1>3. GoAwayInv => GoAwayIsFinal
    BY DEF GoAwayInv
  <1>4. Spec => []AnswerInv
    BY AnswerInit, AnswerStep, TypeCorrect, PTL DEF Spec
  <1>5. Spec => []OrderInv
    BY <1>4, OrderInit, OrderStep, TypeCorrect, PTL DEF Spec
  <1> QED
    BY <1>1, <1>2, <1>3, <1>5, TypeCorrect, PTL DEF Spec

(***************************************************************************)
(* The conversation                                                        *)
(***************************************************************************)
\* A longer history is a longer transcript.
LEMMA TranscriptGrows ==
    ASSUME TypeOK, NEW e \in LogEntry, log' = Append(log, e)
    PROVE  Transcript' = Append(Transcript, Utterance(e))
  <1>1. /\ Len(log) \in Nat /\ DOMAIN log = 1..Len(log)
        /\ DOMAIN log' = 1..(Len(log) + 1) /\ log'[Len(log) + 1] = e
        /\ \A i \in 1..Len(log) : log'[i] = log[i]
    BY Grows
  <1>2. Transcript' = [i \in 1..(Len(log) + 1) |-> Utterance(log'[i])]
    BY <1>1 DEF Transcript, Utterance, Asks, IsAck
  <1>3. Transcript = [i \in 1..Len(log) |-> Utterance(log[i])]
    BY <1>1 DEF Transcript
  <1>4. Append(Transcript, Utterance(e))
            = [i \in 1..(Len(log) + 1) |-> IF i = Len(log) + 1 THEN Utterance(e) ELSE Transcript[i]]
    <2>1. Transcript \in Seq({Utterance(log[i]) : i \in 1..Len(log)}) /\ Len(Transcript) = Len(log)
      BY <1>1, <1>3
    <2> QED
      BY <1>1, <1>3, <2>1
  <1> QED
    BY <1>1, <1>2, <1>3, <1>4

\* What ends the history ends the transcript.
LEMMA LastUttered ==
    ASSUME TypeOK
    PROVE  /\ Transcript = <<>> <=> log = <<>>
           /\ log # <<>> => Peers!Last(Transcript) = Utterance(log[Len(log)])
  <1>1. /\ Len(log) \in Nat /\ DOMAIN log = 1..Len(log)
        /\ log = <<>> <=> Len(log) = 0
    BY DEF TypeOK
  <1>2. Transcript = [i \in 1..Len(log) |-> Utterance(log[i])]
    BY <1>1 DEF Transcript
  <1>3. Transcript \in Seq({Utterance(log[i]) : i \in 1..Len(log)}) /\ Len(Transcript) = Len(log)
    BY <1>1, <1>2
  <1> QED
    BY <1>1, <1>2, <1>3 DEF Peers!Last

\* What a frame is in the conversation: heard,
LEMMA HeardAs ==
    ASSUME NEW f
    PROVE  /\ NeedsAnswer(f) => Utterance(Received(f)) = Peers!Heard(f.type)
           /\ f.type = "GOAWAY" => Utterance(Received(f)) = Peers!Heard("GOAWAY")
           /\ ~NeedsAnswer(f) /\ f.type # "GOAWAY" =>
                 Utterance(Received(f)) = Peers!Heard("other")
  BY DEF NeedsAnswer, Utterance, HeardKind, Received, Asks, Peers!Heard

\* and said.
LEMMA SaidAs ==
    ASSUME NEW f
    PROVE  /\ "ACK" \in f.flags => Utterance(Sent(f)) = Peers!Said(f.type)
           /\ "ACK" \notin f.flags =>
                 /\ f.type = "GOAWAY" => Utterance(Sent(f)) = Peers!Said("farewell")
                 /\ f.type = "PREFACE" => Utterance(Sent(f)) = Peers!Said("preface")
                 /\ f.type = "SETTINGS" => Utterance(Sent(f)) = Peers!Said("greeting")
                 /\ f.type \notin {"GOAWAY", "PREFACE", "SETTINGS"} =>
                       Utterance(Sent(f)) = Peers!Said("work")
  BY DEF Utterance, SaidKind, OwnWords, Sent, Peers!Said

\* The phases.
LEMMA Phases ==
    /\ PhaseAt("dial") = "connecting"
    /\ \A place \in {"preface", "settings"} : PhaseAt(place) = "greeting"
    /\ \A place \in {"handshake", "handshake_answer"} : PhaseAt(place) = "shaking"
    /\ \A place \in {"prepare", "headers", "data", "ping"} : PhaseAt(place) = "working"
    /\ \A place \in {"receive", "receive_answer"} : PhaseAt(place) = "waiting"
    /\ PhaseAt("finish") = "leaving"
    /\ \A place \in {"flush", "exited"} : PhaseAt(place) = "closed"
  BY DEF PhaseAt

\* Sending a frame, seen from the conversation.
LEMMA Says ==
    ASSUME TypeOK, NEW f \in Frame, NEW next, SendFrameAndReport(f, next)
    PROVE  \/ pc' = next /\ Transcript' = Append(Transcript, Utterance(Sent(f)))
           \/ /\ pc' = "exited"
              /\ Transcript' \in {Transcript, Append(Transcript, Utterance(Sent(f)))}
  <1>1. log' = log => Transcript' = Transcript
    BY DEF Transcript
  <1>2. log' = Append(log, Sent(f)) => Transcript' = Append(Transcript, Utterance(Sent(f)))
    BY TranscriptGrows DEF Sent, LogEntry
  <1> QED
    BY <1>1, <1>2 DEF SendFrameAndReport, Continue, Exit

\* Receiving one.
LEMMA Hears ==
    ASSUME TypeOK, ReceiveFrame
    PROVE  Transcript' = Append(Transcript, Utterance(Received(Incoming)))
  <1>1. Received(Incoming) \in LogEntry /\ log' = Append(log, Received(Incoming))
    BY ReceiveType DEF ReceiveFrame, Received, LogEntry
  <1> QED
    BY <1>1, TranscriptGrows

\* Only at an answer, or after a failure, is anything owed.
LEMMA Debts ==
    ASSUME TypeOK, AnswerInv, pc # "exited"
    PROVE  /\ pc \in Answering => Peers!Owing(held.type) /\ held.type \in Peers!Asking
           /\ pc \notin Answering => ~Peers!InDebt
  <1>1. CASE pc \in Answering
    <2>1. log # <<>> /\ log[Len(log)] = Received(held) /\ NeedsAnswer(held)
      BY <1>1 DEF AnswerInv
    <2>2. Transcript # <<>> /\ Peers!Last(Transcript) = Peers!Heard(held.type)
      BY <2>1, LastUttered, HeardAs
    <2> QED
      BY <1>1, <2>1, <2>2 DEF Peers!Owing, Peers!Asking, NeedsAnswer
  <1>2. CASE pc \notin Answering
    <2>1. SUFFICES ASSUME log # <<>> PROVE Peers!Last(Transcript).kind \notin Peers!Asking
                                           \/ Peers!Last(Transcript).by # "peer"
      BY <1>2, LastUttered DEF Peers!InDebt, Peers!Owing, Peers!Heard
    <2>2. ~Asks(log[Len(log)]) /\ log[Len(log)] \in LogEntry
      BY <1>2, <2>1 DEF AnswerInv, AnswersFollow, Answering, TypeOK
    <2>3. Peers!Last(Transcript) = Utterance(log[Len(log)])
      BY <2>1, LastUttered
    <2> QED
      BY <2>2, <2>3 DEF Utterance, HeardKind, Peers!Asking
  <1> QED
    BY <1>1, <1>2

(***************************************************************************)
(* Leave-taking.                                                           *)
(***************************************************************************)
\* The last entry is a GOAWAY of the peer.
Bidden == log # <<>> /\ HearsGoAway(log[Len(log)])

\* A command about to send its GOAWAY has heard something else last, even
\* where a GOAWAY in the handshake was forgotten: the limit of the observe
\* loop is reached by a frame of that loop.
FarewellInv ==
    /\ received > 0 => pc \in {"receive", "receive_answer", "finish", "flush", "exited"}
    /\ pc = "receive" /\ received > 0 => ~Bidden
    /\ pc = "finish" /\ ~sawGoAway => ~Bidden

\* Nothing was received at first, and every step preserves the invariant.
LEMMA FarewellInit == Init => FarewellInv
  BY DEF Init, FarewellInv

LEMMA FarewellStep == TypeOK /\ FarewellInv /\ [Next]_vars => FarewellInv'
  <1> SUFFICES ASSUME TypeOK, FarewellInv, [Next]_vars PROVE FarewellInv'
    OBVIOUS
  <1>1. ASSUME NEW f \in Frame, NEW next, SendFrameAndReport(f, next),
               pc # "exited", pc # "finish", next # "finish", received' = received,
               received > 0 => pc \in {"receive", "receive_answer"} /\ next = "receive"
        PROVE  FarewellInv'
    <2>1. Sent(f) \in LogEntry /\ ~HearsGoAway(Sent(f))
      BY DEF Sent, LogEntry, HearsGoAway
    <2>2. log' = Append(log, Sent(f)) => ~Bidden'
      BY <2>1, Grows DEF Bidden, HearsGoAway
    <2>3. \/ pc' = "exited"
          \/ pc' = next /\ log' = Append(log, Sent(f))
      BY <1>1 DEF SendFrameAndReport, Continue, Exit
    <2> QED
      BY <1>1, <2>2, <2>3 DEF FarewellInv
  <1>2. Bidden' <=> log' # <<>> /\ HearsGoAway(log'[Len(log')])
    BY DEF Bidden, HearsGoAway
  <1>3. CASE Dial \/ PrepareRequest \/ ReceiveFails \/ Flush
    BY <1>3 DEF Dial, PrepareRequest, ReceiveFails, Flush, Continue, Exit, FarewellInv
  <1>4. CASE SendPreface \/ SendSettings
    <2>1. ConnectionPreface \in Frame /\ SettingsFrame({}) \in Frame
      BY ConstructorTypes
    <2> QED
      BY <1>1, <1>4, <2>1 DEF SendPreface, SendSettings, FarewellInv
  <1>5. CASE HandshakeReceive
    <2>1. received' = received /\ pc = "handshake" /\ pc' # "finish"
      BY <1>5, ConfigType DEF HandshakeReceive, HandshakeNext, Continue, Exit
    <2>2. ~(received > 0)
      BY <2>1 DEF FarewellInv
    <2> QED
      BY <2>1, <2>2 DEF FarewellInv
  <1>6. CASE HandshakeAnswer \/ ReceiveAnswer
    <2>1. Answer(held) \in Frame
      <3>1. {"ACK"} \in SUBSET Flags /\ held.payload \in Seq(Item)
        BY DEF Flags, TypeOK, Frame
      <3> QED
        BY <3>1, ConstructorTypes DEF Answer
    <2>2. CASE HandshakeAnswer
      <3> DEFINE next == IF held.type = "SETTINGS" THEN AfterHandshake ELSE "handshake"
      <3>1. /\ SendFrameAndReport(Answer(held), next) /\ next # "finish"
            /\ pc = "handshake_answer" /\ received' = received
        BY <2>2, ConfigType DEF HandshakeAnswer
      <3> HIDE DEF next
      <3>2. ~(received > 0)
        BY <3>1 DEF FarewellInv
      <3> QED
        BY <1>1, <2>1, <3>1, <3>2
    <2>3. CASE ReceiveAnswer
      BY <1>1, <2>1, <2>3 DEF ReceiveAnswer
    <2> QED
      BY <1>6, <2>2, <2>3
  <1>7. CASE SendHeaders \/ SendData \/ SendPing
    <2>1. /\ HeadersFrame(cfg.streamID, {"END_HEADERS", "END_STREAM"}, cfg.fields) \in Frame
          /\ HeadersFrame(cfg.streamID, {"END_HEADERS"}, cfg.fields) \in Frame
          /\ DataFrame(cfg.streamID, {"END_STREAM"}, cfg.body) \in Frame
          /\ PingFrame({}, cfg.pingData) \in Frame
      BY ConfigType, ConstructorTypes DEF Flags
    <2>2. pc \in {"headers", "data", "ping"} /\ received' = received /\ ~(received > 0)
      BY <1>7 DEF SendHeaders, SendData, SendPing, FarewellInv
    <2>3. \/ \E f \in Frame, next \in {"receive", "data"} : SendFrameAndReport(f, next)
          \/ pc' = "exited"
      BY <1>7, <2>1 DEF SendHeaders, SendData, SendPing, Exit
    <2>4. pc' = "exited" => FarewellInv'
      BY DEF FarewellInv
    <2> QED
      BY <1>1, <2>2, <2>3, <2>4
  <1>8. CASE ReceiveResponse \/ ReceivePing \/ ReceiveObserve
    <2>1. /\ Received(Incoming) \in LogEntry /\ log' = Append(log, Received(Incoming))
          /\ pc = "receive"
      BY <1>8, ReceiveType DEF ReceiveResponse, ReceivePing, ReceiveObserve, ReceiveFrame,
                               Received, LogEntry
    <2>2. Bidden' <=> Incoming.type = "GOAWAY"
      BY <1>2, <2>1, Grows DEF HearsGoAway, Received
    <2>3. \/ pc' = "exited"
          \/ /\ pc' \in {"receive", "receive_answer", "finish"}
             /\ sawGoAway' <=> Incoming.type = "GOAWAY"
             /\ Incoming.type = "GOAWAY" => pc' = "finish"
      BY <1>8 DEF ReceiveResponse, ReceivePing, ReceiveObserve, ResponseNext, PingNext,
                  ObserveNext, NeedsAnswer, Continue, Exit
    <2> QED
      BY <2>2, <2>3 DEF FarewellInv
  <1>9. CASE ObserveLimit
    <2>1. received > 0
      BY <1>9, ConfigType DEF ObserveLimit, AtLimit, TypeOK
    <2> QED
      BY <1>9, <2>1, <1>2 DEF ObserveLimit, Continue, FarewellInv, Bidden
  <1>10. CASE SendGoAway
    BY <1>10 DEF SendGoAway, Continue, FarewellInv
  <1>11. CASE Environment \/ UNCHANGED vars
    BY <1>11, <1>2 DEF Environment, PeerSend, PeerClose, Expire, vars, client, FarewellInv, Bidden
  <1> QED
    BY <1>3, <1>4, <1>5, <1>6, <1>7, <1>8, <1>9, <1>10, <1>11 DEF Next, ClientStep, Terminated

(***************************************************************************)
(* The refinement.                                                         *)
(***************************************************************************)
\* A step of the conversation, or none.
Goes == Peers!Next \/ (Phase' = Phase /\ Transcript' = Transcript)

\* A failure before or after the frame f, whose place in the conversation
\* Fail allows.
LEMMA FailsSaying ==
    ASSUME pc \notin {"flush", "exited"}, pc \in PCs, pc' = "exited", NEW kind,
           Transcript' \in {Transcript, Append(Transcript, Peers!Said(kind))},
           \/ pc \in {"preface", "settings"} /\ kind \in {"preface", "greeting"}
           \/ pc \in {"headers", "data", "ping"} /\ kind = "work"
           \/ /\ pc \in {"handshake_answer", "receive_answer"}
              /\ kind \in Peers!Asking /\ Peers!Owing(kind)
    PROVE  Peers!Fail
  <1>1. Phase' = "closed" /\ Phase # "closed"
    BY Phases DEF Phase, PCs
  <1>2. /\ pc \in {"preface", "settings"} => Phase = "greeting"
        /\ pc \in {"headers", "data", "ping"} => Phase = "working"
        /\ pc \in {"handshake_answer", "receive_answer"} => Phase \in {"shaking", "waiting"}
    BY Phases DEF Phase
  <1> QED
    BY <1>1, <1>2 DEF Peers!Fail, Peers!Say

\* The prologue.
LEMMA PrologueGoes ==
    ASSUME TypeOK, OrderInv, SendPreface \/ SendSettings
    PROVE  Peers!Next
  <1>1. CASE SendPreface
    <2>1. /\ SendFrameAndReport(ConnectionPreface, "settings") /\ pc = "preface"
          /\ ConnectionPreface \in Frame
          /\ Utterance(Sent(ConnectionPreface)) = Peers!Said("preface")
      BY <1>1, ConstructorTypes, SaidAs DEF SendPreface, ConnectionPreface
    <2>2. Transcript = <<>> /\ Phase = "greeting"
      BY <2>1, LastUttered, Phases DEF OrderInv, TypeOK, Phase
    <2>3. CASE pc' = "settings" /\ Transcript' = Append(Transcript, Peers!Said("preface"))
      BY <2>1, <2>2, <2>3, Phases DEF Phase, Peers!Next, Peers!Greet, Peers!Say
    <2>4. CASE /\ pc' = "exited"
               /\ Transcript' \in {Transcript, Append(Transcript, Peers!Said("preface"))}
      BY <2>1, <2>4, FailsSaying DEF Peers!Next, PCs
    <2> QED
      BY <2>1, <2>3, <2>4, Says
  <1>2. CASE SendSettings
    <2>1. /\ SendFrameAndReport(SettingsFrame({}), "handshake") /\ pc = "settings"
          /\ SettingsFrame({}) \in Frame
          /\ Utterance(Sent(SettingsFrame({}))) = Peers!Said("greeting")
      BY <1>2, ConstructorTypes, SaidAs DEF SendSettings, SettingsFrame
    <2>2. Transcript # <<>> /\ Phase = "greeting"
      <3>1. Len(log) = 1 /\ log # <<>>
        BY <2>1 DEF OrderInv
      <3> QED
        BY <2>1, <3>1, LastUttered, Phases DEF Phase
    <2>3. CASE pc' = "handshake" /\ Transcript' = Append(Transcript, Peers!Said("greeting"))
      BY <2>1, <2>2, <2>3, Phases DEF Phase, Peers!Next, Peers!Greet, Peers!Say
    <2>4. CASE /\ pc' = "exited"
               /\ Transcript' \in {Transcript, Append(Transcript, Peers!Said("greeting"))}
      BY <2>1, <2>4, FailsSaying DEF Peers!Next, PCs
    <2> QED
      BY <2>1, <2>3, <2>4, Says
  <1> QED
    BY <1>1, <1>2

\* The answers.
LEMMA AnswerGoes ==
    ASSUME TypeOK, AnswerInv, HandshakeAnswer \/ ReceiveAnswer
    PROVE  Peers!Next
  <1> DEFINE next == IF pc = "receive_answer" THEN "receive"
                     ELSE IF held.type = "SETTINGS" THEN AfterHandshake ELSE "handshake"
  <1>1. /\ SendFrameAndReport(Answer(held), next) /\ pc \in Answering
        /\ pc \in {"handshake_answer", "receive_answer"}
    BY DEF HandshakeAnswer, ReceiveAnswer, Answering
  <1>2. held \in Frame /\ NeedsAnswer(held)
    BY <1>1 DEF AnswerInv, TypeOK
  <1>3. Answer(held) \in Frame /\ Utterance(Sent(Answer(held))) = Peers!Said(held.type)
    <2>1. {"ACK"} \in SUBSET Flags /\ held.payload \in Seq(Item)
      BY <1>2 DEF Flags, Frame
    <2>2. Answer(held) \in Frame /\ "ACK" \in Answer(held).flags /\ Answer(held).type = held.type
      BY <1>2, <2>1, ConstructorTypes DEF Answer, SettingsFrame, PingFrame, NeedsAnswer
    <2> QED
      BY <2>2, SaidAs
  <1>4. Peers!Owing(held.type) /\ held.type \in Peers!Asking
    BY <1>1, Debts DEF Answering
  <1>5. CASE pc' = next /\ Transcript' = Append(Transcript, Peers!Said(held.type))
    <2>1. CASE pc = "receive_answer"
      <3>1. Phase = "waiting" /\ Phase' = "waiting"
        BY <1>5, <2>1, Phases DEF Phase
      <3> QED
        BY <1>4, <1>5, <3>1 DEF Peers!Next, Peers!Reply, Peers!Say
    <2>2. CASE pc = "handshake_answer" /\ held.type # "SETTINGS"
      <3>1. Phase = "shaking" /\ Phase' = "shaking"
        BY <1>5, <2>2, Phases DEF Phase
      <3> QED
        BY <1>4, <1>5, <2>2, <3>1 DEF Peers!Next, Peers!Reply, Peers!Say
    <2>3. CASE pc = "handshake_answer" /\ held.type = "SETTINGS"
      <3>1. Phase = "shaking" /\ Phase' \in {"working", "waiting"}
        BY <1>5, <2>3, ConfigType, Phases DEF Phase
      <3> QED
        BY <1>4, <1>5, <2>3, <3>1 DEF Peers!Next, Peers!Reply, Peers!Say, Peers!GoToWork
    <2> QED
      BY <1>1, <2>1, <2>2, <2>3
  <1>6. CASE /\ pc' = "exited"
             /\ Transcript' \in {Transcript, Append(Transcript, Peers!Said(held.type))}
    BY <1>1, <1>4, <1>6, FailsSaying DEF Peers!Next, PCs
  <1> HIDE DEF next
  <1> QED
    BY <1>1, <1>3, <1>5, <1>6, Says

\* What is heard, and where.
LEMMA ReceiveGoes ==
    ASSUME TypeOK, AnswerInv,
           HandshakeReceive \/ ReceiveResponse \/ ReceivePing \/ ReceiveObserve
    PROVE  Peers!Next
  <1> DEFINE kind == IF NeedsAnswer(Incoming) \/ Incoming.type = "GOAWAY" THEN Incoming.type
                     ELSE "other"
  <1>1. pc \in {"handshake", "receive"} /\ ReceiveFrame
    BY DEF HandshakeReceive, ReceiveResponse, ReceivePing, ReceiveObserve
  <1>2. Transcript' = Append(Transcript, Peers!Heard(kind))
    BY <1>1, Hears, HeardAs
  <1>3. /\ NeedsAnswer(Incoming) => kind = Incoming.type /\ kind \in Peers!Asking
        /\ kind \in Peers!Kinds
        /\ kind = "GOAWAY" <=> Incoming.type = "GOAWAY"
        /\ ~NeedsAnswer(Incoming) /\ Incoming.type # "GOAWAY" => kind = "other"
    BY DEF NeedsAnswer, Peers!Asking, Peers!Kinds
  <1> HIDE DEF kind
  <1>4. Peers!Listening /\ Phase = IF pc = "handshake" THEN "shaking" ELSE "waiting"
    BY <1>1, Debts, Phases DEF Phase, Peers!Listening, Answering
  <1>5. CASE pc' = "exited"
    BY <1>2, <1>3, <1>4, <1>5, Phases DEF Phase, Peers!Next, Peers!Fail, Peers!Hear
  <1>6. CASE pc' # "exited" /\ HandshakeReceive
    <2>1. pc = "handshake" /\ pc' = HandshakeNext(Incoming)
      BY <1>6 DEF HandshakeReceive, Continue, Exit
    <2>2. CASE NeedsAnswer(Incoming)
      <3>1. pc' = "handshake_answer"
        <4>1. Incoming.type # "GOAWAY"
          BY <2>2 DEF NeedsAnswer
        <4> QED
          BY <2>1, <2>2, <4>1 DEF HandshakeNext
      <3>2. Phase' = Phase
        BY <1>4, <2>1, <3>1, Phases DEF Phase
      <3> QED
        BY <1>2, <1>3, <1>4, <2>2, <3>2 DEF Peers!Next, Peers!Listen, Peers!Hear
    <2>3. CASE Incoming.type = "GOAWAY"
      <3>1. Phase' \in {"working", "waiting"}
        BY <2>1, <2>3, ConfigType, Phases DEF HandshakeNext, NeedsAnswer, Phase
      <3> QED
        BY <1>2, <1>3, <1>4, <2>1, <2>3, <3>1
           DEF Peers!Next, Peers!Listen, Peers!Hear, Peers!GoToWork
    <2>4. CASE ~NeedsAnswer(Incoming) /\ Incoming.type # "GOAWAY"
      <3>1. Phase' = Phase
        BY <1>4, <2>1, <2>4, Phases DEF HandshakeNext, Phase
      <3> QED
        BY <1>2, <1>3, <1>4, <2>4, <3>1 DEF Peers!Next, Peers!Listen, Peers!Hear
    <2> QED
      BY <2>2, <2>3, <2>4
  <1>7. CASE pc' # "exited" /\ (ReceiveResponse \/ ReceivePing \/ ReceiveObserve)
    <2>1. /\ pc = "receive"
          /\ NeedsAnswer(Incoming) => pc' = "receive_answer"
          /\ Incoming.type = "GOAWAY" => pc' = "finish"
          /\ ~NeedsAnswer(Incoming) => pc' \in {"receive", "finish"}
      <3>1. Incoming.type = "GOAWAY" => ~NeedsAnswer(Incoming)
        BY DEF NeedsAnswer
      <3>2. NeedsAnswer(Incoming) => /\ ~EndsResponse(Incoming, IncomingEvent)
                                     /\ ~EndsPing(Incoming)
        BY DEF NeedsAnswer, EndsResponse, EndsPing, IncomingEvent, Consume, Keep, NoBlock
      <3>3. CASE ReceiveResponse
        <4>1. pc' = ResponseNext(Incoming, IncomingEvent)
          BY <1>7, <3>3 DEF ReceiveResponse, Continue, Exit
        <4> QED
          BY <3>1, <3>2, <3>3, <4>1 DEF ReceiveResponse, ResponseNext
      <3>4. CASE ReceivePing
        <4>1. pc' = PingNext(Incoming)
          BY <1>7, <3>4 DEF ReceivePing, Continue, Exit
        <4> QED
          BY <3>1, <3>2, <3>4, <4>1 DEF ReceivePing, PingNext
      <3>5. CASE ReceiveObserve
        <4>1. pc' = ObserveNext(Incoming)
          BY <1>7, <3>5 DEF ReceiveObserve, Continue, Exit
        <4> QED
          BY <3>1, <3>5, <4>1 DEF ReceiveObserve, ObserveNext
      <3> QED
        BY <1>7, <3>3, <3>4, <3>5
    <2>2. /\ NeedsAnswer(Incoming) => Phase' = "waiting"
          /\ Incoming.type = "GOAWAY" => Phase' = "leaving"
          /\ ~NeedsAnswer(Incoming) => Phase' \in {"waiting", "leaving"}
          /\ Phase = "waiting"
      BY <1>4, <2>1, Phases DEF Phase
    <2> QED
      BY <1>2, <1>3, <1>4, <2>2 DEF Peers!Next, Peers!Listen, Peers!Hear, NeedsAnswer
  <1> QED
    BY <1>5, <1>6, <1>7

\* The command's own frames.
LEMMA WorkGoes ==
    ASSUME TypeOK, SendHeaders \/ SendData \/ SendPing
    PROVE  Peers!Next
  <1>1. pc \in {"headers", "data", "ping"} /\ Phase = "working"
    BY Phases DEF SendHeaders, SendData, SendPing, Phase
  <1>2. ASSUME NEW f \in Frame, NEW next \in {"receive", "data"}, SendFrameAndReport(f, next),
               f.type \in {"HEADERS", "DATA", "PING"}, "ACK" \notin f.flags
        PROVE  Peers!Next
    <2>1. Utterance(Sent(f)) = Peers!Said("work")
      BY <1>2, SaidAs
    <2>2. CASE pc' = next /\ Transcript' = Append(Transcript, Peers!Said("work"))
      <3>1. Phase' \in {"working", "waiting"}
        BY <1>2, <2>2, Phases DEF Phase
      <3> QED
        BY <1>1, <2>2, <3>1 DEF Peers!Next, Peers!Work, Peers!Say, Peers!GoToWork
    <2>3. CASE /\ pc' = "exited"
               /\ Transcript' \in {Transcript, Append(Transcript, Peers!Said("work"))}
      BY <1>1, <2>3, FailsSaying DEF Peers!Next, PCs
    <2> QED
      BY <1>2, <2>1, <2>2, <2>3, Says
  <1>3. CASE SendHeaders
    <2> DEFINE f(flags) == HeadersFrame(cfg.streamID, flags, cfg.fields)
    <2>1. /\ f({"END_HEADERS", "END_STREAM"}) \in Frame /\ f({"END_HEADERS"}) \in Frame
          /\ \A flags : f(flags).type = "HEADERS" /\ f(flags).flags = flags
      BY ConfigType, ConstructorTypes DEF Flags, HeadersFrame
    <2>2. \/ SendFrameAndReport(f({"END_HEADERS", "END_STREAM"}), "receive")
          \/ SendFrameAndReport(f({"END_HEADERS"}), "data")
      BY <1>3 DEF SendHeaders
    <2> HIDE DEF f
    <2> QED
      BY <1>2, <2>1, <2>2
  <1>4. CASE SendData
    <2>1. /\ DataFrame(cfg.streamID, {"END_STREAM"}, cfg.body) \in Frame
          /\ DataFrame(cfg.streamID, {"END_STREAM"}, cfg.body).type = "DATA"
          /\ "ACK" \notin DataFrame(cfg.streamID, {"END_STREAM"}, cfg.body).flags
      BY ConfigType, ConstructorTypes DEF Flags, DataFrame
    <2> QED
      BY <1>2, <1>4, <2>1 DEF SendData
  <1>5. CASE SendPing
    <2>1. /\ PingFrame({}, cfg.pingData) \in Frame
          /\ PingFrame({}, cfg.pingData).type = "PING"
          /\ "ACK" \notin PingFrame({}, cfg.pingData).flags
      BY ConfigType, ConstructorTypes DEF PingFrame
    <2>2. CASE SendFrameAndReport(PingFrame({}, cfg.pingData), "receive")
      BY <1>2, <2>1, <2>2
    <2>3. CASE pc' = "exited" /\ log' = log
      <3>1. Transcript' = Transcript
        BY <2>3 DEF Transcript
      <3> QED
        BY <1>1, <2>3, <3>1, FailsSaying DEF Peers!Next, PCs
    <2> QED
      BY <1>5, <2>2, <2>3 DEF SendPing, Exit
  <1> QED
    BY <1>3, <1>4, <1>5

\* The farewell.
LEMMA FarewellGoes ==
    ASSUME TypeOK, AnswerInv, FarewellInv, SendGoAway
    PROVE  Peers!Next
  <1>1. Phase = "leaving" /\ Phase' = "closed"
    BY Phases DEF SendGoAway, Continue, Phase
  <1>2. CASE log' = log
    <2>1. Transcript' = Transcript
      BY <1>2 DEF Transcript
    <2> QED
      BY <1>1, <2>1 DEF Peers!Next, Peers!TakeLeave
  <1>3. CASE ~sawGoAway /\ log' = Append(log, Sent(GoAwayFrame))
    <2>1. Sent(GoAwayFrame) \in LogEntry /\ Utterance(Sent(GoAwayFrame)) = Peers!Said("farewell")
      BY ConstructorTypes, SaidAs DEF GoAwayFrame, Sent, LogEntry
    <2>2. Transcript' = Append(Transcript, Peers!Said("farewell"))
      BY <1>3, <2>1, TranscriptGrows
    <2>3. ~Bidden
      BY <1>3 DEF FarewellInv, SendGoAway
    <2>4. ASSUME log # <<>> PROVE Utterance(log[Len(log)]) # Peers!Heard("GOAWAY")
      <3>1. log[Len(log)] \in LogEntry /\ ~HearsGoAway(log[Len(log)])
        BY <2>3, <2>4 DEF Bidden, TypeOK
      <3> QED
        BY <3>1 DEF Utterance, HeardKind, HearsGoAway, Peers!Heard, LogEntry
    <2>5. ~Peers!Owing("GOAWAY")
      BY <2>4, LastUttered DEF Peers!Owing
    <2> QED
      BY <1>1, <2>2, <2>5 DEF Peers!Next, Peers!TakeLeave, Peers!Say
  <1> QED
    BY <1>2, <1>3 DEF SendGoAway, OwesGoAway

\* Steps without a word.
LEMMA QuietGoes ==
    ASSUME TypeOK, AnswerInv, log' = log,
           \/ Dial \/ PrepareRequest \/ ReceiveFails \/ ObserveLimit \/ Flush
           \/ Environment \/ UNCHANGED vars
    PROVE  Goes
  <1>1. Transcript' = Transcript
    BY DEF Transcript
  <1>2. CASE pc' = "exited" /\ pc \in {"dial", "prepare", "handshake", "receive"}
    <2>1. Phase' = "closed" /\ Phase # "closed"
      BY <1>2, Phases DEF Phase
    <2> QED
      BY <1>1, <2>1 DEF Goes, Peers!Next, Peers!Fail
  <1>3. CASE pc = "dial" /\ pc' = "preface"
    BY <1>1, <1>3, Phases DEF Goes, Phase, Peers!Next, Peers!Connect
  <1>4. CASE \/ pc = "prepare" /\ pc' = "headers"
             \/ pc = "flush" /\ pc' = "exited"
             \/ pc' = pc
    BY <1>1, <1>4, Phases DEF Goes, Phase
  <1>5. CASE pc = "receive" /\ pc' = "finish"
    <2>1. Phase = "waiting" /\ Phase' = "leaving"
      BY <1>5, Phases DEF Phase
    <2>2. ~Peers!InDebt
      BY <1>5, Debts DEF Answering
    <2> QED
      BY <1>1, <2>1, <2>2 DEF Goes, Peers!Next, Peers!StopWaiting, Peers!Listening
  <1> QED
    BY <1>2, <1>3, <1>4, <1>5
       DEF Dial, PrepareRequest, ReceiveFails, ObserveLimit, Flush, Continue, Exit,
           Environment, PeerSend, PeerClose, Expire, vars, client

\* Initially nothing is said; and every step is a step of the conversation or
\* none.
LEMMA ConversationInit == Init => Peers!Init
  <1> SUFFICES ASSUME Init PROVE Peers!Init
    OBVIOUS
  <1>1. Transcript = <<>>
    BY DEF Init, Transcript
  <1> QED
    BY <1>1, Phases DEF Init, Phase, Peers!Init

LEMMA ConversationStep ==
    TypeOK /\ AnswerInv /\ OrderInv /\ FarewellInv /\ [Next]_vars => [Peers!Next]_(Peers!vars)
  <1> SUFFICES ASSUME TypeOK, AnswerInv, OrderInv, FarewellInv, [Next]_vars PROVE Goes
    BY DEF Goes, Peers!vars
  <1>1. CASE \/ Dial \/ PrepareRequest \/ ReceiveFails \/ ObserveLimit \/ Flush
             \/ Environment \/ UNCHANGED vars
    <2>1. log' = log
      BY <1>1 DEF Dial, PrepareRequest, ReceiveFails, ObserveLimit, Flush, Environment,
                  PeerSend, PeerClose, Expire, vars
    <2> QED
      BY <1>1, <2>1, QuietGoes
  <1>2. CASE SendPreface \/ SendSettings
    BY <1>2, PrologueGoes DEF Goes
  <1>3. CASE HandshakeAnswer \/ ReceiveAnswer
    BY <1>3, AnswerGoes DEF Goes
  <1>4. CASE HandshakeReceive \/ ReceiveResponse \/ ReceivePing \/ ReceiveObserve
    BY <1>4, ReceiveGoes DEF Goes
  <1>5. CASE SendHeaders \/ SendData \/ SendPing
    BY <1>5, WorkGoes DEF Goes
  <1>6. CASE SendGoAway
    BY <1>6, FarewellGoes DEF Goes
  <1> QED
    BY <1>1, <1>2, <1>3, <1>4, <1>5, <1>6 DEF Next, ClientStep, Terminated

\* The safety half of HoldsConversation: every run of request, ping or
\* observe, with whatever peer, is a run of the conversation, step by step:
\* run(), startSession and the receive loops. (That the client never keeps the
\* peer waiting is liveness.)
THEOREM ConversationHeld == Spec => Peers!SafeSpec
  <1>1. Spec => []AnswerInv
    BY AnswerInit, AnswerStep, TypeCorrect, PTL DEF Spec
  <1>2. Spec => []OrderInv
    BY <1>1, OrderInit, OrderStep, TypeCorrect, PTL DEF Spec
  <1>3. Spec => []FarewellInv
    BY FarewellInit, FarewellStep, TypeCorrect, PTL DEF Spec
  <1> QED
    BY <1>1, <1>2, <1>3, ConversationInit, ConversationStep, TypeCorrect, PTL
       DEF Spec, Peers!SafeSpec

(***************************************************************************)
(* Joining texts                                                           *)
(***************************************************************************)
\* content is the pieces I of text, and all of it is well formed.
Joined(content, I, text) ==
    /\ content \in Seq(Item) /\ I \subseteq Nat
    /\ \A i \in I : text[i] \in Seq(Item)
    /\ IsFiniteSet(Items(I, text))
    /\ Joins(content, I, text)

\* An item, and where it stands.
LEMMA ItemIs ==
    ASSUME NEW I, NEW text, NEW p
    PROVE  /\ p \in Items(I, text) <=> \E i \in I : \E k \in DOMAIN text[i] : p = <<i, k>>
           /\ p \in Items(I, text) => p[1] \in I /\ p[2] \in DOMAIN text[p[1]]
  BY DEF Items

\* Items have their places within the text.
LEMMA Ranked ==
    ASSUME NEW S, IsFiniteSet(S), NEW p \in S, p[1] \in Nat, p[2] \in Nat
    PROVE  /\ IsFiniteSet(UpTo(p, S))
           /\ Cardinality(UpTo(p, S)) \in 1..Cardinality(S)
  <1>1. UpTo(p, S) \subseteq S /\ p \in UpTo(p, S)
    BY DEF UpTo
  <1>2. /\ IsFiniteSet(UpTo(p, S)) /\ Cardinality(UpTo(p, S)) <= Cardinality(S)
        /\ Cardinality(UpTo(p, S)) \in Nat /\ Cardinality(S) \in Nat
    BY <1>1, FS_Subset, FS_CardinalityType
  <1>3. Cardinality(UpTo(p, S)) # 0
    BY <1>1, <1>2, FS_EmptySet
  <1> QED
    BY <1>2, <1>3

\* Nothing joins to the empty text.
LEMMA JoinsNothing == ASSUME NEW text PROVE Joined(<<>>, {}, text)
  <1>1. Items({}, text) = {}
    BY DEF Items
  <1> QED
    BY <1>1, FS_EmptySet DEF Joined, Joins

\* What begins as a text that pieces join to is a beginning of them.
LEMMA JoinsBegins ==
    ASSUME NEW text, NEW c, NEW I, Joined(c, I, text), \A i \in I : i \in Nat,
           NEW d, Len(d) \in Nat, Len(d) <= Len(c), \A i \in 1..Len(d) : d[i] = c[i]
    PROVE  Begins(d, I, text)
  <1>1. PICK S : S = Items(I, text)
    OBVIOUS
  <1>2. /\ IsFiniteSet(S) /\ Len(c) = Cardinality(S)
        /\ \A p \in S : c[Cardinality(UpTo(p, S))] = text[p[1]][p[2]]
    BY <1>1 DEF Joined, Joins
  <1>3. ASSUME NEW p \in S PROVE Cardinality(UpTo(p, S)) \in 1..Cardinality(S)
    <2>1. PICK i \in I : \E k \in DOMAIN text[i] : p = <<i, k>>
      BY <1>1, ItemIs
    <2>2. p[1] \in Nat /\ p[2] \in Nat
      <3>1. PICK k \in DOMAIN text[i] : p = <<i, k>>
        BY <2>1
      <3>2. text[i] \in Seq(Item)
        BY DEF Joined
      <3>3. k \in Nat
        BY <3>1, <3>2
      <3> QED
        BY <3>1, <3>3
    <2> QED
      BY <1>2, <2>2, Ranked
  <1>4. \A p \in S : Cardinality(UpTo(p, S)) <= Len(d) =>
                        d[Cardinality(UpTo(p, S))] = text[p[1]][p[2]]
    BY <1>2, <1>3
  <1> QED
    BY <1>1, <1>2, <1>4 DEF Begins

\* One piece is its own text.
LEMMA JoinsOne ==
    ASSUME NEW text, NEW i \in Nat, text[i] \in Seq(Item)
    PROVE  Joined(text[i], {i}, text)
  <1> DEFINE S == Items({i}, text)
  <1>1. PICK c \in Seq(Item) : c = text[i]
    OBVIOUS
  <1>2. PICK n \in Nat : n = Len(c)
    OBVIOUS
  <1>3. \A p : p \in S <=> \E k \in 1..n : p = <<i, k>>
    BY <1>1, <1>2, ItemIs
  <1>4. ASSUME NEW k \in Nat, NEW T, \A p : p \in T <=> \E l \in 1..k : p = <<i, l>>
        PROVE  IsFiniteSet(T) /\ Cardinality(T) = k
    <2>1. PICK L, K : L = {i} /\ K = 1..k
      OBVIOUS
    <2>2. /\ IsFiniteSet(L) /\ Cardinality(L) = 1
          /\ IsFiniteSet(K) /\ Cardinality(K) = k
      <3>1. PICK a \in Int : a = 1
        OBVIOUS
      <3>2. IsFiniteSet(a..k) /\ Cardinality(a..k) = IF a > k THEN 0 ELSE k - a + 1
        BY FS_Interval
      <3>3. IsFiniteSet(K) /\ Cardinality(K) = k
        BY <2>1, <3>1, <3>2
      <3> QED
        BY <2>1, <3>3, FS_Singleton
    <2>3. IsFiniteSet(L \X K) /\ Cardinality(L \X K) = k
      <3>1. IsFiniteSet(L \X K) /\ Cardinality(L \X K) = Cardinality(L) * Cardinality(K)
        BY <2>2, FS_Product
      <3>2. 1 * k = k
        OBVIOUS
      <3> QED
        BY <2>2, <3>1, <3>2
    <2>4. T = L \X K
      BY <1>4, <2>1
    <2> QED
      BY <2>3, <2>4
  <1> HIDE DEF S
  <1>5. IsFiniteSet(S) /\ Len(c) = Cardinality(S)
    BY <1>2, <1>3, <1>4
  <1>6. ASSUME NEW p \in S PROVE c[Cardinality(UpTo(p, S))] = text[p[1]][p[2]]
    <2>1. PICK k \in 1..n : p = <<i, k>>
      BY <1>3
    <2>2. \A q : q \in UpTo(p, S) <=> \E l \in 1..k : q = <<i, l>>
      <3>1. ASSUME NEW q PROVE q \in UpTo(p, S) <=> q \in S /\ (q[1] < i \/ (q[1] = i /\ q[2] <= k))
        BY <2>1 DEF UpTo
      <3>2. \A l \in 1..n : l \in 1..k <=> l <= k
        OBVIOUS
      <3> QED
        BY <1>3, <3>1, <3>2
    <2>3. k \in Nat /\ Cardinality(UpTo(p, S)) = k
      BY <1>4, <2>2
    <2> QED
      BY <1>1, <2>1, <2>3
  <1> QED
    BY <1>1, <1>5, <1>6 DEF Joined, Joins, S

\* Pieces of the same content, in whatever text.
LEMMA JoinsOther ==
    ASSUME NEW text, NEW other, NEW c, NEW I, Joined(c, I, text), \A i \in I : text[i] = other[i]
    PROVE  Joined(c, I, other)
  <1>1. Items(I, other) = Items(I, text)
    BY DEF Items
  <1>2. \A p \in Items(I, text) : other[p[1]][p[2]] = text[p[1]][p[2]]
    BY ItemIs
  <1> QED
    BY <1>1, <1>2 DEF Joined, Joins

\* A text is empty if its pieces are.
LEMMA JoinsEmpty ==
    ASSUME NEW text, NEW c, NEW I, Joined(c, I, text)
    PROVE  c # <<>> <=> \E i \in I : text[i] # <<>>
  <1>1. c \in Seq(Item) /\ Len(c) = Cardinality(Items(I, text)) /\ IsFiniteSet(Items(I, text))
    BY DEF Joined, Joins
  <1>2. c # <<>> <=> Items(I, text) # {}
    BY <1>1, FS_EmptySet
  <1>3. ASSUME NEW i \in I PROVE text[i] # <<>> <=> \E k \in DOMAIN text[i] : TRUE
    <2>1. PICK t \in Seq(Item) : t = text[i]
      BY DEF Joined
    <2>2. t # <<>> <=> \E k \in DOMAIN t : TRUE
      OBVIOUS
    <2> QED
      BY <2>1, <2>2
  <1>4. Items(I, text) # {} <=> \E i \in I : \E k \in DOMAIN text[i] : TRUE
    <2>1. \A p : p \in Items(I, text) <=> \E i \in I : \E k \in DOMAIN text[i] : p = <<i, k>>
      BY ItemIs
    <2> QED
      BY <2>1
  <1> QED
    BY <1>2, <1>3, <1>4

\* Two texts, one after the other.
LEMMA JoinsAppend ==
    ASSUME NEW text, NEW c, NEW d, NEW I, NEW J, Joined(c, I, text), Joined(d, J, text),
           \A i \in I, j \in J : i < j
    PROVE  Joined(c \o d, I \cup J, text)
  <1> DEFINE A == Items(I, text)
             B == Items(J, text)
  <1>1. Items(I \cup J, text) = A \cup B
    BY DEF Items
  <1>2. /\ \A p \in A : p[1] \in I /\ p[1] \in Nat /\ p[2] \in Nat
        /\ \A q \in B : q[1] \in J /\ q[1] \in Nat /\ q[2] \in Nat
    <2>1. ASSUME NEW p, p \in A \/ p \in B PROVE p[2] \in Nat
      <3>1. PICK i \in I \cup J : p[1] = i /\ p[2] \in DOMAIN text[i]
        BY <2>1, ItemIs
      <3>2. text[i] \in Seq(Item)
        BY DEF Joined
      <3> QED
        BY <3>1, <3>2
    <2> QED
      BY <2>1, ItemIs DEF Joined
  <1>3. \A p \in A, q \in B : p[1] < q[1]
    BY <1>2
  <1>4. /\ c \in Seq(Item) /\ d \in Seq(Item) /\ IsFiniteSet(A) /\ IsFiniteSet(B)
        /\ Len(c) = Cardinality(A) /\ Len(d) = Cardinality(B)
        /\ \A p \in A : c[Cardinality(UpTo(p, A))] = text[p[1]][p[2]]
        /\ \A p \in B : d[Cardinality(UpTo(p, B))] = text[p[1]][p[2]]
    BY DEF Joined, Joins
  <1> HIDE DEF A, B
  <1>5. /\ IsFiniteSet(A \cup B)
        /\ Cardinality(A \cup B) = Len(c) + Len(d)
    <2>1. A \cap B = {}
      BY <1>2, <1>3
    <2>2. Cardinality(A \cap B) = 0
      BY <2>1, FS_EmptySet
    <2>3. /\ IsFiniteSet(A \cup B)
          /\ Cardinality(A \cup B) = Cardinality(A) + Cardinality(B) - Cardinality(A \cap B)
      BY <1>4, FS_Union
    <2> QED
      BY <1>4, <2>2, <2>3
  <1>6. ASSUME NEW p \in A
        PROVE  (c \o d)[Cardinality(UpTo(p, A \cup B))] = text[p[1]][p[2]]
    <2>1. UpTo(p, A \cup B) = UpTo(p, A)
      BY <1>2, <1>3 DEF UpTo
    <2>2. Cardinality(UpTo(p, A)) \in 1..Len(c)
      BY <1>2, <1>4, Ranked
    <2>3. (c \o d)[Cardinality(UpTo(p, A))] = c[Cardinality(UpTo(p, A))]
      BY <1>4, <2>2
    <2> QED
      BY <1>4, <2>1, <2>3
  <1>7. ASSUME NEW p \in B
        PROVE  (c \o d)[Cardinality(UpTo(p, A \cup B))] = text[p[1]][p[2]]
    <2>1. UpTo(p, A \cup B) = A \cup UpTo(p, B)
      BY <1>2, <1>3 DEF UpTo
    <2>2. IsFiniteSet(UpTo(p, B)) /\ Cardinality(UpTo(p, B)) \in 1..Len(d)
      BY <1>2, <1>4, Ranked
    <2>3. Cardinality(A \cap UpTo(p, B)) = 0
      <3>1. A \cap UpTo(p, B) = {}
        BY <1>2, <1>3 DEF UpTo
      <3> QED
        BY <3>1, FS_EmptySet
    <2>4. Cardinality(A \cup UpTo(p, B))
             = Cardinality(A) + Cardinality(UpTo(p, B)) - Cardinality(A \cap UpTo(p, B))
      BY <1>4, <2>2, FS_Union
    <2>5. PICK r \in 1..Len(d) : r = Cardinality(UpTo(p, B))
      BY <2>2
    <2>6. Cardinality(UpTo(p, A \cup B)) = Len(c) + r
      <3>1. Len(c) \in Nat /\ Len(d) \in Nat
        BY <1>4
      <3>2. Cardinality(A \cup UpTo(p, B)) = Len(c) + r - 0
        BY <1>4, <2>3, <2>4, <2>5
      <3>3. Len(c) + r - 0 = Len(c) + r
        BY <3>1
      <3> QED
        BY <2>1, <3>2, <3>3
    <2>7. (c \o d)[Len(c) + r] = d[r]
      BY <1>4, <2>5
    <2> QED
      BY <1>4, <2>5, <2>6, <2>7
  <1>8. c \o d \in Seq(Item) /\ Len(c \o d) = Len(c) + Len(d)
    BY <1>4
  <1>9. I \cup J \subseteq Nat /\ \A i \in I \cup J : text[i] \in Seq(Item)
    BY DEF Joined
  <1> QED
    BY <1>1, <1>5, <1>6, <1>7, <1>8, <1>9 DEF Joined, Joins

(***************************************************************************)
(* The pending header block                                                *)
(***************************************************************************)
\* The parts of the block that h[j] opened, as far as h goes.
PartsFrom(h, j) == {i \in j..Len(h) : IsPart(h[i])}

Texts(h) == [i \in DOMAIN h |-> h[i].payload]

\* A pending block is one that the history has open, with its content so far.
Holds(t, h) ==
    t.stream # 0 =>
        \E j \in DOMAIN h : /\ OpenAt(h, j)
                            /\ t.stream = h[j].stream /\ t.end = StartsEnd(h[j])
                            /\ Joined(t.block, PartsFrom(h, j), Texts(h))

\* With one more frame, an open block has that frame's part, if it has one.
LEMMA PartsGrow ==
    ASSUME NEW h \in Seq(Frame), NEW f \in Frame, NEW j \in DOMAIN h, NEW c,
           Joined(c, PartsFrom(h, j), Texts(h))
    PROVE  Joined(IF IsPart(f) THEN c \o f.payload ELSE c,
                  PartsFrom(Append(h, f), j), Texts(Append(h, f)))
  <1>1. PICK g \in Seq(Frame) : g = Append(h, f)
    <2>1. Append(h, f) \in Seq(Frame)
      OBVIOUS
    <2> QED
      BY <2>1
  <1>2. PICK n \in Nat : n = Len(h) + 1
    OBVIOUS
  <1>3. /\ Len(g) = n /\ g[n] = f /\ DOMAIN h = 1..Len(h) /\ DOMAIN g = 1..n
        /\ \A i \in DOMAIN h : i < n /\ g[i] = h[i]
        /\ \A i \in 1..n : i \in DOMAIN h \/ i = n
    BY <1>1, <1>2
  <1>4. PICK I : I = PartsFrom(h, j)
    OBVIOUS
  <1>5. PartsFrom(g, j) = IF IsPart(f) THEN I \cup {n} ELSE I
    <2>1. \A i \in j..n : i \in j..Len(h) \/ i = n
      BY <1>2
    <2>2. n \in j..n /\ \A i \in j..Len(h) : i \in j..n /\ i \in DOMAIN h
      BY <1>2, <1>3
    <2> QED
      BY <1>3, <1>4, <2>1, <2>2 DEF PartsFrom
  <1>6. \A i \in I : i \in DOMAIN h /\ i < n
    <2>1. \A i \in j..Len(h) : i \in DOMAIN h
      BY <1>3
    <2> QED
      BY <1>3, <1>4, <2>1 DEF PartsFrom
  <1>7. Joined(c, I, Texts(g))
    <2>1. \A i \in I : Texts(h)[i] = Texts(g)[i]
      BY <1>3, <1>6 DEF Texts
    <2> QED
      BY <1>4, <2>1, JoinsOther
  <1>8. Joined(f.payload, {n}, Texts(g))
    <2>1. Texts(g)[n] = f.payload /\ f.payload \in Seq(Item)
      BY <1>3 DEF Texts, Frame
    <2> QED
      BY <2>1, JoinsOne
  <1>9. Joined(c \o f.payload, I \cup {n}, Texts(g))
    BY <1>6, <1>7, <1>8, JoinsAppend
  <1> QED
    BY <1>1, <1>5, <1>7, <1>9

\* A block that starts has its first part.
LEMMA PartsStart ==
    ASSUME NEW h \in Seq(Frame), NEW f \in Frame, Starts(f), NEW n \in Nat, n = Len(h) + 1
    PROVE  Joined(f.payload, PartsFrom(Append(h, f), n), Texts(Append(h, f)))
  <1>1. PICK g \in Seq(Frame) : g = Append(h, f)
    <2>1. Append(h, f) \in Seq(Frame)
      OBVIOUS
    <2> QED
      BY <2>1
  <1>2. Len(g) = n /\ g[n] = f /\ n \in DOMAIN g
    BY <1>1
  <1>3. PartsFrom(g, n) = {n}
    BY <1>2 DEF PartsFrom, IsPart
  <1>4. Texts(g)[n] = f.payload /\ f.payload \in Seq(Item)
    BY <1>2 DEF Texts, Frame
  <1> QED
    BY <1>1, <1>3, <1>4, JoinsOne

\* What is pending stays what the history has open, and its content too.
LEMMA ConsumeHolds ==
    ASSUME NEW h \in Seq(Frame), NEW t \in Tracker, NEW f \in Frame, Holds(t, h)
    PROVE  Holds(Consume(t, f).tracker, Append(h, f))
  <1>1. PICK g : g = Append(h, f)
    OBVIOUS
  <1>2. PICK u : u = Consume(t, f).tracker
    OBVIOUS
  <1>3. PICK n \in Nat : n = Len(h) + 1
    OBVIOUS
  <1>4. /\ Len(g) = n /\ g[n] = f /\ n \in DOMAIN g
        /\ \A j \in DOMAIN h : j \in DOMAIN g /\ g[j] = h[j]
    BY <1>1, <1>3
  <1>5. CASE u.stream # 0 /\ Starts(f)
    <2>1. u = [stream |-> f.stream, block |-> f.payload, end |-> StartsEnd(f)] /\ ~Closes(f)
      BY <1>2, <1>5
         DEF Consume, ConsumeHeaderStart, Starts, Closes, Keep, Refuse, Finish, Idle
    <2>2. \A i \in n..n : i = n
      OBVIOUS
    <2>3. OpenAt(g, n)
      BY <1>4, <1>5, <2>1, <2>2 DEF OpenAt
    <2>4. Joined(f.payload, PartsFrom(g, n), Texts(g))
      BY <1>1, <1>3, <1>5, PartsStart
    <2> QED
      BY <1>1, <1>2, <1>4, <2>1, <2>3, <2>4 DEF Holds
  <1>6. CASE u.stream # 0 /\ ~Starts(f)
    <2>1. /\ t.stream # 0 /\ u.stream = t.stream /\ u.end = t.end
          /\ u.block = IF IsPart(f) THEN t.block \o f.payload ELSE t.block
          /\ IsPart(f) => f.type = "CONTINUATION" /\ f.stream = t.stream /\ ~Closes(f)
      <3>1. CASE f.type = "CONTINUATION"
        <4>1. /\ t.stream # 0 /\ f.stream = t.stream /\ ~Closes(f)
              /\ u = [t EXCEPT !.block = @ \o f.payload]
          BY <1>2, <1>6, <3>1
             DEF Consume, ConsumeContinuation, Closes, Keep, Refuse, Finish, Idle
        <4> QED
          BY <3>1, <4>1 DEF Tracker, IsPart
      <3>2. CASE f.type # "CONTINUATION"
        BY <1>2, <1>6, <3>2 DEF Consume, Keep, IsPart, Starts
      <3> QED
        BY <3>1, <3>2
    <2>2. PICK j \in DOMAIN h : /\ OpenAt(h, j)
                                /\ t.stream = h[j].stream /\ t.end = StartsEnd(h[j])
                                /\ Joined(t.block, PartsFrom(h, j), Texts(h))
      BY <2>1 DEF Holds
    <2>3. IsPart(f) => ~Closes(f) /\ Follows(f, h[j])
      BY <2>1, <2>2 DEF Follows
    <2>4. OpenAt(g, j)
      BY <1>1, <2>2, <2>3, StaysOpen
    <2>5. Joined(u.block, PartsFrom(g, j), Texts(g))
      BY <1>1, <2>1, <2>2, PartsGrow
    <2> QED
      BY <1>1, <1>2, <1>4, <2>1, <2>2, <2>4, <2>5 DEF Holds
  <1> QED
    BY <1>1, <1>2, <1>5, <1>6 DEF Holds

\* The header fields of an event are those of all the frames of its block.
LEMMA ConsumeJoins ==
    ASSUME NEW h \in Seq(Frame), NEW t \in Tracker, NEW f \in Frame, Holds(t, h),
           Consume(t, f).event.complete, ~Consume(t, f).event.error
    PROVE  LET g == Append(h, f)
               n == Len(h) + 1
               event == Consume(t, f).event
           IN  \E j \in 1..n : /\ WholeBlock(g, j, n) /\ Reports(event, g[j])
                               /\ Joined(event.headers, PartsFrom(g, j), Texts(g))
  <1>1. PICK g : g = Append(h, f)
    OBVIOUS
  <1>2. PICK event : event = Consume(t, f).event
    OBVIOUS
  <1>3. PICK n \in Nat : n = Len(h) + 1
    OBVIOUS
  <1>4. /\ Len(g) = n /\ g[n] = f /\ n \in 1..n
        /\ \A j \in DOMAIN h : j \in 1..n /\ g[j] = h[j]
    BY <1>1, <1>3
  <1>5. event.complete /\ ~event.error
    BY <1>2
  <1>6. CASE Starts(f)
    <2>1. Closes(f) /\ Reports(event, f) /\ event.headers = f.payload
      BY <1>2, <1>5, <1>6 DEF Consume, ConsumeHeaderStart, Starts, Closes, Keep, Refuse, Finish,
                              NoBlock, Reports
    <2>2. \A i \in n..n : i = n
      OBVIOUS
    <2>3. WholeBlock(g, n, n)
      BY <1>4, <1>6, <2>1, <2>2 DEF WholeBlock, IsPart
    <2>4. Joined(f.payload, PartsFrom(g, n), Texts(g))
      BY <1>1, <1>3, <1>6, PartsStart
    <2> QED
      BY <1>1, <1>2, <1>3, <1>4, <2>1, <2>3, <2>4
  <1>7. CASE f.type = "CONTINUATION"
    <2>1. /\ Closes(f) /\ t.stream # 0 /\ f.stream = t.stream
          /\ event.stream = t.stream /\ event.endStream = t.end
          /\ event.headers = t.block \o f.payload
      BY <1>2, <1>5, <1>7 DEF Consume, ConsumeContinuation, Closes, Keep, Refuse, Finish, NoBlock
    <2>2. PICK j \in DOMAIN h : /\ OpenAt(h, j)
                                /\ t.stream = h[j].stream /\ t.end = StartsEnd(h[j])
                                /\ Joined(t.block, PartsFrom(h, j), Texts(h))
      BY <2>1 DEF Holds
    <2>3. Follows(f, h[j])
      BY <1>7, <2>1, <2>2 DEF Follows
    <2>4. WholeBlock(g, j, n)
      BY <1>1, <1>3, <2>1, <2>2, <2>3, Completes
    <2>5. Joined(event.headers, PartsFrom(g, j), Texts(g))
      BY <1>1, <1>7, <2>1, <2>2, PartsGrow DEF IsPart
    <2>6. Reports(event, g[j]) /\ j \in 1..n
      BY <1>4, <1>5, <2>1, <2>2 DEF Reports
    <2> QED
      BY <1>1, <1>2, <1>3, <2>4, <2>5, <2>6
  <1>8. CASE ~IsPart(f)
    BY <1>2, <1>5, <1>8 DEF Consume, Keep, NoBlock, IsPart, Starts
  <1> QED
    BY <1>6, <1>7, <1>8 DEF IsPart

(***************************************************************************)
(* The invariant of the receive loops                                      *)
(***************************************************************************)
\* The history as the header block tracker sees it.
View == [k \in DOMAIN log |-> IF IsReceived(k) THEN log[k].frame ELSE ConnectionPreface]

ReceivedSince(i, n) == {j \in (i + 1)..n : IsReceived(j)}

\* The program counters before the receive loop, and in it.
Unstarted == {"dial", "preface", "settings", "handshake", "handshake_answer",
              "prepare", "headers", "data", "ping"}
Looping == {"receive", "receive_answer"}

Begun == \E i \in DOMAIN log : StartsLoop(i)
Done == \E n \in DOMAIN log : IsAwaited(n)

NothingAfter == \A n \in DOMAIN log : IsAwaited(n) => \A j \in (n + 1)..Len(log) : ~IsReceived(j)

\* The counter of the observe loop counts what came since the loop started.
Counts ==
    cfg.mode = "observe" =>
        \A i \in DOMAIN log : StartsLoop(i) => received = Cardinality(ReceivedSince(i, Len(log)))

\* StopsWhenDone speaks of loops that have ended; one that runs has started
\* and has not received what it waits for, but for a spent observe limit,
\* which it has yet to notice.
LoopInv ==
    /\ Finished => Done
    /\ NothingAfter
    /\ pc \in Unstarted => /\ received = 0 /\ ~Done
                           /\ cfg.mode # "observe" => ~Begun
    /\ pc \in Looping => Begun /\ Counts /\ (Done <=> AtLimit)

(***************************************************************************)
(* Growing histories                                                       *)
(***************************************************************************)
LEMMA EntriesStay ==
    ASSUME TypeOK, NEW e \in LogEntry, log' = Append(log, e), NEW m \in 1..Len(log)
    PROVE  /\ log'[m] = log[m]
           /\ IsReceived(m)' <=> IsReceived(m)
           /\ Type(m)' = Type(m) /\ StreamOf(m)' = StreamOf(m)
           /\ \A flag : Has(m, flag)' <=> Has(m, flag)
           /\ StartsBlock(m)' <=> StartsBlock(m)
           /\ IsHeaderFrame(m)' <=> IsHeaderFrame(m)
  BY Grows DEF IsReceived, Type, StreamOf, Has, StartsBlock, IsHeaderFrame

LEMMA BlockStays ==
    ASSUME TypeOK, NEW e \in LogEntry, log' = Append(log, e),
           NEW n \in 1..Len(log), NEW k \in 1..n
    PROVE  IsBlock(k, n)' <=> IsBlock(k, n)
  <1>1. /\ n \in 1..n /\ n \in Nat
        /\ \A m \in 1..n : m \in 1..Len(log)
        /\ \A i \in k..n : i \in 1..n
    BY Grows
  <1>2. \A m \in 1..n : /\ Type(m)' = Type(m) /\ StreamOf(m)' = StreamOf(m)
                        /\ \A flag : Has(m, flag)' <=> Has(m, flag)
                        /\ StartsBlock(m)' <=> StartsBlock(m)
                        /\ IsHeaderFrame(m)' <=> IsHeaderFrame(m)
    BY <1>1, EntriesStay
  <1>3. (\A i \in k..n : IsHeaderFrame(i) =>
            /\ Has(i, "END_HEADERS") <=> i = n
            /\ i > k => Type(i) = "CONTINUATION" /\ StreamOf(i) = StreamOf(k))'
        <=> (\A i \in k..n : IsHeaderFrame(i) =>
               /\ Has(i, "END_HEADERS") <=> i = n
               /\ i > k => Type(i) = "CONTINUATION" /\ StreamOf(i) = StreamOf(k))
    BY <1>1, <1>2
  <1> QED
    BY <1>1, <1>2, <1>3 DEF IsBlock

LEMMA EndsStreamStays ==
    ASSUME TypeOK, NEW e \in LogEntry, log' = Append(log, e), NEW n \in 1..Len(log), NEW s
    PROVE  EndsStreamAt(s, n)' <=> EndsStreamAt(s, n)
  <1>1. \A m \in 1..n : /\ IsReceived(m)' <=> IsReceived(m)
                        /\ Type(m)' = Type(m) /\ StreamOf(m)' = StreamOf(m)
                        /\ \A flag : Has(m, flag)' <=> Has(m, flag)
    <2>1. \A m \in 1..n : m \in 1..Len(log)
      BY Grows
    <2> QED
      BY <2>1, EntriesStay
  <1>2. n \in 1..n /\ \A k \in 1..n : IsBlock(k, n)' <=> IsBlock(k, n)
    BY BlockStays
  <1> QED
    BY <1>1, <1>2 DEF EndsStreamAt

\* What started the loop, and what it waited for, does not depend on what
\* comes after.
LEMMA LoopStays ==
    ASSUME TypeOK, NEW e \in LogEntry, log' = Append(log, e), cfg' = cfg, NEW n \in 1..Len(log)
    PROVE  /\ StartsLoop(n)' <=> StartsLoop(n)
           /\ IsAwaited(n)' <=> IsAwaited(n)
  <1>1. /\ Len(log) \in Nat
        /\ \A m \in 1..Len(log) : /\ IsReceived(m)' <=> IsReceived(m)
                                  /\ IsSent(m)' <=> IsSent(m)
                                  /\ Type(m)' = Type(m)
                                  /\ Has(m, "ACK")' <=> Has(m, "ACK")
                                  /\ Has(m, "END_STREAM")' <=> Has(m, "END_STREAM")
                                  /\ log'[m].frame.payload = log[m].frame.payload
    BY Grows DEF IsReceived, IsSent, Type, Has
  <1>2. ASSUME NEW i \in 1..Len(log)
        PROVE  StartsLoop(i)' <=> StartsLoop(i)
    <2>1. EndsHandshake(i)' <=> EndsHandshake(i)
      BY GrowsEnds
    <2>2. cfg.mode = "request" \/ cfg.mode = "ping" \/ cfg.mode = "observe"
      BY ConfigType DEF Modes
    <2>3. CASE cfg.mode = "request"
      BY <1>1, <2>3 DEF StartsLoop
    <2>4. CASE cfg.mode = "ping"
      BY <1>1, <2>4 DEF StartsLoop
    <2>5. CASE cfg.mode = "observe"
      BY <2>1, <2>5 DEF StartsLoop
    <2> QED
      BY <2>2, <2>3, <2>4, <2>5
  <1>3. EndsStreamAt(cfg.streamID, n)' <=> EndsStreamAt(cfg.streamID, n)
    <2>1. PICK s : s = cfg.streamID /\ s = cfg'.streamID
      OBVIOUS
    <2>2. EndsStreamAt(s, n)' <=> EndsStreamAt(s, n)
      BY EndsStreamStays
    <2> QED
      BY <2>1, <2>2
  <1>4. \A i \in 1..(n - 1) : /\ i \in 1..Len(log)
                              /\ {j \in (i + 1)..n : IsReceived(j)}'
                                    = {j \in (i + 1)..n : IsReceived(j)}
    <2>1. \A i \in 1..(n - 1) : i \in 1..Len(log) /\ \A j \in (i + 1)..n : j \in 1..Len(log)
      BY <1>1
    <2> QED
      BY <1>1, <2>1
  <1>5. IsAwaited(n)' <=> IsAwaited(n)
    BY <1>1, <1>2, <1>3, <1>4 DEF IsAwaited
  <1> QED
    BY <1>2, <1>5

\* What one more entry may change.
LEMMA LoopGrows ==
    ASSUME TypeOK, NEW e \in LogEntry, log' = Append(log, e), cfg' = cfg,
           NEW n \in Nat, n = Len(log)
    PROVE  /\ Begun' <=> (Begun \/ StartsLoop(n + 1)')
           /\ Done' <=> (Done \/ IsAwaited(n + 1)')
           /\ e.dir = "sent" => ~IsAwaited(n + 1)'
           /\ NothingAfter /\ (e.dir = "sent" \/ ~Done) => NothingAfter'
  <1>1. /\ Len(log') = n + 1 /\ DOMAIN log' = 1..(n + 1) /\ DOMAIN log = 1..n
        /\ log'[n + 1] = e /\ \A i \in 1..n : log'[i] = log[i]
    BY Grows
  <1>2. PICK m \in 1..(n + 1) : m = n + 1
    OBVIOUS
  <1>3. \A i \in 1..n : /\ StartsLoop(i)' <=> StartsLoop(i)
                        /\ IsAwaited(i)' <=> IsAwaited(i)
    BY LoopStays
  <1>4. \A i \in 1..(n + 1) : i \in 1..n \/ i = m
    BY <1>2
  <1>5. Begun' <=> (Begun \/ StartsLoop(m)')
    BY <1>1, <1>2, <1>3, <1>4 DEF Begun
  <1>6. Done' <=> (Done \/ IsAwaited(m)')
    BY <1>1, <1>2, <1>3, <1>4 DEF Done
  <1>7. e.dir = "sent" => ~IsAwaited(m)'
    BY <1>1, <1>2 DEF IsAwaited, IsReceived
  <1>8. ASSUME NothingAfter, e.dir = "sent" \/ ~Done PROVE NothingAfter'
    <2>1. ASSUME NEW k \in 1..(n + 1), IsAwaited(k)', NEW j \in (k + 1)..(n + 1)
          PROVE  ~IsReceived(j)'
      <3>1. k \in 1..n /\ j \in 1..(n + 1)
        BY <2>1
      <3>2. IsAwaited(k) /\ Done
        BY <1>1, <1>3, <2>1, <3>1 DEF Done
      <3>3. CASE j = m
        BY <1>1, <1>2, <1>8, <3>2, <3>3 DEF IsReceived
      <3>4. CASE j \in 1..n
        <4>1. j \in (k + 1)..n
          BY <2>1, <3>1, <3>4
        <4>2. ~IsReceived(j)
          BY <1>1, <1>8, <3>1, <3>2, <4>1 DEF NothingAfter
        <4> QED
          BY <1>1, <3>4, <4>2 DEF IsReceived
      <3> QED
        BY <1>4, <3>1, <3>3, <3>4
    <2> QED
      BY <1>1, <2>1 DEF NothingAfter
  <1> QED
    BY <1>2, <1>5, <1>6, <1>7, <1>8

LEMMA CountGrows ==
    ASSUME TypeOK, NEW e \in LogEntry, log' = Append(log, e),
           NEW n \in Nat, n = Len(log), NEW i \in 1..n, NEW m, m = n + 1
    PROVE  /\ Cardinality(ReceivedSince(i, n)) \in Nat
           /\ Cardinality(ReceivedSince(i, m)') =
                 IF e.dir = "received" THEN Cardinality(ReceivedSince(i, n)) + 1
                 ELSE Cardinality(ReceivedSince(i, n))
  <1>1. /\ log'[n + 1] = e /\ \A j \in 1..n : log'[j] = log[j]
    BY Grows
  <1>2. PICK S : S = ReceivedSince(i, n)
    OBVIOUS
  <1>3. IsFiniteSet(S) /\ Cardinality(S) \in Nat /\ n + 1 \notin S
    <2>1. S \subseteq (i + 1)..n
      BY <1>2 DEF ReceivedSince
    <2>2. IsFiniteSet((i + 1)..n)
      BY FS_Interval
    <2>3. IsFiniteSet(S)
      BY <2>1, <2>2, FS_Subset
    <2> QED
      BY <2>1, <2>3, FS_CardinalityType
  <1>4. PICK T : T = {j \in (i + 1)..(n + 1) : log'[j].dir = "received"}
    OBVIOUS
  <1>5. T = IF e.dir = "received" THEN S \cup {n + 1} ELSE S
    <2>1. \A j \in (i + 1)..(n + 1) : j \in (i + 1)..n \/ j = n + 1
      OBVIOUS
    <2>2. \A j \in (i + 1)..n : j \in 1..n /\ j \in (i + 1)..(n + 1)
      OBVIOUS
    <2>3. n + 1 \in (i + 1)..(n + 1)
      OBVIOUS
    <2>4. S = {j \in (i + 1)..n : log[j].dir = "received"}
      BY <1>2 DEF ReceivedSince, IsReceived
    <2>5. \A j \in T : j \in S \/ (j = n + 1 /\ e.dir = "received")
      BY <1>1, <1>4, <2>1, <2>2, <2>4
    <2>6. \A j \in S : j \in T
      BY <1>1, <1>4, <2>2, <2>4
    <2>7. e.dir = "received" <=> n + 1 \in T
      BY <1>1, <1>4, <2>3
    <2> QED
      BY <1>3, <2>5, <2>6, <2>7
  <1>6. ReceivedSince(i, m)' = T
    BY <1>4 DEF ReceivedSince, IsReceived
  <1>7. Cardinality(S \cup {n + 1}) = Cardinality(S) + 1
    BY <1>3, FS_AddElement
  <1> QED
    BY <1>2, <1>3, <1>5, <1>6, <1>7

(***************************************************************************)
(* Steps that receive nothing                                              *)
(***************************************************************************)
\* A step that neither sends nor receives, and starts no loop.
LEMMA QuietKeepsLoop ==
    ASSUME TypeOK, LoopInv, log' = log, cfg' = cfg, received' = received,
           Finished' => Finished \/ (pc \in Looping /\ AtLimit),
           pc' \in Unstarted => pc \in Unstarted,
           pc' \in Looping => pc \in Looping
    PROVE  LoopInv'
  <1>1. \A n : IsReceived(n)' <=> IsReceived(n)
    BY DEF IsReceived
  <1>2. \A n : StartsLoop(n)' <=> StartsLoop(n)
    BY DEF StartsLoop, IsSent, Has, Type, EndsHandshake, IsReceived
  <1>3. \A n : IsAwaited(n)' <=> IsAwaited(n)
    BY DEF IsAwaited, StartsLoop, IsSent, Has, Type, EndsHandshake, IsReceived, EndsStreamAt,
           IsBlock, StartsBlock, IsHeaderFrame, StreamOf
  <1>4. /\ Begun' <=> Begun
        /\ Done' <=> Done
        /\ NothingAfter' <=> NothingAfter
    BY <1>1, <1>2, <1>3 DEF Begun, Done, NothingAfter
  <1>5. /\ Counts' <=> Counts
        /\ AtLimit' <=> AtLimit
    BY <1>1, <1>2 DEF Counts, AtLimit, ReceivedSince
  <1> QED
    BY <1>4, <1>5 DEF LoopInv

\* What the command sends to start its receive loop.
Launches(f) ==
    \/ cfg.mode = "request" /\ "END_STREAM" \in f.flags
    \/ cfg.mode = "ping" /\ f.type = "PING" /\ "ACK" \notin f.flags

\* A frame sent starts the loop if it is meant to, and is never waited for.
LEMMA SendKeepsLoop ==
    ASSUME TypeOK, LoopInv, NEW f \in Frame, NEW next \in PCs, SendFrameAndReport(f, next),
           cfg' = cfg, received' = received,
           next \in Unstarted => pc \in Unstarted /\ ~Launches(f),
           next \in Looping => pc \in Looping \/ (pc \in Unstarted /\ Launches(f)),
           next \in {"finish", "flush"} => pc = "finish"
    PROVE  LoopInv'
  <1>1. Finished' => Finished
    BY DEF Finished, SendFrameAndReport, Continue, Exit
  <1>2. CASE log' = log
    BY <1>1, <1>2, QuietKeepsLoop DEF SendFrameAndReport, Continue, Exit, Unstarted, Looping
  <1>3. CASE log' = Append(log, Sent(f))
    <2> DEFINE e == Sent(f)
    <2>1. e \in LogEntry /\ e.dir = "sent" /\ e.frame = f
      BY DEF Sent, LogEntry
    <2>2. PICK n \in Nat : n = Len(log)
      BY <1>3, <2>1, Grows
    <2>3. PICK m : m = n + 1
      OBVIOUS
    <2>4. DOMAIN log' = 1..m /\ log'[m] = e /\ DOMAIN log = 1..n /\ Len(log') = m
      BY <1>3, <2>1, <2>2, <2>3, Grows
    <2>5. /\ Begun' <=> (Begun \/ StartsLoop(m)')
          /\ Done' <=> Done
          /\ NothingAfter => NothingAfter'
      BY <1>3, <2>1, <2>2, <2>3, LoopGrows
    <2>6. StartsLoop(m)' <=> Launches(f)
      <3>1. cfg.mode = "request" \/ cfg.mode = "ping" \/ cfg.mode = "observe"
        BY ConfigType DEF Modes
      <3>2. /\ IsSent(m)'
            /\ ~IsReceived(m)'
            /\ Type(m)' = f.type
            /\ Has(m, "END_STREAM")' <=> "END_STREAM" \in f.flags
            /\ Has(m, "ACK")' <=> "ACK" \in f.flags
        BY <2>1, <2>4 DEF IsSent, IsReceived, Type, Has
      <3>3. CASE cfg.mode = "request"
        BY <3>2, <3>3 DEF StartsLoop, Launches
      <3>4. CASE cfg.mode = "ping"
        BY <3>2, <3>4 DEF StartsLoop, Launches
      <3>5. CASE cfg.mode = "observe"
        BY <3>2, <3>5 DEF StartsLoop, Launches, EndsHandshake
      <3> QED
        BY <3>1, <3>3, <3>4, <3>5
    <2>7. AtLimit' <=> AtLimit
      BY DEF AtLimit
    <2>8. pc \in Looping => Counts'
      <3> SUFFICES ASSUME pc \in Looping, cfg.mode = "observe", NEW i \in 1..m, StartsLoop(i)'
                   PROVE  received' = Cardinality(ReceivedSince(i, m)')
        BY <2>4 DEF Counts
      <3>1. i \in 1..n
        BY <2>2, <2>3, <2>6 DEF Launches
      <3>2. StartsLoop(i)
        BY <1>3, <2>1, <2>2, <3>1, LoopStays
      <3>3. received = Cardinality(ReceivedSince(i, n))
        BY <2>2, <2>4, <3>1, <3>2 DEF LoopInv, Counts
      <3> QED
        BY <1>3, <2>1, <2>2, <2>3, <3>1, <3>3, CountGrows
    <2>9. pc' = next \/ pc' = "exited"
      BY DEF SendFrameAndReport, Continue, Exit
    <2>10. pc' \in Unstarted => /\ received' = 0 /\ ~Done'
                                /\ cfg'.mode # "observe" => ~Begun'
      BY <2>5, <2>6, <2>9 DEF LoopInv, Unstarted
    <2>11. pc' \in Looping => Begun' /\ Counts' /\ (Done' <=> AtLimit')
      <3> SUFFICES ASSUME pc' \in Looping PROVE Begun' /\ Counts' /\ (Done' <=> AtLimit')
        OBVIOUS
      <3>1. CASE pc \in Looping
        BY <2>5, <2>7, <2>8, <3>1 DEF LoopInv
      <3>2. CASE pc \in Unstarted /\ Launches(f)
        BY <2>5, <2>6, <3>2 DEF LoopInv, Launches, Counts, AtLimit
      <3> QED
        BY <2>9, <3>1, <3>2 DEF Looping
    <2> QED
      BY <1>1, <2>5, <2>10, <2>11 DEF LoopInv
  <1> QED
    BY <1>2, <1>3 DEF SendFrameAndReport

\* Once the peer's SETTINGS are acknowledged, observe starts to count.
LEMMA HandshakeAnswerKeepsLoop ==
    ASSUME TypeOK, AnswerInv, OrderInv, OrderInv', LoopInv, HandshakeAnswer
    PROVE  LoopInv'
  <1> DEFINE next == IF held.type = "SETTINGS" THEN AfterHandshake ELSE "handshake"
             f == Answer(held)
  <1>1. /\ pc = "handshake_answer" /\ SendFrameAndReport(f, next)
        /\ cfg' = cfg /\ received' = received
    BY DEF HandshakeAnswer
  <1>2. /\ f \in Frame /\ f.flags = {"ACK"} /\ NeedsAnswer(held)
        /\ log # <<>> /\ log[Len(log)] = Received(held)
    <2>1. {"ACK"} \in SUBSET Flags /\ held.payload \in Seq(Item)
      BY DEF Flags, TypeOK, Frame
    <2>2. f \in Frame /\ f.flags = {"ACK"}
      BY <2>1, ConstructorTypes DEF Answer, SettingsFrame, PingFrame
    <2> QED
      BY <1>1, <2>2 DEF AnswerInv, Answering
  <1>3. ~Launches(f)
    BY <1>2 DEF Launches
  <1>4. /\ next \in {"handshake", "prepare", "ping", "receive"}
        /\ next = "receive" => cfg.mode = "observe"
    BY ConfigType DEF AfterHandshake, Modes
  <1> HIDE DEF next, f
  <1>5. CASE next # "receive"
    BY <1>1, <1>2, <1>3, <1>4, <1>5, SendKeepsLoop DEF Unstarted, Looping, PCs
  <1>6. CASE next = "receive" /\ log' = log
    <2>1. pc' = "exited" /\ result' = "error"
      <3>1. log # Append(log, Sent(f))
        BY DEF TypeOK
      <3> QED
        BY <1>1, <1>6, <3>1 DEF SendFrameAndReport, Continue, Exit
    <2> QED
      BY <1>1, <1>6, <2>1, QuietKeepsLoop DEF Finished, Unstarted, Looping
  <1>7. CASE next = "receive" /\ log' = Append(log, Sent(f))
    <2> DEFINE e == Sent(f)
    <2>1. e \in LogEntry /\ e.dir = "sent" /\ e.frame = f
      BY <1>2 DEF Sent, LogEntry
    <2>2. PICK n \in Nat : n = Len(log)
      BY <1>7, <2>1, Grows
    <2>3. PICK m \in Nat : m = n + 1
      OBVIOUS
    <2>4. /\ DOMAIN log' = 1..m /\ log'[m] = e /\ DOMAIN log = 1..n /\ Len(log') = m
          /\ n # 0
      BY <1>2, <1>7, <2>1, <2>2, <2>3, Grows DEF TypeOK
    <2>5. ~Done' /\ NothingAfter'
      <3>1. ~Done /\ NothingAfter
        BY <1>1 DEF LoopInv, Unstarted
      <3> QED
        BY <1>1, <1>7, <2>1, <2>2, <3>1, LoopGrows
    <2>6. ~Finished'
      BY <1>1, <1>7, <2>5 DEF LoopInv, Finished, Unstarted, SendFrameAndReport, Continue, Exit
    <2>7. pc' = "receive" \/ pc' = "exited"
      BY <1>1, <1>7 DEF SendFrameAndReport, Continue, Exit
    <2>8. ASSUME pc' = "receive" PROVE Begun' /\ Counts' /\ ~AtLimit'
      <3>1. cfg'.mode = "observe" /\ received' = 0
        BY <1>1, <1>4, <1>7 DEF LoopInv, Unstarted
      <3>2. PICK j \in 3..m : EndsHandshake(j)'
        BY <2>4, <2>8 DEF OrderInv, Established, Opens
      <3>3. Begun'
        BY <2>4, <3>1, <3>2 DEF Begun, StartsLoop
      <3>4. ASSUME NEW i \in 1..m, StartsLoop(i)'
            PROVE  received' = Cardinality(ReceivedSince(i, m)')
        <4>1. EndsHandshake(i)'
          BY <3>1, <3>4 DEF StartsLoop
        <4>2. i \in 1..n
          BY <2>1, <2>3, <2>4, <4>1 DEF EndsHandshake, IsReceived
        <4>3. Ends(log[i])
          <5>1. EndsHandshake(i)
            BY <1>7, <2>1, <2>2, <4>1, <4>2, GrowsEnds
          <5> QED
            BY <5>1 DEF EndsHandshake, Ends, IsReceived, Type, Has
        <4>4. i = n
          BY <1>1, <2>2, <4>2, <4>3 DEF OrderInv
        <4>5. ReceivedSince(i, n) = {}
          BY <4>4 DEF ReceivedSince
        <4>6. Cardinality(ReceivedSince(i, n)) = 0
          BY <4>5, FS_EmptySet
        <4>7. Cardinality(ReceivedSince(i, m)') = Cardinality(ReceivedSince(i, n))
          BY <1>7, <2>1, <2>2, <2>3, <4>2, CountGrows
        <4> QED
          BY <3>1, <4>6, <4>7
      <3>5. ~AtLimit'
        BY <1>1, <3>1, ConfigType DEF AtLimit
      <3> QED
        BY <2>4, <3>3, <3>4, <3>5 DEF Counts
    <2> QED
      BY <2>5, <2>6, <2>7, <2>8 DEF LoopInv, Unstarted, Looping
  <1> QED
    BY <1>1, <1>5, <1>6, <1>7 DEF SendFrameAndReport

(***************************************************************************)
(* Steps that receive a frame                                              *)
(***************************************************************************)
\* Nothing received during the handshake is waited for, not even the GOAWAY
\* that ends it and starts the loop of observe.
LEMMA HandshakeReceiveKeepsLoop ==
    ASSUME TypeOK, OrderInv, OrderInv', LoopInv, HandshakeReceive
    PROVE  LoopInv'
  <1> DEFINE e == Received(Incoming)
  <1>1. /\ e \in LogEntry /\ e.dir = "received" /\ log' = Append(log, e)
        /\ cfg' = cfg /\ received' = 0 /\ received = 0 /\ pc = "handshake"
    BY ReceiveType DEF HandshakeReceive, ReceiveFrame, Received, LogEntry, LoopInv, Unstarted
  <1> HIDE DEF e
  <1>2. PICK n \in Nat : n = Len(log)
    BY <1>1, Grows
  <1>3. PICK m \in Nat : m = n + 1
    OBVIOUS
  <1>4. /\ DOMAIN log' = 1..m /\ log'[m] = e /\ DOMAIN log = 1..n /\ Len(log') = m
        /\ \A i \in 1..n : log'[i] = log[i] /\ ~Ends(log[i])
    BY <1>1, <1>2, <1>3, Grows DEF OrderInv
  <1>5. cfg.mode = "request" \/ cfg.mode = "ping" \/ cfg.mode = "observe"
    BY ConfigType DEF Modes
  <1>6. ~Begun
    <2>1. CASE cfg.mode = "observe"
      <3>1. \A i \in 1..n : ~EndsHandshake(i)
        BY <1>4 DEF EndsHandshake, Ends, IsReceived, Type, Has
      <3> QED
        BY <1>4, <2>1, <3>1 DEF Begun, StartsLoop
    <2>2. CASE cfg.mode # "observe"
      BY <1>1, <2>2 DEF LoopInv, Unstarted
    <2> QED
      BY <2>1, <2>2
  <1>7. ~IsAwaited(m)'
    <2>1. \A i \in 1..n : ~StartsLoop(i)'
      BY <1>1, <1>2, <1>4, <1>6, LoopStays DEF Begun
    <2>2. \A i \in 1..(m - 1) : i \in 1..n
      BY <1>3
    <2> QED
      BY <2>1, <2>2 DEF IsAwaited
  <1>8. ~Done /\ NothingAfter
    BY <1>1 DEF LoopInv, Unstarted
  <1>9. ~Done' /\ NothingAfter' /\ (Begun' <=> StartsLoop(m)')
    BY <1>1, <1>2, <1>3, <1>6, <1>7, <1>8, LoopGrows
  <1>10. \/ pc' = "exited" /\ result' = "error"
         \/ pc' \in Unstarted /\ result' = result
         \/ pc' = "receive" /\ cfg.mode = "observe" /\ result' = result
    BY <1>1, <1>5 DEF HandshakeReceive, HandshakeNext, AfterHandshake, Continue, Exit, Unstarted
  <1>11. ~Finished'
    BY <1>8, <1>10 DEF LoopInv, Finished, Unstarted
  <1>12. cfg.mode # "observe" => ~Begun'
    <2>1. ~IsSent(m)'
      BY <1>1, <1>4 DEF IsSent
    <2>2. CASE cfg.mode = "request"
      BY <1>1, <1>9, <2>1, <2>2 DEF StartsLoop
    <2>3. CASE cfg.mode = "ping"
      BY <1>1, <1>9, <2>1, <2>3 DEF StartsLoop
    <2> QED
      BY <1>5, <2>2, <2>3
  <1>13. ASSUME pc' = "receive", cfg.mode = "observe" PROVE Begun' /\ Counts' /\ ~AtLimit'
    <2>1. PICK j \in 3..m : EndsHandshake(j)'
      BY <1>4, <1>13 DEF OrderInv, Established, Opens
    <2>2. Begun'
      BY <1>1, <1>4, <1>13, <2>1 DEF Begun, StartsLoop
    <2>3. ASSUME NEW i \in 1..m, StartsLoop(i)'
          PROVE  received' = Cardinality(ReceivedSince(i, m)')
      <3>1. i = m
        <4>1. \A k \in 1..n : ~StartsLoop(k)'
          BY <1>1, <1>2, <1>4, <1>6, LoopStays DEF Begun
        <4> QED
          BY <1>3, <2>3, <4>1
      <3>2. ReceivedSince(i, m)' = {}
        BY <3>1 DEF ReceivedSince
      <3> QED
        BY <1>1, <3>2, FS_EmptySet
    <2>4. ~AtLimit'
      BY <1>1, ConfigType DEF AtLimit
    <2> QED
      BY <1>4, <2>2, <2>3, <2>4 DEF Counts
  <1> QED
    BY <1>1, <1>9, <1>10, <1>11, <1>12, <1>13 DEF LoopInv, Unstarted, Looping

\* What the loops wait for, in the terms of the frame just received.
LEMMA AwaitedNow ==
    ASSUME TypeOK, LoopInv, pc = "receive", cfg' = cfg,
           NEW f \in Frame, log' = Append(log, Received(f)),
           NEW m \in Nat, m = Len(log) + 1, NEW s, s = cfg.streamID
    PROVE  IsAwaited(m)' <=>
              \/ f.type = "GOAWAY"
              \/ cfg.mode = "request" /\ EndsStreamAt(s, m)'
              \/ cfg.mode = "ping" /\ EndsPing(f)
              \/ cfg.mode = "observe" /\ cfg.maxRecv > 0 /\ received + 1 >= cfg.maxRecv
  <1> DEFINE e == Received(f)
             Ending(c) == \/ f.type = "GOAWAY"
                          \/ cfg.mode = "request" /\ EndsStreamAt(s, m)'
                          \/ cfg.mode = "ping" /\ EndsPing(f)
                          \/ cfg.mode = "observe" /\ cfg.maxRecv > 0 /\ c >= cfg.maxRecv
  <1>1. e \in LogEntry /\ e.dir = "received" /\ e.frame = f /\ log' = Append(log, e)
    BY DEF Received, LogEntry
  <1> HIDE DEF e
  <1>2. PICK n \in Nat : n = Len(log) /\ m = n + 1
    BY <1>1, Grows
  <1>3. /\ DOMAIN log' = 1..m /\ log'[m] = e /\ DOMAIN log = 1..n
        /\ 1..(m - 1) = 1..n
    BY <1>1, <1>2, Grows
  <1>4. /\ IsReceived(m)'
        /\ Type(m)' = f.type
        /\ Has(m, "ACK")' <=> "ACK" \in f.flags
        /\ log'[m].frame.payload = f.payload
    BY <1>1, <1>3 DEF IsReceived, Type, Has
  <1>5. ASSUME NEW i \in 1..n
        PROVE  ReceivedSince(i, m)' = {j \in (i + 1)..m : IsReceived(j)'}
    BY DEF ReceivedSince
  <1>6. IsAwaited(m)' <=> \E i \in 1..n : StartsLoop(i)' /\ Ending(Cardinality(ReceivedSince(i, m)'))
    <2>1. cfg'.streamID = s
      OBVIOUS
    <2> QED
      BY <1>3, <1>4, <1>5, <2>1 DEF IsAwaited, EndsPing
  <1>7. ASSUME NEW i \in 1..n
        PROVE  StartsLoop(i)' <=> StartsLoop(i)
    BY <1>1, <1>2, LoopStays
  <1>8. ASSUME NEW i \in 1..n, StartsLoop(i), cfg.mode = "observe"
        PROVE  Cardinality(ReceivedSince(i, m)') = received + 1
    <2>1. Cardinality(ReceivedSince(i, n)) = received
      BY <1>2, <1>3, <1>8 DEF LoopInv, Looping, Counts
    <2> QED
      BY <1>1, <1>2, <2>1, CountGrows
  <1>9. \E i \in 1..n : StartsLoop(i)
    BY <1>3 DEF LoopInv, Looping, Begun
  <1>10. ASSUME NEW i \in 1..n, StartsLoop(i)
         PROVE  Ending(Cardinality(ReceivedSince(i, m)')) <=> Ending(received + 1)
    BY <1>8, <1>10
  <1> HIDE DEF Ending
  <1>11. IsAwaited(m)' <=> Ending(received + 1)
    BY <1>6, <1>7, <1>9, <1>10
  <1> QED
    BY <1>11 DEF Ending

\* A frame received in a loop: the loop ends, or has not ended, as it should.
LEMMA ReceiveKeepsLoop ==
    ASSUME TypeOK, LoopInv, pc = "receive", ~AtLimit, cfg' = cfg,
           NEW f \in Frame, log' = Append(log, Received(f)),
           NEW m \in Nat, m = Len(log) + 1,
           cfg.mode = "observe" => received' = received + 1,
           \/ pc' = "exited" /\ result' = "error"
           \/ result' = result /\ pc' = "finish" /\ IsAwaited(m)'
           \/ result' = result /\ pc' \in Looping /\ (IsAwaited(m)' <=> AtLimit')
    PROVE  LoopInv'
  <1> DEFINE e == Received(f)
  <1>1. e \in LogEntry /\ e.dir = "received" /\ e.frame = f /\ log' = Append(log, e)
    BY DEF Received, LogEntry
  <1> HIDE DEF e
  <1>2. PICK n \in Nat : n = Len(log) /\ m = n + 1
    BY <1>1, Grows
  <1>3. /\ DOMAIN log' = 1..m /\ log'[m] = e /\ DOMAIN log = 1..n /\ Len(log') = m
    BY <1>1, <1>2, Grows
  <1>4. ~Done /\ NothingAfter /\ Begun /\ Counts /\ ~Finished
    BY DEF LoopInv, Looping
  <1>5. /\ Begun'
        /\ Done' <=> IsAwaited(m)'
        /\ NothingAfter'
    BY <1>1, <1>2, <1>4, LoopGrows
  <1>6. Finished' => Done'
    BY <1>4, <1>5 DEF Finished, Looping
  <1>7. Counts'
    <2> SUFFICES ASSUME cfg.mode = "observe", NEW i \in 1..m, StartsLoop(i)'
                 PROVE  received' = Cardinality(ReceivedSince(i, m)')
      BY <1>3 DEF Counts
    <2>1. i \in 1..n
      <3>1. PICK k \in 1..n : StartsLoop(k)
        BY <1>3, <1>4 DEF Begun
      <3>2. StartsLoop(k)'
        BY <1>1, <1>2, <3>1, LoopStays
      <3>3. EndsHandshake(k)' /\ EndsHandshake(i)'
        BY <3>2 DEF StartsLoop
      <3>4. ~(k \in 1..(i - 1))
        BY <3>3 DEF EndsHandshake
      <3> QED
        BY <1>2, <3>4
    <2>2. StartsLoop(i)
      BY <1>1, <1>2, <2>1, LoopStays
    <2>3. received = Cardinality(ReceivedSince(i, n))
      BY <1>2, <1>3, <1>4, <2>1, <2>2 DEF Counts
    <2> QED
      BY <1>1, <1>2, <2>1, <2>3, CountGrows
  <1> QED
    BY <1>4, <1>5, <1>6, <1>7 DEF LoopInv, Looping, Unstarted

\* An entry adds its frame to what the tracker saw, or one of no block.
LEMMA ViewGrows ==
    ASSUME TypeOK, NEW e \in LogEntry, log' = Append(log, e)
    PROVE  /\ View \in Seq(Frame) /\ Len(View) = Len(log)
           /\ View' = Append(View, IF e.dir = "received" THEN e.frame ELSE ConnectionPreface)
  <1> DEFINE f == IF e.dir = "received" THEN e.frame ELSE ConnectionPreface
  <1>1. ASSUME NEW k \in DOMAIN log PROVE View[k] \in Frame
    <2>1. log[k] \in LogEntry
      BY DEF TypeOK
    <2>2. log[k].frame \in Frame
      BY <2>1 DEF LogEntry
    <2> QED
      BY <2>2, ConstructorTypes DEF View
  <1>2. /\ DOMAIN log = 1..Len(log) /\ Len(log) \in Nat
        /\ DOMAIN View = DOMAIN log
    BY DEF TypeOK, View
  <1>3. View \in Seq(Frame) /\ Len(View) = Len(log)
    BY <1>1, <1>2 DEF View
  <1>4. f \in Frame
    BY ConstructorTypes DEF LogEntry
  <1>5. /\ DOMAIN log' = 1..(Len(log) + 1)
        /\ log'[Len(log) + 1] = e
        /\ \A k \in DOMAIN log : log'[k] = log[k]
    BY <1>2, Grows
  <1>6. View' = [k \in DOMAIN log' |-> IF log'[k].dir = "received" THEN log'[k].frame
                                       ELSE ConnectionPreface]
    BY DEF View, IsReceived
  <1> HIDE DEF f
  <1>7. View' = [k \in 1..(Len(log) + 1) |-> IF k = Len(log) + 1 THEN f ELSE View[k]]
    <2>1. ASSUME NEW k \in 1..(Len(log) + 1)
          PROVE  (IF log'[k].dir = "received" THEN log'[k].frame ELSE ConnectionPreface)
                     = IF k = Len(log) + 1 THEN f ELSE View[k]
      <3>1. k = Len(log) + 1 \/ k \in DOMAIN log
        BY <1>2, <2>1
      <3> QED
        BY <1>2, <1>5, <3>1 DEF View, IsReceived, f
    <2> QED
      BY <1>5, <1>6, <2>1
  <1>8. Append(View, f) = [k \in 1..(Len(log) + 1) |-> IF k = Len(log) + 1 THEN f ELSE View[k]]
    BY <1>3, <1>4, AppendIs
  <1> QED
    BY <1>3, <1>7, <1>8 DEF f

\* Frames and blocks in the terms of HeaderBlockProofs.
LEMMA ViewIs ==
    ASSUME NEW m \in Nat, DOMAIN log' = 1..m, NEW i \in 1..m
    PROVE  /\ IsHeaderFrame(i)' <=> IsPart(View'[i])
           /\ StartsBlock(i)' <=> Starts(View'[i])
           /\ IsHeaderFrame(i)' => View'[i] = log'[i].frame
           /\ StartsBlock(i)' => IsHeaderFrame(i)'
  <1>1. View'[i] = IF log'[i].dir = "received" THEN log'[i].frame ELSE ConnectionPreface
    BY DEF View, IsReceived
  <1> QED
    BY <1>1 DEF IsHeaderFrame, StartsBlock, IsReceived, Type, IsPart, Starts, ConnectionPreface

LEMMA BlockIs ==
    ASSUME NEW m \in Nat, DOMAIN log' = 1..m, NEW k \in 1..m
    PROVE  /\ IsBlock(k, m)' <=> WholeBlock(View', k, m)
           /\ IsBlock(k, m)' => View'[k] = log'[k].frame
  <1>2. \A i \in 1..m : /\ IsHeaderFrame(i)' <=> IsPart(View'[i])
                        /\ StartsBlock(i)' <=> Starts(View'[i])
                        /\ IsHeaderFrame(i)' => View'[i] = log'[i].frame
                        /\ StartsBlock(i)' => IsHeaderFrame(i)'
    BY ViewIs
  <1>3. \A i \in k..m : i \in 1..m
    OBVIOUS
  <1>4. /\ k <= m /\ m \in 1..m
        /\ \A i \in k..m : i > k <=> i # k
    OBVIOUS
  <1>5. ASSUME StartsBlock(k)'
        PROVE  (\A i \in k..m : IsHeaderFrame(i)' =>
                   /\ Has(i, "END_HEADERS")' <=> i = m
                   /\ i > k => Type(i)' = "CONTINUATION" /\ StreamOf(i)' = StreamOf(k)')
               <=> (\A i \in k..m : IsPart(View'[i]) =>
                      (Closes(View'[i]) <=> i = m) /\ (i # k => Follows(View'[i], View'[k])))
    BY <1>2, <1>3, <1>4, <1>5 DEF Has, Type, StreamOf, Closes, Follows
  <1>6. IsBlock(k, m)' <=> /\ StartsBlock(k)' /\ IsHeaderFrame(m)'
                           /\ \A i \in k..m : IsHeaderFrame(i)' =>
                                 /\ Has(i, "END_HEADERS")' <=> i = m
                                 /\ i > k => Type(i)' = "CONTINUATION" /\ StreamOf(i)' = StreamOf(k)'
    BY <1>4 DEF IsBlock
  <1>7. WholeBlock(View', k, m) <=>
          /\ Starts(View'[k]) /\ IsPart(View'[m])
          /\ \A i \in k..m : IsPart(View'[i]) =>
                (Closes(View'[i]) <=> i = m) /\ (i # k => Follows(View'[i], View'[k]))
    BY <1>4 DEF WholeBlock
  <1> QED
    BY <1>2, <1>4, <1>5, <1>6, <1>7

\* A stream ends with a frame exactly when the event says so, however its
\* header blocks are cut into frames.
LEMMA EndsStreamNow ==
    ASSUME TypeOK, Tracks(tracker, View), NEW f \in Frame, log' = Append(log, Received(f)),
           ~Consume(tracker, f).event.error, NEW m \in Nat, m = Len(log) + 1, NEW s
    PROVE  LET event == Consume(tracker, f).event
           IN  EndsStreamAt(s, m)' <=>
                  \/ event.complete /\ event.stream = s /\ event.endStream
                  \/ f.type = "DATA" /\ f.stream = s /\ "END_STREAM" \in f.flags
  <1> DEFINE event == Consume(tracker, f).event
             e == Received(f)
  <1>1. e \in LogEntry /\ e.dir = "received" /\ e.frame = f /\ log' = Append(log, e)
    BY DEF Received, LogEntry
  <1> HIDE DEF e
  <1>2. /\ View \in Seq(Frame) /\ Len(View) = Len(log) /\ View' = Append(View, f)
    BY <1>1, ViewGrows
  <1>3. log'[m] = e /\ DOMAIN log' = 1..m
    BY <1>1, Grows
  <1>4. /\ event.complete => \E j \in 1..m : WholeBlock(View', j, m) /\ Reports(event, View'[j])
        /\ \A j \in 1..m : WholeBlock(View', j, m) => Reports(event, View'[j])
    BY <1>2, ConsumeReports DEF TypeOK
  <1>5. \A k \in 1..m : /\ IsBlock(k, m)' <=> WholeBlock(View', k, m)
                        /\ IsBlock(k, m)' => View'[k] = log'[k].frame
    BY <1>3, BlockIs
  <1> HIDE DEF event
  <1>6. (\E k \in 1..m : /\ IsBlock(k, m)' /\ Type(k)' = "HEADERS"
                         /\ StreamOf(k)' = s /\ Has(k, "END_STREAM")')
        <=> event.complete /\ event.stream = s /\ event.endStream
    <2>1. ASSUME NEW k \in 1..m, IsBlock(k, m)'
          PROVE  (Type(k)' = "HEADERS" /\ StreamOf(k)' = s /\ Has(k, "END_STREAM")')
                 <=> event.complete /\ event.stream = s /\ event.endStream
      <3>1. Reports(event, log'[k].frame)
        BY <1>4, <1>5, <2>1
      <3>2. StartsEnd(log'[k].frame) \in BOOLEAN
        BY DEF StartsEnd
      <3> QED
        BY <3>1, <3>2 DEF Reports, StartsEnd, Type, StreamOf, Has
    <2>2. event.complete => \E k \in 1..m : IsBlock(k, m)'
      BY <1>4, <1>5
    <2> QED
      BY <2>1, <2>2
  <1>7. /\ IsReceived(m)' /\ Type(m)' = f.type /\ StreamOf(m)' = f.stream
        /\ Has(m, "END_STREAM")' <=> "END_STREAM" \in f.flags
    BY <1>1, <1>3 DEF IsReceived, Type, StreamOf, Has
  <1>8. EndsStreamAt(s, m)' <=>
           \/ f.type = "DATA" /\ f.stream = s /\ "END_STREAM" \in f.flags
           \/ \E k \in 1..m : /\ IsBlock(k, m)' /\ Type(k)' = "HEADERS"
                              /\ StreamOf(k)' = s /\ Has(k, "END_STREAM")'
    BY <1>7 DEF EndsStreamAt
  <1>9. EndsStreamAt(s, m)' <=>
           \/ event.complete /\ event.stream = s /\ event.endStream
           \/ f.type = "DATA" /\ f.stream = s /\ "END_STREAM" \in f.flags
    BY <1>6, <1>8
  <1> QED
    BY <1>9 DEF event

(***************************************************************************)
(* The receive loops                                                       *)
(***************************************************************************)
\* What the three loops have in common.
LEMMA LoopReceives ==
    ASSUME TypeOK, NEW m, m = Len(log) + 1, ReceiveResponse \/ ReceivePing \/ ReceiveObserve
    PROVE  /\ pc = "receive" /\ cfg' = cfg /\ Incoming \in Frame /\ m \in Nat
           /\ log' = Append(log, Received(Incoming))
           /\ tracker' = Consume(tracker, Incoming).tracker
  BY ReceiveType DEF ReceiveResponse, ReceivePing, ReceiveObserve, ReceiveFrame, TypeOK

\* mh2c request waits for the end of its response,
LEMMA ResponseKeepsLoop ==
    ASSUME TypeOK, LoopInv, Tracks(tracker, View), ReceiveResponse
    PROVE  LoopInv'
  <1>1. PICK m : m = Len(log) + 1
    OBVIOUS
  <1>2. PICK f : f = Incoming
    OBVIOUS
  <1>3. PICK s : s = cfg.streamID
    OBVIOUS
  <1>4. /\ pc = "receive" /\ cfg' = cfg /\ f \in Frame /\ m \in Nat
        /\ log' = Append(log, Received(f)) /\ cfg.mode = "request"
    BY <1>1, <1>2, LoopReceives DEF ReceiveResponse
  <1>5. IncomingEvent = Consume(tracker, f).event
    BY <1>2 DEF IncomingEvent
  <1>6. CASE Exit("error")
    BY <1>1, <1>4, <1>6, ReceiveKeepsLoop DEF Exit, AtLimit
  <1>7. CASE ~IncomingEvent.error /\ Continue(ResponseNext(f, IncomingEvent))
    <2>1. EndsStreamAt(s, m)' <=> EndsResponse(f, IncomingEvent)
      <3>1. EndsStreamAt(s, m)' <=>
               \/ IncomingEvent.complete /\ IncomingEvent.stream = s /\ IncomingEvent.endStream
               \/ f.type = "DATA" /\ f.stream = s /\ "END_STREAM" \in f.flags
        BY <1>1, <1>4, <1>5, <1>7, EndsStreamNow
      <3> QED
        BY <1>3, <3>1 DEF EndsResponse
    <2>2. IsAwaited(m)' <=> f.type = "GOAWAY" \/ EndsResponse(f, IncomingEvent)
      BY <1>1, <1>3, <1>4, <2>1, AwaitedNow
    <2>3. NeedsAnswer(f) => f.type # "GOAWAY" /\ ~EndsResponse(f, IncomingEvent)
      BY <1>5 DEF NeedsAnswer, EndsResponse, Consume, Keep, NoBlock
    <2>4. ~AtLimit /\ ~AtLimit'
      BY <1>4 DEF AtLimit
    <2>5. \/ pc' = "finish" /\ IsAwaited(m)'
          \/ pc' \in Looping /\ ~IsAwaited(m)'
      BY <1>7, <2>2, <2>3 DEF ResponseNext, Continue, Looping
    <2> QED
      BY <1>1, <1>4, <1>7, <2>4, <2>5, ReceiveKeepsLoop DEF Continue
  <1> QED
    BY <1>2, <1>6, <1>7 DEF ReceiveResponse

\* mh2c ping for the acknowledgement of its PING,
LEMMA PingKeepsLoop ==
    ASSUME TypeOK, LoopInv, ReceivePing
    PROVE  LoopInv'
  <1>1. PICK m : m = Len(log) + 1
    OBVIOUS
  <1>2. PICK f : f = Incoming
    OBVIOUS
  <1>4. /\ pc = "receive" /\ cfg' = cfg /\ f \in Frame /\ m \in Nat
        /\ log' = Append(log, Received(f)) /\ cfg.mode = "ping"
    BY <1>1, <1>2, LoopReceives DEF ReceivePing
  <1>6. CASE Exit("error")
    BY <1>1, <1>4, <1>6, ReceiveKeepsLoop DEF Exit, AtLimit
  <1>7. CASE Continue(PingNext(f))
    <2>2. IsAwaited(m)' <=> f.type = "GOAWAY" \/ EndsPing(f)
      BY <1>1, <1>4, AwaitedNow
    <2>3. NeedsAnswer(f) => f.type # "GOAWAY" /\ ~EndsPing(f)
      BY DEF NeedsAnswer, EndsPing
    <2>4. ~AtLimit /\ ~AtLimit'
      BY <1>4 DEF AtLimit
    <2>5. \/ pc' = "finish" /\ IsAwaited(m)'
          \/ pc' \in Looping /\ ~IsAwaited(m)'
      BY <1>7, <2>2, <2>3 DEF PingNext, Continue, Looping
    <2> QED
      BY <1>1, <1>4, <1>7, <2>4, <2>5, ReceiveKeepsLoop DEF Continue
  <1> QED
    BY <1>2, <1>6, <1>7 DEF ReceivePing

\* mh2c observe for its limit, which it notices before it reads again.
LEMMA ObserveKeepsLoop ==
    ASSUME TypeOK, LoopInv, ReceiveObserve
    PROVE  LoopInv'
  <1>1. PICK m : m = Len(log) + 1
    OBVIOUS
  <1>2. PICK f : f = Incoming
    OBVIOUS
  <1>4. /\ pc = "receive" /\ cfg' = cfg /\ f \in Frame /\ m \in Nat
        /\ log' = Append(log, Received(f)) /\ cfg.mode = "observe"
        /\ ~AtLimit /\ received' = received + 1
    BY <1>1, <1>2, LoopReceives DEF ReceiveObserve, Counted
  <1>6. CASE Exit("error")
    BY <1>1, <1>4, <1>6, ReceiveKeepsLoop DEF Exit
  <1>7. CASE Continue(ObserveNext(f))
    <2>1. AtLimit' <=> cfg.maxRecv > 0 /\ received + 1 >= cfg.maxRecv
      BY <1>4 DEF AtLimit
    <2>2. IsAwaited(m)' <=> f.type = "GOAWAY" \/ AtLimit'
      BY <1>1, <1>4, <2>1, AwaitedNow
    <2>3. NeedsAnswer(f) => f.type # "GOAWAY"
      BY DEF NeedsAnswer
    <2>5. \/ pc' = "finish" /\ IsAwaited(m)'
          \/ pc' \in Looping /\ (IsAwaited(m)' <=> AtLimit')
      BY <1>7, <2>2, <2>3 DEF ObserveNext, Continue, Looping
    <2> QED
      BY <1>1, <1>4, <1>7, <2>5, ReceiveKeepsLoop DEF Continue
  <1> QED
    BY <1>2, <1>6, <1>7 DEF ReceiveObserve

\* Each command keeps to its own way from the handshake to the loop.
OnPath ==
    /\ pc \in {"prepare", "headers", "data"} => cfg.mode = "request"
    /\ pc = "ping" => cfg.mode = "ping"

LEMMA OnPathInit == Init => OnPath
  BY DEF Init, OnPath

LEMMA OnPathStep == TypeOK /\ OnPath /\ [Next]_vars => OnPath'
  <1> SUFFICES ASSUME TypeOK, OnPath, [Next]_vars PROVE OnPath'
    OBVIOUS
  <1>1. CASE Dial \/ PrepareRequest \/ ReceiveFails \/ ObserveLimit \/ Flush \/ SendGoAway
    BY <1>1 DEF Dial, PrepareRequest, ReceiveFails, ObserveLimit, Flush, SendGoAway, Continue,
                Exit, OnPath
  <1>2. CASE SendPreface \/ SendSettings \/ SendHeaders \/ SendData \/ SendPing \/ ReceiveAnswer
    BY <1>2 DEF SendPreface, SendSettings, SendHeaders, SendData, SendPing, ReceiveAnswer,
                SendFrameAndReport, Continue, Exit, OnPath
  <1>3. CASE HandshakeReceive \/ HandshakeAnswer
    <2>1. /\ AfterHandshake = "prepare" => cfg.mode = "request"
          /\ AfterHandshake = "ping" => cfg.mode = "ping"
          /\ AfterHandshake \in {"prepare", "ping", "receive"}
      BY ConfigType DEF AfterHandshake, Modes
    <2>2. /\ cfg' = cfg
          /\ pc' \in {"handshake", "handshake_answer", "exited"} \/ pc' = AfterHandshake
      BY <1>3 DEF HandshakeReceive, HandshakeAnswer, ReceiveFrame, SendFrameAndReport, Continue,
                  Exit, HandshakeNext
    <2> QED
      BY <2>1, <2>2 DEF OnPath
  <1>4. CASE ReceiveResponse \/ ReceivePing \/ ReceiveObserve
    BY <1>4 DEF ReceiveResponse, ReceivePing, ReceiveObserve, ReceiveFrame, Continue, Exit,
                ResponseNext, PingNext, ObserveNext, OnPath
  <1>5. CASE Environment \/ UNCHANGED vars
    BY <1>5 DEF Environment, PeerSend, PeerClose, Expire, vars, client, OnPath
  <1> QED
    BY <1>1, <1>2, <1>3, <1>4, <1>5 DEF Next, ClientStep, Terminated

(***************************************************************************)
(* What a step may do to the tracker and the capture manager               *)
(***************************************************************************)
Receives == HandshakeReceive \/ ReceiveResponse \/ ReceivePing \/ ReceiveObserve

GathersNothing ==
    /\ UNCHANGED <<cfg, tracker, cap, saved>>
    /\ \E f \in Frame : log' = log \/ log' = Append(log, Sent(f))
    /\ \/ pc # "exited" /\ pc' = "exited" /\ result' = "error"
       \/ pc # "exited" /\ pc' # "exited" /\ result' = result
       \/ UNCHANGED <<pc, result, log>>

\* A step receives a frame, writes the files at the end, or leaves the tracker
\* and the capture manager alone and sends one frame at most.
LEMMA StepIs ==
    ASSUME TypeOK, [Next]_vars
    PROVE  Receives \/ Flush \/ GathersNothing
  <1>1. ASSUME NEW f \in Frame, NEW next, SendFrameAndReport(f, next), next # "exited",
               pc # "exited", UNCHANGED <<cfg, tracker, cap, saved>>
        PROVE  GathersNothing
    BY <1>1 DEF SendFrameAndReport, Continue, Exit, GathersNothing
  <1>2. ConnectionPreface \in Frame /\ SettingsFrame({}) \in Frame /\ GoAwayFrame \in Frame
    BY ConstructorTypes
  <1>3. Answer(held) \in Frame
    <2>1. {"ACK"} \in SUBSET Flags /\ held.payload \in Seq(Item)
      BY DEF Flags, TypeOK, Frame
    <2> QED
      BY <2>1, ConstructorTypes DEF Answer
  <1>4. /\ HeadersFrame(cfg.streamID, {"END_HEADERS", "END_STREAM"}, cfg.fields) \in Frame
        /\ HeadersFrame(cfg.streamID, {"END_HEADERS"}, cfg.fields) \in Frame
        /\ DataFrame(cfg.streamID, {"END_STREAM"}, cfg.body) \in Frame
        /\ PingFrame({}, cfg.pingData) \in Frame
    BY ConfigType, ConstructorTypes DEF Flags
  <1>5. CASE Dial \/ ReceiveFails \/ PrepareRequest \/ ObserveLimit \/ Environment
             \/ UNCHANGED vars
    BY <1>2, <1>5 DEF Dial, ReceiveFails, PrepareRequest, ObserveLimit, Environment, PeerSend,
                      PeerClose, Expire, vars, client, Continue, Exit, GathersNothing
  <1>6. CASE SendPreface \/ SendSettings
    BY <1>1, <1>2, <1>6 DEF SendPreface, SendSettings
  <1>7. CASE HandshakeAnswer \/ ReceiveAnswer
    <2>1. AfterHandshake # "exited"
      BY ConfigType DEF AfterHandshake, Modes
    <2>2. PICK next : /\ SendFrameAndReport(Answer(held), next) /\ next # "exited"
                      /\ pc # "exited" /\ UNCHANGED <<cfg, tracker, cap, saved>>
      BY <1>7, <2>1 DEF HandshakeAnswer, ReceiveAnswer
    <2> QED
      BY <1>1, <1>3, <2>2
  <1>8. CASE SendHeaders
    BY <1>1, <1>4, <1>8 DEF SendHeaders
  <1>9. CASE SendData
    BY <1>1, <1>4, <1>9 DEF SendData
  <1>10. CASE SendPing
    <2>1. CASE SendFrameAndReport(PingFrame({}, cfg.pingData), "receive")
      BY <1>1, <1>4, <1>10, <2>1 DEF SendPing
    <2>2. CASE Exit("error") /\ log' = log
      BY <1>2, <1>10, <2>2 DEF SendPing, Exit, GathersNothing
    <2> QED
      BY <1>10, <2>1, <2>2 DEF SendPing
  <1>11. CASE SendGoAway
    BY <1>2, <1>11 DEF SendGoAway, Continue, GathersNothing
  <1> QED
    BY <1>5, <1>6, <1>7, <1>8, <1>9, <1>10, <1>11 DEF Next, ClientStep, Terminated, Receives

\* What is pending in the tracker is what the history has open.
LEMMA HoldsInit == Init => Holds(tracker, View)
  BY DEF Init, Holds, Idle

LEMMA HoldsStep == TypeOK /\ Holds(tracker, View) /\ [Next]_vars => Holds(tracker, View)'
  <1> SUFFICES ASSUME TypeOK, Holds(tracker, View), [Next]_vars PROVE Holds(tracker, View)'
    OBVIOUS
  <1>1. CASE Receives
    <2>1. /\ Incoming \in Frame /\ log' = Append(log, Received(Incoming))
          /\ tracker' = Consume(tracker, Incoming).tracker
      BY <1>1, ReceiveType DEF Receives, HandshakeReceive, ReceiveResponse, ReceivePing,
                               ReceiveObserve, ReceiveFrame
    <2>2. /\ Received(Incoming) \in LogEntry /\ Received(Incoming).dir = "received"
          /\ Received(Incoming).frame = Incoming
      BY <2>1 DEF Received, LogEntry
    <2>3. View \in Seq(Frame) /\ View' = Append(View, Incoming)
      BY <2>1, <2>2, ViewGrows
    <2>4. Holds(Consume(tracker, Incoming).tracker, Append(View, Incoming))
      BY <2>1, <2>3, ConsumeHolds DEF TypeOK
    <2> QED
      BY <2>1, <2>3, <2>4
  <1>2. ASSUME tracker' = tracker, NEW f \in Frame, log' = log \/ log' = Append(log, Sent(f))
        PROVE  Holds(tracker, View)'
    <2>1. Sent(f) \in LogEntry /\ Sent(f).dir = "sent"
      BY DEF Sent, LogEntry
    <2>2. CASE log' = log
      BY <1>2, <2>2 DEF View, IsReceived
    <2>3. CASE log' = Append(log, Sent(f))
      <3>1. View \in Seq(Frame) /\ View' = Append(View, ConnectionPreface)
        BY <2>1, <2>3, ViewGrows
      <3>2. Holds(Consume(tracker, ConnectionPreface).tracker, Append(View, ConnectionPreface))
        BY <3>1, ConstructorTypes, ConsumeHolds DEF TypeOK
      <3>3. Consume(tracker, ConnectionPreface).tracker = tracker
        BY DEF Consume, Keep, ConnectionPreface
      <3> QED
        BY <1>2, <3>1, <3>2, <3>3
    <2> QED
      BY <1>2, <2>2, <2>3
  <1>3. CASE Flush
    BY <1>3 DEF Flush, View, IsReceived
  <1> QED
    BY <1>1, <1>2, <1>3, StepIs DEF GathersNothing

(***************************************************************************)
(* The receive loops end as they should                                    *)
(***************************************************************************)
\* Initially no loop has started, and every step preserves the invariant.
LEMMA LoopInit == Init => LoopInv
  BY DEF Init, LoopInv, Finished, NothingAfter, Done, Begun, Looping

LEMMA LoopStep ==
    /\ TypeOK /\ AnswerInv /\ OrderInv /\ OrderInv' /\ LoopInv /\ Tracks(tracker, View)
    /\ OnPath /\ [Next]_vars
    => LoopInv'
  <1> SUFFICES ASSUME TypeOK, AnswerInv, OrderInv, OrderInv', LoopInv, Tracks(tracker, View),
                      OnPath, [Next]_vars
               PROVE  LoopInv'
    OBVIOUS
  <1>1. CASE Dial \/ PrepareRequest \/ ReceiveFails \/ ObserveLimit \/ Flush
    BY <1>1, QuietKeepsLoop
       DEF Dial, PrepareRequest, ReceiveFails, ObserveLimit, Flush, Continue, Exit, Finished,
           Unstarted, Looping
  <1>2. CASE SendPreface
    <2>1. /\ ConnectionPreface \in Frame /\ ~Launches(ConnectionPreface)
          /\ "settings" \in PCs /\ "settings" \in Unstarted /\ pc \in Unstarted
      BY <1>2, ConstructorTypes DEF ConnectionPreface, Launches, PCs, SendPreface, Unstarted
    <2> QED
      BY <1>2, <2>1, SendKeepsLoop DEF SendPreface, Looping
  <1>3. CASE SendSettings
    <2>1. /\ SettingsFrame({}) \in Frame /\ ~Launches(SettingsFrame({}))
          /\ "handshake" \in PCs /\ "handshake" \in Unstarted /\ pc \in Unstarted
      BY <1>3, ConstructorTypes DEF SettingsFrame, Launches, PCs, SendSettings, Unstarted
    <2> QED
      BY <1>3, <2>1, SendKeepsLoop DEF SendSettings, Looping
  <1>4. CASE HandshakeReceive
    BY <1>4, HandshakeReceiveKeepsLoop
  <1>5. CASE HandshakeAnswer
    BY <1>5, HandshakeAnswerKeepsLoop
  <1>6. CASE ReceiveAnswer
    <2>1. Answer(held) \in Frame
      <3>1. {"ACK"} \in SUBSET Flags /\ held.payload \in Seq(Item)
        BY DEF Flags, TypeOK, Frame
      <3> QED
        BY <3>1, ConstructorTypes DEF Answer
    <2>2. "receive" \in PCs /\ "receive" \notin Unstarted /\ pc \in Looping
      BY <1>6 DEF ReceiveAnswer, PCs, Unstarted, Looping
    <2> QED
      BY <1>6, <2>1, <2>2, SendKeepsLoop DEF ReceiveAnswer
  <1>7. CASE SendHeaders
    <2> DEFINE f(flags) == HeadersFrame(cfg.streamID, flags, cfg.fields)
    <2>1. /\ f({"END_HEADERS", "END_STREAM"}) \in Frame /\ f({"END_HEADERS"}) \in Frame
          /\ "END_STREAM" \in f({"END_HEADERS", "END_STREAM"}).flags
          /\ f({"END_HEADERS"}).type # "PING" /\ "END_STREAM" \notin f({"END_HEADERS"}).flags
      BY ConfigType, ConstructorTypes DEF Flags, HeadersFrame
    <2>2. ~Launches(f({"END_HEADERS"})) /\ Launches(f({"END_HEADERS", "END_STREAM"}))
      BY <1>7, <2>1 DEF Launches, OnPath, SendHeaders
    <2>3. \/ SendFrameAndReport(f({"END_HEADERS", "END_STREAM"}), "receive")
          \/ SendFrameAndReport(f({"END_HEADERS"}), "data")
      BY <1>7 DEF SendHeaders
    <2>4. /\ "receive" \in PCs /\ "receive" \notin Unstarted /\ pc \in Unstarted
          /\ "data" \in PCs /\ "data" \notin Looping
          /\ cfg' = cfg /\ received' = received
      BY <1>7 DEF SendHeaders, PCs, Unstarted, Looping
    <2> HIDE DEF f
    <2> QED
      BY <2>1, <2>2, <2>3, <2>4, SendKeepsLoop
  <1>8. CASE SendData
    <2> DEFINE f == DataFrame(cfg.streamID, {"END_STREAM"}, cfg.body)
    <2>1. /\ f \in Frame /\ Launches(f)
      BY <1>8, ConfigType, ConstructorTypes DEF Flags, DataFrame, Launches, OnPath, SendData
    <2>2. /\ "receive" \in PCs /\ "receive" \notin Unstarted /\ pc \in Unstarted
          /\ cfg' = cfg /\ received' = received /\ SendFrameAndReport(f, "receive")
      BY <1>8 DEF SendData, PCs, Unstarted
    <2> HIDE DEF f
    <2> QED
      BY <2>1, <2>2, SendKeepsLoop
  <1>9. CASE SendPing
    <2> DEFINE f == PingFrame({}, cfg.pingData)
    <2>1. /\ f \in Frame /\ Launches(f)
      BY <1>9, ConfigType, ConstructorTypes DEF PingFrame, Launches, OnPath, SendPing
    <2>2. /\ "receive" \in PCs /\ "receive" \notin Unstarted /\ pc \in Unstarted
          /\ cfg' = cfg /\ received' = received
      BY <1>9 DEF SendPing, PCs, Unstarted
    <2>3. CASE SendFrameAndReport(f, "receive")
      <3> HIDE DEF f
      <3> QED
        BY <2>1, <2>2, <2>3, SendKeepsLoop
    <2>4. CASE Exit("error") /\ log' = log
      BY <2>2, <2>4, QuietKeepsLoop DEF Exit, Finished, Unstarted, Looping
    <2> QED
      BY <1>9, <2>3, <2>4 DEF SendPing
  <1>10. CASE ReceiveResponse \/ ReceivePing \/ ReceiveObserve
    BY <1>10, ResponseKeepsLoop, PingKeepsLoop, ObserveKeepsLoop
  <1>11. CASE SendGoAway
    <2>1. GoAwayFrame \in Frame /\ "flush" \in PCs /\ pc = "finish"
      BY <1>11, ConstructorTypes DEF SendGoAway, PCs
    <2>2. cfg' = cfg /\ received' = received /\ pc' = "flush" /\ result' = result
      BY <1>11 DEF SendGoAway, Continue
    <2>3. CASE log' = log
      BY <2>1, <2>2, <2>3, QuietKeepsLoop DEF Finished, Unstarted, Looping
    <2>4. CASE log' = Append(log, Sent(GoAwayFrame))
      <3>1. SendFrameAndReport(GoAwayFrame, "flush")
        BY <2>2, <2>4 DEF SendFrameAndReport, Continue
      <3> QED
        BY <2>1, <2>2, <3>1, SendKeepsLoop DEF Unstarted, Looping
    <2> QED
      BY <1>11, <2>3, <2>4 DEF SendGoAway
  <1>12. CASE Environment \/ UNCHANGED vars
    BY <1>12, QuietKeepsLoop
       DEF Environment, PeerSend, PeerClose, Expire, vars, client, Finished
  <1> QED
    BY <1>1, <1>2, <1>3, <1>4, <1>5, <1>6, <1>7, <1>8, <1>9, <1>10, <1>11, <1>12
       DEF Next, ClientStep, Terminated

\* In every run, whatever the peer sends and however it cuts its header blocks
\* into frames, a receive loop ends well only on the frame its command waits
\* for (the end of the response, the acknowledgement of the PING, the frame
\* that exhausts --max-recv, a GOAWAY), and reads nothing after it:
\* receiveResponseFrames, receivePingFrames, receiveObserveFrames.
THEOREM LoopsCorrect == Spec => []StopsWhenDone
  <1>1. Spec => []AnswerInv
    BY AnswerInit, AnswerStep, TypeCorrect, PTL DEF Spec
  <1>2. Spec => []OrderInv
    BY <1>1, OrderInit, OrderStep, TypeCorrect, PTL DEF Spec
  <1>3. Spec => []OnPath
    BY OnPathInit, OnPathStep, TypeCorrect, PTL DEF Spec
  <1>4. Spec => []Holds(tracker, View)
    BY HoldsInit, HoldsStep, TypeCorrect, PTL DEF Spec
  <1>5. Holds(tracker, View) => Tracks(tracker, View)
    BY DEF Holds, Tracks
  <1>6. Spec => []Tracks(tracker, View)
    BY <1>4, <1>5, PTL
  <1>7. Spec => []LoopInv
    BY <1>1, <1>2, <1>3, <1>6, LoopInit, LoopStep, TypeCorrect, PTL DEF Spec
  <1>8. LoopInv => StopsWhenDone
    BY DEF LoopInv, Done, NothingAfter, StopsWhenDone
  <1> QED
    BY <1>7, <1>8, PTL

(***************************************************************************)
(* What is gathered, and what is saved                                     *)
(***************************************************************************)
\* The first of all streams to end is s.
EndsFirst(s) ==
    \E n \in DOMAIN log : /\ EndRecorded(s, n)
                          /\ \A t \in StreamIds \ {0}, m \in 1..(n - 1) : ~EndRecorded(t, m)

\* What the capture manager has so far is what the history has so far.
Gathered ==
    /\ \A s \in StreamIds : /\ Joined(cap.body[s], BodyFrames(s), Payloads)
                            /\ Joined(cap.headers[s], BlockFrames(s), Payloads)
    /\ cap.known = {s \in StreamIds : \E n \in DOMAIN log : Recorded(s, n)}
    /\ cap.kind = "auto" =>
          IF cap.selected = 0
          THEN \A t \in StreamIds \ {0}, n \in DOMAIN log : ~EndRecorded(t, n)
          ELSE \A s \in StreamIds \ {0} : EndsFirst(s) <=> s = cap.selected

\* A command that runs on has saved nothing, and has gathered what it will
\* save if it is to save anything.
FilesInv ==
    /\ pc # "exited" => /\ result = "running" /\ saved = {}
                        /\ cap.kind = CaptureKind(cfg) /\ cap.target = CaptureTarget(cfg)
                        /\ cap.kind # "none" => Gathered
    /\ SavedFilesExact

\* What the history recorded, a longer one has recorded too, and no more of it.
LEMMA RecordedStays ==
    ASSUME TypeOK, NEW e \in LogEntry, log' = Append(log, e), NEW n \in 1..Len(log), NEW s
    PROVE  /\ Recorded(s, n)' <=> Recorded(s, n)
           /\ EndRecorded(s, n)' <=> EndRecorded(s, n)
  <1>1. n \in 1..n /\ \A k \in 1..n : \A i \in k..n : i \in 1..n
    BY Grows
  <1>2. \A i \in 1..n : /\ log'[i] = log[i]
                        /\ IsReceived(i)' <=> IsReceived(i)
                        /\ Type(i)' = Type(i) /\ StreamOf(i)' = StreamOf(i)
                        /\ IsHeaderFrame(i)' <=> IsHeaderFrame(i)
    <2>1. \A i \in 1..n : i \in 1..Len(log)
      BY Grows
    <2> QED
      BY <2>1, EntriesStay
  <1>3. \A k \in 1..n : IsBlock(k, n)' <=> IsBlock(k, n)
    BY BlockStays
  <1>4. Recorded(s, n)' <=> Recorded(s, n)
    BY <1>1, <1>2, <1>3 DEF Recorded
  <1> QED
    BY <1>4, EndsStreamStays DEF EndRecorded

\* The first stream to end stays the first.
LEMMA EndsFirstStays ==
    ASSUME TypeOK, NEW e \in LogEntry, log' = Append(log, e), NEW m \in Nat, m = Len(log) + 1,
           NEW s \in StreamIds \ {0}
    PROVE  /\ (\E t \in StreamIds \ {0} : EndsFirst(t)) => (EndsFirst(s)' <=> EndsFirst(s))
           /\ (\A t \in StreamIds \ {0}, n \in 1..Len(log) : ~EndRecorded(t, n))
                 => (EndsFirst(s)' <=> EndRecorded(s, m)')
  <1>1. /\ DOMAIN log = 1..(m - 1) /\ DOMAIN log' = 1..m /\ Len(log) = m - 1
        /\ \A n \in 1..m : n \in 1..(m - 1) \/ n = m
        /\ \A n \in 1..m : \A k \in 1..(n - 1) : k \in 1..(m - 1)
        /\ m \in 1..m /\ \A n \in 1..(m - 1) : n \in 1..m
    BY Grows
  <1>2. \A t \in StreamIds : \A n \in 1..(m - 1) : EndRecorded(t, n)' <=> EndRecorded(t, n)
    BY <1>1, RecordedStays
  <1>3. EndsFirst(s)' <=>
           \E n \in 1..m : /\ EndRecorded(s, n)'
                           /\ \A t \in StreamIds \ {0}, k \in 1..(n - 1) : ~EndRecorded(t, k)
    BY <1>1, <1>2 DEF EndsFirst
  <1>4. EndsFirst(s) <=>
           \E n \in 1..(m - 1) : /\ EndRecorded(s, n)
                                 /\ \A t \in StreamIds \ {0}, k \in 1..(n - 1) : ~EndRecorded(t, k)
    BY <1>1 DEF EndsFirst
  <1>5. ASSUME NEW t \in StreamIds \ {0}, EndsFirst(t) PROVE EndsFirst(s)' <=> EndsFirst(s)
    <2>1. PICK n \in 1..(m - 1) : EndRecorded(t, n)
      BY <1>1, <1>5 DEF EndsFirst
    <2> QED
      BY <1>1, <1>2, <1>3, <1>4, <2>1
  <1>6. ASSUME \A t \in StreamIds \ {0}, n \in 1..(m - 1) : ~EndRecorded(t, n)
        PROVE  EndsFirst(s)' <=> EndRecorded(s, m)'
    BY <1>1, <1>2, <1>3, <1>6
  <1> QED
    BY <1>1, <1>5, <1>6

\* What one more entry, the m-th, adds to the files.
AddsData(e, s) == e.dir = "received" /\ e.frame.type = "DATA" /\ e.frame.stream = s

AddedParts(s, m) ==
    {i \in 1..m : /\ IsHeaderFrame(i)'
                  /\ \E k \in 1..i : IsBlock(k, m)' /\ StreamOf(k)' = s}

LEMMA FramesGrow ==
    ASSUME TypeOK, NEW e \in LogEntry, log' = Append(log, e), NEW m \in Nat, m = Len(log) + 1,
           NEW s
    PROVE  /\ AddsData(e, s) => BodyFrames(s)' = BodyFrames(s) \cup {m}
           /\ ~AddsData(e, s) => BodyFrames(s)' = BodyFrames(s)
           /\ BlockFrames(s)' = BlockFrames(s) \cup AddedParts(s, m)
           /\ BodyFrames(s) \subseteq 1..(m - 1) /\ BlockFrames(s) \subseteq 1..(m - 1)
           /\ \A i \in 1..(m - 1) : Payloads'[i] = Payloads[i]
           /\ Payloads'[m] = e.frame.payload
  <1>1. /\ DOMAIN log = 1..(m - 1) /\ DOMAIN log' = 1..m /\ Len(log) = m - 1 /\ Len(log') = m
        /\ \A n \in 1..m : n \in 1..(m - 1) \/ n = m
        /\ m \in 1..m /\ \A n \in 1..(m - 1) : n \in 1..m /\ n # m
        /\ log'[m] = e
    BY Grows
  <1>2. \A i \in 1..(m - 1) : /\ log'[i] = log[i]
                              /\ IsReceived(i)' <=> IsReceived(i)
                              /\ Type(i)' = Type(i) /\ StreamOf(i)' = StreamOf(i)
                              /\ IsHeaderFrame(i)' <=> IsHeaderFrame(i)
    BY <1>1, EntriesStay
  <1>3. \A n \in 1..(m - 1) : \A k \in 1..n : IsBlock(k, n)' <=> IsBlock(k, n)
    BY <1>1, BlockStays
  <1>4. /\ BodyFrames(s) \subseteq 1..(m - 1) /\ BlockFrames(s) \subseteq 1..(m - 1)
        /\ \A i \in 1..(m - 1) : Payloads'[i] = Payloads[i]
        /\ Payloads'[m] = e.frame.payload
    BY <1>1, <1>2 DEF BodyFrames, BlockFrames, Payloads
  <1>5. /\ AddsData(e, s) => BodyFrames(s)' = BodyFrames(s) \cup {m}
        /\ ~AddsData(e, s) => BodyFrames(s)' = BodyFrames(s)
    <2>1. \A i \in 1..m : i \in BodyFrames(s)' <=>
                             log'[i].dir = "received" /\ log'[i].frame.type = "DATA"
                             /\ log'[i].frame.stream = s
      BY <1>1 DEF BodyFrames, IsReceived, Type, StreamOf
    <2>2. \A i \in 1..(m - 1) : i \in BodyFrames(s) <=>
                                   log[i].dir = "received" /\ log[i].frame.type = "DATA"
                                   /\ log[i].frame.stream = s
      BY <1>1 DEF BodyFrames, IsReceived, Type, StreamOf
    <2>3. \A i \in BodyFrames(s)' : i \in 1..m
      BY <1>1 DEF BodyFrames
    <2> QED
      <3>1. ASSUME NEW i \in 1..(m - 1) PROVE i \in BodyFrames(s)' <=> i \in BodyFrames(s)
        BY <1>1, <1>2, <2>1, <2>2
      <3>2. m \in BodyFrames(s)' <=> AddsData(e, s)
        BY <1>1, <2>1 DEF AddsData
      <3> QED
        BY <1>1, <1>4, <2>3, <3>1, <3>2
  <1>6. ASSUME NEW i \in 1..m
        PROVE  i \in BlockFrames(s)' <=>
                  \/ i \in BlockFrames(s)
                  \/ IsHeaderFrame(i)' /\ \E k \in 1..i : IsBlock(k, m)' /\ StreamOf(k)' = s
    <2>1. i \in BlockFrames(s)' <=>
             IsHeaderFrame(i)' /\ \E k \in 1..i, n \in i..m : IsBlock(k, n)' /\ StreamOf(k)' = s
      BY <1>1 DEF BlockFrames
    <2>2. i \in BlockFrames(s) <=>
             /\ i \in 1..(m - 1)
             /\ IsHeaderFrame(i)
             /\ \E k \in 1..i, n \in i..(m - 1) : IsBlock(k, n) /\ StreamOf(k) = s
      BY <1>1 DEF BlockFrames
    <2>3. CASE i = m
      <3>1. \A n \in i..m : n = m
        BY <2>3
      <3>2. m \in i..m /\ i \notin 1..(m - 1)
        BY <2>3
      <3> QED
        BY <2>1, <2>2, <3>1, <3>2
    <2>4. CASE i \in 1..(m - 1)
      <3>1. /\ \A n \in i..m : n \in i..(m - 1) \/ n = m
            /\ m \in i..m /\ \A n \in i..(m - 1) : n \in i..m
        OBVIOUS
      <3>2. \A k \in 1..i, n \in i..(m - 1) :
               (IsBlock(k, n)' /\ StreamOf(k)' = s) <=> (IsBlock(k, n) /\ StreamOf(k) = s)
        <4>1. \A k \in 1..i, n \in i..(m - 1) : k \in 1..n /\ n \in 1..(m - 1) /\ k \in 1..(m - 1)
          BY <2>4
        <4> QED
          BY <1>2, <1>3, <4>1
      <3> QED
        BY <1>2, <2>1, <2>2, <2>4, <3>1, <3>2
    <2> QED
      BY <1>1, <2>3, <2>4
  <1>7. BlockFrames(s)' = BlockFrames(s) \cup AddedParts(s, m)
    <2>1. \A i \in BlockFrames(s)' : i \in 1..m
      BY <1>1 DEF BlockFrames
    <2> QED
      BY <1>1, <1>4, <1>6, <2>1 DEF AddedParts
  <1> QED
    BY <1>4, <1>5, <1>7

\* A step that adds to the manager what it adds to the history keeps them equal.
LEMMA GatherStep ==
    ASSUME TypeOK, Gathered, NEW e \in LogEntry, log' = Append(log, e),
           NEW m \in Nat, m = Len(log) + 1, cap' \in CaptureState, cap'.kind = cap.kind,
           \A s \in StreamIds : /\ Joined(cap'.body[s], BodyFrames(s)', Payloads')
                                /\ Joined(cap'.headers[s], BlockFrames(s)', Payloads')
                                /\ s \in cap'.known <=> s \in cap.known \/ Recorded(s, m)',
           cap.kind = "auto" =>
              IF cap.selected # 0 THEN cap'.selected = cap.selected
              ELSE IF cap'.selected = 0 THEN \A s \in StreamIds \ {0} : ~EndRecorded(s, m)'
              ELSE \A s \in StreamIds \ {0} : EndRecorded(s, m)' <=> s = cap'.selected
    PROVE  Gathered'
  <1>1. /\ DOMAIN log = 1..(m - 1) /\ DOMAIN log' = 1..m /\ Len(log) = m - 1
        /\ \A n \in 1..m : n \in 1..(m - 1) \/ n = m
        /\ m \in 1..m /\ \A n \in 1..(m - 1) : n \in 1..m
    BY Grows
  <1>2. \A s \in StreamIds : \A n \in 1..(m - 1) : /\ Recorded(s, n)' <=> Recorded(s, n)
                                                   /\ EndRecorded(s, n)' <=> EndRecorded(s, n)
    BY <1>1, RecordedStays
  <1>3. cap'.known = {s \in StreamIds : \E n \in DOMAIN log' : Recorded(s, n)'}
    <2>1. \A s \in StreamIds : s \in cap'.known <=> \E n \in DOMAIN log' : Recorded(s, n)'
      BY <1>1, <1>2 DEF Gathered
    <2>2. cap'.known \subseteq StreamIds
      BY DEF CaptureState
    <2> QED
      BY <2>1, <2>2
  <1>4. ASSUME cap.kind = "auto", cap.selected # 0
        PROVE  cap'.selected # 0 /\ \A s \in StreamIds \ {0} : EndsFirst(s)' <=> s = cap'.selected
    <2>1. /\ \A s \in StreamIds \ {0} : EndsFirst(s) <=> s = cap.selected
          /\ cap.selected \in StreamIds \ {0}
      BY <1>4 DEF Gathered, TypeOK, CaptureState
    <2>2. \A s \in StreamIds \ {0} : EndsFirst(s)' <=> EndsFirst(s)
      BY <2>1, EndsFirstStays
    <2> QED
      BY <1>4, <2>1, <2>2
  <1>5. ASSUME cap.kind = "auto", cap.selected = 0
        PROVE  IF cap'.selected = 0
               THEN \A t \in StreamIds \ {0}, n \in DOMAIN log' : ~EndRecorded(t, n)'
               ELSE \A s \in StreamIds \ {0} : EndsFirst(s)' <=> s = cap'.selected
    <2>1. \A t \in StreamIds \ {0}, n \in 1..(m - 1) : ~EndRecorded(t, n)
      BY <1>1, <1>5 DEF Gathered
    <2>2. \A s \in StreamIds \ {0} : EndsFirst(s)' <=> EndRecorded(s, m)'
      BY <1>1, <2>1, EndsFirstStays
    <2> QED
      BY <1>1, <1>2, <1>5, <2>1, <2>2
  <1> QED
    BY <1>3, <1>4, <1>5 DEF Gathered

\* A frame sent is nothing gathered.
LEMMA SentKeepsGathered ==
    ASSUME TypeOK, Gathered, NEW f \in Frame, log' = Append(log, Sent(f)), cap' = cap
    PROVE  Gathered'
  <1>1. PICK e \in LogEntry : e = Sent(f)
    BY DEF Sent, LogEntry
  <1>2. PICK m \in Nat : m = Len(log) + 1
    BY <1>1, Grows
  <1>3. e.dir = "sent" /\ log' = Append(log, e) /\ log'[m] = e
    BY <1>1, <1>2, Grows DEF Sent
  <1>4. ~IsReceived(m)' /\ ~IsHeaderFrame(m)'
    BY <1>3 DEF IsReceived, IsHeaderFrame, StartsBlock
  <1>5. \A k : ~IsBlock(k, m)'
    BY <1>4 DEF IsBlock
  <1>6. \A s : ~Recorded(s, m)' /\ ~EndRecorded(s, m)'
    BY <1>4, <1>5 DEF Recorded, EndRecorded
  <1>7. ASSUME NEW s \in StreamIds
        PROVE  /\ Joined(cap'.body[s], BodyFrames(s)', Payloads')
               /\ Joined(cap'.headers[s], BlockFrames(s)', Payloads')
    <2>1. /\ BodyFrames(s)' = BodyFrames(s) /\ BlockFrames(s)' = BlockFrames(s)
          /\ \A i \in BodyFrames(s) \cup BlockFrames(s) : Payloads[i] = Payloads'[i]
      <3>1. ~AddsData(e, s) /\ AddedParts(s, m) = {}
        BY <1>3, <1>5 DEF AddsData, AddedParts
      <3>2. /\ BodyFrames(s)' = BodyFrames(s)
            /\ BlockFrames(s)' = BlockFrames(s) \cup AddedParts(s, m)
            /\ BodyFrames(s) \subseteq 1..(m - 1) /\ BlockFrames(s) \subseteq 1..(m - 1)
            /\ \A i \in 1..(m - 1) : Payloads'[i] = Payloads[i]
        BY <1>2, <1>3, <3>1, FramesGrow
      <3> QED
        BY <3>1, <3>2
    <2>2. /\ Joined(cap.body[s], BodyFrames(s), Payloads)
          /\ Joined(cap.headers[s], BlockFrames(s), Payloads)
      BY DEF Gathered
    <2>3. /\ Joined(cap.body[s], BodyFrames(s), Payloads')
          /\ Joined(cap.headers[s], BlockFrames(s), Payloads')
      BY <2>1, <2>2, JoinsOther
    <2> QED
      BY <2>1, <2>3
  <1> QED
    BY <1>2, <1>3, <1>6, <1>7, GatherStep DEF TypeOK

(***************************************************************************)
(* What a frame received adds                                              *)
(***************************************************************************)
\* Two whole blocks that end at the same frame are the same block.
LEMMA OneWhole ==
    ASSUME NEW h, NEW n \in Nat, NEW j \in 1..n, NEW k \in 1..n,
           WholeBlock(h, j, n), WholeBlock(h, k, n)
    PROVE  j = k
  <1>1. ASSUME NEW a \in 1..n, NEW b \in 1..n, WholeBlock(h, a, n), WholeBlock(h, b, n), a < b
        PROVE  FALSE
    <2>1. b \in a..n /\ b # a
      BY <1>1
    <2>2. Starts(h[b]) /\ IsPart(h[b])
      BY <1>1 DEF WholeBlock, IsPart
    <2>3. Follows(h[b], h[a])
      BY <1>1, <2>1, <2>2 DEF WholeBlock
    <2> QED
      BY <2>2, <2>3 DEF Follows, Starts
  <1> QED
    BY <1>1

\* The event completes the one block that ends with the frame, if there is
\* one, and its header fields are those of all frames of the block.
BlockReported(event, m) ==
    IF event.complete
    THEN \E j \in 1..m :
            /\ \A k \in 1..m : IsBlock(k, m)' <=> k = j
            /\ StreamOf(j)' = event.stream
            /\ Joined(event.headers, {i \in j..m : IsHeaderFrame(i)'}, Payloads')
    ELSE \A k \in 1..m : ~IsBlock(k, m)'

LEMMA BlockNow ==
    ASSUME TypeOK, Holds(tracker, View), NEW f \in Frame, log' = Append(log, Received(f)),
           NEW m \in Nat, m = Len(log) + 1, ~Consume(tracker, f).event.error
    PROVE  BlockReported(Consume(tracker, f).event, m)
  <1>1. PICK e \in LogEntry : e = Received(f)
    BY DEF Received, LogEntry
  <1>2. PICK event : event = Consume(tracker, f).event
    OBVIOUS
  <1>3. /\ e.dir = "received" /\ e.frame = f /\ log' = Append(log, e)
        /\ log'[m] = e /\ DOMAIN log' = 1..m
    BY <1>1, Grows DEF Received
  <1>4. View \in Seq(Frame) /\ Len(View) = Len(log) /\ View' = Append(View, f)
    BY <1>3, ViewGrows
  <1>5. PICK h : h = View /\ h \in Seq(Frame)
    BY <1>4
  <1>6. PICK g : g = View'
    OBVIOUS
  <1>7. g = Append(h, f) /\ Len(g) = m /\ m = Len(h) + 1 /\ DOMAIN g = 1..m
    BY <1>4, <1>5, <1>6
  <1>8. \A k \in 1..m : /\ IsBlock(k, m)' <=> WholeBlock(g, k, m)
                        /\ IsBlock(k, m)' => g[k] = log'[k].frame
                        /\ IsHeaderFrame(k)' <=> IsPart(g[k])
                        /\ IsHeaderFrame(k)' => g[k] = log'[k].frame
    BY <1>3, <1>6, BlockIs, ViewIs
  <1>9. Tracks(tracker, h) /\ Holds(tracker, h) /\ tracker \in Tracker /\ ~event.error
    BY <1>2, <1>5 DEF Holds, Tracks, TypeOK
  <1>10. ASSUME event.complete
         PROVE  \E j \in 1..m :
                   /\ \A k \in 1..m : IsBlock(k, m)' <=> k = j
                   /\ StreamOf(j)' = event.stream
                   /\ Joined(event.headers, {i \in j..m : IsHeaderFrame(i)'}, Payloads')
    <2>1. PICK j \in 1..m : /\ WholeBlock(g, j, m) /\ Reports(event, g[j])
                            /\ Joined(event.headers, PartsFrom(g, j), Texts(g))
      BY <1>2, <1>5, <1>7, <1>9, <1>10, ConsumeJoins
    <2>2. \A k \in 1..m : IsBlock(k, m)' <=> k = j
      BY <1>8, <2>1, OneWhole
    <2>3. StreamOf(j)' = event.stream
      BY <1>8, <2>1, <2>2 DEF Reports, StreamOf
    <2>4. PartsFrom(g, j) = {i \in j..m : IsHeaderFrame(i)'}
      <3>1. \A i \in j..m : i \in 1..m
        OBVIOUS
      <3> QED
        BY <1>7, <1>8, <3>1 DEF PartsFrom
    <2>5. \A i \in PartsFrom(g, j) : Texts(g)[i] = Payloads'[i]
      <3>1. ASSUME NEW i \in PartsFrom(g, j) PROVE i \in 1..m /\ IsHeaderFrame(i)'
        BY <2>4
      <3>2. \A i \in 1..m : Texts(g)[i] = g[i].payload /\ Payloads'[i] = log'[i].frame.payload
        BY <1>3, <1>7 DEF Texts, Payloads
      <3> QED
        BY <1>8, <3>1, <3>2
    <2>6. Joined(event.headers, PartsFrom(g, j), Payloads')
      BY <2>1, <2>5, JoinsOther
    <2> QED
      BY <2>2, <2>3, <2>4, <2>6
  <1>11. ASSUME ~event.complete, NEW k \in 1..m, IsBlock(k, m)' PROVE FALSE
    <2>1. WholeBlock(g, k, m)
      BY <1>8, <1>11
    <2>2. event.error \/ Reports(event, g[k])
      BY <1>2, <1>5, <1>7, <1>9, <2>1, ConsumeReports
    <2> QED
      BY <1>9, <1>11, <2>2 DEF Reports
  <1> QED
    BY <1>2, <1>10, <1>11 DEF BlockReported

\* A block that ends now begins after all blocks that have ended before.
LEMMA BlocksApart ==
    ASSUME TypeOK, NEW e \in LogEntry, log' = Append(log, e), NEW m \in Nat, m = Len(log) + 1,
           NEW j \in 1..m, IsBlock(j, m)', NEW s, NEW i \in BlockFrames(s)
    PROVE  i < j
  <1>1. DOMAIN log = 1..(m - 1) /\ Len(log) = m - 1
    BY Grows
  <1>2. PICK n \in i..(m - 1), k \in 1..i : IsBlock(k, n)
    BY <1>1 DEF BlockFrames
  <1>3. i \in 1..(m - 1) /\ n \in 1..(m - 1) /\ n \in k..n
    BY <1>1, <1>2 DEF BlockFrames
  <1>4. IsHeaderFrame(n) /\ Has(n, "END_HEADERS")
    BY <1>2, <1>3 DEF IsBlock
  <1>5. IsHeaderFrame(n)' /\ Has(n, "END_HEADERS")'
    BY <1>1, <1>3, <1>4, EntriesStay
  <1>6. ~(n \in j..m)
    <2>1. n # m
      BY <1>3
    <2> QED
      BY <1>5, <2>1 DEF IsBlock
  <1> QED
    BY <1>2, <1>3, <1>6

\* What a frame and its event record for stream s, and whether they end it.
Records(f, event, s) ==
    \/ event.complete /\ event.stream = s /\ event.headers # <<>>
    \/ f.type = "DATA" /\ f.stream = s

RecordsEnd(f, event, s) ==
    \/ event.complete /\ event.stream = s /\ event.headers # <<>> /\ event.endStream
    \/ f.type = "DATA" /\ f.stream = s /\ "END_STREAM" \in f.flags

LEMMA RecordedNow ==
    ASSUME TypeOK, Holds(tracker, View), NEW f \in Frame, log' = Append(log, Received(f)),
           NEW m \in Nat, m = Len(log) + 1,
           NEW event, event = Consume(tracker, f).event, ~event.error, NEW s
    PROVE  /\ event.complete => f.type # "DATA"
           /\ Recorded(s, m)' <=> Records(f, event, s)
           /\ EndRecorded(s, m)' <=> RecordsEnd(f, event, s)
  <1>1. PICK e \in LogEntry : e = Received(f)
    BY DEF Received, LogEntry
  <1>2. /\ e.dir = "received" /\ e.frame = f /\ log' = Append(log, e)
        /\ log'[m] = e /\ DOMAIN log' = 1..m /\ m \in 1..m
    BY <1>1, Grows DEF Received
  <1>3. /\ IsReceived(m)' /\ Type(m)' = f.type /\ StreamOf(m)' = f.stream
        /\ IsHeaderFrame(m)' => f.type # "DATA"
    BY <1>2 DEF IsReceived, Type, StreamOf, IsHeaderFrame, StartsBlock
  <1>4. BlockReported(event, m)
    BY BlockNow
  <1>5. event.complete => f.type # "DATA"
    <2>1. event.complete => \E j \in 1..m : IsBlock(j, m)'
      BY <1>4 DEF BlockReported
    <2> QED
      BY <1>3, <2>1 DEF IsBlock
  <1>6. (\E k \in 1..m : /\ IsBlock(k, m)' /\ StreamOf(k)' = s
                         /\ \E i \in k..m : IsHeaderFrame(i)' /\ log'[i].frame.payload # <<>>)
        <=> event.complete /\ event.stream = s /\ event.headers # <<>>
    <2>1. CASE event.complete
      <3>1. PICK j \in 1..m :
               /\ \A k \in 1..m : IsBlock(k, m)' <=> k = j
               /\ StreamOf(j)' = event.stream
               /\ Joined(event.headers, {i \in j..m : IsHeaderFrame(i)'}, Payloads')
        BY <1>4, <2>1 DEF BlockReported
      <3>2. PICK I : I = {i \in j..m : IsHeaderFrame(i)'}
        OBVIOUS
      <3>3. event.headers # <<>> <=> \E i \in I : Payloads'[i] # <<>>
        BY <3>1, <3>2, JoinsEmpty
      <3>4. \A i \in j..m : Payloads'[i] = log'[i].frame.payload
        BY <1>2 DEF Payloads
      <3>5. event.headers # <<>>
               <=> \E i \in j..m : IsHeaderFrame(i)' /\ log'[i].frame.payload # <<>>
        BY <3>2, <3>3, <3>4
      <3> QED
        BY <2>1, <3>1, <3>5
    <2>2. CASE ~event.complete
      BY <1>4, <2>2 DEF BlockReported
    <2> QED
      BY <2>1, <2>2
  <1>7. Recorded(s, m)' <=> Records(f, event, s)
    <2>1. Recorded(s, m)' <=>
             \/ f.type = "DATA" /\ f.stream = s
             \/ \E k \in 1..m : /\ IsBlock(k, m)' /\ StreamOf(k)' = s
                                /\ \E i \in k..m : IsHeaderFrame(i)' /\ log'[i].frame.payload # <<>>
      BY <1>3 DEF Recorded
    <2> QED
      BY <1>6, <2>1 DEF Records
  <1>8. EndsStreamAt(s, m)' <=>
           \/ event.complete /\ event.stream = s /\ event.endStream
           \/ f.type = "DATA" /\ f.stream = s /\ "END_STREAM" \in f.flags
    <2>1. Tracks(tracker, View)
      BY DEF Holds, Tracks
    <2> QED
      BY <2>1, EndsStreamNow
  <1> QED
    BY <1>5, <1>7, <1>8 DEF EndRecorded, Records, RecordsEnd

\* The content of a stream grows by the frame's data or the event's fields.
LEMMA ContentNow ==
    ASSUME TypeOK, Holds(tracker, View), NEW f \in Frame, log' = Append(log, Received(f)),
           NEW m \in Nat, m = Len(log) + 1,
           NEW event, event = Consume(tracker, f).event, ~event.error, NEW s, NEW b, NEW c,
           Joined(b, BodyFrames(s), Payloads), Joined(c, BlockFrames(s), Payloads)
    PROVE  /\ Joined(IF f.type = "DATA" /\ f.stream = s THEN b \o f.payload ELSE b,
                     BodyFrames(s)', Payloads')
           /\ Joined(IF event.complete /\ event.stream = s THEN c \o event.headers ELSE c,
                     BlockFrames(s)', Payloads')
  <1>1. PICK e \in LogEntry : e = Received(f)
    BY DEF Received, LogEntry
  <1>2. e.dir = "received" /\ e.frame = f /\ log' = Append(log, e)
    BY <1>1 DEF Received
  <1>3. PICK P : P = AddedParts(s, m)
    OBVIOUS
  <1>4. /\ AddsData(e, s) => BodyFrames(s)' = BodyFrames(s) \cup {m}
        /\ ~AddsData(e, s) => BodyFrames(s)' = BodyFrames(s)
        /\ BlockFrames(s)' = BlockFrames(s) \cup P
        /\ BodyFrames(s) \subseteq 1..(m - 1) /\ BlockFrames(s) \subseteq 1..(m - 1)
        /\ \A i \in 1..(m - 1) : Payloads'[i] = Payloads[i]
        /\ Payloads'[m] = f.payload
    BY <1>2, <1>3, FramesGrow
  <1>5. PICK text : text = Payloads'
    OBVIOUS
  <1>6. Joined(b, BodyFrames(s), text) /\ Joined(c, BlockFrames(s), text)
    <2>1. /\ \A i \in BodyFrames(s) : Payloads[i] = text[i]
          /\ \A i \in BlockFrames(s) : Payloads[i] = text[i]
      BY <1>4, <1>5
    <2> QED
      BY <2>1, JoinsOther
  <1>7. Joined(IF f.type = "DATA" /\ f.stream = s THEN b \o f.payload ELSE b,
               BodyFrames(s)', text)
    <2>1. CASE f.type = "DATA" /\ f.stream = s
      <3>1. Joined(f.payload, {m}, text)
        <4>1. text[m] = f.payload /\ f.payload \in Seq(Item)
          BY <1>4, <1>5 DEF Frame
        <4> QED
          BY <4>1, JoinsOne
      <3>2. \A i \in BodyFrames(s), k \in {m} : i < k
        BY <1>4
      <3>3. Joined(b \o f.payload, BodyFrames(s) \cup {m}, text)
        BY <1>6, <3>1, <3>2, JoinsAppend
      <3>4. AddsData(e, s)
        BY <1>2, <2>1 DEF AddsData
      <3> QED
        BY <1>4, <2>1, <3>3, <3>4
    <2>2. CASE ~(f.type = "DATA" /\ f.stream = s)
      <3>1. BodyFrames(s)' = BodyFrames(s)
        BY <1>2, <1>4, <2>2 DEF AddsData
      <3> QED
        BY <1>6, <2>2, <3>1
    <2> QED
      BY <2>1, <2>2
  <1>8. BlockReported(event, m)
    BY BlockNow
  <1>9. Joined(IF event.complete /\ event.stream = s THEN c \o event.headers ELSE c,
               BlockFrames(s)', text)
    <2>1. CASE event.complete
      <3>1. PICK j \in 1..m :
               /\ \A k \in 1..m : IsBlock(k, m)' <=> k = j
               /\ StreamOf(j)' = event.stream
               /\ Joined(event.headers, {i \in j..m : IsHeaderFrame(i)'}, Payloads')
        BY <1>8, <2>1 DEF BlockReported
      <3>2. PICK I : I = {i \in j..m : IsHeaderFrame(i)'}
        OBVIOUS
      <3>3. P = IF event.stream = s THEN I ELSE {}
        <4>1. \A i \in 1..m : j \in 1..i <=> i \in j..m
          OBVIOUS
        <4>2. \A i \in 1..m : \A k \in 1..i : k \in 1..m
          OBVIOUS
        <4>3. \A i \in j..m : i \in 1..m
          OBVIOUS
        <4>4. \A i \in 1..m : i \in P <=> IsHeaderFrame(i)' /\ j \in 1..i /\ event.stream = s
          BY <1>3, <3>1, <4>2 DEF AddedParts
        <4>5. \A i \in 1..m : i \in I <=> IsHeaderFrame(i)' /\ i \in j..m
          BY <3>2
        <4>6. P \subseteq 1..m /\ I \subseteq 1..m
          BY <1>3, <3>2, <4>3 DEF AddedParts
        <4> QED
          BY <4>1, <4>4, <4>5, <4>6
      <3>4. \A i \in BlockFrames(s), k \in I : i < k
        <4>1. \A i \in BlockFrames(s) : i < j
          BY <1>2, <3>1, BlocksApart
        <4> QED
          BY <1>4, <3>2, <4>1
      <3>5. Joined(c \o event.headers, BlockFrames(s) \cup I, text)
        <4>1. Joined(event.headers, I, text)
          BY <1>5, <3>1, <3>2
        <4> QED
          BY <1>6, <3>4, <4>1, JoinsAppend
      <3>6. event.stream # s => BlockFrames(s)' = BlockFrames(s)
        BY <1>4, <3>3
      <3> QED
        BY <1>4, <1>6, <2>1, <3>3, <3>5, <3>6
    <2>2. CASE ~event.complete
      <3>1. \A k \in 1..m : ~IsBlock(k, m)'
        BY <1>8, <2>2 DEF BlockReported
      <3>2. P = {}
        <4>1. \A i \in 1..m : \A k \in 1..i : k \in 1..m
          OBVIOUS
        <4> QED
          BY <1>3, <3>1, <4>1 DEF AddedParts
      <3>3. BlockFrames(s)' = BlockFrames(s)
        BY <1>4, <3>2
      <3> QED
        BY <1>6, <2>2, <3>3
    <2> QED
      BY <2>1, <2>2
  <1> QED
    BY <1>5, <1>7, <1>9

\* What the capture manager makes of a frame and its event.
LEMMA CaptureEffect ==
    ASSUME NEW c \in CaptureState, c.kind # "none", NEW f \in Frame, NEW event \in Event,
           event.complete => f.type # "DATA",
           NEW d, d = CaptureReceived(c, f, event)
    PROVE  /\ d.kind = c.kind /\ d.target = c.target
           /\ \A s \in StreamIds :
                 /\ d.body[s] = IF f.type = "DATA" /\ f.stream = s
                                THEN c.body[s] \o f.payload ELSE c.body[s]
                 /\ d.headers[s] = IF event.complete /\ event.stream = s
                                   THEN c.headers[s] \o event.headers ELSE c.headers[s]
                 /\ s \in d.known <=> s \in c.known \/ Records(f, event, s)
           /\ c.kind = "auto" =>
                 IF c.selected # 0 THEN d.selected = c.selected
                 ELSE IF d.selected = 0
                 THEN \A s \in StreamIds \ {0} : ~RecordsEnd(f, event, s)
                 ELSE \A s \in StreamIds \ {0} : RecordsEnd(f, event, s) <=> s = d.selected
  <1>1. /\ f.stream \in StreamIds /\ event.stream \in StreamIds
        /\ c.known \subseteq StreamIds
        /\ DOMAIN c.headers = StreamIds /\ DOMAIN c.body = StreamIds
    BY DEF Frame, Event, CaptureState
  <1>2. CASE event.complete /\ event.headers # <<>>
    <2>1. PICK a : a = [c EXCEPT !.known = @ \cup {event.stream},
                                 !.headers[event.stream] = @ \o event.headers]
      OBVIOUS
    <2>2. /\ a.kind = c.kind /\ a.target = c.target /\ a.selected = c.selected
          /\ a.known = c.known \cup {event.stream} /\ a.body = c.body
          /\ \A s \in StreamIds : a.headers[s] = IF s = event.stream
                                                 THEN c.headers[s] \o event.headers
                                                 ELSE c.headers[s]
      BY <1>1, <2>1 DEF CaptureState
    <2>3. d = IF event.endStream THEN SelectStream(a, event.stream) ELSE a
      BY <1>2, <2>1 DEF CaptureReceived, RecordHeaders
    <2>4. /\ d.kind = a.kind /\ d.target = a.target /\ d.known = a.known
          /\ d.headers = a.headers /\ d.body = a.body
          /\ a.kind = "auto" => d.selected = IF event.endStream /\ a.selected = 0
                                             THEN event.stream ELSE a.selected
      <3>1. a \in [kind : {a.kind}, target : {a.target}, selected : {a.selected},
                   known : {a.known}, headers : {a.headers}, body : {a.body}]
        BY <2>1 DEF CaptureState
      <3> QED
        BY <2>3, <3>1 DEF SelectStream
    <2> QED
      BY <1>1, <1>2, <2>2, <2>4 DEF Records, RecordsEnd
  <1>3. CASE ~(event.complete /\ event.headers # <<>>) /\ f.type = "DATA"
    <2>1. PICK a : a = [c EXCEPT !.known = @ \cup {f.stream},
                                 !.body[f.stream] = @ \o f.payload]
      OBVIOUS
    <2>2. /\ a.kind = c.kind /\ a.target = c.target /\ a.selected = c.selected
          /\ a.known = c.known \cup {f.stream} /\ a.headers = c.headers
          /\ \A s \in StreamIds : a.body[s] = IF s = f.stream
                                              THEN c.body[s] \o f.payload ELSE c.body[s]
      BY <1>1, <2>1 DEF CaptureState
    <2>3. d = IF "END_STREAM" \in f.flags THEN SelectStream(a, f.stream) ELSE a
      BY <1>3, <2>1 DEF CaptureReceived, RecordData
    <2>4. /\ d.kind = a.kind /\ d.target = a.target /\ d.known = a.known
          /\ d.headers = a.headers /\ d.body = a.body
          /\ a.kind = "auto" => d.selected = IF "END_STREAM" \in f.flags /\ a.selected = 0
                                             THEN f.stream ELSE a.selected
      <3>1. a \in [kind : {a.kind}, target : {a.target}, selected : {a.selected},
                   known : {a.known}, headers : {a.headers}, body : {a.body}]
        BY <2>1 DEF CaptureState
      <3> QED
        BY <2>3, <3>1 DEF SelectStream
    <2> QED
      BY <1>1, <1>3, <2>2, <2>4 DEF Records, RecordsEnd
  <1>4. CASE ~(event.complete /\ event.headers # <<>>) /\ f.type # "DATA"
    <2>1. d = c
      BY <1>4 DEF CaptureReceived
    <2>2. \A s \in StreamIds : c.headers[s] \o <<>> = c.headers[s]
      <3>1. ASSUME NEW s \in StreamIds PROVE c.headers[s] \o <<>> = c.headers[s]
        <4>1. PICK t \in Seq(Item) : t = c.headers[s]
          BY DEF CaptureState
        <4> QED
          BY <4>1, ConcatEmptySeq
      <3> QED
        BY <3>1
    <2> QED
      BY <1>4, <2>1, <2>2 DEF Records, RecordsEnd
  <1> QED
    BY <1>2, <1>3, <1>4

\* A frame received is gathered.
LEMMA ReceivedKeepsGathered ==
    ASSUME TypeOK, Holds(tracker, View), Gathered, cap.kind # "none",
           NEW f \in Frame, log' = Append(log, Received(f)),
           NEW event, event = Consume(tracker, f).event, ~event.error,
           cap' = CaptureReceived(cap, f, event), cap' \in CaptureState
    PROVE  Gathered'
  <1>1. PICK e \in LogEntry : e = Received(f)
    BY DEF Received, LogEntry
  <1>2. PICK m \in Nat : m = Len(log) + 1
    BY <1>1, Grows
  <1>3. event \in Event /\ cap \in CaptureState
    BY ConsumeType DEF TypeOK
  <1>4. PICK d : d = cap'
    OBVIOUS
  <1>5. /\ event.complete => f.type # "DATA"
        /\ \A s : /\ Recorded(s, m)' <=> Records(f, event, s)
                  /\ EndRecorded(s, m)' <=> RecordsEnd(f, event, s)
    BY <1>2, RecordedNow
  <1>6. /\ d.kind = cap.kind /\ d.target = cap.target
        /\ \A s \in StreamIds :
              /\ d.body[s] = IF f.type = "DATA" /\ f.stream = s
                             THEN cap.body[s] \o f.payload ELSE cap.body[s]
              /\ d.headers[s] = IF event.complete /\ event.stream = s
                                THEN cap.headers[s] \o event.headers ELSE cap.headers[s]
              /\ s \in d.known <=> s \in cap.known \/ Records(f, event, s)
        /\ cap.kind = "auto" =>
              IF cap.selected # 0 THEN d.selected = cap.selected
              ELSE IF d.selected = 0
              THEN \A s \in StreamIds \ {0} : ~RecordsEnd(f, event, s)
              ELSE \A s \in StreamIds \ {0} : RecordsEnd(f, event, s) <=> s = d.selected
    BY <1>3, <1>4, <1>5, CaptureEffect
  <1>7. ASSUME NEW s \in StreamIds
        PROVE  /\ Joined(d.body[s], BodyFrames(s)', Payloads')
               /\ Joined(d.headers[s], BlockFrames(s)', Payloads')
    <2>1. PICK b : b = cap.body[s]
      OBVIOUS
    <2>2. PICK c : c = cap.headers[s]
      OBVIOUS
    <2>3. Joined(b, BodyFrames(s), Payloads) /\ Joined(c, BlockFrames(s), Payloads)
      BY <2>1, <2>2 DEF Gathered
    <2>4. /\ Joined(IF f.type = "DATA" /\ f.stream = s THEN b \o f.payload ELSE b,
                    BodyFrames(s)', Payloads')
          /\ Joined(IF event.complete /\ event.stream = s THEN c \o event.headers ELSE c,
                    BlockFrames(s)', Payloads')
      BY <1>2, <2>3, ContentNow
    <2> QED
      BY <1>6, <2>1, <2>2, <2>4
  <1> QED
    BY <1>1, <1>2, <1>4, <1>5, <1>6, <1>7, GatherStep

(***************************************************************************)
(* The files are what they should be                                       *)
(***************************************************************************)
\* What is gathered depends on the history and the manager alone.
LEMMA QuietKeepsGathered ==
    ASSUME log' = log, cap' = cap, Gathered
    PROVE  Gathered'
  <1>1. \A s, n : /\ Recorded(s, n)' <=> Recorded(s, n)
                  /\ EndRecorded(s, n)' <=> EndRecorded(s, n)
    BY DEF Recorded, EndRecorded, EndsStreamAt, IsReceived, Type, StreamOf, Has, IsBlock,
           StartsBlock, IsHeaderFrame
  <1>2. \A s : EndsFirst(s)' <=> EndsFirst(s)
    BY <1>1 DEF EndsFirst
  <1>3. Payloads' = Payloads
    BY DEF Payloads
  <1>4. \A s : BodyFrames(s)' = BodyFrames(s) /\ BlockFrames(s)' = BlockFrames(s)
    BY DEF BodyFrames, BlockFrames, IsReceived, Type, StreamOf, Has, IsBlock, StartsBlock,
           IsHeaderFrame
  <1> QED
    BY <1>1, <1>2, <1>3, <1>4 DEF Gathered

\* The manager saves the stream whose content is to be saved.
LEMMA SelectedIs ==
    ASSUME TypeOK, Gathered, cap.kind = CaptureKind(cfg), cap.target = CaptureTarget(cfg),
           cap.kind # "none"
    PROVE  /\ SavedStream = Selected(cap) /\ SavedStream \subseteq StreamIds
           /\ \A s, t \in SavedStream : s = t
  <1>1. /\ cap.target \in StreamIds /\ cap.selected \in StreamIds
        /\ cap.kind = "explicit" \/ cap.kind = "auto"
    BY DEF TypeOK, CaptureState, CaptureKinds
  <1>2. \A s : s \in cap.known <=> s \in StreamIds /\ \E n \in DOMAIN log : Recorded(s, n)
    BY DEF Gathered
  <1>3. CASE cap.kind = "explicit"
    BY <1>1, <1>2, <1>3 DEF SavedStream, Selected
  <1>4. CASE cap.kind = "auto"
    <2>1. SavedStream = {s \in StreamIds \ {0} : EndsFirst(s)}
      BY <1>4 DEF SavedStream, EndsFirst
    <2>2. CASE cap.selected = 0
      <3>1. \A s \in StreamIds \ {0} : ~EndsFirst(s)
        BY <1>4, <2>2 DEF Gathered, EndsFirst
      <3>2. SavedStream = {} /\ Selected(cap) = {}
        BY <1>4, <2>1, <2>2, <3>1 DEF Selected
      <3> QED
        BY <3>2
    <2>3. CASE cap.selected # 0
      <3>1. \A s \in StreamIds \ {0} : EndsFirst(s) <=> s = cap.selected
        BY <1>4, <2>3 DEF Gathered
      <3>2. cap.selected \in cap.known
        <4>1. EndsFirst(cap.selected)
          BY <1>1, <2>3, <3>1
        <4> QED
          BY <1>1, <1>2, <4>1 DEF EndsFirst, EndRecorded
      <3>3. SavedStream = {cap.selected} /\ Selected(cap) = {cap.selected}
        BY <1>1, <1>4, <2>1, <2>3, <3>1, <3>2 DEF Selected
      <3> QED
        BY <1>1, <3>3
    <2> QED
      BY <2>2, <2>3
  <1> QED
    BY <1>1, <1>3, <1>4

\* What the command writes at its end is what it is to save.
LEMMA FlushSaves ==
    ASSUME TypeOK, FilesInv, Flush
    PROVE  SavedFilesExact'
  <1>1. /\ cfg' = cfg /\ log' = log /\ cap' = cap
        /\ cap.kind = CaptureKind(cfg) /\ cap.target = CaptureTarget(cfg)
        /\ cap.kind # "none" => Gathered
    BY DEF Flush, FilesInv
  <1>2. /\ cfg.save \subseteq {"body", "headers"}
        /\ cap.kind = "none" <=> cfg.save = {}
        /\ cap.kind \in CaptureKinds
    <2>1. cfg \in Config /\ cap \in CaptureState
      BY ConfigsAssumption DEF TypeOK
    <2> QED
      BY <1>1, <2>1 DEF Config, CaptureKind, CaptureState
  <1>3. PICK S : S = SavedStream
    OBVIOUS
  <1>4. SavedStream' = S
    BY <1>1, <1>3 DEF SavedStream, Recorded, EndRecorded, EndsStreamAt, IsReceived, Type, StreamOf,
                      Has, IsBlock, StartsBlock, IsHeaderFrame
  <1>5. CASE cap.kind = "none"
    <2>1. BodyFiles = {} /\ HeadersFiles = {}
      BY <1>2, <1>5 DEF BodyFiles, HeadersFiles
    <2>2. saved' = {} /\ result' = "ok"
      BY <2>1 DEF Flush, Exit
    <2> QED
      BY <1>1, <1>2, <1>5, <2>2 DEF SavedFilesExact, Names, Damaged
  <1>6. CASE cap.kind # "none"
    <2>1. S = Selected(cap) /\ S \subseteq StreamIds /\ \A s, t \in S : s = t
      BY <1>1, <1>3, <1>6, SelectedIs
    <2>2. BodyFiles = {File("body", cap.body[s]) : s \in IF "body" \in cfg.save THEN S ELSE {}}
      BY <2>1 DEF BodyFiles
    <2>3. HeadersFiles =
             {File("headers", cap.headers[s]) : s \in IF "headers" \in cfg.save THEN S ELSE {}}
      BY <2>1 DEF HeadersFiles
    <2>4. ASSUME NEW s \in S
          PROVE  /\ Joined(cap.body[s], BodyFrames(s)', Payloads')
                 /\ Joined(cap.headers[s], BlockFrames(s)', Payloads')
      <3>1. s \in StreamIds /\ Gathered'
        BY <1>1, <1>6, <2>1, <2>4, QuietKeepsGathered
      <3> QED
        BY <1>1, <3>1 DEF Gathered
    <2>5. \A file \in BodyFiles \cup HeadersFiles, s \in S :
             Joined(file.content, Pieces(file, s)', Payloads') /\ HoldsContent(file, s)'
      <3>1. ASSUME NEW file \in BodyFiles \cup HeadersFiles, NEW s \in S
            PROVE  Joined(file.content, Pieces(file, s)', Payloads')
        <4>1. CASE file \in BodyFiles
          <5>1. file.file = "body" /\ file.content = cap.body[s]
            BY <2>1, <2>2, <4>1 DEF File
          <5> QED
            BY <2>4, <5>1 DEF Pieces
        <4>2. CASE file \in HeadersFiles
          <5>1. file.file = "headers" /\ file.content = cap.headers[s]
            BY <2>1, <2>3, <4>2 DEF File
          <5> QED
            BY <2>4, <5>1 DEF Pieces
        <4> QED
          BY <4>1, <4>2
      <3> QED
        BY <3>1 DEF HoldsContent, Joined
    <2>6. /\ {file.file : file \in BodyFiles} = IF S = {} THEN {} ELSE cfg.save \cap {"body"}
          /\ {file.file : file \in HeadersFiles} = IF S = {} THEN {} ELSE cfg.save \cap {"headers"}
      <3>1. PICK B : B = IF "body" \in cfg.save THEN S ELSE {}
        OBVIOUS
      <3>2. PICK H : H = IF "headers" \in cfg.save THEN S ELSE {}
        OBVIOUS
      <3>3. (\A file \in BodyFiles : file.file = "body") /\ (BodyFiles # {} <=> B # {})
        <4>1. \A file : file \in BodyFiles <=> \E s \in B : file = File("body", cap.body[s])
          BY <2>2, <3>1
        <4>2. \A file \in BodyFiles : file.file = "body"
          BY <4>1 DEF File
        <4> QED
          BY <4>1, <4>2
      <3>4. (\A file \in HeadersFiles : file.file = "headers") /\ (HeadersFiles # {} <=> H # {})
        <4>1. \A file :
                 file \in HeadersFiles <=> \E s \in H : file = File("headers", cap.headers[s])
          BY <2>3, <3>2
        <4>2. \A file \in HeadersFiles : file.file = "headers"
          BY <4>1 DEF File
        <4> QED
          BY <4>1, <4>2
      <3>5. {file.file : file \in BodyFiles} = IF B = {} THEN {} ELSE {"body"}
        BY <3>3
      <3>6. {file.file : file \in HeadersFiles} = IF H = {} THEN {} ELSE {"headers"}
        BY <3>4
      <3> QED
        BY <3>1, <3>2, <3>5, <3>6
    <2>7. BodyFiles # {} \/ HeadersFiles # {} => S # {}
      BY <2>2, <2>3
    <2>8. \A file \in BodyFiles \cup HeadersFiles : file.whole
      BY <2>2, <2>3 DEF File
    <2>9. CASE result' = "ok" /\ saved' = BodyFiles \cup HeadersFiles
      <3>1. Names(saved)' = IF S = {} THEN {} ELSE cfg.save
        BY <1>2, <2>6, <2>9 DEF Names
      <3>2. Damaged' = {}
        BY <2>8, <2>9 DEF Damaged
      <3> QED
        BY <1>1, <1>4, <2>5, <2>8, <2>9, <3>1, <3>2 DEF SavedFilesExact
    <2>10. ASSUME NEW file \in BodyFiles \cup HeadersFiles, NEW remains \in Remains(file)
           PROVE  /\ \A left \in remains :
                        ~left.whole /\ left.file = file.file /\ \A s \in S : HoldsBeginning(left, s)'
                  /\ \A left, other \in remains : left = other
      <3>1. file \in [file : {"body", "headers"}, content : Seq(Item), whole : BOOLEAN]
        <4>1. PICK s \in S : file = File("body", cap.body[s]) \/ file = File("headers", cap.headers[s])
          BY <2>2, <2>3
        <4> QED
          BY <2>1, <4>1, FilesTyped
      <3>2. /\ \A left \in remains :
                  /\ left.file = file.file /\ ~left.whole
                  /\ left.content \in Seq(Item) /\ Len(left.content) <= Len(file.content)
                  /\ \A i \in 1..Len(left.content) : left.content[i] = file.content[i]
            /\ \A left, other \in remains : left = other
        BY <2>10, <3>1, RemainsIs
      <3>3. ASSUME NEW left \in remains, NEW s \in S PROVE HoldsBeginning(left, s)'
        <4>1. Joined(file.content, Pieces(file, s)', Payloads')
          BY <2>5, <2>10, <3>3
        <4>2. Begins(left.content, Pieces(file, s)', Payloads')
          BY <3>2, <4>1, JoinsBegins DEF Joined
        <4>3. Pieces(left, s)' = Pieces(file, s)'
          BY <3>2 DEF Pieces
        <4> QED
          BY <4>2, <4>3 DEF HoldsBeginning
      <3> QED
        BY <3>2, <3>3
    <2>11. ASSUME NEW file \in BodyFiles, result' = "error", saved' \in Remains(file)
           PROVE  SavedFilesExact'
      <3>1. /\ \A left \in saved' :
                  ~left.whole /\ left.file = "body" /\ \A s \in S : HoldsBeginning(left, s)'
            /\ S # {} /\ "body" \in cfg.save
        BY <2>2, <2>6, <2>10, <2>11
      <3>2. /\ Damaged' = saved'
            /\ saved' # {} => Names(saved)' = {"body"} /\ Names(Damaged)' = {"body"}
            /\ Names(saved \ Damaged)' = {}
        BY <3>1 DEF Damaged, Names
      <3> QED
        BY <1>1, <1>4, <2>11, <3>1, <3>2 DEF SavedFilesExact
    <2>12. ASSUME NEW file \in HeadersFiles, NEW remains \in Remains(file), result' = "error",
                  saved' = BodyFiles \cup remains
           PROVE  SavedFilesExact'
      <3>1. /\ \A left \in remains :
                  ~left.whole /\ left.file = "headers" /\ \A s \in S : HoldsBeginning(left, s)'
            /\ S # {} /\ "headers" \in cfg.save
        BY <2>3, <2>6, <2>10, <2>12
      <3>2. /\ \A other \in BodyFiles :
                  other.whole /\ other.file = "body" /\ \A s \in S : HoldsContent(other, s)'
            /\ BodyFiles # {} <=> "body" \in cfg.save
        BY <2>5, <2>6, <2>8, <3>1
      <3>3. /\ Damaged' = remains
            /\ Names(saved)' \subseteq cfg.save
            /\ Names(saved \ Damaged)' = IF "body" \in cfg.save THEN {"body"} ELSE {}
            /\ Names(Damaged)' \subseteq {"headers"}
        <4>1. Damaged' = remains /\ (saved \ Damaged)' = BodyFiles
          BY <2>12, <3>1, <3>2 DEF Damaged
        <4> QED
          BY <2>12, <3>1, <3>2, <4>1 DEF Names
      <3> QED
        BY <1>1, <1>4, <2>12, <3>1, <3>2, <3>3 DEF SavedFilesExact
    <2> QED
      BY <2>9, <2>11, <2>12 DEF Flush, Exit
  <1> QED
    BY <1>5, <1>6

\* Initially nothing is recorded or saved, and every step preserves the invariant.
LEMMA FilesInit == Init => FilesInv
  <1> SUFFICES ASSUME Init PROVE FilesInv
    OBVIOUS
  <1>1. /\ log = <<>> /\ saved = {} /\ result = "running"
        /\ cap = NewCapture(CaptureKind(cfg), CaptureTarget(cfg))
    BY DEF Init
  <1>2. DOMAIN log = {}
    BY <1>1
  <1>3. \A s : BodyFrames(s) = {} /\ BlockFrames(s) = {}
    BY <1>2 DEF BodyFrames, BlockFrames
  <1>4. \A s \in StreamIds : cap.body[s] = <<>> /\ cap.headers[s] = <<>>
    BY <1>1 DEF NewCapture
  <1>5. Joined(<<>>, {}, Payloads)
    BY JoinsNothing
  <1>6. Gathered
    BY <1>1, <1>2, <1>3, <1>4, <1>5 DEF Gathered, NewCapture
  <1> QED
    BY <1>1, <1>6 DEF FilesInv, SavedFilesExact, NewCapture

LEMMA FilesStep ==
    TypeOK /\ TypeOK' /\ Holds(tracker, View) /\ FilesInv /\ [Next]_vars => FilesInv'
  <1> SUFFICES ASSUME TypeOK, TypeOK', Holds(tracker, View), FilesInv, [Next]_vars
               PROVE  FilesInv'
    OBVIOUS
  <1>1. ASSUME pc # "exited", cfg' = cfg, saved' = saved, cap'.kind = cap.kind,
               cap'.target = cap.target,
               \/ pc' = "exited" /\ result' = "error"
               \/ /\ pc' # "exited" /\ result' = result
                  /\ cap.kind # "none" => Gathered'
        PROVE  FilesInv'
    <2>1. saved' = {} /\ result' # "ok"
      BY <1>1 DEF FilesInv
    <2>2. SavedFilesExact'
      BY <2>1 DEF SavedFilesExact
    <2>3. CaptureKind(cfg)' = CaptureKind(cfg) /\ CaptureTarget(cfg)' = CaptureTarget(cfg)
      BY <1>1 DEF CaptureKind, CaptureTarget
    <2> QED
      BY <1>1, <2>1, <2>2, <2>3 DEF FilesInv
  <1>2. CASE Receives
    <2>1. /\ ReceiveFrame /\ pc # "exited"
          /\ \/ pc' = "exited" /\ result' = "error"
             \/ pc' # "exited" /\ result' = result /\ ~Refused(IncomingEvent)
      <3>1. CASE HandshakeReceive
        <4>1. HandshakeNext(Incoming) # "exited"
          BY ConfigType DEF HandshakeNext, AfterHandshake, Modes
        <4> QED
          BY <3>1, <4>1 DEF HandshakeReceive, Continue, Exit
      <3>2. CASE ReceiveResponse
        <4>1. ResponseNext(Incoming, IncomingEvent) # "exited"
          BY DEF ResponseNext
        <4> QED
          BY <3>2, <4>1 DEF ReceiveResponse, Continue, Exit, Refused
      <3>3. CASE ReceivePing
        BY <3>3 DEF ReceivePing, Continue, Exit, PingNext
      <3>4. CASE ReceiveObserve
        BY <3>4 DEF ReceiveObserve, Continue, Exit, ObserveNext
      <3> QED
        BY <1>2, <3>1, <3>2, <3>3, <3>4 DEF Receives
    <2>2. PICK f \in Frame : f = Incoming
      BY <2>1, ReceiveType DEF ReceiveFrame
    <2>3. PICK event : event = Consume(tracker, f).event
      OBVIOUS
    <2>4. /\ event = IncomingEvent
          /\ log' = Append(log, Received(f)) /\ cfg' = cfg /\ saved' = saved
          /\ cap' = IF Refused(event) THEN cap ELSE CaptureReceived(cap, f, event)
      BY <2>1, <2>2, <2>3 DEF ReceiveFrame, IncomingEvent
    <2>5. cap'.kind = cap.kind /\ cap'.target = cap.target
      BY <2>4 DEF CaptureReceived, RecordHeaders, RecordData, SelectStream, TypeOK, CaptureState
    <2>6. ASSUME ~Refused(event), cap.kind # "none" PROVE Gathered'
      <3>1. /\ ~event.error /\ Gathered
            /\ cap' = CaptureReceived(cap, f, event) /\ cap' \in CaptureState
        BY <2>1, <2>4, <2>6 DEF Refused, FilesInv, TypeOK
      <3> QED
        BY <2>3, <2>4, <2>6, <3>1, ReceivedKeepsGathered
    <2> QED
      BY <1>1, <2>1, <2>4, <2>5, <2>6
  <1>3. CASE Flush
    <2>1. pc' = "exited" /\ SavedFilesExact'
      BY <1>3, FlushSaves DEF Flush, Exit
    <2> QED
      BY <2>1 DEF FilesInv
  <1>4. CASE GathersNothing
    <2>1. PICK f \in Frame : log' = log \/ log' = Append(log, Sent(f))
      BY <1>4 DEF GathersNothing
    <2>2. cfg' = cfg /\ saved' = saved /\ cap' = cap
      BY <1>4 DEF GathersNothing
    <2>3. Gathered => Gathered'
      BY <2>1, <2>2, SentKeepsGathered, QuietKeepsGathered
    <2>4. CASE pc # "exited"
      <3>1. CASE UNCHANGED <<pc, result, log>>
        BY <1>1, <2>2, <2>3, <2>4, <3>1 DEF FilesInv
      <3>2. CASE ~UNCHANGED <<pc, result, log>>
        BY <1>1, <1>4, <2>2, <2>3, <2>4, <3>2 DEF FilesInv, GathersNothing
      <3> QED
        BY <3>1, <3>2
    <2>5. CASE pc = "exited"
      <3>1. pc' = pc /\ result' = result /\ log' = log
        BY <1>4, <2>5 DEF GathersNothing
      <3>2. \A s, n : /\ Recorded(s, n)' <=> Recorded(s, n)
                      /\ EndRecorded(s, n)' <=> EndRecorded(s, n)
        BY <3>1 DEF Recorded, EndRecorded, EndsStreamAt, IsReceived, Type, StreamOf, Has, IsBlock,
                    StartsBlock, IsHeaderFrame
      <3>3. SavedStream' = SavedStream
        BY <2>2, <3>1, <3>2 DEF SavedStream
      <3>4. \A file, s : /\ HoldsContent(file, s)' <=> HoldsContent(file, s)
                         /\ HoldsBeginning(file, s)' <=> HoldsBeginning(file, s)
        BY <3>1 DEF HoldsContent, HoldsBeginning, Pieces, Payloads, BodyFrames, BlockFrames, IsReceived, Type, StreamOf,
                    Has, IsBlock, StartsBlock, IsHeaderFrame
      <3>5. SavedFilesExact'
        BY <2>2, <3>1, <3>3, <3>4 DEF FilesInv, SavedFilesExact, Names, Damaged
      <3> QED
        BY <2>5, <3>1, <3>5 DEF FilesInv
    <2> QED
      BY <2>4, <2>5
  <1> QED
    BY <1>2, <1>3, <1>4, StepIs

\* Whatever the peer sends, in whatever order the streams end and however
\* their header blocks are cut into frames, a command that ends well has saved
\* exactly what it was asked to of the stream it was asked for, or of the first
\* to end, and nothing of another: the capture manager and Flush.
THEOREM FilesCorrect == Spec => []SavedFilesExact
  <1>1. Spec => []Holds(tracker, View)
    BY HoldsInit, HoldsStep, TypeCorrect, PTL DEF Spec
  <1>2. Spec => []FilesInv
    BY <1>1, FilesInit, FilesStep, TypeCorrect, PTL DEF Spec
  <1>3. FilesInv => SavedFilesExact
    BY DEF FilesInv
  <1> QED
    BY <1>2, <1>3, PTL
=============================================================================
