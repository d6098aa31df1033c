---------------------------- MODULE ScriptProofs ----------------------------
(***************************************************************************)
(* What a script sends, answers and refuses, for scripts of any length,    *)
(* numbers of any width and any behaviour of the peer: repeated stream ids *)
(* never overflow, only frames are sent, only numbers out of range are     *)
(* refused, answers are given as asked, the closing GOAWAY only to a peer  *)
(* that sent none, and the frames of the script are sent in its order,     *)
(* each once; and a receive action reads what it waits for and not one     *)
(* frame more.                                                             *)
(***************************************************************************)
EXTENDS ScriptProperties, HeaderBlockProofs, FiniteSetTheorems

(***************************************************************************)
(* Arithmetic                                                              *)
(***************************************************************************)
\* Integer division rounds down (the \div of MaxIterations).
LEMMA DivBound ==
    ASSUME NEW n \in Nat, NEW d \in Nat \ {0}
    PROVE  /\ n \div d \in Nat
           /\ d * (n \div d) <= n
BY SMT

\* The bound of validateActionRepeat keeps every iteration within 32 bits.
LEMMA StepBound ==
    ASSUME NEW streamID \in 0..MaxUint32, NEW step \in 0..MaxUint32,
           NEW n \in Int, StepFits(streamID, step, n),
           NEW i \in Nat, i < n
    PROVE  /\ step * i \in Nat
           /\ streamID + step * i <= MaxUint32
<1>1. MaxUint32 \in Nat
  BY WidthsAssumption
<1>2. step \in Nat /\ streamID \in Nat /\ MaxUint32 - streamID \in Nat
  BY <1>1
<1>3. step * i \in Nat
  BY <1>2
<1>4. CASE step = 0
  BY <1>1, <1>2, <1>4
<1>5. CASE n = 1
  BY <1>1, <1>2, <1>5
<1>6. CASE step # 0 /\ n # 1
  <2> DEFINE q == (MaxUint32 - streamID) \div step
  <2>1. q \in Nat /\ step * q <= MaxUint32 - streamID
    BY <1>2, <1>6, DivBound
  <2>2. n <= q + 1
    BY <1>6 DEF StepFits, MaxIterations
  <2> HIDE DEF q
  <2>3. i <= q
    BY <2>1, <2>2
  <2>4. step * i <= step * q
    BY <2>1, <2>3, <1>2
  <2>5. step * q \in Nat
    BY <2>1, <1>2
  <2> QED
    BY <2>1, <2>4, <2>5, <1>1, <1>2, <1>3
<1> QED
  BY <1>3, <1>4, <1>5, <1>6

\* The 64-bit arithmetic of Go loses nothing of such a number.
LEMMA NoWrap ==
    ASSUME NEW streamID \in Nat, NEW product \in Nat, streamID + product <= MaxUint32
    PROVE  (streamID + (product % Uint64)) % Uint64 = streamID + product
<1>1. MaxUint32 \in Nat /\ MaxUint32 > 0
  BY WidthsAssumption
<1>2. Uint64 \in Nat /\ MaxUint32 < Uint64
  <2>1. (MaxUint32 + 1) * (MaxUint32 + 1) = (MaxUint32 * MaxUint32) + (2 * MaxUint32) + 1
    BY <1>1
  <2>2. MaxUint32 * MaxUint32 \in Nat
    BY <1>1
  <2> QED
    BY <1>1, <2>1, <2>2 DEF Uint64
<1> DEFINE W == Uint64
<1>3. W \in Nat /\ streamID + product < W /\ product < W /\ W > 0
  BY <1>1, <1>2
<1> HIDE DEF W
<1>4. product % W = product
  BY <1>3
<1>5. (streamID + product) % W = streamID + product
  BY <1>3
<1> QED
  BY <1>4, <1>5 DEF W

\* The stream id of an iteration of a valid action is the one that the
\* documentation promises, and no more than 32 bits.
LEMMA StreamExact ==
    ASSUME NEW a, ValidRepeat(a), Has(a, "stream_id_step"),
           Has(a, "repeat") => a.repeat \in Int,
           NEW i \in Nat, i < Count(a)
    PROVE  /\ StreamAt(a.stream_id, a.stream_id_step, i) = a.stream_id + i * a.stream_id_step
           /\ a.stream_id + i * a.stream_id_step \in 0..MaxUint32
           /\ "stream_id" \in DOMAIN a
<1> DEFINE s == a.stream_id
           d == a.stream_id_step
<1>1. /\ s \in 0..MaxUint32 /\ d \in 0..MaxUint32
      /\ Has(a, "repeat") /\ Has(a, "stream_id") /\ StepFits(s, d, a.repeat)
  BY DEF ValidRepeat, Fits32
<1>2. a.repeat \in Int /\ i < a.repeat
  BY <1>1 DEF Count
<1>3. d * i \in Nat /\ s + d * i <= MaxUint32
  BY <1>1, <1>2, StepBound
<1>4. s \in Nat /\ d \in Nat /\ MaxUint32 \in Nat
  BY <1>1, WidthsAssumption
<1>5. StreamAt(s, d, i) = s + d * i
  BY <1>3, <1>4, NoWrap DEF StreamAt
<1>6. d * i = i * d
  BY <1>4
<1> HIDE DEF s, d
<1>7. s + i * d \in 0..MaxUint32
  BY <1>3, <1>4, <1>6
<1> QED
  BY <1>1, <1>5, <1>6, <1>7 DEF s, d, Has

\* An iteration of a valid action never overflows.
LEMMA IterationFits ==
    ASSUME NEW a, ValidRepeat(a),
           Has(a, "repeat") => a.repeat \in Int,
           NEW i \in Nat, i < Count(a)
    PROVE  ~Overflows(Iteration(a, i))
<1>1. CASE ~Has(a, "stream_id_step")
  BY <1>1 DEF Iteration, Overflows
<1>2. CASE Has(a, "stream_id_step")
  <2> DEFINE sum == StreamAt(a.stream_id, a.stream_id_step, i)
  <2>1. sum \in 0..MaxUint32 /\ "stream_id" \in DOMAIN a
    BY <1>2, StreamExact
  <2>2. Iteration(a, i).stream_id = sum
    BY <1>2, <2>1 DEF Iteration
  <2> HIDE DEF sum
  <2>3. ~(sum > MaxUint32)
    BY <2>1, WidthsAssumption
  <2> QED
    BY <2>2, <2>3 DEF Overflows
<1> QED
  BY <1>1, <1>2

(***************************************************************************)
(* The run                                                                 *)
(***************************************************************************)
\* Between actions and within them, the client is at an iteration that the
\* action has, of a script that was validated.
AtIteration ==
    /\ index \in 1..Len(actions)
    /\ iteration \in Nat /\ iteration < Count(actions[index])

RunInv ==
    /\ actions \in Scripts
    /\ pc \notin {"load", "exited"} => ValidScript(actions)
    /\ pc \in {"load", "dial"} => index = 1 /\ iteration = 0
    /\ pc \in {"action", "receive", "answer"} => AtIteration
    /\ result # "overflow"

\* The tables of a script hold integers where validation expects numbers.
LEMMA Numbers ==
    ASSUME NEW script \in Scripts, ValidScript(script), NEW i \in 1..Len(script)
    PROVE  /\ ValidRepeat(script[i])
           /\ Has(script[i], "repeat") => script[i].repeat \in Int
           /\ Count(script[i]) \in Int /\ Count(script[i]) > 0
<1>1. i \in DOMAIN script
  BY ScriptsAssumption
<1>2. ValidTable(script[i]) /\ ValidRepeat(script[i])
  BY <1>1 DEF ValidScript, ValidAction
<1>3. Has(script[i], "repeat") => script[i].repeat \in Int
  BY <1>1, <1>2, ScriptsAssumption DEF Has, ValidTable, NumberFields
<1>4. Has(script[i], "repeat") => script[i].repeat > 0
  BY <1>2 DEF ValidRepeat
<1> QED
  BY <1>2, <1>3, <1>4 DEF Count

\* The end of an action leaves the client at an iteration that exists.
LEMMA AdvanceStaysWithin ==
    ASSUME RunInv, AtIteration, ValidScript(actions), Advance, actions' = actions
    PROVE  /\ pc' \in {"action", "finish"} /\ result' = result
           /\ pc' = "action" => AtIteration'
<1>1. Len(actions) \in Nat
  BY ScriptsAssumption DEF RunInv
<1>2. pc' \in {"action", "finish"} /\ result' = result
  BY DEF Advance, Goto
<1>3. CASE LastIteration
  <2>1. index' = index + 1 /\ iteration' = 0
    BY <1>3 DEF Advance
  <2>2. SUFFICES ASSUME pc' = "action" PROVE AtIteration'
    BY <1>2
  <2>3. index # Len(actions)
    BY <1>3, <2>2 DEF Advance, Goto
  <2>4. index' \in 1..Len(actions)
    BY <1>1, <2>1, <2>3 DEF AtIteration
  <2>5. Count(actions[index']) \in Int /\ Count(actions[index']) > 0
    BY <2>4, Numbers DEF RunInv
  <2> QED
    BY <2>1, <2>4, <2>5 DEF AtIteration
<1>4. CASE ~LastIteration
  <2>1. index' = index /\ iteration' = iteration + 1
    BY <1>4 DEF Advance
  <2>2. Count(actions[index]) \in Int
    BY Numbers DEF RunInv, AtIteration
  <2>3. iteration + 1 < Count(actions[index])
    BY <1>4, <2>2 DEF LastIteration, AtIteration
  <2> QED
    BY <1>2, <2>1, <2>3 DEF AtIteration
<1> QED
  BY <1>3, <1>4

\* The action at hand is within range.
LEMMA ActionFits ==
    ASSUME RunInv, pc = "action"
    PROVE  ~Overflows(Action)
<1>1. AtIteration /\ ValidScript(actions) /\ actions \in Scripts
  BY DEF RunInv
<1>2. /\ ValidRepeat(actions[index])
      /\ Has(actions[index], "repeat") => actions[index].repeat \in Int
  BY <1>1, Numbers DEF AtIteration
<1> QED
  BY <1>1, <1>2, IterationFits DEF Action, AtIteration

LEMMA RunInit == Init => RunInv
BY DEF Init, RunInv

\* AtIteration does not depend on what else changes.
LEMMA StayKeeps ==
    ASSUME AtIteration, Stay, actions' = actions
    PROVE  AtIteration'
BY DEF AtIteration, Stay

LEMMA RunStep == RunInv /\ [Next]_vars => RunInv'
<1> SUFFICES ASSUME RunInv, [Next]_vars PROVE RunInv'
  OBVIOUS
<1>1. CASE Load
  <2>1. actions' = actions /\ index' = 1 /\ iteration' = 0 /\ result # "overflow"
    BY <1>1 DEF Load, RunInv
  <2>2. \/ ValidScript(actions) /\ pc' = "dial" /\ result' = result
        \/ pc' = "exited" /\ result' = "invalid"
    BY <1>1 DEF Load, Goto, Exit
  <2>3. ValidScript(actions) => ValidScript(actions')
    BY <2>1
  <2> QED
    BY <2>1, <2>2, <2>3 DEF RunInv
<1>2. CASE Dial
  <2>1. /\ actions' = actions /\ index' = 1 /\ iteration' = 0
        /\ ValidScript(actions) /\ result # "overflow" /\ actions \in Scripts
    BY <1>2 DEF Dial, RunInv
  <2>2. \/ pc' = "action" /\ result' = result
        \/ pc' = "exited" /\ result' = "io"
    BY <1>2 DEF Dial, Goto, Exit
  <2>3. Len(actions) \in Nat \ {0}
    BY <2>1, ScriptsAssumption
  <2>4. 1 \in 1..Len(actions) /\ Count(actions[1]) \in Int /\ Count(actions[1]) > 0
    BY <2>1, <2>3, Numbers
  <2>5. AtIteration'
    BY <2>1, <2>4 DEF AtIteration
  <2> QED
    BY <2>1, <2>2, <2>5 DEF RunInv
<1>3. ASSUME pc \in {"action", "receive", "answer"}, actions' = actions,
             \/ Advance
             \/ Goto("receive") /\ Stay
             \/ Goto("answer") /\ Stay
             \/ Exit("io") /\ Stay
      PROVE  RunInv'
  <2>1. /\ AtIteration /\ ValidScript(actions) /\ result # "overflow"
        /\ actions \in Scripts /\ ValidScript(actions')
    BY <1>3 DEF RunInv
  <2>2. CASE Advance
    BY <2>1, <2>2, <1>3, AdvanceStaysWithin DEF RunInv
  <2>3. CASE Stay /\ (Goto("receive") \/ Goto("answer"))
    BY <2>1, <2>3, <1>3, StayKeeps DEF RunInv, Goto
  <2>4. CASE Exit("io") /\ Stay
    BY <2>1, <2>4, <1>3 DEF RunInv, Exit
  <2> QED
    BY <1>3, <2>2, <2>3, <2>4
<1>4. CASE SendPreface
  BY <1>3, <1>4 DEF SendPreface, SendAndReport
<1>5. CASE Sleep
  BY <1>3, <1>5 DEF Sleep
<1>6. CASE SendFrame
  BY <1>3, <1>6 DEF SendFrame, SendAndReport
<1>7. CASE RefuseAction
  <2>1. ~Overflows(Action)
    BY <1>7, ActionFits DEF RefuseAction
  <2>2. pc' = "exited" /\ result' = "refused" /\ actions' = actions /\ actions \in Scripts
    BY <1>7, <2>1 DEF RefuseAction, Exit, RunInv
  <2> QED
    BY <2>2 DEF RunInv
<1>8. CASE StartReceive
  BY <1>3, <1>8 DEF StartReceive
<1>9. CASE Receive
  <2>1. /\ pc = "receive" /\ actions' = actions
        /\ Advance \/ (Goto("receive") /\ Stay) \/ (Goto("answer") /\ Stay) \/ (Exit("io") /\ Stay)
    BY <1>9 DEF Receive, AfterFrame
  <2> QED
    BY <1>3, <2>1
<1>10. CASE SendAnswer
  <2>1. /\ pc = "answer" /\ actions' = actions
        /\ Advance \/ (Goto("receive") /\ Stay) \/ (Exit("io") /\ Stay)
    BY <1>10 DEF SendAnswer, AfterFrame
  <2> QED
    BY <1>3, <2>1
<1>11. CASE ReceiveFails
  BY <1>11 DEF ReceiveFails, Exit, RunInv
<1>12. CASE EndRun
  BY <1>12 DEF EndRun, Exit, RunInv
<1>13. CASE UNCHANGED client
  BY <1>13 DEF client, RunInv, AtIteration
<1>14. CASE \E f \in PeerFrames : PeerSend(f)
  BY <1>13, <1>14 DEF PeerSend
<1>15. CASE PeerClose
  BY <1>13, <1>15 DEF PeerClose
<1>16. CASE UNCHANGED vars
  BY <1>13, <1>16 DEF vars
<1> QED
  BY <1>1, <1>2, <1>4, <1>5, <1>6, <1>7, <1>8, <1>9, <1>10, <1>11, <1>12, <1>14, <1>15, <1>16
     DEF Next, ClientStep, Terminated

\* Property NoOverflow: actionForRepeatIteration never refuses an iteration of
\* a script that validateScript accepted.
THEOREM RepeatsFit == Spec => []NoOverflow
<1>1. RunInv => NoOverflow
  BY DEF RunInv, NoOverflow
<1> QED
  BY RunInit, RunStep, <1>1, PTL DEF Spec

(***************************************************************************)
(* The action at hand                                                      *)
(***************************************************************************)
\* The client is at a validated action, and all that an iteration changes of
\* its table is the stream id.
LEMMA AtAction ==
    ASSUME RunInv, pc \in {"action", "receive", "answer"}
    PROVE  LET a == actions[index] IN
           /\ index \in DOMAIN actions /\ actions \in Scripts
           /\ ValidAction(a) /\ ~Overflows(Action)
           /\ DOMAIN Action = DOMAIN a
           /\ \A field \in DOMAIN a \ {"stream_id"} : Action[field] = a[field]
           /\ Action.type = a.type
  <1> DEFINE a == actions[index]
  <1>1. /\ AtIteration /\ ValidScript(actions) /\ actions \in Scripts
        /\ index \in DOMAIN actions
    BY ScriptsAssumption DEF RunInv, AtIteration
  <1>2. ValidAction(a)
    BY <1>1 DEF ValidScript
  <1>3. "type" \in DOMAIN a
    BY <1>2 DEF ValidAction, ValidTable, Has
  <1>4. ~Overflows(Action)
    BY <1>1, <1>2, Numbers, IterationFits DEF Action, AtIteration
  <1>5. /\ DOMAIN Action = DOMAIN a
        /\ \A field \in DOMAIN a \ {"stream_id"} : Action[field] = a[field]
    BY DEF Action, Iteration
  <1> QED
    BY <1>1, <1>2, <1>3, <1>4, <1>5

\* actionForRepeatIteration, which wraps at 64 bits, makes the iteration that
\* the documentation promises.
LEMMA ActionIsMeant ==
    ASSUME RunInv, pc \in {"action", "receive", "answer"}
    PROVE  Action = Meant(index, iteration)
  <1> DEFINE a == actions[index]
  <1>1. AtIteration /\ ValidScript(actions) /\ actions \in Scripts
    BY DEF RunInv
  <1>2. CASE ~Has(a, "stream_id_step")
    BY <1>2 DEF Action, Iteration, Meant
  <1>3. CASE Has(a, "stream_id_step")
    <2>1. /\ StreamAt(a.stream_id, a.stream_id_step, iteration)
                = a.stream_id + iteration * a.stream_id_step
          /\ "stream_id" \in DOMAIN a
      BY <1>1, <1>3, Numbers, StreamExact DEF AtIteration
    <2>2. /\ Action = [a EXCEPT !.stream_id = StreamAt(a.stream_id, a.stream_id_step, iteration)]
          /\ Meant(index, iteration)
                = [a EXCEPT !.stream_id = a.stream_id + iteration * a.stream_id_step]
      BY <1>3 DEF Action, Iteration, Meant
    <2> QED
      BY <2>1, <2>2
  <1> QED
    BY <1>2, <1>3

(***************************************************************************)
(* Types                                                                   *)
(***************************************************************************)
\* buildScriptFrame makes a frame or refuses: no number that does not fit gets
\* past it.
LEMMA BuildType ==
    ASSUME RunInv, pc = "action", IsFrame(Action), Builds(Action)
    PROVE  BuildFrame(Action) \in Frame
  <1> DEFINE a == actions[index]
             b == Action
  <1>1. /\ index \in DOMAIN actions /\ actions \in Scripts /\ ValidAction(a)
        /\ DOMAIN b = DOMAIN a
        /\ \A field \in DOMAIN a \ {"stream_id"} : b[field] = a[field]
        /\ b.type = a.type
    BY AtAction
  <1>2. RangesFit(b) /\ b.type \in DOMAIN FrameType
    BY DEF Builds, IsFrame
  <1> HIDE DEF b
  <1>3. FrameType[b.type] \in FrameTypes
    BY <1>2 DEF FrameType, FrameTypes
  <1>4. (IF Has(b, "stream_id") THEN b.stream_id ELSE 0) \in StreamIds
    BY <1>2, StreamsAssumption, StreamIdsAssumption DEF RangesFit, Fits32, Has
  <1>5. FieldOr(b, PayloadFields) \in Seq(Item)
    <2>1. CASE DOMAIN b \cap PayloadFields = {}
      BY <2>1 DEF FieldOr
    <2>2. CASE DOMAIN b \cap PayloadFields # {}
      <3>1. PICK field \in DOMAIN b \cap PayloadFields : FieldOr(b, PayloadFields) = b[field]
        <4> DEFINE field == CHOOSE field \in DOMAIN b \cap PayloadFields : TRUE
        <4>1. field \in DOMAIN b \cap PayloadFields
          BY <2>2
        <4>2. FieldOr(b, PayloadFields) = b[field]
          BY <2>2 DEF FieldOr
        <4> HIDE DEF field
        <4> QED
          BY <4>1, <4>2
      <3>2. field \in DOMAIN a /\ b[field] = a[field]
        BY <1>1, <3>1 DEF PayloadFields
      <3>3. /\ a[field] # WrongKind
            /\ field \in TextFields => a[field] # Unparsable
        BY <1>1, <3>2 DEF ValidAction, ValidTable, ContentFits, TextParses
      <3>4. \/ a[field] = WrongKind \/ a[field] \in Seq(Item)
            \/ field \in TextFields /\ a[field] = Unparsable
        BY <1>1, <3>1, <3>2, ScriptsAssumption
      <3> QED
        BY <3>1, <3>2, <3>3, <3>4
    <2> QED
      BY <2>1, <2>2
  <1>6. (IF b.type = "raw" THEN {} ELSE FlagsOf(b) \cap Flags) \in SUBSET Flags
    OBVIOUS
  <1> QED
    BY <1>3, <1>4, <1>5, <1>6 DEF BuildFrame, Frame, b

\* So is what answers a frame.
LEMMA AnswerType == ASSUME NEW f \in Frame PROVE Answer(f) \in Frame
  <1>1. {"ACK"} \in SUBSET Flags /\ f.payload \in Seq(Item)
    BY DEF Flags, Frame
  <1> QED
    BY <1>1, ConstructorTypes DEF Answer

\* Types of what the steps share.
LEMMA AdvanceType ==
    ASSUME index \in Nat, iteration \in Nat, Advance
    PROVE  /\ index' \in Nat /\ iteration' \in Nat
           /\ pc' \in {"action", "finish"} /\ result' = result
  BY DEF Advance, Goto

LEMMA EntryType ==
    ASSUME TypeOK, NEW f \in Frame, NEW kind \in {"sent", "received", "answered", "closing"}
    PROVE  Entry(kind, f) \in LogEntry /\ Append(log, Entry(kind, f)) \in Seq(LogEntry)
  BY DEF TypeOK, Entry, LogEntry

LEMMA ScriptInitType == Init => TypeOK
  <1> SUFFICES ASSUME Init PROVE TypeOK
    OBVIOUS
  <1>1. held \in Frame
    BY ConstructorTypes DEF Init
  <1>2. tracker \in Tracker
    BY StreamIdsAssumption DEF Init, Idle, Tracker
  <1>3. inbox \in Seq(Frame) /\ log \in Seq(LogEntry) /\ peer \in [open : BOOLEAN, sent : Nat]
    BY DEF Init
  <1> QED
    BY <1>1, <1>2, <1>3 DEF Init, TypeOK

LEMMA ScriptNextType == TypeOK /\ RunInv /\ [Next]_vars => TypeOK'
  <1> SUFFICES ASSUME TypeOK, RunInv, [Next]_vars PROVE TypeOK'
    OBVIOUS
  <1>1. CASE Load
    BY <1>1 DEF TypeOK, Load, Goto, Exit
  <1>2. CASE Dial
    BY <1>2 DEF TypeOK, Dial, Goto, Exit
  <1>3. ASSUME NEW f \in Frame, SendAndReport(f),
               UNCHANGED <<actions, sendGoAway, held, count, gotGoAway, sawGoAway, tracker,
                           inbox, peer>>
        PROVE  TypeOK'
    <2>1. log' \in Seq(LogEntry)
      BY <1>3, EntryType DEF SendAndReport, TypeOK
    <2>2. /\ index' \in Nat /\ iteration' \in Nat
          /\ pc' \in {"action", "finish", "exited"} /\ result' \in {result, "io"}
      BY <1>3, AdvanceType DEF SendAndReport, TypeOK, Exit, Stay
    <2> QED
      BY <1>3, <2>1, <2>2 DEF TypeOK
  <1>4. CASE SendPreface
    BY <1>3, <1>4, ConstructorTypes DEF SendPreface
  <1>5. CASE Sleep
    <2>1. /\ index' \in Nat /\ iteration' \in Nat
          /\ pc' \in {"action", "finish", "exited"} /\ result' \in {result, "io"}
      BY <1>5, AdvanceType DEF Sleep, TypeOK, Exit, Stay
    <2> QED
      BY <1>5, <2>1 DEF Sleep, TypeOK
  <1>6. CASE SendFrame
    BY <1>3, <1>6, BuildType DEF SendFrame, Marshalled
  <1>7. CASE RefuseAction
    BY <1>7 DEF TypeOK, RefuseAction, Exit
  <1>8. CASE StartReceive
    BY <1>8 DEF TypeOK, StartReceive, Goto, Stay
  <1>9. CASE Receive
    <2>1. Head(inbox) \in Frame /\ Tail(inbox) \in Seq(Frame)
      BY <1>9 DEF TypeOK, Receive
    <2>2. Consume(tracker, Head(inbox)).tracker \in Tracker
      BY <2>1, ConsumeType DEF TypeOK
    <2>3. Append(log, Entry("received", Head(inbox))) \in Seq(LogEntry)
      BY <2>1, EntryType
    <2>4. /\ gotGoAway' \in BOOLEAN /\ sawGoAway' \in BOOLEAN
          /\ index' \in Nat /\ iteration' \in Nat
          /\ pc' \in {"action", "finish", "receive", "answer", "exited"}
          /\ result' \in {result, "io"}
      BY <1>9, AdvanceType DEF TypeOK, Receive, AfterFrame, Saw, Exit, Goto, Stay
    <2> QED
      BY <1>9, <2>1, <2>2, <2>3, <2>4 DEF TypeOK, Receive
  <1>10. CASE SendAnswer
    <2>1. Append(log, Entry("answered", Answer(held))) \in Seq(LogEntry)
      BY EntryType, AnswerType DEF TypeOK
    <2>2. /\ sawGoAway' \in BOOLEAN /\ index' \in Nat /\ iteration' \in Nat
          /\ pc' \in {"action", "finish", "receive", "exited"} /\ result' \in {result, "io"}
      BY <1>10, AdvanceType DEF TypeOK, SendAnswer, AfterFrame, Saw, Exit, Goto, Stay
    <2>3. log' \in Seq(LogEntry)
      BY <1>10, <2>1 DEF SendAnswer, TypeOK
    <2> QED
      BY <1>10, <2>2, <2>3 DEF TypeOK, SendAnswer
  <1>11. CASE ReceiveFails
    BY <1>11 DEF TypeOK, ReceiveFails, Exit
  <1>12. CASE EndRun
    <2>1. Append(log, Entry("closing", GoAwayFrame)) \in Seq(LogEntry)
      BY EntryType, ConstructorTypes
    <2> QED
      BY <1>12, <2>1 DEF TypeOK, EndRun, Exit
  <1>13. ASSUME NEW f \in PeerFrames, PeerSend(f) PROVE TypeOK'
    <2>1. Append(inbox, f) \in Seq(Frame)
      BY PeerFramesAssumption DEF TypeOK
    <2>2. [peer EXCEPT !.sent = @ + 1] \in [open : BOOLEAN, sent : Nat]
      BY DEF TypeOK
    <2> QED
      BY <1>13, <2>1, <2>2 DEF TypeOK, PeerSend, client
  <1>14. CASE PeerClose
    <2>1. PICK n \in 0..Len(inbox) : inbox' = SubSeq(inbox, 1, n)
      BY <1>14 DEF PeerClose
    <2>2. inbox' \in Seq(Frame)
      BY <2>1 DEF TypeOK
    <2>3. [peer EXCEPT !.open = FALSE] \in [open : BOOLEAN, sent : Nat]
      BY DEF TypeOK
    <2> QED
      BY <1>14, <2>2, <2>3 DEF TypeOK, PeerClose, client
  <1>15. CASE UNCHANGED vars
    BY <1>15 DEF TypeOK, vars, client
  <1> QED
    BY <1>1, <1>2, <1>4, <1>5, <1>6, <1>7, <1>8, <1>9, <1>10, <1>11, <1>12, <1>13, <1>14, <1>15
       DEF Next, ClientStep, Terminated

\* Property TypeOK: every variable of a script's run keeps its type, and above
\* all what is sent is a frame (buildScriptFrame).
THEOREM ScriptTypeCorrect == Spec => []TypeOK
  <1> QED
    BY ScriptInitType, ScriptNextType, RunInit, RunStep, PTL DEF Spec

(***************************************************************************)
(* The shape of a run                                                      *)
(***************************************************************************)
\* A run that goes on has no outcome yet.
EndInv == pc # "exited" => result = "running"

\* Steps that add nothing to the history.
Quiet ==
    \/ Load \/ Dial \/ Sleep \/ RefuseAction \/ StartReceive \/ ReceiveFails
    \/ (\E f \in PeerFrames : PeerSend(f)) \/ PeerClose \/ UNCHANGED vars

LEMMA StepKinds ==
    ASSUME [Next]_vars
    PROVE  Quiet \/ SendPreface \/ SendFrame \/ Receive \/ SendAnswer \/ EndRun
  BY DEF Next, ClientStep, Terminated, Quiet

LEMMA QuietSteps ==
    ASSUME Quiet
    PROVE  /\ log' = log /\ actions' = actions /\ sendGoAway' = sendGoAway
           /\ tracker' = tracker /\ sawGoAway' = sawGoAway
           /\ \/ UNCHANGED client
              \/ pc = "load" /\ pc' = "dial" /\ result' = result /\ Stay
              \/ pc = "dial" /\ pc' = "action" /\ result' = result /\ Stay
              \/ pc = "action" /\ Action.type = "sleep" /\ Advance
              \/ /\ pc = "action" /\ Action.type = "receive"
                 /\ pc' = "receive" /\ result' = result /\ Stay /\ count' = 0
              \/ /\ pc \in {"load", "dial", "action", "receive"} /\ pc' = "exited" /\ Stay
                 /\ result' # "ok"
                 /\ result' = "refused" => pc = "action" /\ RefuseAction
  BY DEF Quiet, Load, Dial, Sleep, RefuseAction, StartReceive, ReceiveFails, PeerSend, PeerClose,
         vars, client, Goto, Exit, Stay

\* SendPreface and SendFrame.
LEMMA SendingSteps ==
    ASSUME TypeOK, RunInv, SendPreface \/ SendFrame
    PROVE  /\ pc = "action" /\ Action.type # "receive"
           /\ UNCHANGED <<actions, sendGoAway, count, gotGoAway, sawGoAway, tracker>>
           /\ \E f \in Frame :
                 \/ Advance /\ log' = Append(log, Entry("sent", f))
                 \/ /\ pc' = "exited" /\ result' = "io" /\ Stay
                    /\ log' \in {log, Append(log, Entry("sent", f))}
  <1>1. CASE SendPreface
    BY <1>1, ConstructorTypes DEF SendPreface, SendAndReport, Exit
  <1>2. CASE SendFrame
    <2>1. BuildFrame(Action) \in Frame
      BY <1>2, BuildType DEF SendFrame, Marshalled
    <2>2. Action.type # "receive"
      BY <1>2 DEF SendFrame, IsFrame, FrameType
    <2> QED
      BY <1>2, <2>1, <2>2 DEF SendFrame, SendAndReport, Exit
  <1> QED
    BY <1>1, <1>2

\* The history with one more entry.
LEMMA LogGrows ==
    ASSUME TypeOK, NEW e \in LogEntry, log' = Append(log, e)
    PROVE  /\ Len(log) \in Nat /\ DOMAIN log = 1..Len(log)
           /\ Len(log') = Len(log) + 1 /\ DOMAIN log' = 1..(Len(log) + 1)
           /\ log'[Len(log) + 1] = e
           /\ \A k \in DOMAIN log : log'[k] = log[k] /\ k \in DOMAIN log'
           /\ \A k \in DOMAIN log' : k \in DOMAIN log \/ k = Len(log) + 1
  BY DEF TypeOK

LEMMA EndInit == Init => EndInv
  BY DEF Init, EndInv

LEMMA EndStep == EndInv /\ [Next]_vars => EndInv'
  <1> SUFFICES ASSUME EndInv, [Next]_vars PROVE EndInv'
    OBVIOUS
  <1>1. Advance => result' = result
    BY DEF Advance, Goto
  <1> QED
    BY <1>1 DEF EndInv, Next, ClientStep, Terminated, Load, Dial, SendPreface, Sleep, SendFrame,
                RefuseAction, StartReceive, Receive, SendAnswer, ReceiveFails, EndRun, PeerSend,
                PeerClose, SendAndReport, AfterFrame, Goto, Exit, client, vars

(***************************************************************************)
(* Answers                                                                 *)
(***************************************************************************)
\* Before it answers, the client has just received what it answers, and was
\* asked to.
AckInv ==
    /\ AcksAsAsked
    /\ pc = "answer" =>
          /\ log # <<>>
          /\ \A k \in DOMAIN log : k = Len(log) => log[k] = Entry("received", held) /\ Asked(k)

\* What the entries of the history promise, one by one.
AckAt(k) ==
    /\ Asked(k) => k # Len(log) /\ AnswerFollows(k)
    /\ log[k].kind = "answered" => k > 1 /\ Asked(k - 1)

\* What was asked stays asked.
LEMMA AskedStays ==
    ASSUME TypeOK, actions' = actions,
           log' = log \/ \E e \in LogEntry : log' = Append(log, e),
           NEW k \in DOMAIN log
    PROVE  /\ Asked(k)' <=> Asked(k)
           /\ log'[k] = log[k]
           /\ k # Len(log) => (AnswerFollows(k)' <=> AnswerFollows(k))
  <1>1. log'[k] = log[k]
    BY LogGrows
  <1>2. Meant(log[k].index, log[k].iteration)' = Meant(log'[k].index, log'[k].iteration)
    BY <1>1 DEF Meant
  <1>3. k # Len(log) => log'[k + 1] = log[k + 1]
    <2>1. k # Len(log) => k + 1 \in DOMAIN log
      BY DEF TypeOK
    <2> QED
      BY <2>1, LogGrows
  <1>4. Asked(k)' <=> Asked(k)
    BY <1>1, <1>2 DEF Asked, Meant, Flag
  <1>5. k # Len(log) => (AnswerFollows(k)' <=> AnswerFollows(k))
    BY <1>1, <1>3 DEF AnswerFollows
  <1> QED
    BY <1>1, <1>4, <1>5

\* Nothing is due, so every entry but the last keeps its promise: while the
\* client is not about to answer, the last as well.
LEMMA NothingDue ==
    ASSUME TypeOK, EndInv, AckInv, pc \notin {"answer", "exited"}
    PROVE  \A k \in DOMAIN log : AckAt(k)
  BY DEF EndInv, AckInv, AcksAsAsked, AckAt

\* Promises kept stay kept.
LEMMA AckAtStays ==
    ASSUME TypeOK, actions' = actions,
           log' = log \/ \E e \in LogEntry : log' = Append(log, e),
           NEW k \in DOMAIN log, AckAt(k)
    PROVE  /\ AckAt(k)'
  <1>1. /\ Asked(k)' <=> Asked(k)
        /\ log'[k] = log[k]
        /\ k # Len(log) => (AnswerFollows(k)' <=> AnswerFollows(k))
    BY AskedStays
  <1>2. k > 1 => (Asked(k - 1)' <=> Asked(k - 1))
    <2>1. k > 1 => k - 1 \in DOMAIN log
      BY DEF TypeOK
    <2> QED
      BY <2>1, AskedStays
  <1>3. k # Len(log) => k # Len(log')
    BY DEF TypeOK
  <1> QED
    BY <1>1, <1>2, <1>3 DEF AckAt

\* An entry after which nothing is due.
LEMMA AckGrows ==
    ASSUME TypeOK, EndInv, AckInv, actions' = actions, pc \notin {"answer", "exited"},
           pc' # "answer",
           NEW e \in LogEntry, e.kind \in {"sent", "closing"},
           log' = log \/ log' = Append(log, e)
    PROVE  AckInv'
  <1>1. \A k \in DOMAIN log : AckAt(k)'
    BY NothingDue, AckAtStays
  <1>2. ASSUME NEW n \in DOMAIN log', n \notin DOMAIN log
        PROVE  AckAt(n)'
    <2>1. log'[n] = e
      BY <1>2, LogGrows
    <2> QED
      BY <2>1 DEF AckAt, Asked
  <1>3. \A k \in DOMAIN log' : AckAt(k)'
    BY <1>1, <1>2
  <1> QED
    BY <1>3 DEF AckInv, AcksAsAsked, AckAt

LEMMA AckInit == Init => AckInv
  BY DEF Init, AckInv, AcksAsAsked

LEMMA AckStep == TypeOK /\ RunInv /\ EndInv /\ AckInv /\ [Next]_vars => AckInv'
  <1> SUFFICES ASSUME TypeOK, RunInv, EndInv, AckInv, [Next]_vars PROVE AckInv'
    OBVIOUS
  <1>1. CASE Quiet
    <2>1. log' = log /\ actions' = actions
      BY <1>1, QuietSteps
    <2>2. CASE UNCHANGED client
      <3>1. \A k \in DOMAIN log : Asked(k)' <=> Asked(k)
        BY <2>1, AskedStays
      <3>2. \A k : k > 1 /\ k \in DOMAIN log => (Asked(k - 1)' <=> Asked(k - 1))
        BY <2>1 DEF Asked, Meant, Flag
      <3>3. \A k : AnswerFollows(k)' <=> AnswerFollows(k)
        BY <2>1 DEF AnswerFollows
      <3>4. /\ pc' = pc /\ result' = result
            /\ Entry("received", held)' = Entry("received", held)
        BY <2>2 DEF client, Entry
      <3> QED
        BY <2>1, <3>1, <3>2, <3>3, <3>4 DEF AckInv, AcksAsAsked
    <2>3. CASE pc \notin {"answer", "exited"} /\ pc' # "answer"
      <3>1. \A k \in DOMAIN log' : AckAt(k)'
        BY <2>1, <2>3, NothingDue, AckAtStays
      <3> QED
        BY <2>3, <3>1 DEF AckInv, AcksAsAsked, AckAt
    <2> QED
      BY <1>1, <2>2, <2>3, QuietSteps DEF Advance, Goto
  <1>2. CASE SendPreface \/ SendFrame
    <2>1. PICK f \in Frame : /\ log' \in {log, Append(log, Entry("sent", f))}
                             /\ pc' \in {"action", "finish", "exited"}
      BY <1>2, SendingSteps DEF Advance, Goto
    <2>2. Entry("sent", f) \in LogEntry /\ Entry("sent", f).kind = "sent"
      BY EntryType DEF Entry
    <2> QED
      BY <1>2, <2>1, <2>2, SendingSteps, AckGrows
  <1>3. CASE EndRun
    <2>1. /\ log' \in {log, Append(log, Entry("closing", GoAwayFrame))}
          /\ pc = "finish" /\ pc' = "exited" /\ actions' = actions
      BY <1>3 DEF EndRun, Exit
    <2>2. /\ Entry("closing", GoAwayFrame) \in LogEntry
          /\ Entry("closing", GoAwayFrame).kind = "closing"
      BY EntryType, ConstructorTypes DEF Entry
    <2> QED
      BY <2>1, <2>2, AckGrows
  <1>4. CASE Receive
    <2>1. PICK f \in Frame : /\ f = Head(inbox) /\ held' = f
                             /\ log' = Append(log, Entry("received", f))
      BY <1>4 DEF Receive, TypeOK
    <2>2. actions' = actions /\ pc = "receive" /\ Entry("received", f) \in LogEntry
      BY <1>4, EntryType DEF Receive
    <2>3. \/ Acks(Action, f) /\ pc' = "answer" /\ Stay
          \/ ~Acks(Action, f) /\ pc' # "answer"
          \/ pc' = "exited" /\ result' = "io"
      BY <1>4, <2>1 DEF Receive, Exit, Goto, AfterFrame, Advance
    <2>4. \A k \in DOMAIN log : AckAt(k)'
      BY <2>1, <2>2, NothingDue, AckAtStays
    <2>5. ASSUME NEW n \in DOMAIN log', n \notin DOMAIN log
          PROVE  /\ log'[n] = Entry("received", f) /\ n = Len(log')
                 /\ Asked(n)' <=> Acks(Action, f)
      <3>1. log'[n] = Entry("received", f) /\ n = Len(log')
        BY <2>1, <2>2, <2>5, LogGrows
      <3>2. log'[n].kind = "received" /\ log'[n].frame = f
            /\ log'[n].index = index /\ log'[n].iteration = iteration
        BY <3>1 DEF Entry
      <3>3. Meant(log[n].index, log[n].iteration)' = Action
        BY <2>2, <3>2, ActionIsMeant DEF Meant
      <3>4. Asked(n)' <=> /\ log'[n].kind = "received" /\ ~("ACK" \in log'[n].frame.flags)
                          /\ \/ log'[n].frame.type = "SETTINGS" /\ Option(Action, "ack_settings")
                             \/ log'[n].frame.type = "PING" /\ Option(Action, "ack_ping")
        BY <3>3 DEF Asked, Flag
      <3> QED
        BY <3>1, <3>2, <3>4 DEF Acks, IsAck
    <2>6. ASSUME NEW n \in DOMAIN log', n \notin DOMAIN log
          PROVE  /\ Asked(n)' => pc' = "answer" \/ result' = "io"
                 /\ log'[n].kind # "answered" /\ n = Len(log')
      BY <2>3, <2>5, <2>6 DEF Entry
    <2>7. AcksAsAsked'
      BY <2>4, <2>6 DEF AcksAsAsked, AckAt
    <2>8. CASE pc' = "answer"
      <3>1. Stay /\ Acks(Action, f)
        BY <2>3, <2>8
      <3>2. Entry("received", held)' = Entry("received", f)
        BY <2>1, <3>1 DEF Entry, Stay
      <3>3. log' # <<>> /\ \A k \in DOMAIN log' : k = Len(log') => k \notin DOMAIN log
        BY <2>1, <2>2 DEF TypeOK
      <3> QED
        BY <2>5, <2>7, <3>1, <3>2, <3>3 DEF AckInv
    <2> QED
      BY <2>7, <2>8 DEF AckInv
  <1>5. CASE SendAnswer
    <2>1. PICK n \in DOMAIN log : n = Len(log)
      BY <1>5 DEF SendAnswer, AckInv, TypeOK
    <2>2. /\ log[n] = Entry("received", held) /\ Asked(n)
          /\ \A k \in DOMAIN log : k # n => AckAt(k)
          /\ log[n].kind = "answered" => n > 1 /\ Asked(n - 1)
      BY <1>5, <2>1 DEF SendAnswer, AckInv, AcksAsAsked, AckAt
    <2>3. PICK e \in LogEntry : e = Entry("answered", Answer(held))
      BY EntryType, AnswerType DEF TypeOK
    <2>4. /\ pc' # "answer" /\ actions' = actions
          /\ \/ log' = Append(log, e)
             \/ log' = log /\ result' = "io"
      BY <1>5, <2>3 DEF SendAnswer, AfterFrame, Advance, Goto, Exit
    <2>5. \A k \in DOMAIN log : k # n => AckAt(k)'
      BY <2>2, <2>4, AckAtStays
    <2>6. Asked(n)' /\ log'[n] = log[n] /\ log'[n].kind = "received"
      BY <2>2, <2>4, AskedStays DEF Entry
    <2>7. CASE log' = log /\ result' = "io"
      BY <2>1, <2>4, <2>5, <2>6, <2>7 DEF AckInv, AcksAsAsked, AckAt
    <2>8. CASE log' = Append(log, e)
      <3>1. /\ log'[n + 1] = e /\ Len(log') = n + 1 /\ n + 1 > 1
            /\ \A k \in DOMAIN log' : k \in DOMAIN log \/ k = n + 1
        BY <2>1, <2>8, LogGrows
      <3>2. AnswerFollows(n)'
        BY <2>2, <2>3, <2>6, <3>1 DEF AnswerFollows, Entry
      <3>3. AckAt(n)'
        BY <2>1, <2>6, <3>1, <3>2 DEF AckAt
      <3>4. e.kind = "answered"
        BY <2>3 DEF Entry
      <3>5. ~Asked(n + 1)'
        BY <3>1, <3>4 DEF Asked
      <3>6. (n + 1) - 1 = n
        BY <2>1 DEF TypeOK
      <3>7. Asked((n + 1) - 1)'
        BY <2>6, <3>6
      <3>8. AckAt(n + 1)'
        BY <3>1, <3>5, <3>7 DEF AckAt
      <3>9. \A k \in DOMAIN log' : AckAt(k)'
        BY <2>5, <3>1, <3>3, <3>8
      <3> QED
        BY <2>4, <3>9 DEF AckInv, AcksAsAsked, AckAt
    <2> QED
      BY <2>4, <2>7, <2>8
  <1> QED
    BY <1>1, <1>2, <1>3, <1>4, <1>5, StepKinds

\* Property AcksAsAsked: what a script's receive actions answer, and that
\* nothing else is answered (handleReceiveAck).
THEOREM ScriptAcksCorrect == Spec => []AcksAsAsked
  <1>1. AckInv => AcksAsAsked
    BY DEF AckInv
  <1> QED
    BY <1>1, AckInit, AckStep, EndInit, EndStep, ScriptTypeCorrect, RunInit, RunStep, PTL DEF Spec

(***************************************************************************)
(* The closing GOAWAY                                                      *)
(***************************************************************************)
HearsGoAway(entry) == entry.kind = "received" /\ entry.frame.type = "GOAWAY"

\* While a run goes on nothing has closed it, and a GOAWAY received is
\* remembered: by the receive action it came to, and then by the script.
GoAwayInv ==
    /\ GoAwayOnlyToSilent
    /\ pc # "exited" => \A k \in DOMAIN log : log[k].kind # "closing"
    /\ pc # "exited" /\ (\E k \in DOMAIN log : HearsGoAway(log[k])) =>
          sawGoAway \/ (pc \in {"receive", "answer"} /\ gotGoAway)

LEMMA GoAwayInit == Init => GoAwayInv
  BY DEF Init, GoAwayInv, GoAwayOnlyToSilent

\* A history without a closing entry is in order.
LEMMA NotClosing ==
    ASSUME \A k \in DOMAIN log' : log'[k].kind # "closing",
           pc' # "exited" /\ (\E k \in DOMAIN log' : HearsGoAway(log'[k])) =>
               sawGoAway' \/ (pc' \in {"receive", "answer"} /\ gotGoAway')
    PROVE  GoAwayInv'
  BY DEF GoAwayInv, GoAwayOnlyToSilent

LEMMA GoAwayStep == TypeOK /\ RunInv /\ GoAwayInv /\ [Next]_vars => GoAwayInv'
  <1> SUFFICES ASSUME TypeOK, RunInv, GoAwayInv, [Next]_vars PROVE GoAwayInv'
    OBVIOUS
  <1>1. CASE Quiet
    <2>1. CASE UNCHANGED <<client, log>>
      BY <2>1 DEF client, GoAwayInv, GoAwayOnlyToSilent
    <2>2. CASE pc \in {"load", "dial", "action", "receive"} /\ pc' = "exited"
      <3>1. \A k \in DOMAIN log' : log'[k].kind # "closing"
        BY <1>1, <2>2, QuietSteps DEF GoAwayInv
      <3> QED
        BY <2>2, <3>1, NotClosing
    <2>3. CASE pc \in {"load", "dial", "action"} /\ pc' # "exited"
      <3>1. \A k \in DOMAIN log' : log'[k].kind # "closing"
        BY <1>1, <2>3, QuietSteps DEF GoAwayInv
      <3>2. (\E k \in DOMAIN log' : HearsGoAway(log'[k])) => sawGoAway'
        BY <1>1, <2>3, QuietSteps DEF GoAwayInv
      <3> QED
        BY <3>1, <3>2, NotClosing
    <2> QED
      BY <1>1, <2>1, <2>2, <2>3, QuietSteps
  <1>2. CASE SendPreface \/ SendFrame
    <2>1. PICK f \in Frame : log' \in {log, Append(log, Entry("sent", f))}
      BY <1>2, SendingSteps
    <2>2. /\ Entry("sent", f) \in LogEntry /\ Entry("sent", f).kind = "sent"
          /\ pc = "action" /\ sawGoAway' = sawGoAway
      BY <1>2, EntryType, SendingSteps DEF Entry
    <2>3. \A k \in DOMAIN log' : (k \in DOMAIN log /\ log'[k] = log[k]) \/ log'[k].kind = "sent"
      BY <2>1, <2>2, LogGrows
    <2>4. /\ \A k \in DOMAIN log' : log'[k].kind # "closing"
          /\ (\E k \in DOMAIN log' : HearsGoAway(log'[k])) => sawGoAway'
      BY <2>2, <2>3 DEF GoAwayInv, HearsGoAway
    <2> QED
      BY <2>4, NotClosing
  <1>3. CASE Receive
    <2>1. PICK f \in Frame : f = Head(inbox) /\ log' = Append(log, Entry("received", f))
      BY <1>3 DEF Receive, TypeOK
    <2>2. /\ Entry("received", f) \in LogEntry /\ pc = "receive"
          /\ Entry("received", f).kind = "received" /\ Entry("received", f).frame = f
      BY <1>3, EntryType DEF Receive, Entry
    <2>3. \A k \in DOMAIN log' : \/ k \in DOMAIN log /\ log'[k] = log[k]
                                 \/ log'[k] = Entry("received", f)
      BY <2>1, <2>2, LogGrows
    <2>4. \A k \in DOMAIN log' : log'[k].kind # "closing"
      BY <2>2, <2>3 DEF GoAwayInv
    <2>5. ASSUME pc' # "exited"
          PROVE  sawGoAway \/ gotGoAway \/ f.type = "GOAWAY" =>
                     sawGoAway' \/ (pc' \in {"receive", "answer"} /\ gotGoAway')
      <3>1. gotGoAway' = (gotGoAway \/ f.type = "GOAWAY")
        BY <1>3, <2>1, <2>5 DEF Receive, Exit
      <3>2. \/ Goto("answer") /\ sawGoAway' = sawGoAway
            \/ AfterFrame(f, Consume(tracker, f).event, count + 1,
                          gotGoAway \/ f.type = "GOAWAY")
        BY <1>3, <2>1, <2>5 DEF Receive, Exit
      <3> QED
        BY <3>1, <3>2 DEF AfterFrame, Saw, Goto
    <2>6. (\E k \in DOMAIN log' : HearsGoAway(log'[k])) =>
              sawGoAway \/ gotGoAway \/ f.type = "GOAWAY"
      BY <2>2, <2>3 DEF GoAwayInv, HearsGoAway
    <2> QED
      BY <2>4, <2>5, <2>6, NotClosing
  <1>4. CASE SendAnswer
    <2>1. PICK e \in LogEntry : e.kind = "answered" /\ log' \in {log, Append(log, e)}
      BY <1>4, EntryType, AnswerType DEF SendAnswer, TypeOK, Entry
    <2>2. \A k \in DOMAIN log' : \/ k \in DOMAIN log /\ log'[k] = log[k]
                                 \/ log'[k].kind = "answered"
      BY <2>1, LogGrows
    <2>3. pc = "answer" /\ \A k \in DOMAIN log' : log'[k].kind # "closing"
      BY <1>4, <2>2 DEF GoAwayInv, SendAnswer
    <2>4. (\E k \in DOMAIN log' : HearsGoAway(log'[k])) => sawGoAway \/ gotGoAway
      BY <2>2, <2>3 DEF GoAwayInv, HearsGoAway
    <2>5. pc' # "exited" /\ (sawGoAway \/ gotGoAway) =>
              sawGoAway' \/ (pc' = "receive" /\ gotGoAway')
      BY <1>4 DEF SendAnswer, AfterFrame, Saw, Goto, Exit
    <2> QED
      BY <2>3, <2>4, <2>5, NotClosing
  <1>5. CASE EndRun
    <2>1. /\ pc = "finish" /\ pc' = "exited" /\ result' = "ok" /\ sendGoAway' = sendGoAway
          /\ \A k \in DOMAIN log : log[k].kind # "closing"
      BY <1>5 DEF EndRun, Exit, GoAwayInv
    <2>2. CASE log' = log
      BY <2>1, <2>2, NotClosing
    <2>3. CASE sendGoAway /\ ~sawGoAway /\ log' = Append(log, Entry("closing", GoAwayFrame))
      <3>1. \A k \in DOMAIN log : ~HearsGoAway(log[k])
        BY <2>1, <2>3 DEF GoAwayInv
      <3>2. PICK e \in LogEntry : log' = Append(log, e)
        BY <2>3, EntryType, ConstructorTypes
      <3>3. \A k \in DOMAIN log' : k = Len(log') \/ (k \in DOMAIN log /\ log'[k] = log[k])
        BY <3>2, LogGrows
      <3>4. ASSUME NEW k \in DOMAIN log', log'[k].kind = "closing"
            PROVE  /\ k = Len(log')
                   /\ \A j \in 1..(k - 1) : ~HearsGoAway(log'[j])
        <4>1. k = Len(log')
          BY <2>1, <3>3, <3>4
        <4>2. \A j \in 1..(k - 1) : j \in DOMAIN log /\ log'[j] = log[j]
          BY <3>2, <4>1 DEF TypeOK
        <4> QED
          BY <3>1, <4>1, <4>2
      <3> QED
        BY <2>1, <2>3, <3>4 DEF GoAwayInv, GoAwayOnlyToSilent, HearsGoAway
    <2> QED
      BY <1>5, <2>2, <2>3 DEF EndRun
  <1> QED
    BY <1>1, <1>2, <1>3, <1>4, <1>5, StepKinds

\* Property GoAwayOnlyToSilent: the GOAWAY at the end of run(), after
\* executeScript has gathered what its receive actions saw.
THEOREM ScriptGoAwayCorrect == Spec => []GoAwayOnlyToSilent
  <1>1. GoAwayInv => GoAwayOnlyToSilent
    BY DEF GoAwayInv
  <1> QED
    BY <1>1, GoAwayInit, GoAwayStep, ScriptTypeCorrect, RunInit, RunStep, PTL DEF Spec

(***************************************************************************)
(* What is refused                                                         *)
(***************************************************************************)
\* Repetition does not change what validation looked at.
LEMMA ContentStays ==
    ASSUME RunInv, pc = "action"
    PROVE  /\ ActionSpecs[Action.type].required \subseteq DOMAIN Action
           /\ ContentFits(Action)
           /\ Action.type = "receive" => ValidReceive(Action)
  <1> DEFINE a == actions[index]
             b == Action
  <1>1. /\ ValidAction(a) /\ DOMAIN b = DOMAIN a
        /\ \A field \in DOMAIN a \ {"stream_id"} : b[field] = a[field]
        /\ b.type = a.type
    BY AtAction
  <1> HIDE DEF a, b
  <1>2. /\ ActionSpecs[a.type].required \subseteq DOMAIN a /\ ContentFits(a)
        /\ a.type = "receive" => ValidReceive(a)
    BY <1>1 DEF ValidAction, ValidTable
  <1>3. /\ a.type = "window_update" => "increment" \in DOMAIN a
        /\ a.type = "raw" => "flags" \in DOMAIN a
    <2>1. /\ "increment" \in ActionSpecs["window_update"].required
          /\ "flags" \in ActionSpecs["raw"].required
      BY DEF ActionSpecs, Fields
    <2> QED
      BY <1>2, <2>1
  <1>4. TextParses(b)
    BY <1>1, <1>2 DEF ContentFits, TextParses, TextFields
  <1>5. FlagsOf(b) = FlagsOf(a)
    BY <1>1 DEF FlagsOf, Has
  <1>6. PriorityFits(a) => PriorityFits(b)
    BY <1>1 DEF PriorityFits, Has
  <1>7. a.type = "ping" => PingData(b) = PingData(a)
    BY <1>1, <1>2 DEF ContentFits, PingData, Has
  <1>8. \A field : Has(b, field) <=> Has(a, field)
    BY <1>1 DEF Has
  <1>9. /\ a.type = "window_update" => b.increment = a.increment
        /\ a.type = "raw" => b.flags = a.flags
        /\ Has(a, "length") => b.length = a.length
        /\ Has(a, "until") => b.until = a.until
        /\ Has(a, "count") => b.count = a.count
    BY <1>1, <1>3 DEF Has
  <1>10. ContentFits(b)
    <2>1. /\ b.type \in {"headers", "push_promise"} => ExactlyOne(b, "headers", "block_hex")
          /\ b.type = "data" => NotBoth(b, "data", "data_hex")
          /\ b.type = "goaway" => NotBoth(b, "debug_data", "debug_hex")
      BY <1>1, <1>2 DEF ContentFits, ExactlyOne, NotBoth, Has
    <2>2. /\ b.type = "headers" /\ "PRIORITY" \in FlagsOf(b) => PriorityFits(b)
          /\ b.type = "priority" => PriorityFits(b)
      BY <1>1, <1>2, <1>5, <1>6 DEF ContentFits
    <2>3. b.type = "ping" => Has(b, "data") # Has(b, "data_hex") /\ Len(PingData(b)) = PingSize
      BY <1>1, <1>2, <1>7 DEF ContentFits, Has
    <2>4. /\ b.type = "window_update" => Fits32(b.increment)
          /\ b.type = "raw" => Fits8(b.flags) /\ (Has(b, "length") => Fits32(b.length))
      BY <1>1, <1>2, <1>8, <1>9 DEF ContentFits
    <2> QED
      BY <1>4, <2>1, <2>2, <2>3, <2>4 DEF ContentFits
  <1>11. ValidReceive(a) => ValidReceive(b)
    BY <1>8, <1>9 DEF ValidReceive, NotBoth
  <1> QED
    BY <1>1, <1>2, <1>10, <1>11 DEF b

LEMMA RefuseStep ==
    TypeOK /\ RunInv /\ EndInv /\ RefusesOnlyRanges /\ [Next]_vars => RefusesOnlyRanges'
  <1> SUFFICES ASSUME TypeOK, RunInv, EndInv, RefusesOnlyRanges, [Next]_vars, result' = "refused"
               PROVE  BeyondValidation(Meant(index, iteration))'
    BY DEF RefusesOnlyRanges
  <1>1. CASE RefuseAction
    <2>1. pc = "action" /\ UNCHANGED <<actions, index, iteration>>
      BY <1>1 DEF RefuseAction
    <2>2. Meant(index, iteration)' = Action
      BY <2>1, ActionIsMeant DEF Meant
    <2>3. PICK b : b = Action
      OBVIOUS
    <2>4. \/ b.type \in DOMAIN FrameType /\ NotMarshalled(b)
          \/ b.type = "receive" /\ ~Receivable(b)
      BY <1>1, <2>1, <2>3, AtAction DEF RefuseAction, IsFrame
    <2>5. /\ ActionSpecs[b.type].required \subseteq DOMAIN b
          /\ ContentFits(b)
          /\ b.type = "receive" => ValidReceive(b)
      BY <2>1, <2>3, ContentStays
    <2>6. ASSUME b.type \in DOMAIN FrameType /\ NotMarshalled(b) PROVE BeyondValidation(b)
      <3>1. Sends(b)
        BY <2>6 DEF Sends, FrameType
      <3>2. RangesFit(b) => Builds(b)
        BY <2>5 DEF Builds
      <3>3. Builds(b) => \E length \in Lengths(b) : ~(length <= MaxUint24)
        BY <2>6 DEF NotMarshalled, Marshals
      <3> QED
        BY <3>1, <3>2, <3>3 DEF BeyondValidation
    <2>7. ASSUME b.type = "receive" /\ ~Receivable(b) PROVE BeyondValidation(b)
      BY <2>5, <2>7 DEF BeyondValidation, Receivable
    <2>8. BeyondValidation(b)
      BY <2>4, <2>6, <2>7
    <2> QED
      BY <2>2, <2>3, <2>8
  <1>2. CASE ~RefuseAction
    <2>1. Advance => result' = result
      BY DEF Advance, Goto
    <2>2. UNCHANGED client
      <3>1. CASE Quiet
        BY <1>2, <2>1, <3>1, QuietSteps DEF EndInv
      <3>2. CASE SendPreface \/ SendFrame
        BY <2>1, <3>2, SendingSteps DEF EndInv
      <3>3. CASE Receive \/ SendAnswer
        BY <2>1, <3>3 DEF EndInv, Receive, SendAnswer, AfterFrame, Goto, Exit
      <3>4. CASE EndRun
        BY <3>4 DEF EndRun, Exit
      <3> QED
        BY <3>1, <3>2, <3>3, <3>4, StepKinds
    <2>3. Meant(index, iteration)' = Meant(index, iteration)
      BY <2>2 DEF Meant, client
    <2>4. BeyondValidation(Meant(index, iteration))
      BY <2>2 DEF RefusesOnlyRanges, client
    <2> QED
      BY <2>3, <2>4
  <1> QED
    BY <1>1, <1>2

\* Property RefusesOnlyRanges: what validateScript lets through, the execution
\* refuses only for a number that validation does not look at: the range of a
\* field, or the length of a frame (buildScriptFrame, MarshalBinary,
\* executeReceiveAction).
THEOREM ScriptRefusalsCorrect == Spec => []RefusesOnlyRanges
  <1>1. Init => RefusesOnlyRanges
    BY DEF Init, RefusesOnlyRanges
  <1> QED
    BY <1>1, RefuseStep, EndInit, EndStep, ScriptTypeCorrect, RunInit, RunStep, PTL DEF Spec

(***************************************************************************)
(* What is past                                                            *)
(***************************************************************************)
\* The end of an iteration puts it, and no other of the script, in the past.
LEMMA AdvancePast ==
    ASSUME TypeOK, RunInv, pc \in {"action", "receive", "answer"}, Advance,
           NEW i \in DOMAIN actions, NEW n \in 0..(Count(actions[i]) - 1), Past(i, n)'
    PROVE  Past(i, n) \/ (i = index /\ n = iteration)
  <1>1. /\ index \in 1..Len(actions) /\ iteration \in Nat /\ DOMAIN actions = 1..Len(actions)
        /\ Len(actions) \in Nat /\ ValidScript(actions) /\ actions \in Scripts
    BY ScriptsAssumption DEF RunInv, AtIteration
  <1>2. Count(actions[index]) \in Int /\ Count(actions[i]) \in Int
    BY <1>1, Numbers
  <1>3. n \in Int /\ n >= 0 /\ n < Count(actions[i]) /\ i \in Int
    BY <1>1, <1>2
  <1>4. CASE LastIteration
    <2>1. index' = index + 1 /\ iteration' = 0 /\ iteration + 1 >= Count(actions[index])
      BY <1>4 DEF Advance, LastIteration
    <2>2. i < index \/ i = index
      BY <1>1, <1>3, <2>1 DEF Past, Earlier
    <2>3. CASE i = index
      <3>1. n < Count(actions[index])
        BY <1>3, <2>3
      <3> QED
        BY <1>1, <1>2, <1>3, <2>1, <2>3, <3>1 DEF Past, Earlier
    <2> QED
      BY <1>1, <1>3, <2>2, <2>3 DEF Past, Earlier
  <1>5. CASE ~LastIteration
    BY <1>1, <1>3, <1>5 DEF Advance, Past, Earlier
  <1> QED
    BY <1>4, <1>5

\* What is past stays past, and so is what was at hand.
LEMMA AdvanceLeaves ==
    ASSUME TypeOK, Advance, NEW i \in Nat, NEW n \in Nat,
           Past(i, n) \/ (i = index /\ n = iteration)
    PROVE  Past(i, n)'
  BY DEF TypeOK, Advance, Past, Earlier

(***************************************************************************)
(* What is sent                                                            *)
(***************************************************************************)
\* An entry that was sent is the next of the script.
SentNext(k) ==
    LET j == log[k].index
        m == log[k].iteration
    IN  log[k].kind = "sent" =>
           /\ j \in DOMAIN actions /\ m \in Sending(j)
           /\ log[k].frame = FrameOf(Meant(j, m))
           /\ \A i \in DOMAIN actions : \A n \in Sending(i) :
                 SentBy(i, n, k - 1) <=> Earlier(i, n, j, m)

\* While a run goes on, what was sent is what is past.
SendInv ==
    /\ SendsTheScript
    /\ pc = "load" => log = <<>>
    /\ pc = "finish" => index = Len(actions) + 1
    /\ pc \in {"receive", "answer"} => Action.type = "receive"
    /\ ValidScript(actions) /\ pc # "exited" =>
          \A i \in DOMAIN actions : \A n \in Sending(i) : SentBy(i, n, Len(log)) <=> Past(i, n)

\* Sending is of numbers.
LEMMA SendingNumbers ==
    ASSUME RunInv, ValidScript(actions), NEW i \in DOMAIN actions, NEW n \in Sending(i)
    PROVE  /\ i \in Nat \ {0} /\ n \in Nat /\ n \in 0..(Count(actions[i]) - 1)
           /\ i \in 1..Len(actions) /\ Len(actions) \in Nat
  <1>1. actions \in Scripts
    BY DEF RunInv
  <1>2. DOMAIN actions = 1..Len(actions) /\ Len(actions) \in Nat
    BY <1>1, ScriptsAssumption
  <1>3. Count(actions[i]) \in Int
    BY <1>1, <1>2, Numbers
  <1> QED
    BY <1>2, <1>3 DEF Sending

\* What was sent by an entry does not change.
LEMMA SentByKept ==
    ASSUME TypeOK, log' = log \/ \E e \in LogEntry : log' = Append(log, e),
           NEW i, NEW n, NEW k \in 0..Len(log)
    PROVE  SentBy(i, n, k)' <=> SentBy(i, n, k)
  <1>1. ASSUME NEW j \in 1..k PROVE log'[j] = log[j]
    <2>1. j \in DOMAIN log
      BY DEF TypeOK
    <2> QED
      BY <2>1, LogGrows
  <1> QED
    BY <1>1 DEF SentBy

LEMMA SentNextKept ==
    ASSUME TypeOK, actions' = actions, log' = log \/ \E e \in LogEntry : log' = Append(log, e),
           NEW k \in DOMAIN log, SentNext(k)
    PROVE  SentNext(k)'
  <1>1. log'[k] = log[k] /\ k - 1 \in 0..Len(log)
    BY DEF TypeOK
  <1>2. \A i, n : SentBy(i, n, k - 1)' <=> SentBy(i, n, k - 1)
    BY <1>1, SentByKept
  <1>3. \A i : Sending(i)' = Sending(i)
    BY DEF Sending
  <1>4. \A i, n : Meant(i, n)' = Meant(i, n)
    BY DEF Meant
  <1> QED
    BY <1>1, <1>2, <1>3, <1>4 DEF SentNext

\* The frame of an iteration is the one that the script means.
LEMMA SendsItsFrame ==
    ASSUME TypeOK, RunInv, SendPreface \/ SendFrame
    PROVE  LET f == FrameOf(Meant(index, iteration)) IN
           /\ Entry("sent", f) \in LogEntry /\ pc = "action" /\ actions' = actions
           /\ index \in DOMAIN actions /\ iteration \in Sending(index)
           /\ \/ Advance /\ log' = Append(log, Entry("sent", f))
              \/ /\ pc' = "exited" /\ result' = "io"
                 /\ log' \in {log, Append(log, Entry("sent", f))}
  <1> DEFINE f == FrameOf(Meant(index, iteration))
  <1>1. pc = "action" /\ actions' = actions /\ Action = Meant(index, iteration)
    BY ActionIsMeant DEF SendPreface, SendFrame
  <1>2. index \in DOMAIN actions /\ Action.type = actions[index].type /\ ValidScript(actions)
    BY <1>1, AtAction DEF RunInv
  <1>3. Sends(actions[index]) => iteration \in Sending(index)
    <2>1. Count(actions[index]) \in Int /\ iteration \in Nat /\ iteration < Count(actions[index])
      BY <1>1, <1>2, Numbers DEF RunInv, AtIteration
    <2> QED
      BY <2>1 DEF Sending
  <1>4. CASE SendPreface
    <2>1. Action.type = "preface" /\ f = ConnectionPreface
      BY <1>1, <1>4 DEF SendPreface, FrameOf
    <2>2. SendAndReport(f) /\ f \in Frame
      BY <1>4, <2>1, ConstructorTypes DEF SendPreface
    <2>3. Entry("sent", f) \in LogEntry
      BY <2>2, EntryType
    <2> HIDE DEF f
    <2> QED
      BY <1>1, <1>2, <1>3, <2>1, <2>2, <2>3 DEF SendAndReport, Exit, Sends, f
  <1>5. CASE SendFrame
    <2>1. Action.type \notin {"preface", "sleep", "receive"} /\ f = BuildFrame(Action)
      <3>1. Action.type \in DOMAIN FrameType
        BY <1>5 DEF SendFrame, IsFrame
      <3> QED
        BY <1>1, <3>1 DEF FrameType, FrameOf
    <2>2. SendAndReport(f) /\ f \in Frame
      BY <1>5, <2>1, BuildType DEF SendFrame, Marshalled
    <2>3. Entry("sent", f) \in LogEntry
      BY <2>2, EntryType
    <2> HIDE DEF f
    <2> QED
      BY <1>1, <1>2, <1>3, <2>1, <2>2, <2>3 DEF SendAndReport, Exit, Sends, f
  <1> QED
    BY <1>4, <1>5

\* A step that sends nothing of the script.
LEMMA NothingSent ==
    ASSUME TypeOK, SendInv, actions' = actions, pc # "load" \/ log' = <<>>,
           log' = log \/ \E e \in LogEntry : e.kind # "sent" /\ log' = Append(log, e)
    PROVE  /\ ValidScript(actions) => \A k \in DOMAIN log' : SentNext(k)'
           /\ \A i, n : SentBy(i, n, Len(log))' <=> SentBy(i, n, Len(log))
  <1>1. CASE log' = log
    <2>1. \A i, n : SentBy(i, n, Len(log))' <=> SentBy(i, n, Len(log))
      BY <1>1 DEF SentBy
    <2>2. ASSUME ValidScript(actions), NEW k \in DOMAIN log PROVE SentNext(k)'
      BY <1>1, <2>2, SentNextKept DEF SendInv, SendsTheScript, SentNext
    <2> QED
      BY <1>1, <2>1, <2>2
  <1>2. ASSUME NEW e \in LogEntry, e.kind # "sent", log' = Append(log, e), pc # "load"
        PROVE  /\ ValidScript(actions) => \A k \in DOMAIN log' : SentNext(k)'
               /\ \A i, n : SentBy(i, n, Len(log))' <=> SentBy(i, n, Len(log))
    <2>1. /\ Len(log) \in Nat /\ Len(log') = Len(log) + 1 /\ log'[Len(log) + 1] = e
          /\ \A k \in DOMAIN log' : k \in DOMAIN log \/ k = Len(log) + 1
      BY <1>2, LogGrows
    <2>2. ASSUME NEW i, NEW n PROVE SentBy(i, n, Len(log))' <=> SentBy(i, n, Len(log))
      <3>1. SentBy(i, n, Len(log))' <=> \E j \in 1..(Len(log) + 1) :
               log'[j].kind = "sent" /\ log'[j].index = i /\ log'[j].iteration = n
        BY <2>1 DEF SentBy
      <3>2. \A j \in 1..Len(log) : log'[j] = log[j]
        BY <1>2 DEF TypeOK
      <3>3. \A j \in 1..(Len(log) + 1) : j \in 1..Len(log) \/ j = Len(log) + 1
        BY <2>1
      <3>4. \A j \in 1..Len(log) : j \in 1..(Len(log) + 1)
        BY <2>1
      <3> QED
        BY <1>2, <2>1, <3>1, <3>2, <3>3, <3>4 DEF SentBy
    <2>3. ASSUME ValidScript(actions), NEW k \in DOMAIN log PROVE SentNext(k)'
      BY <1>2, <2>3, SentNextKept DEF SendInv, SendsTheScript, SentNext
    <2>4. ASSUME NEW k \in DOMAIN log', k = Len(log) + 1 PROVE SentNext(k)'
      BY <1>2, <2>1, <2>4 DEF SentNext
    <2> QED
      BY <2>1, <2>2, <2>3, <2>4
  <1> QED
    BY <1>1, <1>2

\* Between the frames of a script, the past grows by what sends nothing.
LEMMA UnsentKeeps ==
    ASSUME TypeOK, RunInv, SendInv, actions' = actions,
           pc # "load" \/ log' = <<>>, pc' = "load" => pc = "load",
           log' = log \/ \E e \in LogEntry : e.kind # "sent" /\ log' = Append(log, e),
           result' = "ok" => pc = "finish" \/ (pc # "load" /\ result = "ok"),
           \/ pc' = "exited"
           \/ /\ Stay /\ pc # "exited"
              /\ pc' = "finish" => pc = "finish"
              /\ pc' \in {"receive", "answer"} => Action.type = "receive"
           \/ /\ Advance /\ pc \in {"action", "receive", "answer"}
              /\ ~Sends(actions[index])
    PROVE  SendInv'
  <1>1. /\ ValidScript(actions) => \A k \in DOMAIN log' : SentNext(k)'
        /\ \A i, n : SentBy(i, n, Len(log))' <=> SentBy(i, n, Len(log))
    BY NothingSent
  <1>2. /\ \A i : Sending(i)' = Sending(i)
        /\ ValidScript(actions)' <=> ValidScript(actions)
    BY DEF Sending
  <1>3. ASSUME ValidScript(actions), result' = "ok",
               NEW i \in DOMAIN actions, NEW n \in Sending(i)
        PROVE  SentBy(i, n, Len(log))'
    <2>1. CASE pc = "finish"
      <3>1. i < index
        BY <1>3, <2>1, SendingNumbers DEF SendInv
      <3> QED
        BY <1>1, <1>3, <2>1, <3>1 DEF SendInv, Past, Earlier
    <2>2. CASE pc # "load" /\ result = "ok"
      BY <1>1, <1>3, <2>2 DEF SendInv, SendsTheScript
    <2> QED
      BY <1>3, <2>1, <2>2
  <1>4. SendsTheScript'
    BY <1>1, <1>2, <1>3 DEF SendsTheScript, SentNext
  <1>5. ASSUME ValidScript(actions), pc' # "exited",
               NEW i \in DOMAIN actions, NEW n \in Sending(i)
        PROVE  Past(i, n)' <=> Past(i, n)
    <2>1. CASE Stay
      BY <2>1 DEF Stay, Past, Earlier
    <2>2. CASE /\ Advance /\ pc \in {"action", "receive", "answer"}
               /\ ~Sends(actions[index])
      <3>1. i # index
        BY <1>5, <2>2 DEF Sending
      <3>2. i \in Nat /\ n \in Nat /\ n \in 0..(Count(actions[i]) - 1)
        BY <1>5, SendingNumbers
      <3> QED
        BY <2>2, <3>1, <3>2, AdvancePast, AdvanceLeaves
    <2> QED
      BY <1>5, <2>1, <2>2
  <1>6. pc' # "exited" => pc # "exited"
    OBVIOUS
  <1>7. ASSUME ValidScript(actions), pc' # "exited",
               NEW i \in DOMAIN actions, NEW n \in Sending(i)
        PROVE  SentBy(i, n, Len(log))' <=> Past(i, n)'
    BY <1>1, <1>5, <1>6, <1>7 DEF SendInv
  <1>8. pc' = "finish" => index' = Len(actions) + 1
    BY DEF SendInv, Stay, Advance, Goto, LastIteration
  <1>9. pc' \in {"receive", "answer"} => Action'.type = "receive"
    <2>1. Stay => Action' = Action
      BY DEF Stay, Action
    <2> QED
      BY <2>1 DEF Advance, Goto
  <1> QED
    BY <1>2, <1>4, <1>7, <1>8, <1>9 DEF SendInv

\* A frame of the script adds the iteration that sent it to what is sent.
LEMMA SendingKeeps ==
    ASSUME TypeOK, RunInv, EndInv, SendInv, SendPreface \/ SendFrame
    PROVE  SendInv'
  <1>1. PICK f : f = FrameOf(Meant(index, iteration))
    OBVIOUS
  <1>2. PICK e \in LogEntry : e = Entry("sent", f)
    BY <1>1, SendsItsFrame
  <1>3. /\ pc = "action" /\ actions' = actions /\ result = "running"
        /\ index \in DOMAIN actions /\ iteration \in Sending(index)
        /\ \/ Advance /\ log' = Append(log, e)
           \/ pc' = "exited" /\ result' = "io" /\ (log' = log \/ log' = Append(log, e))
    BY <1>1, <1>2, SendsItsFrame DEF EndInv
  <1>4. ValidScript(actions) /\ (ValidScript(actions)' <=> ValidScript(actions))
    BY <1>3 DEF RunInv
  <1>5. CASE log' = log /\ pc' = "exited"
    BY <1>3, <1>5, UnsentKeeps DEF Advance, Goto
  <1>6. CASE log' = Append(log, e)
    <2>1. /\ Len(log) \in Nat /\ Len(log') = Len(log) + 1 /\ log'[Len(log) + 1] = e
          /\ \A k \in DOMAIN log' : k \in DOMAIN log \/ k = Len(log) + 1
          /\ \A k \in DOMAIN log : log'[k] = log[k]
          /\ DOMAIN log = 1..Len(log)
      BY <1>6, LogGrows
    <2>2. /\ e.kind = "sent" /\ e.index = index /\ e.iteration = iteration /\ e.frame = f
      BY <1>2 DEF Entry
    <2>3. /\ \A i : Sending(i)' = Sending(i)
          /\ \A i, n : Meant(i, n)' = Meant(i, n)
      BY <1>3 DEF Sending, Meant
    <2>4. \A i \in DOMAIN actions : \A n \in Sending(i) : SentBy(i, n, Len(log)) <=> Past(i, n)
      BY <1>3, <1>4 DEF SendInv
    <2>5. ASSUME NEW k \in DOMAIN log PROVE SentNext(k)'
      <3>1. SentNext(k)
        BY <1>3, <1>4 DEF SendInv, SendsTheScript, SentNext
      <3> QED
        BY <1>3, <1>6, <3>1, SentNextKept
    <2>6. ASSUME NEW k \in DOMAIN log', k = Len(log) + 1 PROVE SentNext(k)'
      <3>1. /\ log'[k] = e /\ k - 1 = Len(log) /\ k - 1 \in 0..Len(log)
        BY <2>1, <2>6
      <3>2. \A i, n : SentBy(i, n, k - 1)' <=> SentBy(i, n, Len(log))
        BY <1>6, <3>1, SentByKept
      <3>3. PICK j, m : j = index /\ m = iteration
        OBVIOUS
      <3>4. \A i \in DOMAIN actions : \A n \in Sending(i) :
               SentBy(i, n, k - 1)' <=> Earlier(i, n, j, m)
        BY <2>4, <3>2, <3>3 DEF Past
      <3>5. log'[k].frame = FrameOf(Meant(j, m)')
        BY <1>1, <2>2, <2>3, <3>1, <3>3
      <3> QED
        BY <1>3, <2>2, <2>3, <3>1, <3>3, <3>4, <3>5 DEF SentNext
    <2>7. result' # "ok"
      BY <1>3 DEF Advance, Goto
    <2>8. SendsTheScript'
      BY <2>1, <2>5, <2>6, <2>7 DEF SendsTheScript, SentNext
    <2>9. ASSUME Advance, NEW i \in DOMAIN actions, NEW n \in Sending(i)
          PROVE  SentBy(i, n, Len(log))' <=> Past(i, n)'
      <3>1. SentBy(i, n, Len(log))' <=> SentBy(i, n, Len(log)) \/ (i = index /\ n = iteration)
        <4>1. SentBy(i, n, Len(log))' <=> \E j \in 1..(Len(log) + 1) :
                 log'[j].kind = "sent" /\ log'[j].index = i /\ log'[j].iteration = n
          BY <2>1 DEF SentBy
        <4>2. /\ \A j \in 1..(Len(log) + 1) : j \in 1..Len(log) \/ j = Len(log) + 1
              /\ \A j \in 1..Len(log) : j \in 1..(Len(log) + 1) /\ log'[j] = log[j]
              /\ Len(log) + 1 \in 1..(Len(log) + 1)
          BY <2>1
        <4> QED
          BY <2>1, <2>2, <4>1, <4>2 DEF SentBy
      <3>2. i \in Nat /\ n \in Nat /\ n \in 0..(Count(actions[i]) - 1)
        BY <1>4, SendingNumbers
      <3>3. Past(i, n)' <=> Past(i, n) \/ (i = index /\ n = iteration)
        BY <1>3, <2>9, <3>2, AdvancePast, AdvanceLeaves
      <3> QED
        BY <2>4, <3>1, <3>3
    <2>10. pc' # "exited" => Advance
      BY <1>3
    <2>11. /\ pc' = "finish" => index' = Len(actions) + 1
           /\ pc' \notin {"load", "receive", "answer"}
      BY <1>3 DEF Advance, Goto, LastIteration
    <2> QED
      BY <1>3, <2>3, <2>8, <2>9, <2>10, <2>11 DEF SendInv
  <1> QED
    BY <1>3, <1>5, <1>6

LEMMA SendInit == Init => SendInv
  <1> SUFFICES ASSUME Init PROVE SendInv
    OBVIOUS
  <1>1. log = <<>> /\ pc = "load" /\ index = 1 /\ iteration = 0
    BY DEF Init
  <1>2. RunInv
    BY RunInit
  <1>3. ASSUME ValidScript(actions), NEW i \in DOMAIN actions, NEW n \in Sending(i)
        PROVE  ~Past(i, n) /\ ~SentBy(i, n, Len(log))
    <2>1. i \in Nat \ {0} /\ n \in Nat
      BY <1>2, <1>3, SendingNumbers
    <2> QED
      BY <1>1, <2>1 DEF Past, Earlier, SentBy
  <1> QED
    BY <1>1, <1>3 DEF SendInv, SendsTheScript

LEMMA SendStep == TypeOK /\ RunInv /\ EndInv /\ SendInv /\ [Next]_vars => SendInv'
  <1> SUFFICES ASSUME TypeOK, RunInv, EndInv, SendInv, [Next]_vars PROVE SendInv'
    OBVIOUS
  <1>1. CASE Quiet
    <2>1. log' = log /\ actions' = actions /\ (pc # "load" \/ log' = <<>>)
      BY <1>1, QuietSteps DEF SendInv
    <2>2. result = "ok" => pc = "exited"
      BY DEF EndInv
    <2>3. CASE UNCHANGED client
      <3>1. UNCHANGED <<pc, index, iteration, result>>
        BY <2>3 DEF client
      <3>2. \A i, n : /\ Past(i, n)' <=> Past(i, n)
                      /\ SentBy(i, n, Len(log))' <=> SentBy(i, n, Len(log))
        BY <2>1, <3>1 DEF Past, Earlier, SentBy
      <3>3. \A i : Sending(i)' = Sending(i)
        BY <2>1 DEF Sending
      <3>4. /\ ValidScript(actions) => \A k \in DOMAIN log' : SentNext(k)'
        BY <2>1, NothingSent
      <3>5. SendsTheScript'
        BY <2>1, <3>1, <3>2, <3>3, <3>4 DEF SendInv, SendsTheScript, SentNext
      <3>6. Action' = Action
        BY <2>1, <3>1 DEF Action
      <3> QED
        BY <2>1, <3>1, <3>2, <3>3, <3>5, <3>6 DEF SendInv
    <2>4. CASE pc \in {"load", "dial"} /\ pc' \in {"dial", "action"} /\ result' = result /\ Stay
      BY <2>1, <2>2, <2>4, UnsentKeeps
    <2>5. CASE pc = "action" /\ Action.type = "sleep" /\ Advance
      <3>1. ~Sends(actions[index])
        BY <2>5, AtAction DEF Sends
      <3>2. pc' \in {"action", "finish"} /\ result' = result
        BY <2>5 DEF Advance, Goto
      <3> QED
        BY <2>1, <2>2, <2>5, <3>1, <3>2, UnsentKeeps
    <2>6. CASE /\ pc = "action" /\ Action.type = "receive"
               /\ pc' = "receive" /\ result' = result /\ Stay
      BY <2>1, <2>2, <2>6, UnsentKeeps
    <2>7. CASE pc' = "exited" /\ result' # "ok"
      BY <2>1, <2>7, UnsentKeeps
    <2> QED
      BY <1>1, <2>3, <2>4, <2>5, <2>6, <2>7, QuietSteps
  <1>2. CASE SendPreface \/ SendFrame
    BY <1>2, SendingKeeps
  <1>3. CASE Receive \/ SendAnswer
    <2>1. /\ pc \in {"receive", "answer"} /\ actions' = actions /\ result = "running"
          /\ Action.type = "receive" /\ ~Sends(actions[index])
      BY <1>3, AtAction DEF Receive, SendAnswer, SendInv, EndInv, Sends
    <2>2. \E e \in LogEntry : e.kind # "sent" /\ (log' = log \/ log' = Append(log, e))
      <3>1. CASE Receive
        <4>1. PICK f \in Frame : log' = Append(log, Entry("received", f))
          BY <3>1 DEF Receive, TypeOK
        <4> QED
          BY <4>1, EntryType DEF Entry
      <3>2. CASE SendAnswer
        <4>1. log' = log \/ log' = Append(log, Entry("answered", Answer(held)))
          BY <3>2 DEF SendAnswer
        <4>2. Answer(held) \in Frame
          BY AnswerType DEF TypeOK
        <4> QED
          BY <4>1, <4>2, EntryType DEF Entry
      <3> QED
        BY <1>3, <3>1, <3>2
    <2>3. \/ Advance /\ pc' \in {"action", "finish"} /\ result' = result
          \/ Stay /\ pc' \in {"receive", "answer"} /\ result' = result
          \/ pc' = "exited" /\ result' = "io"
      BY <1>3 DEF Receive, SendAnswer, AfterFrame, Exit, Goto, Advance
    <2> QED
      BY <2>1, <2>2, <2>3, UnsentKeeps
  <1>4. CASE EndRun
    <2>1. /\ pc = "finish" /\ pc' = "exited" /\ actions' = actions
          /\ log' \in {log, Append(log, Entry("closing", GoAwayFrame))}
      BY <1>4 DEF EndRun, Exit
    <2>2. /\ Entry("closing", GoAwayFrame) \in LogEntry
          /\ Entry("closing", GoAwayFrame).kind # "sent"
      BY EntryType, ConstructorTypes DEF Entry
    <2> QED
      BY <2>1, <2>2, UnsentKeeps
  <1> QED
    BY <1>1, <1>2, <1>3, <1>4, StepKinds

\* Property SendsTheScript: executeScript sends the frame that
\* actionForRepeatIteration and buildScriptFrame make of each iteration, once
\* and in order, and returns without an error only after the last.
THEOREM ScriptSendsCorrect == Spec => []SendsTheScript
  <1>1. SendInv => SendsTheScript
    BY DEF SendInv
  <1> QED
    BY <1>1, SendInit, SendStep, EndInit, EndStep, ScriptTypeCorrect, RunInit, RunStep, PTL DEF Spec

(***************************************************************************)
(* What was received, as the tracker sees it                               *)
(***************************************************************************)
Heard ==
    [k \in DOMAIN log |-> IF log[k].kind = "received" THEN log[k].frame ELSE ConnectionPreface]

\* An entry adds its frame, or one that belongs to no block.
LEMMA HeardGrows ==
    ASSUME TypeOK, NEW e \in LogEntry, log' = Append(log, e)
    PROVE  /\ Heard \in Seq(Frame) /\ Len(Heard) = Len(log)
           /\ Heard' = Append(Heard, IF e.kind = "received" THEN e.frame ELSE ConnectionPreface)
  <1> DEFINE f == IF e.kind = "received" THEN e.frame ELSE ConnectionPreface
  <1>1. ASSUME NEW k \in DOMAIN log PROVE Heard[k] \in Frame
    <2>1. log[k] \in LogEntry
      BY DEF TypeOK
    <2>2. log[k].frame \in Frame
      BY <2>1 DEF LogEntry
    <2> QED
      BY <2>2, ConstructorTypes DEF Heard
  <1>2. /\ DOMAIN log = 1..Len(log) /\ Len(log) \in Nat
        /\ DOMAIN Heard = DOMAIN log
    BY DEF TypeOK, Heard
  <1>3. Heard \in Seq(Frame) /\ Len(Heard) = Len(log)
    BY <1>1, <1>2 DEF Heard
  <1>4. f \in Frame
    BY ConstructorTypes DEF LogEntry
  <1>5. /\ DOMAIN log' = 1..(Len(log) + 1)
        /\ log'[Len(log) + 1] = e
        /\ \A k \in DOMAIN log : log'[k] = log[k]
    BY LogGrows
  <1>6. Heard' = [k \in DOMAIN log' |-> IF log'[k].kind = "received" THEN log'[k].frame
                                        ELSE ConnectionPreface]
    BY DEF Heard
  <1> HIDE DEF f
  <1>7. Heard' = [k \in 1..(Len(log) + 1) |-> IF k = Len(log) + 1 THEN f ELSE Heard[k]]
    <2>1. ASSUME NEW k \in 1..(Len(log) + 1)
          PROVE  (IF log'[k].kind = "received" THEN log'[k].frame ELSE ConnectionPreface)
                     = IF k = Len(log) + 1 THEN f ELSE Heard[k]
      <3>1. k = Len(log) + 1 \/ k \in DOMAIN log
        BY <1>2, <2>1
      <3> QED
        BY <1>2, <1>5, <3>1 DEF Heard, f
    <2> QED
      BY <1>5, <1>6, <2>1
  <1>8. Append(Heard, f) = [k \in 1..(Len(log) + 1) |-> IF k = Len(log) + 1 THEN f ELSE Heard[k]]
    BY <1>3, <1>4, AppendIs
  <1> QED
    BY <1>3, <1>7, <1>8 DEF f

\* EndsBlock in the terms of HeaderBlockProofs, now and next.
BlockEnds(h, stream, k) ==
    \E j \in 1..k : /\ WholeBlock(h, j, k) /\ h[j].stream = stream
                    /\ StartsEnd(h[j])

LEMMA EndsBlockIs ==
    ASSUME NEW k \in DOMAIN log', NEW stream, Len(log') \in Nat, DOMAIN log' = 1..Len(log')
    PROVE  EndsBlock(stream, k)' <=> BlockEnds(Heard', stream, k)
  <1>1. \A i \in 1..k : /\ i \in DOMAIN log'
                        /\ IsHeaderFrame(i)' <=> IsPart(Heard'[i])
                        /\ IsHeaderFrame(i)' => Heard'[i] = log'[i].frame
    <2>1. \A i \in 1..k : i \in DOMAIN log'
      OBVIOUS
    <2>2. \A i \in DOMAIN log' :
             Heard'[i] = IF log'[i].kind = "received" THEN log'[i].frame ELSE ConnectionPreface
      BY DEF Heard
    <2> QED
      BY <2>1, <2>2 DEF IsHeaderFrame, IsPart, Starts, ConnectionPreface
  <1>2. ASSUME NEW j \in 1..k, IsHeaderFrame(j)', IsHeaderFrame(k)',
               log'[j].frame.type = "HEADERS", "END_STREAM" \in log'[j].frame.flags,
               \A i \in j..k : IsHeaderFrame(i)' =>
                  /\ "END_HEADERS" \in log'[i].frame.flags <=> i = k
                  /\ log'[i].frame.stream = stream
                  /\ log'[i].frame.type = "CONTINUATION" <=> i # j
        PROVE  WholeBlock(Heard', j, k) /\ Heard'[j].stream = stream /\ StartsEnd(Heard'[j])
    <2>1. \A i \in j..k : i \in 1..k
      OBVIOUS
    <2>2. j \in j..k /\ k \in 1..k
      BY <1>1
    <2> QED
      BY <1>1, <1>2, <2>1, <2>2 DEF WholeBlock, IsPart, Starts, Closes, Follows, StartsEnd
  <1>3. ASSUME NEW j \in 1..k, WholeBlock(Heard', j, k), Heard'[j].stream = stream,
               StartsEnd(Heard'[j])
        PROVE  /\ IsHeaderFrame(j)' /\ IsHeaderFrame(k)'
               /\ log'[j].frame.type = "HEADERS" /\ "END_STREAM" \in log'[j].frame.flags
               /\ \A i \in j..k : IsHeaderFrame(i)' =>
                     /\ "END_HEADERS" \in log'[i].frame.flags <=> i = k
                     /\ log'[i].frame.stream = stream
                     /\ log'[i].frame.type = "CONTINUATION" <=> i # j
    <2>1. \A i \in j..k : i \in 1..k
      OBVIOUS
    <2>2. k \in 1..k
      BY <1>1
    <2> QED
      BY <1>1, <1>3, <2>1, <2>2 DEF WholeBlock, IsPart, Starts, Closes, Follows, StartsEnd
  <1> QED
    BY <1>2, <1>3 DEF EndsBlock, BlockEnds, Flag

(***************************************************************************)
(* What was enough stays enough                                            *)
(***************************************************************************)
\* What `until` names does not depend on what comes after,
LEMMA NamesStays ==
    ASSUME TypeOK, log' = log \/ \E e \in LogEntry : log' = Append(log, e),
           NEW a, NEW j \in DOMAIN log
    PROVE  Names(a, j)' <=> Names(a, j)
  <1>1. /\ \A m \in DOMAIN log : log'[m] = log[m]
        /\ DOMAIN log = 1..Len(log) /\ Len(log) \in Nat
    BY LogGrows DEF TypeOK
  <1>2. ASSUME NEW stream
        PROVE  EndsBlock(stream, j)' <=> EndsBlock(stream, j)
    <2>1. \A m \in 1..j : /\ log'[m] = log[m]
                           /\ IsHeaderFrame(m)' <=> IsHeaderFrame(m)
      BY <1>1 DEF IsHeaderFrame
    <2>2. \A m \in 1..j : \A l \in m..j : l \in 1..j
      OBVIOUS
    <2>3. j \in 1..j
      BY <1>1
    <2>4. ASSUME NEW b \in 1..j
          PROVE  (\A m \in b..j : IsHeaderFrame(m) =>
                     /\ Flag(m, "END_HEADERS") <=> m = j
                     /\ log[m].frame.stream = stream
                     /\ log[m].frame.type = "CONTINUATION" <=> m # b)'
                 <=> (\A m \in b..j : IsHeaderFrame(m) =>
                        /\ Flag(m, "END_HEADERS") <=> m = j
                        /\ log[m].frame.stream = stream
                        /\ log[m].frame.type = "CONTINUATION" <=> m # b)
      BY <2>1, <2>2 DEF Flag
    <2>5. ASSUME NEW b \in 1..j
          PROVE  /\ IsHeaderFrame(b)' <=> IsHeaderFrame(b)
                 /\ IsHeaderFrame(j)' <=> IsHeaderFrame(j)
                 /\ Flag(b, "END_STREAM")' <=> Flag(b, "END_STREAM")
                 /\ log'[b] = log[b]
      BY <2>1, <2>3 DEF Flag
    <2> QED
      BY <2>4, <2>5 DEF EndsBlock
  <1> QED
    BY <1>1, <1>2 DEF Names, Flag

\* nor does what an iteration received and what it meant.
LEMMA EnoughStays ==
    ASSUME TypeOK, actions' = actions,
           log' = log \/ \E e \in LogEntry : log' = Append(log, e),
           NEW i, NEW n, NEW k \in DOMAIN log
    PROVE  /\ k \in ReceivedBy(i, n)' <=> k \in ReceivedBy(i, n)
           /\ Enough(i, n, k)' <=> Enough(i, n, k)
  <1>1. \A j \in DOMAIN log : j \in DOMAIN log' /\ log'[j] = log[j]
    BY LogGrows
  <1>2. /\ DOMAIN log = 1..Len(log) /\ Len(log) \in Nat
        /\ \A j \in DOMAIN log' : j <= k => j \in DOMAIN log
    BY LogGrows DEF TypeOK
  <1>3. /\ {j \in ReceivedBy(i, n)' : j <= k} = {j \in ReceivedBy(i, n) : j <= k}
        /\ {j \in ReceivedBy(i, n) : j <= k} \subseteq DOMAIN log
    BY <1>1, <1>2 DEF ReceivedBy
  <1>4. Meant(i, n)' = Meant(i, n)
    BY DEF Meant
  <1>5. k \in ReceivedBy(i, n)' <=> k \in ReceivedBy(i, n)
    BY <1>1 DEF ReceivedBy
  <1>6. Enough(i, n, k)' <=> Enough(i, n, k)
    <2> DEFINE S == {j \in ReceivedBy(i, n) : j <= k}
    <2>1. PICK a : a = Meant(i, n)
      OBVIOUS
    <2>2. Enough(i, n, k) <=> IF Has(a, "until") THEN \E j \in S : Names(a, j)
                              ELSE \/ \E j \in S : log[j].frame.type = "GOAWAY"
                                   \/ Cardinality(S) >= Wanted(a)
      BY <2>1 DEF Enough
    <2>3. Enough(i, n, k)' <=> IF Has(a, "until") THEN \E j \in S : Names(a, j)'
                               ELSE \/ \E j \in S : log'[j].frame.type = "GOAWAY"
                                    \/ Cardinality(S) >= Wanted(a)
      BY <1>3, <1>4, <2>1 DEF Enough
    <2>4. ASSUME NEW j \in S PROVE log'[j] = log[j] /\ (Names(a, j)' <=> Names(a, j))
      <3>1. j \in DOMAIN log
        BY <1>3
      <3> QED
        BY <1>1, <3>1, NamesStays
    <2> HIDE DEF S
    <2>5. CASE Has(a, "until")
      BY <2>2, <2>3, <2>4, <2>5
    <2>6. CASE ~Has(a, "until")
      BY <2>2, <2>3, <2>4, <2>6
    <2> QED
      BY <2>5, <2>6
  <1> QED
    BY <1>5, <1>6

\* What a frame adds to what its iteration received, and to no other's.
LEMMA OneMore ==
    ASSUME TypeOK, NEW f \in Frame, log' = Append(log, Entry("received", f)),
           NEW i, NEW n
    PROVE  ReceivedBy(i, n)' = IF i = index /\ n = iteration
                               THEN ReceivedBy(i, n) \cup {Len(log) + 1} ELSE ReceivedBy(i, n)
  <1> DEFINE e == Entry("received", f)
  <1>1. /\ DOMAIN log' = DOMAIN log \cup {Len(log) + 1} /\ log'[Len(log) + 1] = e
        /\ \A j \in DOMAIN log : log'[j] = log[j]
    BY EntryType, LogGrows
  <1>2. e.kind = "received" /\ e.index = index /\ e.iteration = iteration
    BY DEF Entry
  <1> HIDE DEF e
  <1> QED
    BY <1>1, <1>2 DEF ReceivedBy

LEMMA NoMore ==
    ASSUME TypeOK, NEW e \in LogEntry, e.kind # "received",
           log' = log \/ log' = Append(log, e), NEW i, NEW n
    PROVE  ReceivedBy(i, n)' = ReceivedBy(i, n)
  <1>1. CASE log' = log
    BY <1>1 DEF ReceivedBy
  <1>2. CASE log' = Append(log, e)
    <2>1. /\ \A j \in DOMAIN log' : j \in DOMAIN log \/ log'[j] = e
          /\ \A j \in DOMAIN log : log'[j] = log[j] /\ j \in DOMAIN log'
      BY <1>2, LogGrows
    <2> QED
      BY <2>1 DEF ReceivedBy
  <1> QED
    BY <1>1, <1>2

LEMMA Finite ==
    ASSUME TypeOK, NEW i, NEW n
    PROVE  /\ IsFiniteSet(ReceivedBy(i, n)) /\ Cardinality(ReceivedBy(i, n)) \in Nat
           /\ Len(log) + 1 \notin ReceivedBy(i, n)
  <1>1. ReceivedBy(i, n) \subseteq 1..Len(log) /\ Len(log) \in Nat
    BY DEF ReceivedBy, TypeOK
  <1>2. IsFiniteSet(1..Len(log))
    BY <1>1, FS_Interval
  <1>3. IsFiniteSet(ReceivedBy(i, n))
    BY <1>1, <1>2, FS_Subset
  <1> QED
    BY <1>1, <1>3, FS_CardinalityType

(***************************************************************************)
(* The frame just received                                                 *)
(***************************************************************************)
\* What `until` names is what the client takes for it, however the header
\* block that ends the stream is cut into frames.
LEMMA NamesIs ==
    ASSUME TypeOK, Tracks(tracker, Heard), NEW f \in Frame,
           log' = Append(log, Entry("received", f)),
           NEW a, a.until \in UntilValues, Has(a, "until"),
           ~Consume(tracker, f).event.error, NEW m, NEW k \in Nat, k = Len(log) + 1
    PROVE  Names(a, k)' <=> EndsReceive(a, f, Consume(tracker, f).event, m)
  <1> DEFINE event == Consume(tracker, f).event
  <1>1. /\ Entry("received", f) \in LogEntry /\ Entry("received", f).kind = "received"
        /\ Entry("received", f).frame = f
    BY EntryType DEF Entry
  <1>2. /\ Heard \in Seq(Frame) /\ Len(Heard) = Len(log) /\ Heard' = Append(Heard, f)
    BY <1>1, HeardGrows
  <1>3. /\ log'[k].frame = f /\ k \in DOMAIN log' /\ DOMAIN log' = 1..Len(log')
        /\ Len(log') \in Nat
    BY <1>1, LogGrows
  <1>4. /\ event.complete => \E j \in 1..k : WholeBlock(Heard', j, k) /\ Reports(event, Heard'[j])
        /\ \A j \in 1..k : WholeBlock(Heard', j, k) => Reports(event, Heard'[j])
    BY <1>2, ConsumeReports DEF TypeOK
  <1>5. ASSUME NEW stream
        PROVE  EndsBlock(stream, k)' <=> event.complete /\ event.stream = stream /\ event.endStream
    <2>1. EndsBlock(stream, k)' <=> BlockEnds(Heard', stream, k)
      BY <1>3, EndsBlockIs
    <2>2. StartsEnd(f) \in BOOLEAN
      BY DEF StartsEnd
    <2> HIDE DEF event
    <2> QED
      BY <1>4, <2>1 DEF BlockEnds, Reports
  <1> HIDE DEF event
  <1>6. Names(a, k)' <=> EndsReceive(a, f, event, m)
    BY <1>3, <1>5 DEF Names, EndsReceive, EndsStream, Flag, IsAck, UntilValues
  <1> QED
    BY <1>6 DEF event

\* The client stops exactly when what its iteration received is enough.
LEMMA EnoughNow ==
    ASSUME TypeOK, RunInv, Tracks(tracker, Heard),
           pc = "receive", Action.type = "receive", NEW i, NEW n, i = index, n = iteration,
           count = Cardinality(ReceivedBy(i, n)),
           \A j \in ReceivedBy(i, n) : ~Enough(i, n, j),
           NEW f \in Frame, log' = Append(log, Entry("received", f)), actions' = actions,
           ~Consume(tracker, f).event.error, NEW k \in Nat, k = Len(log) + 1
    PROVE  Enough(i, n, k)' <=> EndsReceive(Action, f, Consume(tracker, f).event, count + 1)
  <1>1. PICK a : a = Action /\ a = Meant(i, n) /\ a = Meant(i, n)'
    BY ActionIsMeant DEF Meant
  <1>2. PICK S : S = ReceivedBy(i, n)
    OBVIOUS
  <1>3. /\ IsFiniteSet(S) /\ Cardinality(S) = count /\ k \notin S /\ count \in Nat
        /\ S \subseteq DOMAIN log
    <2>1. S \subseteq DOMAIN log
      BY <1>2 DEF ReceivedBy
    <2>2. /\ IsFiniteSet(S) /\ Cardinality(S) \in Nat /\ k \notin S
      BY <1>2, Finite
    <2>3. Cardinality(S) = count
      BY <1>2
    <2> QED
      BY <2>1, <2>2, <2>3
  <1>4. Cardinality(S \cup {k}) = count + 1
    BY <1>3, FS_AddElement
  <1>5. {j \in ReceivedBy(i, n)' : j <= k} = S \cup {k}
    <2>1. ReceivedBy(i, n)' = S \cup {k}
      BY <1>2, OneMore
    <2>2. \A j \in S \cup {k} : j <= k
      BY <1>3 DEF TypeOK
    <2> QED
      BY <2>1, <2>2
  <1>6. Enough(i, n, k)' <=> IF Has(a, "until") THEN \E j \in S \cup {k} : Names(a, j)'
                             ELSE \/ \E j \in S \cup {k} : log'[j].frame.type = "GOAWAY"
                                  \/ count + 1 >= Wanted(a)
    BY <1>1, <1>4, <1>5 DEF Enough
  <1>7. /\ \A j \in DOMAIN log : log'[j] = log[j]
        /\ log'[k].frame = f
        /\ DOMAIN log \subseteq Int
    BY EntryType, LogGrows DEF Entry
  <1>8. ASSUME NEW j \in S
        PROVE  IF Has(a, "until") THEN ~Names(a, j) ELSE log[j].frame.type # "GOAWAY"
    <2>1. j \in {m \in ReceivedBy(i, n) : m <= j}
      BY <1>2, <1>3, <1>7, <1>8
    <2>2. ~Enough(i, n, j)
      BY <1>2, <1>8
    <2> QED
      BY <1>1, <2>1, <2>2 DEF Enough
  <1>9. CASE Has(a, "until")
    <2>1. \A j \in S : ~Names(a, j)'
      BY <1>3, <1>8, <1>9, EntryType, NamesStays
    <2>2. a.until \in UntilValues
      <3>1. Has(actions[index], "until") => actions[index].until \in UntilValues
        BY <1>1, AtAction DEF ValidAction, ValidReceive
      <3> QED
        BY <1>1, <1>9, <3>1, AtAction DEF Has
    <2>3. Names(a, k)' <=> EndsReceive(a, f, Consume(tracker, f).event, count + 1)
      BY <1>9, <2>2, NamesIs
    <2> QED
      BY <1>1, <1>6, <1>9, <2>1, <2>3
  <1>10. CASE ~Has(a, "until")
    <2>1. EndsReceive(a, f, Consume(tracker, f).event, count + 1)
             <=> f.type = "GOAWAY" \/ count + 1 >= Wanted(a)
      BY <1>10 DEF EndsReceive
    <2>2. \A j \in S : log'[j].frame.type # "GOAWAY"
      BY <1>3, <1>7, <1>8, <1>10
    <2> QED
      BY <1>1, <1>6, <1>7, <1>10, <2>1, <2>2
  <1> QED
    BY <1>9, <1>10

(***************************************************************************)
(* The invariant                                                           *)
(***************************************************************************)
Collecting == pc \in {"receive", "answer"}

\* What the property asks of one iteration.
Sated(i, n) ==
    /\ Past(i, n) => \E k \in ReceivedBy(i, n) : Enough(i, n, k)
    /\ \A k \in ReceivedBy(i, n) : Enough(i, n, k) => \A j \in ReceivedBy(i, n) : j <= k

\* Within a receive action, count is the number of frames it has received, and
\* none of them was enough but possibly one that is yet to be answered.
InReceive(i, n) ==
    /\ count = Cardinality(ReceivedBy(i, n))
    /\ \A k \in ReceivedBy(i, n) : pc = "receive" \/ k # Len(log) => ~Enough(i, n, k)
    /\ pc = "answer" => \A k \in {Len(log)} :
          /\ k \in ReceivedBy(i, n)
          /\ Enough(i, n, k) <=> EndsReceive(Action, held, NoBlock, count)

\* What was received was received by an iteration that is over, or by the one
\* at hand.
InTime ==
    \A k \in DOMAIN log : log[k].kind = "received" =>
        \/ Past(log[k].index, log[k].iteration)
        \/ Collecting /\ log[k].index = index /\ log[k].iteration = iteration

ReceiveInv ==
    /\ ReceivesEnough
    /\ Tracks(tracker, Heard)
    /\ pc = "load" => log = <<>>
    /\ pc # "exited" => InTime
    /\ Collecting => /\ Action.type = "receive"
                     /\ \A i \in {index}, n \in {iteration} : InReceive(i, n)

\* An iteration that receives nothing and does not end owes nothing new.
LEMMA SatedStays ==
    ASSUME TypeOK, actions' = actions,
           log' = log \/ \E e \in LogEntry : log' = Append(log, e),
           NEW i, NEW n, ReceivedBy(i, n)' = ReceivedBy(i, n),
           Past(i, n)' => Past(i, n), Sated(i, n)
    PROVE  Sated(i, n)'
  <1>1. PICK S : S = ReceivedBy(i, n)
    OBVIOUS
  <1>2. \A k \in S : k \in DOMAIN log
    BY <1>1 DEF ReceivedBy
  <1>3. \A k \in S : Enough(i, n, k)' <=> Enough(i, n, k)
    BY <1>2, EnoughStays
  <1> QED
    BY <1>1, <1>3 DEF Sated

\* Between receive actions, whatever is sent and however the iteration ends,
\* they owe nothing new.
LEMMA Elsewhere ==
    ASSUME TypeOK, RunInv, ReceiveInv, pc \notin {"load", "exited"},
           pc' \notin {"load", "receive", "answer"},
           actions' = actions, tracker' = tracker,
           NEW e \in LogEntry, e.kind # "received", log' = log \/ log' = Append(log, e),
           \/ Stay /\ (pc' = "exited" \/ ~Collecting)
           \/ pc = "action" /\ Action.type # "receive" /\ Advance
    PROVE  ReceiveInv'
  <1>1. \A i, n : ReceivedBy(i, n)' = ReceivedBy(i, n)
    BY NoMore
  <1>2. ASSUME NEW i \in DOMAIN actions, actions[i].type = "receive",
               NEW n \in 0..(Count(actions[i]) - 1), Past(i, n)'
        PROVE  Past(i, n)
    <2>1. CASE Stay
      BY <1>2, <2>1 DEF Stay, Past, Earlier
    <2>2. CASE pc = "action" /\ Action.type # "receive" /\ Advance
      <3>1. i # index
        BY <1>2, <2>2, AtAction
      <3> QED
        BY <1>2, <2>2, <3>1, AdvancePast
    <2> QED
      BY <2>1, <2>2
  <1>3. ReceivesEnough'
    <2>1. SUFFICES ASSUME ValidScript(actions), NEW i \in DOMAIN actions,
                          actions[i].type = "receive", NEW n \in 0..(Count(actions[i]) - 1)
                   PROVE  Sated(i, n)'
      BY DEF ReceivesEnough, Sated
    <2>2. Sated(i, n)
      BY <2>1 DEF ReceiveInv, ReceivesEnough, Sated
    <2>3. Past(i, n)' => Past(i, n)
      BY <1>2, <2>1
    <2>4. log' = log \/ \E added \in LogEntry : log' = Append(log, added)
      OBVIOUS
    <2> QED
      BY <1>1, <2>2, <2>3, <2>4, SatedStays
  <1>4. Tracks(tracker, Heard)'
    <2>1. CASE log' = log
      BY <2>1, ZenonT(30) DEF ReceiveInv, Tracks, Heard, OpenAt
    <2>2. CASE log' = Append(log, e)
      <3>1. Heard \in Seq(Frame) /\ Heard' = Append(Heard, ConnectionPreface)
        BY <2>2, HeardGrows
      <3>2. Consume(tracker, ConnectionPreface).tracker = tracker
        BY DEF Consume, ConnectionPreface, Keep
      <3>3. Tracks(tracker, Append(Heard, ConnectionPreface))
        BY <3>1, <3>2, ConsumeTracks, ConstructorTypes DEF TypeOK, ReceiveInv
      <3> QED
        BY <3>1, <3>3
    <2> QED
      BY <2>1, <2>2
  <1>5. pc' # "exited" => InTime'
    <2>1. SUFFICES ASSUME pc' # "exited", NEW k \in DOMAIN log', log'[k].kind = "received"
                   PROVE  Past(log[k].index, log[k].iteration)'
      BY DEF InTime
    <2>2. k \in DOMAIN log /\ log'[k] = log[k] /\ log[k] \in LogEntry
      BY <2>1, LogGrows DEF TypeOK
    <2>3. /\ log[k].index \in Nat /\ log[k].iteration \in Nat
          /\ Past(log[k].index, log[k].iteration)
      BY <2>1, <2>2 DEF LogEntry, ReceiveInv, InTime, Collecting, Advance, Goto
    <2>4. CASE Stay
      BY <2>2, <2>3, <2>4 DEF Stay, Past, Earlier
    <2>5. CASE Advance
      <3>1. PICK i \in Nat, n \in Nat : i = log[k].index /\ n = log[k].iteration
        BY <2>3
      <3>2. Past(i, n)'
        BY <2>3, <2>5, <3>1, AdvanceLeaves
      <3> QED
        BY <2>2, <3>1, <3>2 DEF Past, Earlier
    <2> QED
      BY <2>4, <2>5
  <1> QED
    BY <1>3, <1>4, <1>5 DEF ReceiveInv, Collecting

\* A receive action owes nothing if none of what it has received was enough but
\* perhaps the last, and if it ends only when that was.
LEMMA MovesOn ==
    ASSUME TypeOK, RunInv, ReceiveInv, Collecting, actions' = actions,
           log' = log \/ \E e \in LogEntry : log' = Append(log, e),
           NEW i, NEW n, i = index, n = iteration, NEW k \in ReceivedBy(i, n)',
           \A j \in ReceivedBy(i, n)' : j <= k /\ (j # k => ~Enough(i, n, j)'),
           \A j, m : ~(j = i /\ m = n) => ReceivedBy(j, m)' = ReceivedBy(j, m),
           Stay \/ (Advance /\ Enough(i, n, k)')
    PROVE  ReceivesEnough'
  <1>1. ASSUME NEW j \in DOMAIN actions, actions[j].type = "receive",
               NEW m \in 0..(Count(actions[j]) - 1), ValidScript(actions)
        PROVE  Sated(j, m)'
    <2>1. Sated(j, m)
      BY <1>1 DEF ReceiveInv, ReceivesEnough, Sated, Collecting
    <2>2. Past(j, m)' => Past(j, m) \/ (Advance /\ j = i /\ m = n)
      BY <1>1, AdvancePast DEF Stay, Past, Earlier, Collecting
    <2>3. CASE ~(j = i /\ m = n)
      BY <2>1, <2>2, <2>3, SatedStays
    <2>4. CASE j = i /\ m = n
      <3>1. ~Past(i, n)
        BY DEF Past, Earlier, TypeOK
      <3>2. Past(i, n)' => Advance /\ Enough(i, n, k)'
        BY <2>2, <2>4, <3>1 DEF Stay, Past, Earlier
      <3>3. Sated(i, n)'
        BY <3>2 DEF Sated
      <3> QED
        BY <2>4, <3>3
    <2> QED
      BY <2>3, <2>4
  <1> QED
    BY <1>1 DEF ReceivesEnough, Sated

\* What it received stays its own, or becomes past with it.
LEMMA InTimeStays ==
    ASSUME TypeOK, ReceiveInv, Collecting, NEW e \in LogEntry, log' = Append(log, e),
           e.kind = "received" => e.index = index /\ e.iteration = iteration,
           (Stay /\ Collecting') \/ Advance
    PROVE  InTime'
  <1>1. SUFFICES ASSUME NEW k \in DOMAIN log', log'[k].kind = "received"
                 PROVE  \/ Past(log[k].index, log[k].iteration)'
                        \/ /\ Collecting'
                           /\ log'[k].index = index' /\ log'[k].iteration = iteration'
    BY DEF InTime
  <1>2. PICK i \in Nat, n \in Nat : i = log'[k].index /\ n = log'[k].iteration
    <2>1. log'[k] \in LogEntry
      BY <1>1, LogGrows DEF TypeOK
    <2> QED
      BY <2>1 DEF LogEntry
  <1>3. Past(i, n) \/ (i = index /\ n = iteration)
    <2>1. (k \in DOMAIN log /\ log'[k] = log[k]) \/ log'[k] = e
      BY <1>1, LogGrows
    <2> QED
      BY <1>1, <1>2, <2>1 DEF ReceiveInv, InTime, Collecting
  <1>4. CASE Stay /\ Collecting'
    BY <1>2, <1>3, <1>4 DEF Stay, Past, Earlier
  <1>5. CASE Advance
    <2>1. Past(i, n)'
      BY <1>3, <1>5, AdvanceLeaves
    <2> QED
      BY <1>2, <2>1 DEF Past, Earlier
  <1> QED
    BY <1>4, <1>5

(***************************************************************************)
(* The steps                                                               *)
(***************************************************************************)
LEMMA ReceiveInit == Init => ReceiveInv
  <1> SUFFICES ASSUME Init PROVE ReceiveInv
    OBVIOUS
  <1>1. log = <<>> /\ tracker.stream = 0 /\ pc = "load"
    BY DEF Init, Idle
  <1> QED
    BY <1>1 DEF ReceiveInv, ReceivesEnough, Tracks, InTime, Collecting

LEMMA QuietReceives ==
    ASSUME TypeOK, RunInv, ReceiveInv, Quiet
    PROVE  ReceiveInv'
  <1>1. /\ log' = log /\ actions' = actions /\ tracker' = tracker /\ Heard' = Heard
    BY QuietSteps DEF Heard
  <1>2. \A i, n : ReceivedBy(i, n)' = ReceivedBy(i, n)
    BY <1>1 DEF ReceivedBy
  <1>3. Tracks(tracker, Heard)'
    BY <1>1 DEF ReceiveInv, Tracks, OpenAt
  <1>4. CASE UNCHANGED client
    <2>1. UNCHANGED <<pc, index, iteration, count, held, actions>>
      BY <1>4 DEF client
    <2>2. \A i, n : Past(i, n)' <=> Past(i, n)
      BY <2>1 DEF Past, Earlier
    <2>3. ReceivesEnough'
      <3>1. \A i, n : Sated(i, n) => Sated(i, n)'
        BY <1>1, <1>2, <2>2, SatedStays
      <3> QED
        BY <2>1, <3>1 DEF ReceiveInv, ReceivesEnough, Sated
    <2>4. ASSUME NEW i \in {index}, NEW n \in {iteration}, InReceive(i, n)
          PROVE  InReceive(i, n)'
      <3>1. \A k \in ReceivedBy(i, n) : k \in DOMAIN log
        BY DEF ReceivedBy
      <3>2. \A k \in ReceivedBy(i, n) : Enough(i, n, k)' <=> Enough(i, n, k)
        BY <1>1, <3>1, EnoughStays
      <3>3. Action' = Action
        BY <2>1 DEF Action, Iteration
      <3>4. EndsReceive(Action, held, NoBlock, count)' <=> EndsReceive(Action, held, NoBlock, count)
        BY <2>1, <3>3 DEF EndsReceive
      <3> QED
        BY <1>1, <1>2, <2>1, <2>4, <3>2, <3>4 DEF InReceive
    <2>5. Action' = Action
      BY <2>1 DEF Action, Iteration
    <2> QED
      BY <1>1, <1>3, <2>1, <2>2, <2>3, <2>4, <2>5 DEF ReceiveInv, InTime, Collecting
  <1>5. CASE pc = "load" /\ Stay /\ pc' \in {"dial", "exited"}
    <2>1. log' = <<>> /\ index' = 1 /\ iteration' = 0 /\ DOMAIN actions = 1..Len(actions)
      BY <1>1, <1>5, ScriptsAssumption DEF ReceiveInv, RunInv, Stay
    <2>2. \A i, n : ReceivedBy(i, n)' = {}
      BY <2>1 DEF ReceivedBy
    <2>3. \A i \in DOMAIN actions : \A n \in 0..(Count(actions[i]) - 1) : ~Past(i, n)'
      BY <2>1 DEF Past, Earlier
    <2>4. ReceivesEnough'
      BY <1>1, <2>2, <2>3 DEF ReceivesEnough
    <2>5. InTime'
      BY <2>1 DEF InTime
    <2> QED
      BY <1>3, <1>5, <2>4, <2>5 DEF ReceiveInv, Collecting
  <1>6. CASE pc \notin {"load", "exited"} /\ pc' \notin {"load", "receive", "answer"} /\
             (\/ Stay /\ (pc' = "exited" \/ ~Collecting)
              \/ pc = "action" /\ Action.type # "receive" /\ Advance)
    <2>1. PICK e \in LogEntry : e.kind = "sent"
      BY EntryType, ConstructorTypes DEF Entry
    <2> QED
      BY <1>1, <1>6, <2>1, Elsewhere
  <1>7. CASE /\ pc = "action" /\ Action.type = "receive"
             /\ pc' = "receive" /\ Stay /\ count' = 0
    <2>1. index' = index /\ iteration' = iteration
      BY <1>7 DEF Stay
    <2>2. ReceivesEnough'
      <3>1. \A i, n : Past(i, n)' => Past(i, n)
        BY <2>1 DEF Past, Earlier
      <3>2. \A i, n : Sated(i, n) => Sated(i, n)'
        BY <1>1, <1>2, <3>1, SatedStays
      <3> QED
        BY <1>1, <1>7, <3>2 DEF ReceiveInv, ReceivesEnough, Sated
    <2>3. ASSUME NEW k \in DOMAIN log, log[k].kind = "received"
          PROVE  Past(log[k].index, log[k].iteration)
      BY <1>7, <2>3 DEF ReceiveInv, InTime, Collecting
    <2>4. InTime'
      BY <1>1, <2>1, <2>3 DEF InTime, Past, Earlier
    <2>5. ReceivedBy(index, iteration) = {}
      BY <2>3 DEF ReceivedBy, Past, Earlier, TypeOK
    <2>6. ASSUME NEW i \in {index'}, NEW n \in {iteration'} PROVE InReceive(i, n)'
      <3>1. ReceivedBy(i, n)' = {}
        BY <1>2, <2>1, <2>5, <2>6
      <3> QED
        BY <1>7, <3>1, FS_EmptySet DEF InReceive
    <2>7. Action' = Action
      BY <1>1, <2>1 DEF Action, Iteration
    <2> QED
      BY <1>3, <1>7, <2>2, <2>4, <2>6, <2>7 DEF ReceiveInv
  <1> QED
    BY <1>4, <1>5, <1>6, <1>7, QuietSteps DEF Collecting, Advance, Goto

LEMMA ReceiveReceives ==
    ASSUME TypeOK, RunInv, ReceiveInv, Receive
    PROVE  ReceiveInv'
  <1>1. PICK f \in Frame : f = Head(inbox)
    BY DEF Receive, TypeOK
  <1>2. PICK i, n : i = index /\ n = iteration
    OBVIOUS
  <1>3. PICK k \in Nat : k = Len(log) + 1
    BY DEF TypeOK
  <1>4. PICK event : event = Consume(tracker, f).event
    OBVIOUS
  <1>5. PICK e \in LogEntry : e = Entry("received", f)
    BY EntryType
  <1>6. /\ pc = "receive" /\ Collecting /\ actions' = actions
        /\ log' = Append(log, e) /\ log' = Append(log, Entry("received", f))
        /\ count' = count + 1 /\ held' = f
        /\ tracker' = Consume(tracker, f).tracker
        /\ Action.type = "receive" /\ InReceive(i, n)
    BY <1>1, <1>2, <1>5 DEF Receive, Collecting, ReceiveInv
  <1>7. /\ e.kind = "received" /\ e.frame = f /\ e.index = index /\ e.iteration = iteration
    BY <1>5 DEF Entry
  <1>8. \/ /\ ~event.error /\ Acks(Action, f) /\ pc' = "answer" /\ Stay
        \/ /\ ~event.error /\ ~EndsReceive(Action, f, event, count + 1)
           /\ pc' = "receive" /\ Stay
        \/ /\ ~event.error /\ EndsReceive(Action, f, event, count + 1) /\ Advance
        \/ pc' = "exited" /\ Stay
    BY <1>1, <1>4 DEF Receive, AfterFrame, Exit, Goto
  <1>9. Tracks(tracker, Heard)'
    <2>1. Heard \in Seq(Frame) /\ Heard' = Append(Heard, f)
      BY <1>6, <1>7, HeardGrows
    <2>2. Tracks(tracker', Append(Heard, f))
      BY <1>6, <2>1, ConsumeTracks DEF TypeOK, ReceiveInv
    <2> QED
      BY <2>1, <2>2
  <1>10. PICK S : S = ReceivedBy(i, n)
    OBVIOUS
  <1>11. /\ ReceivedBy(i, n)' = S \cup {k} /\ k \notin S
         /\ \A j \in S : j \in DOMAIN log /\ j <= k
         /\ IsFiniteSet(S) /\ Cardinality(S) = count
    <2>1. S \subseteq DOMAIN log
      BY <1>10 DEF ReceivedBy
    <2>2. \A j \in DOMAIN log : j <= k
      BY <1>3 DEF TypeOK
    <2> QED
      BY <1>2, <1>3, <1>6, <1>10, <2>1, <2>2, OneMore, Finite DEF InReceive
  <1>12. \A j, m : ~(j = i /\ m = n) => ReceivedBy(j, m)' = ReceivedBy(j, m)
    BY <1>2, <1>6, OneMore
  <1>13. \A j \in S : ~Enough(i, n, j) /\ ~Enough(i, n, j)'
    <2>1. \A j \in S : ~Enough(i, n, j)
      BY <1>6, <1>10 DEF InReceive
    <2>2. \A j \in S : Enough(i, n, j)' <=> Enough(i, n, j)
      BY <1>6, <1>11, EnoughStays
    <2> QED
      BY <2>1, <2>2
  <1>14. ~event.error => (Enough(i, n, k)' <=> EndsReceive(Action, f, event, count + 1))
    BY <1>2, <1>3, <1>4, <1>6, <1>10, <1>11, <1>13, EnoughNow DEF ReceiveInv
  <1>15. ReceivesEnough'
    <2>1. k \in ReceivedBy(i, n)'
      BY <1>11
    <2>2. \A j \in ReceivedBy(i, n)' : j <= k /\ (j # k => ~Enough(i, n, j)')
      BY <1>11, <1>13
    <2>3. Stay \/ (Advance /\ Enough(i, n, k)')
      BY <1>8, <1>14
    <2> QED
      BY <1>2, <1>6, <1>12, <2>1, <2>2, <2>3, MovesOn
  <1>16. pc' # "exited" => InTime'
    BY <1>6, <1>7, <1>8, InTimeStays DEF Collecting
  <1>17. ASSUME Collecting'
         PROVE  /\ Action' = Action
                /\ \A j \in {index'}, m \in {iteration'} : InReceive(j, m)'
    <2>1. /\ Stay /\ ~event.error /\ pc' \in {"answer", "receive"}
          /\ pc' = "receive" => ~EndsReceive(Action, f, event, count + 1)
          /\ pc' = "answer" => Acks(Action, f)
      BY <1>8, <1>17 DEF Collecting, Advance, Goto
    <2>2. Action' = Action /\ index' = i /\ iteration' = n
      BY <1>2, <1>6, <2>1 DEF Action, Iteration, Stay
    <2>3. count' = Cardinality(ReceivedBy(i, n)')
      BY <1>6, <1>11, FS_AddElement
    <2>4. k = Len(log')
      BY <1>3, <1>6, LogGrows
    <2>5. \A j \in ReceivedBy(i, n)' : pc' = "receive" \/ j # Len(log') => ~Enough(i, n, j)'
      BY <1>11, <1>13, <1>14, <2>1, <2>4
    <2>6. ASSUME pc' = "answer"
          PROVE  Enough(i, n, k)' <=> EndsReceive(Action, held, NoBlock, count)'
      <3>1. event = NoBlock
        BY <1>4, <2>1, <2>6 DEF Acks, Consume, Keep
      <3>2. EndsReceive(Action, held, NoBlock, count)' <=> EndsReceive(Action, f, event, count + 1)
        BY <1>6, <2>2, <3>1 DEF EndsReceive, EndsStream, Wanted, IsAck
      <3> QED
        BY <1>14, <2>1, <3>2
    <2>7. InReceive(i, n)'
      BY <1>11, <2>1, <2>3, <2>4, <2>5, <2>6 DEF InReceive
    <2> QED
      BY <2>2, <2>7
  <1> QED
    BY <1>6, <1>8, <1>9, <1>15, <1>16, <1>17 DEF ReceiveInv, Advance, Goto

LEMMA AnswerReceives ==
    ASSUME TypeOK, RunInv, ReceiveInv, SendAnswer
    PROVE  ReceiveInv'
  <1>1. PICK e \in LogEntry : e = Entry("answered", Answer(held))
    BY EntryType, AnswerType DEF TypeOK
  <1>2. e.kind = "answered"
    BY <1>1 DEF Entry
  <1>3. /\ pc = "answer" /\ Collecting /\ actions' = actions /\ tracker' = tracker
        /\ UNCHANGED <<held, count>>
        /\ \/ log' = Append(log, e) /\ AfterFrame(held, NoBlock, count, gotGoAway)
           \/ pc' = "exited" /\ Stay /\ (log' = log \/ log' = Append(log, e))
    BY <1>1 DEF SendAnswer, Collecting, Exit
  <1>4. CASE pc' = "exited" /\ Stay /\ (log' = log \/ log' = Append(log, e))
    BY <1>2, <1>3, <1>4, Elsewhere
  <1>5. CASE log' = Append(log, e) /\ AfterFrame(held, NoBlock, count, gotGoAway)
    <2>1. PICK i, n : i = index /\ n = iteration
      OBVIOUS
    <2>2. PICK k : k = Len(log)
      OBVIOUS
    <2>3. /\ InReceive(i, n) /\ k \in ReceivedBy(i, n) /\ Action.type = "receive"
          /\ Enough(i, n, k) <=> EndsReceive(Action, held, NoBlock, count)
          /\ \A j \in ReceivedBy(i, n) : j # k => ~Enough(i, n, j)
      BY <1>3, <2>1, <2>2 DEF ReceiveInv, InReceive
    <2>4. PICK S : S = ReceivedBy(i, n)
      OBVIOUS
    <2>5. /\ \A j, m : ReceivedBy(j, m)' = ReceivedBy(j, m)
          /\ ReceivedBy(i, n)' = S
      BY <1>2, <1>5, <2>4, NoMore
    <2>6. \A j \in S : j \in DOMAIN log /\ j <= k
      BY <2>2, <2>4 DEF ReceivedBy, TypeOK
    <2>7. \A j \in S : Enough(i, n, j)' <=> Enough(i, n, j)
      BY <1>3, <1>5, <2>6, EnoughStays
    <2>8. \/ EndsReceive(Action, held, NoBlock, count) /\ Advance
          \/ ~EndsReceive(Action, held, NoBlock, count) /\ pc' = "receive" /\ Stay
      BY <1>5 DEF AfterFrame, Goto
    <2>9. ReceivesEnough'
      <3>1. Stay \/ (Advance /\ Enough(i, n, k)')
        BY <2>3, <2>4, <2>7, <2>8
      <3>2. \A j \in ReceivedBy(i, n)' : j <= k /\ (j # k => ~Enough(i, n, j)')
        BY <2>3, <2>4, <2>5, <2>6, <2>7
      <3>3. k \in ReceivedBy(i, n)'
        BY <2>3, <2>4, <2>5
      <3> QED
        BY <1>3, <1>5, <2>1, <2>5, <3>1, <3>2, <3>3, MovesOn
    <2>10. InTime'
      BY <1>2, <1>3, <1>5, <2>8, InTimeStays DEF Collecting
    <2>11. Tracks(tracker, Heard)'
      <3>1. Heard \in Seq(Frame) /\ Heard' = Append(Heard, ConnectionPreface)
        BY <1>2, <1>5, HeardGrows
      <3>2. Consume(tracker, ConnectionPreface).tracker = tracker
        BY DEF Consume, ConnectionPreface, Keep
      <3>3. Tracks(tracker, Append(Heard, ConnectionPreface))
        BY <3>1, <3>2, ConsumeTracks, ConstructorTypes DEF TypeOK, ReceiveInv
      <3> QED
        BY <1>3, <3>1, <3>3
    <2>12. ASSUME Collecting'
           PROVE  /\ Action' = Action
                  /\ \A j \in {index'}, m \in {iteration'} : InReceive(j, m)'
      <3>1. ~EndsReceive(Action, held, NoBlock, count) /\ pc' = "receive" /\ Stay
        BY <2>8, <2>12 DEF Collecting, Advance, Goto
      <3>2. Action' = Action /\ index' = i /\ iteration' = n
        BY <1>3, <2>1, <3>1 DEF Action, Iteration, Stay
      <3>3. InReceive(i, n)'
        <4>1. count' = Cardinality(S)
          BY <1>3, <2>3, <2>4 DEF InReceive
        <4>2. \A j \in S : ~Enough(i, n, j)'
          BY <2>3, <2>4, <2>7, <3>1
        <4> QED
          BY <2>5, <3>1, <4>1, <4>2 DEF InReceive
      <3> QED
        BY <3>2, <3>3
    <2> QED
      BY <2>3, <2>8, <2>9, <2>10, <2>11, <2>12 DEF ReceiveInv, Advance, Goto
  <1> QED
    BY <1>3, <1>4, <1>5

LEMMA ReceiveStep == TypeOK /\ RunInv /\ ReceiveInv /\ [Next]_vars => ReceiveInv'
  <1> SUFFICES ASSUME TypeOK, RunInv, ReceiveInv, [Next]_vars PROVE ReceiveInv'
    OBVIOUS
  <1>1. CASE Quiet
    BY <1>1, QuietReceives
  <1>2. CASE SendPreface \/ SendFrame
    <2>1. PICK f \in Frame :
             \/ Advance /\ log' = Append(log, Entry("sent", f))
             \/ /\ pc' = "exited" /\ Stay
                /\ log' \in {log, Append(log, Entry("sent", f))}
      BY <1>2, SendingSteps
    <2>2. Entry("sent", f) \in LogEntry /\ Entry("sent", f).kind = "sent"
      BY EntryType DEF Entry
    <2>3. /\ pc = "action" /\ Action.type # "receive" /\ actions' = actions /\ tracker' = tracker
          /\ pc' \in {"action", "finish", "exited"}
      BY <1>2, <2>1, SendingSteps DEF Advance, Goto
    <2> QED
      BY <2>1, <2>2, <2>3, Elsewhere
  <1>3. CASE Receive
    BY <1>3, ReceiveReceives
  <1>4. CASE SendAnswer
    BY <1>4, AnswerReceives
  <1>5. CASE EndRun
    <2>1. /\ pc = "finish" /\ pc' = "exited" /\ Stay /\ actions' = actions /\ tracker' = tracker
          /\ log' \in {log, Append(log, Entry("closing", GoAwayFrame))}
      BY <1>5 DEF EndRun, Exit, Stay
    <2>2. /\ Entry("closing", GoAwayFrame) \in LogEntry
          /\ Entry("closing", GoAwayFrame).kind = "closing"
      BY EntryType, ConstructorTypes DEF Entry
    <2> QED
      BY <2>1, <2>2, Elsewhere
  <1> QED
    BY <1>1, <1>2, <1>3, <1>4, <1>5, StepKinds

\* Property ReceivesEnough: executeReceiveAction returns with the frame that
\* makes what it read enough, however the frames are cut into header blocks.
THEOREM ScriptReceivesCorrect == Spec => []ReceivesEnough
  <1>1. ReceiveInv => ReceivesEnough
    BY DEF ReceiveInv
  <1> QED
    BY <1>1, ReceiveInit, ReceiveStep, ScriptTypeCorrect, RunInit, RunStep, PTL DEF Spec
=============================================================================
