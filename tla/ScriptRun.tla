----------------------------- MODULE ScriptRun ------------------------------
(***************************************************************************)
(* One run of `mh2c script run` (cmd/mh2c/main.go, script.go,              *)
(* script_receive.go): the script is validated, the client connects, and   *)
(* executes the actions in order, against a peer that may send any frames  *)
(* and close at any time.  As in Session, pc stands before the next        *)
(* blocking operation.                                                     *)
(***************************************************************************)
EXTENDS Script, HeaderBlocks

CONSTANTS
    Scripts,        \* the scripts to consider: sequences of actions
    PeerFrames,     \* the frames the peer may send
    MaxPeerFrames,  \* bound: frames the peer sends in a run
    MaxInFlight     \* bound: frames on their way to the client

NumberFields == {"repeat", "stream_id_step", "stream_id", "count"}

\* What parseScript returns: at least one action, TOML integers and booleans,
\* text that may not parse.
ASSUME ScriptsAssumption ==
    \A script \in Scripts :
        /\ Len(script) \in Nat \ {0} /\ DOMAIN script = 1..Len(script)
        /\ \A i \in DOMAIN script :
              /\ \A field \in NumberFields \cap DOMAIN script[i] :
                    script[i][field] = WrongKind \/ script[i][field] \in Int
              /\ \A field \in PayloadFields \cap DOMAIN script[i] :
                    \/ script[i][field] = WrongKind \/ script[i][field] \in Seq(Item)
                    \/ field \in TextFields /\ script[i][field] = Unparsable
              /\ \A field \in {"ack_settings", "ack_ping"} \cap DOMAIN script[i] :
                    script[i][field] = WrongKind \/ script[i][field] \in BOOLEAN
ASSUME StreamsAssumption == 0..MaxUint32 \subseteq StreamIds
ASSUME PeerFramesAssumption == PeerFrames \subseteq Frame

VARIABLES
    actions,        \* the script
    sendGoAway,     \* connection.send_goaway
    pc,
    index,          \* the action being executed,
    iteration,      \* and its iteration
    held,           \* receive: the frame being answered
    count,          \* receive: frames received
    gotGoAway,      \* receive: its own sawGoAway
    sawGoAway,      \* of the script, as run() learns it
    tracker,        \* received header block
    result,         \* how the command ended, or where its error came from
    inbox, peer,    \* as in Session
    log             \* history: what was sent and received, by which iteration

client == <<actions, sendGoAway, pc, index, iteration, held, count, gotGoAway, sawGoAway,
            tracker, result>>
vars == <<client, inbox, peer, log>>

Init ==
    /\ actions \in Scripts
    /\ sendGoAway \in BOOLEAN
    /\ pc = "load"
    /\ index = 1 /\ iteration = 0
    /\ held = ConnectionPreface /\ count = 0 /\ gotGoAway = FALSE
    /\ sawGoAway = FALSE
    /\ tracker = Idle
    /\ result = "running"
    /\ inbox = <<>>
    /\ peer = [open |-> TRUE, sent |-> 0]
    /\ log = <<>>

Entry(kind, f) == [kind |-> kind, index |-> index, iteration |-> iteration, frame |-> f]

Exit(outcome) == pc' = "exited" /\ result' = outcome

Goto(next) == pc' = next /\ UNCHANGED result

(***************************************************************************)
(* validateScript, client.New                                              *)
(***************************************************************************)
Load ==
    /\ pc = "load"
    /\ IF ValidScript(actions) THEN Goto("dial") ELSE Exit("invalid")
    /\ UNCHANGED <<actions, sendGoAway, index, iteration, held, count, gotGoAway, sawGoAway,
                   tracker, inbox, peer, log>>

Dial ==
    /\ pc = "dial"
    /\ Goto("action") \/ Exit("io")
    /\ UNCHANGED <<actions, sendGoAway, index, iteration, held, count, gotGoAway, sawGoAway,
                   tracker, inbox, peer, log>>

(***************************************************************************)
(* executeScript, executeScriptAction                                      *)
(***************************************************************************)
Action == Iteration(actions[index], iteration)

IsFrame(a) == a.type \in DOMAIN FrameType

Marshalled(a) == Builds(a) /\ \E length \in Lengths(a) : Marshals(length)
NotMarshalled(a) == Builds(a) => \E length \in Lengths(a) : ~Marshals(length)

Receivable(a) == ValidReceive(a) /\ RangesFit(a)

LastIteration == iteration + 1 >= Count(actions[index])

Advance ==
    /\ IF LastIteration THEN index' = index + 1 /\ iteration' = 0
       ELSE index' = index /\ iteration' = iteration + 1
    /\ Goto(IF LastIteration /\ index = Len(actions) THEN "finish" ELSE "action")

Stay == UNCHANGED <<index, iteration>>

\* A failed write leaves the frame unsent; a failed report comes after it.
SendAndReport(f) ==
    \/ Advance /\ log' = Append(log, Entry("sent", f))
    \/ Exit("io") /\ Stay /\ log' \in {log, Append(log, Entry("sent", f))}

SendPreface ==
    /\ pc = "action" /\ ~Overflows(Action) /\ Action.type = "preface"
    /\ SendAndReport(ConnectionPreface)
    /\ UNCHANGED <<actions, sendGoAway, held, count, gotGoAway, sawGoAway, tracker, inbox, peer>>

\* The notice before the sleep may fail.
Sleep ==
    /\ pc = "action" /\ ~Overflows(Action) /\ Action.type = "sleep"
    /\ Advance \/ (Exit("io") /\ Stay)
    /\ UNCHANGED <<actions, sendGoAway, held, count, gotGoAway, sawGoAway, tracker,
                   inbox, peer, log>>

SendFrame ==
    /\ pc = "action" /\ ~Overflows(Action) /\ IsFrame(Action)
    /\ Marshalled(Action)
    /\ SendAndReport(BuildFrame(Action))
    /\ UNCHANGED <<actions, sendGoAway, held, count, gotGoAway, sawGoAway, tracker, inbox, peer>>

\* actionForRepeatIteration, buildScriptFrame, MarshalBinary or the checks of
\* executeReceiveAction refuse; the frames of the actions before have long
\* been sent.
RefuseAction ==
    /\ pc = "action"
    /\ \/ Overflows(Action)
       \/ IsFrame(Action) /\ NotMarshalled(Action)
       \/ Action.type = "receive" /\ ~Receivable(Action)
    /\ Exit(IF Overflows(Action) THEN "overflow" ELSE "refused")
    /\ UNCHANGED <<actions, sendGoAway, index, iteration, held, count, gotGoAway, sawGoAway,
                   tracker, inbox, peer, log>>

(***************************************************************************)
(* executeReceiveAction                                                    *)
(***************************************************************************)
StartReceive ==
    /\ pc = "action" /\ ~Overflows(Action) /\ Action.type = "receive"
    /\ Receivable(Action)
    /\ Goto("receive") /\ Stay
    /\ count' = 0 /\ gotGoAway' = FALSE
    /\ UNCHANGED <<actions, sendGoAway, held, sawGoAway, tracker, inbox, peer, log>>

Option(a, field) == Has(a, field) /\ a[field]

Wanted(a) == IF Has(a, "count") THEN a.count ELSE 1

IsAck(f) == "ACK" \in f.flags

\* Mutant: settings are acknowledged unasked.
AcksAlways(a, f) ==
    /\ ~IsAck(f)
    /\ f.type = "SETTINGS" \/ (f.type = "PING" /\ Option(a, "ack_ping"))

Acks(a, f) ==
    /\ ~IsAck(f)
    /\ \/ f.type = "SETTINGS" /\ Option(a, "ack_settings")
       \/ f.type = "PING" /\ Option(a, "ack_ping")

Answer(f) ==
    IF f.type = "SETTINGS" THEN SettingsFrame({"ACK"}) ELSE PingFrame({"ACK"}, f.payload)

EndsStream(a, f, event) ==
    \/ event.complete /\ event.stream = a.stream_id /\ event.endStream
    \/ f.type \in {"DATA", "HEADERS"} /\ f.stream = a.stream_id /\ "END_STREAM" \in f.flags

\* Mutant: the frame that exhausts count does not end the action.
EndsReceiveLate(a, f, event, n) ==
    IF ~Has(a, "until") THEN f.type = "GOAWAY" \/ n > Wanted(a)
    ELSE CASE a.until = "settings"     -> f.type = "SETTINGS" /\ ~IsAck(f)
           [] a.until = "settings_ack" -> f.type = "SETTINGS" /\ IsAck(f)
           [] a.until = "ping_ack"     -> f.type = "PING" /\ IsAck(f)
           [] a.until = "goaway"       -> f.type = "GOAWAY"
           [] a.until = "end_stream"   -> EndsStream(a, f, event)

EndsReceive(a, f, event, n) ==
    IF ~Has(a, "until") THEN f.type = "GOAWAY" \/ n >= Wanted(a)
    ELSE CASE a.until = "settings"     -> f.type = "SETTINGS" /\ ~IsAck(f)
           [] a.until = "settings_ack" -> f.type = "SETTINGS" /\ IsAck(f)
           [] a.until = "ping_ack"     -> f.type = "PING" /\ IsAck(f)
           [] a.until = "goaway"       -> f.type = "GOAWAY"
           [] a.until = "end_stream"   -> EndsStream(a, f, event)

\* Mutant: only the last receive action counts.
SawInLast(got) == got

Saw(got) == sawGoAway \/ got

\* After a frame, answered or not: back to executeScript, or read again.
AfterFrame(f, event, n, got) ==
    IF EndsReceive(Action, f, event, n) THEN Advance /\ sawGoAway' = Saw(got)
    ELSE Goto("receive") /\ Stay /\ UNCHANGED sawGoAway

\* Any block that fails to decode ends the command, printed or not.
Receive ==
    /\ pc = "receive" /\ inbox # <<>> /\ Parses(Head(inbox))
    /\ LET f     == Head(inbox)
           event == Consume(tracker, f).event
           got   == gotGoAway \/ f.type = "GOAWAY"
       IN
       /\ inbox' = Tail(inbox)
       /\ tracker' = Consume(tracker, f).tracker
       /\ log' = Append(log, Entry("received", f))
       /\ count' = count + 1
       /\ held' = f
       /\ \/ /\ ~event.error /\ gotGoAway' = got
             /\ IF Acks(Action, f) THEN Goto("answer") /\ Stay /\ UNCHANGED sawGoAway
                ELSE AfterFrame(f, event, count + 1, got)
          \/ Exit("io") /\ Stay /\ UNCHANGED <<gotGoAway, sawGoAway>>
    /\ UNCHANGED <<actions, sendGoAway, peer>>

SendAnswer ==
    /\ pc = "answer"
    /\ \/ /\ log' = Append(log, Entry("answered", Answer(held)))
          /\ AfterFrame(held, NoBlock, count, gotGoAway)
       \/ /\ Exit("io") /\ Stay /\ UNCHANGED sawGoAway
          /\ log' \in {log, Append(log, Entry("answered", Answer(held)))}
    /\ UNCHANGED <<actions, sendGoAway, held, count, gotGoAway, tracker, inbox, peer>>

\* Mutant: the end of file is not taken for an error.
ReadFailureButEOF == inbox # <<>> /\ ~Parses(Head(inbox))

\* The end of file, a reset or a frame that does not parse.
ReadFailure == IF inbox = <<>> THEN ~peer.open ELSE ~Parses(Head(inbox))

ReceiveFails ==
    /\ pc = "receive"
    /\ ReadFailure
    /\ Exit("io")
    /\ UNCHANGED <<actions, sendGoAway, index, iteration, held, count, gotGoAway, sawGoAway,
                   tracker, inbox, peer, log>>

(***************************************************************************)
(* The end of run(): no capture in script mode.                            *)
(***************************************************************************)
EndRun ==
    /\ pc = "finish"
    /\ Exit("ok")
    /\ IF sendGoAway /\ ~sawGoAway
       THEN log' \in {log, Append(log, Entry("closing", GoAwayFrame))}
       ELSE UNCHANGED log
    /\ UNCHANGED <<actions, sendGoAway, index, iteration, held, count, gotGoAway, sawGoAway,
                   tracker, inbox, peer>>

(***************************************************************************)
(* The peer                                                                *)
(***************************************************************************)
Connected == pc \notin {"load", "dial", "exited"}

PeerSend(f) ==
    /\ Connected /\ peer.open
    /\ peer.sent < MaxPeerFrames /\ Len(inbox) < MaxInFlight
    /\ inbox' = Append(inbox, f)
    /\ peer' = [peer EXCEPT !.sent = @ + 1]
    /\ UNCHANGED <<client, log>>

PeerClose ==
    /\ Connected /\ peer.open
    /\ \E n \in 0..Len(inbox) : inbox' = SubSeq(inbox, 1, n)
    /\ peer' = [peer EXCEPT !.open = FALSE]
    /\ UNCHANGED <<client, log>>

Terminated == pc = "exited" /\ UNCHANGED vars

ClientStep ==
    \/ Load \/ Dial \/ SendPreface \/ Sleep \/ SendFrame \/ RefuseAction
    \/ StartReceive \/ Receive \/ SendAnswer \/ ReceiveFails \/ EndRun

Next == ClientStep \/ (\E f \in PeerFrames : PeerSend(f)) \/ PeerClose \/ Terminated

Spec == Init /\ [][Next]_vars

\* The client runs whenever it can; the peer owes nothing.
FairSpec == Spec /\ WF_vars(ClientStep)

(***************************************************************************)
(* Types.                                                                  *)
(***************************************************************************)
LogEntry == [kind : {"sent", "received", "answered", "closing"}, index : Nat, iteration : Nat,
             frame : Frame]

\* Every variable keeps the type the code declares for it; above all, a
\* number of a script that does not fit a frame never gets into one
\* (buildScriptFrame).
TypeOK ==
    /\ actions \in Scripts /\ sendGoAway \in BOOLEAN
    /\ pc \in {"load", "dial", "action", "receive", "answer", "finish", "exited"}
    /\ index \in Nat /\ iteration \in Nat
    /\ held \in Frame /\ count \in Nat
    /\ gotGoAway \in BOOLEAN /\ sawGoAway \in BOOLEAN
    /\ tracker \in Tracker
    /\ result \in {"running", "invalid", "io", "overflow", "refused", "ok"}
    /\ inbox \in Seq(Frame)
    /\ peer \in [open : BOOLEAN, sent : Nat]
    /\ log \in Seq(LogEntry)
=============================================================================
