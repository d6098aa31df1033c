----------------------------- MODULE Invocation -----------------------------
(***************************************************************************)
(* An invocation of mh2c from its arguments to its exit (run() in          *)
(* cmd/mh2c/main.go, config.go, script.go): what is refused, when, and     *)
(* what the options become.  Of the session, which Session and ScriptRun   *)
(* model, only the events remain that the output controller is handed, in  *)
(* any order.                                                              *)
(***************************************************************************)
EXTENDS Output, Request

CONSTANTS
    CommandLines,   \* arguments and, with them, the script they name
    Events,         \* events of the session
    Bodies,         \* lengths of a request's body
    MaxEvents       \* bound: events of a session

\* type config: what the flags of a command come to.  --stream-filter is a set
\* of one, or empty if it is not given.
Options ==
    [url : Urls, scheme : STRING, host : STRING, port : 0..MaxUint, authority : STRING,
     path : STRING, streamID : 0..MaxUint, max_table_size : 0..MaxUint, timeout_ms : Int,
     streamFilter : SUBSET (0..MaxUint), frameFilters : SUBSET STRING,
     directionFilters : SUBSET STRING, dataLimit : 0..MaxUint,
     dataFormat : {"text", "hex", "both"}, decodeHeaders : BOOLEAN,
     showHeaderBlock : BOOLEAN, formatsKnown : BOOLEAN, save : BOOLEAN,
     saveOutput : BOOLEAN, twoBodies : BOOLEAN, headers : Seq(STRING),
     pingDataFits : BOOLEAN]

\* The script's [connection] table sets some of its fields, to anything of the
\* right type.
ASSUME CommandLinesAssumption ==
    \A l \in CommandLines :
        LET table == l.script.connection
        IN  /\ l.flags \in Options /\ AtMostOnePort(l.flags.url)
            /\ \A s, t \in l.flags.streamFilter : s = t
            /\ "url" \in DOMAIN table => table["url"] \in Urls /\ AtMostOnePort(table["url"])
            /\ "port" \in DOMAIN table => table["port"] \in Int

\* Payloads are far shorter than the largest int; a notice is of the client's.
ASSUME EventsAssumption ==
    \A e \in Events : /\ e.payload \in Seq(Byte) /\ Len(e.payload) <= MaxInt
                      /\ e.type = "notice" => e.direction = "sent"

VARIABLES
    line,       \* the arguments
    options,    \* config: the flags, and from there on what replaces them
    pc,
    result,
    endpoint,   \* none or one
    controller,
    fileMade,   \* the output file exists, emptied
    session,    \* none, or the parameters of the one that was dialled
    fields,     \* header fields of the request
    handled,    \* history: events the controller took without an error
    shown,      \* lines printed
    captured    \* DATA captured, by stream

vars == <<line, options, pc, result, endpoint, controller, fileMade, session, fields, handled, shown, captured>>
rest == <<line, endpoint, controller, fileMade, session, fields, handled, shown, captured>>

\* The streams of events.
Streams == {e.stream : e \in Events}

Executes(command) == command \in {"request", "ping", "observe", "run"}

Init ==
    /\ line \in CommandLines
    /\ options = line.flags
    /\ pc = "parse" /\ result = "running"
    /\ endpoint = {} /\ fileMade = FALSE /\ session = {} /\ fields = <<>>
    /\ controller = [directions |-> {}, frames |-> {}, streams |-> {}]
    /\ handled = <<>> /\ shown = <<>> /\ captured = [s \in Streams |-> <<>>]

Exit(outcome) == pc' = "exited" /\ result' = outcome
Continue(next) == pc' = next /\ UNCHANGED result

(***************************************************************************)
(* parseConfig                                                             *)
(***************************************************************************)
\* validateExecutionConfig
Accepts(command, flags) ==
    /\ flags.streamID # 0
    /\ flags.max_table_size <= MaxUint32 /\ flags.port <= MaxPort
    /\ flags.formatsKnown
    /\ flags.frameFilters \subseteq FrameNames /\ flags.directionFilters \subseteq Directions
    /\ flags.save => command \in {"request", "observe"}

NeedsScript(command) == command \in {"run", "validate"}

\* A flag may not parse, or stand where none is expected.
Parse ==
    /\ pc = "parse"
    /\ CASE line.command = "help" -> Exit("ok")
         [] line.command = "none" \/ ~line.parses \/ (NeedsScript(line.command) /\ ~line.scriptNamed) ->
               Exit("error")
         [] Executes(line.command) /\ ~Accepts(line.command, line.flags) -> Exit("error")
         [] OTHER -> Continue(IF NeedsScript(line.command) THEN "script"
                              ELSE IF Executes(line.command) THEN "output" ELSE "tool")
    /\ UNCHANGED <<options, rest>>

\* describeScriptActions, writeScriptTemplate
RunTool ==
    /\ pc = "tool"
    /\ \/ line.topic = "known" /\ Exit("ok")
       \/ line.topic = "all" /\ line.command = "describe" /\ Exit("ok")
       \/ Exit("error")    \* unknown, or the write fails
    /\ UNCHANGED <<options, rest>>

(***************************************************************************)
(* The script's [connection] table                                         *)
(***************************************************************************)
ConnectionFields == {"url", "scheme", "host", "authority", "path", "port", "insecure",
                     "send_goaway", "timeout_ms", "max_table_size"}

\* parseScriptFile and validateScript
ValidScript(script) == script.actionsValid /\ DOMAIN script.connection \subseteq ConnectionFields

InRange(table, field, range) == field \in DOMAIN table => table[field] \in range

\* Mutant: the table fills in what the flags left out, which is nothing.
FlagsFirst(flags, table) ==
    [f \in DOMAIN flags \cup DOMAIN table |-> IF f \in DOMAIN flags THEN flags[f] ELSE table[f]]

ConnectionInRange(table) ==
    /\ InRange(table, "port", 0..MaxPort)
    /\ InRange(table, "max_table_size", 0..MaxInt) /\ InRange(table, "timeout_ms", 0..MaxInt)

ApplyConnection(flags, table) ==
    [f \in DOMAIN flags |-> IF f \in DOMAIN table THEN table[f] ELSE flags[f]]

\* The file may be unreadable.
LoadScript ==
    /\ pc = "script"
    /\ \/ Exit("error") /\ UNCHANGED options
       \/ /\ ValidScript(line.script)
          /\ CASE line.command = "validate" -> Exit("ok") /\ UNCHANGED options
               [] line.command = "run" /\ ~ConnectionInRange(line.script.connection) ->
                     Exit("error") /\ UNCHANGED options
               [] OTHER ->
                     /\ options' = ApplyConnection(options, line.script.connection)
                     /\ Continue("output")
    /\ UNCHANGED rest

(***************************************************************************)
(* From the endpoint to the connection                                     *)
(***************************************************************************)
\* The stream whose response is saved; if none is named, the first that ends.
CaptureTarget ==
    IF line.command = "request" /\ options.streamFilter = {} THEN {Uint32(options.streamID)}
    ELSE {Uint32(s) : s \in options.streamFilter}

NewOutputController ==
    [directions |-> options.directionFilters, frames |-> options.frameFilters,
     streams |-> {Uint32(s) : s \in options.streamFilter},
     dataFormat |-> options.dataFormat, dataLimit |-> options.dataLimit,
     decodeHeaders |-> options.decodeHeaders, showHeaderBlock |-> options.showHeaderBlock,
     capture |-> options.save /\ line.command \in {"request", "observe"},
     target |-> CaptureTarget]

\* Mutant: the output file is made first.
PrepareOutputEagerly ==
    /\ fileMade' = options.saveOutput
    /\ IF ResolveEndpoint(options) = {}
       THEN Exit("error") /\ UNCHANGED <<endpoint, controller>>
       ELSE /\ endpoint' = ResolveEndpoint(options)
            /\ controller' = NewOutputController
            /\ Continue("dial")

\* resolveEndpoint, prepareOutputWriter (which may fail), newOutputController
PrepareOutput ==
    IF ResolveEndpoint(options) = {}
    THEN Exit("error") /\ UNCHANGED <<endpoint, controller, fileMade>>
    ELSE \/ /\ endpoint' = ResolveEndpoint(options)
            /\ controller' = NewOutputController
            /\ fileMade' = options.saveOutput
            /\ Continue("dial")
         \/ options.saveOutput /\ Exit("error") /\ UNCHANGED <<endpoint, controller, fileMade>>

Prepare ==
    /\ pc = "output"
    /\ PrepareOutput
    /\ UNCHANGED <<line, options, session, fields, handled, shown, captured>>

Dial ==
    /\ pc = "dial"
    /\ Exit("error") \/ Continue("running")
    /\ session' = {[stream |-> Uint32(options.streamID), table |-> Uint32(options.max_table_size)]}
    /\ UNCHANGED <<line, options, endpoint, controller, fileMade, fields, handled, shown, captured>>

(***************************************************************************)
(* The session                                                             *)
(***************************************************************************)
\* readRequestBody and buildRequestFields, after the handshake.
BuildRequest ==
    /\ pc = "running" /\ line.command = "request" /\ fields = <<>>
    /\ \/ Exit("error") /\ UNCHANGED fields    \* the body cannot be read
       \/ IF options.twoBodies \/ MalformedHeader \in ToSet(options.headers)
          THEN Exit("error") /\ UNCHANGED fields
          ELSE \E body \in Bodies : /\ fields' = BuildRequestFields(options.headers, body)
                                    /\ Continue("running")
    /\ UNCHANGED <<line, options, endpoint, controller, fileMade, session, handled, shown, captured>>

\* The event is hidden or printed, or the printing fails or panics.
Display(event, shows) ==
    \/ ~shows /\ Continue("running") /\ handled' = Append(handled, event) /\ UNCHANGED shown
    \/ /\ shows /\ ~RenderPanics(controller, event)
       /\ Continue("running")
       /\ handled' = Append(handled, event) /\ shown' = Append(shown, Line(controller, event))
    \/ shows /\ RenderPanics(controller, event) /\ Exit("panic") /\ UNCHANGED <<handled, shown>>
    \/ shows /\ Exit("error") /\ UNCHANGED <<handled, shown>>

\* PrintNotice, for the preface and for sleep, which are no frames.
PrintNotice(event) ==
    /\ pc = "running" /\ Len(handled) < MaxEvents
    /\ event.type = "notice"
    /\ Display(event, ShowsDirection(controller, event.direction))
    /\ UNCHANGED <<line, options, endpoint, controller, fileMade, session, fields, captured>>

\* What the options must come to for the session to succeed, and is looked at
\* only after the handshake: 8 bytes of --ping-data, and a request's fields.
Provided ==
    /\ line.command = "ping" => options.pingDataFits
    /\ line.command = "request" => fields # <<>>

\* If the closing GOAWAY cannot be printed, nobody is told.
HandleSent(event) ==
    /\ pc = "running" /\ Len(handled) < MaxEvents
    /\ event.direction = "sent" /\ event.type # "notice"
    /\ \/ Display(event, Shows(controller, event))
       \/ /\ event.type = "goaway" /\ Provided /\ Shows(controller, event)
          /\ Exit("ok") /\ UNCHANGED <<handled, shown>>
    /\ UNCHANGED <<line, options, endpoint, controller, fileMade, session, fields, captured>>

\* Mutant: an event that is not shown is not captured.
CaptureShown(event) ==
    IF controller.capture /\ event.type = "data" /\ Shows(controller, event)
    THEN [captured EXCEPT ![event.stream] = Append(@, event)] ELSE captured

\* Every stream's, for which one is saved may turn out later.
CaptureData(event) ==
    IF controller.capture /\ event.type = "data"
    THEN [captured EXCEPT ![event.stream] = Append(@, event)] ELSE captured

HandleReceived(event) ==
    /\ pc = "running" /\ Len(handled) < MaxEvents
    /\ event.direction = "received"
    /\ IF event.decodeError /\ (controller.decodeHeaders \/ controller.capture)
       THEN Exit("error") /\ UNCHANGED <<handled, shown, captured>>
       ELSE Display(event, Shows(controller, event)) /\ captured' = CaptureData(event)
    /\ UNCHANGED <<line, options, endpoint, controller, fileMade, session, fields>>

\* The session ends, in success or not.
EndSession ==
    /\ pc = "running"
    /\ Exit("error") \/ (Provided /\ Exit("ok"))
    /\ UNCHANGED <<options, rest>>

Terminated == pc = "exited" /\ UNCHANGED vars

Next ==
    \/ Parse \/ RunTool \/ LoadScript \/ Prepare \/ Dial
    \/ BuildRequest \/ EndSession \/ Terminated
    \/ \E event \in Events : PrintNotice(event) \/ HandleSent(event) \/ HandleReceived(event)

Spec == Init /\ [][Next]_vars
=============================================================================
