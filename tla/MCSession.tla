------------------------------ MODULE MCSession -----------------------------
(***************************************************************************)
(* Small instances of Session: two streams of the peer besides the         *)
(* connection, a handful of frames per command, one or two command lines.  *)
(***************************************************************************)
EXTENDS SessionClaims

MCStreamIds == {0, 1, 3}
MCItem == {"field", "trailer", "byte", "more", "bad"}

\* One command line; the others differ in a field or two.
Plain ==
    [mode |-> "request", streamID |-> 1, fields |-> <<"field">>, body |-> <<>>,
     pingData |-> <<"byte">>, maxRecv |-> 0, decodeHeaders |-> TRUE, save |-> {},
     streamFilter |-> {}, sendGoAway |-> TRUE, timeout |-> FALSE]

Continuation(s, flags, block) ==
    [type |-> "CONTINUATION", stream |-> s, flags |-> flags, payload |-> block]
PushPromise(s, flags, block) ==
    [type |-> "PUSH_PROMISE", stream |-> s, flags |-> flags, payload |-> block]
Malformed == [type |-> "MALFORMED", stream |-> 0, flags |-> {}, payload |-> <<>>]

Settings == SettingsFrame({})
SettingsAck == SettingsFrame({"ACK"})

\* Control traffic around a request with a body and one without, and a command
\* line of each other kind; a body is kept, the GOAWAY not always sent.
ControlConfigs ==
    {[Plain EXCEPT !.body = <<"byte">>],
     [Plain EXCEPT !.decodeHeaders = FALSE, !.sendGoAway = FALSE],
     [Plain EXCEPT !.mode = "ping"],
     [Plain EXCEPT !.mode = "observe", !.maxRecv = 1, !.timeout = TRUE]}
CommonFrames ==
    {Settings, PingFrame({}, <<"byte">>), PingFrame({"ACK"}, <<"byte">>), GoAwayFrame,
     DataFrame(1, {"END_STREAM"}, <<"byte">>), Malformed}
ControlFrames ==
    [mode \in Modes |->
        IF mode = "request"
        THEN CommonFrames \cup {SettingsAck, HeadersFrame(1, {"END_HEADERS"}, <<"field">>),
                                DataFrame(3, {"END_STREAM"}, <<"byte">>)}
        ELSE CommonFrames \cup {HeadersFrame(1, {"END_HEADERS"}, <<"bad">>)}]
ControlBounds == [mode \in Modes |-> IF mode = "request" THEN 4 ELSE 3]

\* Response headers in every shape, and a capture of them.
HeaderConfigs ==
    {[Plain EXCEPT !.save = {"headers"}],
     [Plain EXCEPT !.decodeHeaders = FALSE]}
HeaderFrames ==
    {Settings, HeadersFrame(1, {"END_STREAM"}, <<"field">>),
     HeadersFrame(1, {"END_STREAM", "END_HEADERS"}, <<>>),
     HeadersFrame(1, {"END_HEADERS"}, <<"bad">>),
     HeadersFrame(3, {"END_STREAM"}, <<"field">>),
     HeadersFrame(3, {"END_STREAM", "END_HEADERS"}, <<"field">>),
     Continuation(1, {"END_HEADERS"}, <<"trailer">>), Continuation(1, {}, <<"trailer">>),
     PushPromise(1, {"END_HEADERS"}, <<"trailer">>),
     DataFrame(1, {"END_STREAM"}, <<"byte">>)}

\* ping and observe, with every frame that one of them waits for, answers,
\* counts or captures; ping data of the right and of the wrong size.
WaitConfigs ==
    {[Plain EXCEPT !.mode = "ping", !.decodeHeaders = FALSE],
     [Plain EXCEPT !.mode = "ping", !.pingData = <<"byte", "byte">>],
     [Plain EXCEPT !.mode = "observe", !.maxRecv = 2, !.save = {"body", "headers"}],
     [Plain EXCEPT !.mode = "observe", !.streamFilter = {3}, !.save = {"body"}]}
WaitFrames ==
    {Settings, SettingsAck, GoAwayFrame, PingFrame({}, <<"byte">>), PingFrame({}, <<"more">>),
     PingFrame({"ACK"}, <<"byte">>), PingFrame({"ACK"}, <<"more">>),
     HeadersFrame(1, {"END_HEADERS"}, <<"field">>), HeadersFrame(1, {"END_HEADERS"}, <<"bad">>),
     DataFrame(1, {}, <<"byte">>), DataFrame(1, {"END_STREAM"}, <<"more">>),
     DataFrame(3, {"END_STREAM"}, <<"byte">>)}

\* The two together.
FileConfigs == HeaderConfigs \cup WaitConfigs
FileFrames == [mode \in Modes |-> IF mode = "request" THEN HeaderFrames ELSE WaitFrames]
FileBounds == [mode \in Modes |-> IF mode = "request" THEN 5 ELSE 4]

\* Command lines and frames that reach the claims of SessionClaims.
RequestPlain == {Plain}
ObservePlain == {[Plain EXCEPT !.mode = "observe", !.timeout = TRUE]}
ObserveBody == {[Plain EXCEPT !.mode = "observe", !.save = {"body"}]}
ClaimFrames ==
    [mode \in Modes |->
        {Settings, GoAwayFrame, HeadersFrame(1, {"END_HEADERS"}, <<"field">>),
         DataFrame(1, {"END_STREAM"}, <<"byte">>)}]
RequestHeaders == {[Plain EXCEPT !.save = {"headers"}]}
PromiseFrames ==
    [mode \in Modes |->
        {Settings, PushPromise(1, {"END_HEADERS"}, <<"trailer">>),
         HeadersFrame(1, {"END_STREAM", "END_HEADERS"}, <<"field">>)}]
ClaimBounds == [mode \in Modes |-> 4]
=============================================================================
