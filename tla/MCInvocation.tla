---------------------------- MODULE MCInvocation ----------------------------
(***************************************************************************)
(* Command lines, scripts and events: 32 bits become 3, int 4 bits and     *)
(* uint 5, ports end at 5 and 443 is 4.                                    *)
(***************************************************************************)
EXTENDS InvocationClaims

Flags ==
    [url |-> NoUrl, scheme |-> "https", host |-> "a", port |-> DefaultPort, authority |-> "",
     path |-> "/p", streamID |-> 1, max_table_size |-> 2, timeout_ms |-> 1,
     streamFilter |-> {}, frameFilters |-> {}, directionFilters |-> {},
     dataLimit |-> 0, dataFormat |-> "both", decodeHeaders |-> TRUE, showHeaderBlock |-> TRUE,
     formatsKnown |-> TRUE, save |-> FALSE, saveOutput |-> FALSE, twoBodies |-> FALSE,
     headers |-> <<>>, pingDataFits |-> TRUE]

NoScript == [actionsValid |-> TRUE, connection |-> [f \in {} |-> 0]]
Line0 == [command |-> "request", parses |-> TRUE, topic |-> "known", scriptNamed |-> TRUE,
          script |-> NoScript, flags |-> Flags]
With(command, flags) == [Line0 EXCEPT !.command = command, !.flags = flags]
Run(flags, connection) ==
    [With("run", flags) EXCEPT !.script = [actionsValid |-> TRUE, connection |-> connection]]

Filtered ==
    {With(command, [Flags EXCEPT !.frameFilters = frames, !.directionFilters = directions,
                                 !.streamFilter = streams, !.save = save, !.decodeHeaders = ~save]) :
        command \in {"request", "observe"},
        frames \in {{}, {"data"}, {"headers", "settings"}, {"bogus"}},
        directions \in {{}, {"sent"}, {"received"}, {"up"}},
        streams \in {{}, {0}, {3}, {9}}, save \in BOOLEAN}

Rendered ==
    {With(command, [Flags EXCEPT !.dataLimit = limit, !.dataFormat = format,
                                 !.showHeaderBlock = block, !.decodeHeaders = block]) :
        command \in {"ping", "run"}, limit \in {0, 1, 2, 15, 16, 31},
        format \in {"text", "hex", "both"}, block \in BOOLEAN}

MCUrls == {NoUrl, Url(TRUE, "https", "b", {}, ""), Url(TRUE, "https", "b", {2}, "/q"),
         Url(TRUE, "https", "b", {4}, "/q"), Url(TRUE, "https", "b", {6}, ""),
         Url(TRUE, "http", "b", {}, ""), Url(TRUE, "https", "", {}, ""), Url(FALSE, "", "", {}, "/q")}

TargetFlags ==
    {[Flags EXCEPT !.url = url, !.port = port, !.authority = authority, !.path = path] :
        url \in MCUrls, port \in {2, 4, 6}, authority \in {"", "z"}, path \in {"", "/p"}}
    \cup {[Flags EXCEPT !.scheme = "http"], [Flags EXCEPT !.saveOutput = TRUE],
          [Flags EXCEPT !.scheme = "http", !.saveOutput = TRUE]}

Connections ==
    {<<>>, [host |-> "c"], [host |-> "c", port |-> 2], [port |-> 6], [port |-> -1],
     [url |-> Url(TRUE, "https", "d", {}, "")], [url |-> NoUrl, path |-> "/s"],
     [authority |-> "y"], [authority |-> ""], [scheme |-> "http"],
     [max_table_size |-> -1], [max_table_size |-> 9, timeout_ms |-> 0], [timeout_ms |-> -1],
     [colour |-> 1]}

Targeted == {With("request", f) : f \in TargetFlags} \cup {Run(f, c) : f \in TargetFlags, c \in Connections}

HeaderLists == UNION {[1..n -> {":path", "content-length", "x", MalformedHeader}] : n \in 0..3}
PingData == {With("ping", [Flags EXCEPT !.pingDataFits = FALSE, !.saveOutput = s]) : s \in BOOLEAN}

Fielded == {With("request", [Flags EXCEPT !.headers = h, !.twoBodies = t]) :
               h \in HeaderLists, t \in BOOLEAN}

Numbered == {With(c, [Flags EXCEPT !.streamID = s, !.max_table_size = t, !.formatsKnown = k, !.save = k]) :
               c \in {"request", "ping", "run"}, s \in {0, 1, 7, 8}, t \in {0, 7, 8}, k \in BOOLEAN}

Tools == [command : {"describe", "template", "validate", "run", "help", "none"}, parses : BOOLEAN,
          topic : {"known", "all", "unknown"}, scriptNamed : BOOLEAN,
          script : [actionsValid : BOOLEAN, connection : {<<>>, [colour |-> 1]}], flags : {Flags}]

\* Lines about the events, about the target and the rest, and about numbers.
MCCommandLines == Filtered \cup Rendered \cup Targeted \cup Fielded \cup PingData
                      \cup Tools
NumberedLines == Numbered

Event(type, direction, stream, payload, decodeError) ==
    [type |-> type, direction |-> direction, stream |-> stream, payload |-> payload,
     decodeError |-> decodeError]

MCEvents ==
    {Event("notice", "sent", 0, <<>>, FALSE),
     Event("data", "received", 1, <<"first", "second", "char">>, FALSE),
     Event("data", "received", 3, <<"char", "first", "second">>, FALSE),
     Event("data", "received", 1, <<"none", "char">>, FALSE),
     Event("data", "sent", 1, <<>>, FALSE),
     Event("headers", "received", 1, <<"none", "none">>, FALSE),
     Event("headers", "received", 3, <<"none">>, TRUE),
     Event("continuation", "sent", 1, <<"none", "char">>, TRUE),
     Event("settings", "received", 0, <<>>, FALSE),
     Event("window_update", "sent", 3, <<"char", "char">>, FALSE),
     Event("goaway", "sent", 0, <<>>, FALSE),
     Event("goaway", "received", 0, <<"char", "char">>, FALSE)}

MCBodies == {0, 1}
=============================================================================
