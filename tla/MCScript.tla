------------------------------ MODULE MCScript ------------------------------
(***************************************************************************)
(* Small instances of ScriptRun: bytes up to 1, 24-bit numbers up to 3,    *)
(* 32-bit numbers up to 7, so that every width is exceeded.                *)
(***************************************************************************)
EXTENDS ScriptProperties

MCStreamIds == 0..7
MCItem == {"field", "byte", "bad"}
MCPartSize == [part \in Parts |-> IF part \in {"continuation", "data", "raw", "settings"} THEN 0 ELSE 1]

Preface == [type |-> "preface"]
Nap == [type |-> "sleep", duration_ms |-> 1]

(***************************************************************************)
(* Tables that a script file may hold, right and wrong                     *)
(***************************************************************************)
Stepped ==
    [type : {"window_update"}, increment : {1, 8}, stream_id : {-1, 0, 1, 5, 8}]
    \cup [type : {"window_update"}, increment : {1}, stream_id : {1, 6}, repeat : 0..4]
    \cup [type : {"window_update"}, increment : {1}, stream_id : {-1, 0, 1, 6}, repeat : 0..8,
          stream_id_step : {0, 1, 2, 3, 6, 8}]
    \cup [type : {"continuation"}, block_hex : {<<"byte">>}, stream_id : {1},
          stream_id_step : {2}]
    \cup [type : {"settings"}, repeat : {2}, stream_id_step : {1}]
    \cup [type : {"sleep"}, duration_ms : {0, 1}, repeat : {2}]

Blocks ==
    [type : {"headers"}, stream_id : {1, WrongKind}, headers : {<<"field">>, Unparsable}]
    \cup [type : {"headers"}, stream_id : {1, 8}, flags : {{"END_STREAM", "PRIORITY"}, Unparsable},
          block_hex : {<<"byte">>}]
    \cup [type : {"headers"}, stream_id : {1}, flags : {{"PRIORITY"}, {}},
          block_hex : {<<"byte">>}, stream_dep : {7, 8}, weight : {1, 2}, pad_length : {1, 2}]
    \cup [type : {"headers", "push_promise"}, stream_id : {1}]
    \cup [type : {"headers"}, stream_id : {1}, headers : {<<"field">>}, block_hex : {<<"byte">>}]
    \cup [type : {"push_promise"}, stream_id : {1}, promised_stream_id : {2, 8},
          headers : {<<"field">>}]
    \cup [type : {"continuation"}, stream_id : {1}, block_hex : {<<"byte">>, Unparsable}]

Others ==
    [type : {"data"}, stream_id : {1}, data : {<<"byte">>}]
    \cup [type : {"data"}, stream_id : {1}, data : {<<"byte">>}, data_hex : {<<"byte">>}]
    \cup [type : {"ping"}, data : {<<"byte">>, <<>>}]
    \cup [type : {"ping"}, data_hex : {<<"byte">>, Unparsable}, flags : {{"ACK"}}]
    \cup [type : {"ping", "settings", "reset", WrongKind}]
    \cup [type : {"goaway"}, last_stream_id : {0, 8}, error_code : {"NO_ERROR", Unparsable}]
    \cup [type : {"goaway"}, last_stream_id : {0}, debug_data : {<<>>}, debug_hex : {<<>>}]
    \cup [type : {"rst_stream"}, stream_id : {1, 8}]
    \cup [type : {"priority"}, stream_id : {1}, stream_dep : {0, 8}, weight : {1, 2}]
    \cup [type : {"raw"}, frame_type : {1, 2}, stream_id : {1}, flags : {1, 2},
          payload_hex : {<<"byte">>}]
    \cup [type : {"raw"}, frame_type : {1}, stream_id : {1}, flags : {1}, length : {3, 4, 8},
          payload_hex : {<<>>}]
    \cup [type : {"receive"}, count : {0, 1, 2}]
    \cup [type : {"receive"}, count : {1}, until : {"goaway"}]
    \cup [type : {"receive"}, until : {"goaway", "never", "end_stream"}]
    \cup [type : {"receive"}, until : {"end_stream"}, stream_id : {1, 8}]

\* Payloads around the 24 bits of a length.
Bytes(n) == [i \in 1..n |-> "byte"]

Long ==
    [type : {"data"}, stream_id : {1}, data : {Bytes(3), Bytes(4)}]
    \cup [type : {"data"}, stream_id : {1}, flags : {{}, {"PADDED"}}, pad_length : {1},
          data_hex : {Bytes(1), Bytes(2)}]
    \cup [type : {"continuation"}, stream_id : {1}, block_hex : {Bytes(3), Bytes(4)}]
    \cup [type : {"headers"}, stream_id : {1}, flags : {{"PADDED"}}, stream_dep : {1},
          weight : {1}, block_hex : {Bytes(1), Bytes(2)}]
    \cup [type : {"headers"}, stream_id : {1}, headers : {<<"field", "field">>}, repeat : {2}]
    \cup [type : {"goaway"}, last_stream_id : {0}, debug_data : {Bytes(2), Bytes(3)}]
    \cup [type : {"settings"}, settings : {<<"setting", "setting", "setting">>}]
    \cup [type : {"raw"}, frame_type : {1}, stream_id : {1}, flags : {1},
          payload_hex : {Bytes(3), Bytes(4)}]
    \cup [type : {"raw"}, frame_type : {1}, stream_id : {1}, flags : {1}, length : {3},
          payload_hex : {Bytes(4)}]

\* A preface, one such table, and one more frame to see what comes after.
TableScripts == {<<Preface, a, [type |-> "settings"]>> : a \in Stepped \cup Blocks \cup Others \cup Long}

(***************************************************************************)
(* Scripts that receive                                                    *)
(***************************************************************************)
Await(until) == [type |-> "receive", until |-> until]

ReceiveScripts ==
    {<<[type |-> "receive", until |-> "settings", ack_settings |-> TRUE],
       [type |-> "receive", until |-> "end_stream", stream_id |-> 1, stream_id_step |-> 2,
        repeat |-> 2, ack_ping |-> TRUE],
       Nap>>,
     <<[type |-> "receive", count |-> 2, ack_ping |-> TRUE, ack_settings |-> TRUE],
       [type |-> "receive", repeat |-> 2]>>,
     <<Await("ping_ack"), Await("settings_ack")>>,
     <<[type |-> "receive", until |-> "end_stream", stream_id |-> 1],
       [type |-> "receive", until |-> "end_stream", stream_id |-> 1],
       Await("goaway")>>,
     <<Preface, Nap, [type |-> "settings", repeat |-> 3]>>}

ReceiveFrames ==
    {SettingsFrame({}), SettingsFrame({"ACK"}), PingFrame({}, <<"byte">>),
     PingFrame({"ACK"}, <<"byte">>), GoAwayFrame,
     HeadersFrame(1, {"END_STREAM"}, <<"field">>),
     HeadersFrame(3, {"END_STREAM", "END_HEADERS"}, <<"field">>),
     [type |-> "CONTINUATION", stream |-> 1, flags |-> {"END_HEADERS"}, payload |-> <<"field">>],
     DataFrame(1, {"END_STREAM"}, <<"byte">>),
     [type |-> "MALFORMED", stream |-> 0, flags |-> {}, payload |-> <<>>]}

MCScripts == TableScripts \cup ReceiveScripts
=============================================================================
