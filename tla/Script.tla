------------------------------- MODULE Script -------------------------------
(***************************************************************************)
(* The actions of a script: which tables validateScript accepts            *)
(* (script_spec.go), how `repeat` and `stream_id_step` vary an action      *)
(* (script.go), and which frame buildScriptFrame makes of it               *)
(* (script_frame.go).                                                      *)
(*                                                                         *)
(* An action is a table, a function on the fields that the file sets, with *)
(* the values they have once their text is parsed.                         *)
(***************************************************************************)
EXTENDS Frames, Integers

CONSTANTS
    WrongKind,      \* a value of another TOML kind than the field's
    Unparsable,     \* bad hex, header, setting, flag or error code
    MaxUint32,      \* 2^32 - 1
    MaxUint24,      \* 2^24 - 1
    MaxUint8,       \* 2^8 - 1
    PingSize,       \* items in the data of a PING: 8 bytes
    PartSize,       \* octets of the parts of a payload of fixed size
    MaxFieldSize    \* octets of a header field, encoded, at most

ASSUME WidthsAssumption ==
    /\ MaxUint8 \in Nat /\ MaxUint24 \in Nat /\ MaxUint32 \in Nat /\ PingSize \in Nat
    /\ MaxUint8 < MaxUint24 /\ MaxUint24 < MaxUint32

\* The octets before the content of a payload, of the pad length and the
\* priority that flags announce, and of one setting.
Parts == {"settings", "headers", "continuation", "data", "ping", "goaway", "window_update",
          "rst_stream", "priority", "push_promise", "raw", "PADDED", "PRIORITY", "setting"}

ASSUME SizesAssumption == PartSize \in [Parts -> Nat] /\ MaxFieldSize \in Nat \ {0}

Uint64 == (MaxUint32 + 1) * (MaxUint32 + 1)

Fits32(v) == v \in 0..MaxUint32
Fits8(v) == v \in 0..MaxUint8

(***************************************************************************)
(* scriptActionSpecs                                                       *)
(***************************************************************************)
Fields(required, optional) == [required |-> required, optional |-> optional]

ActionSpecs ==
    [preface       |-> Fields({}, {}),
     sleep         |-> Fields({"duration_ms"}, {}),
     settings      |-> Fields({}, {"settings", "flags"}),
     headers       |-> Fields({"stream_id"}, {"flags", "headers", "block_hex", "stream_dep",
                                              "weight", "exclusive", "pad_length"}),
     continuation  |-> Fields({"stream_id", "block_hex"}, {"flags"}),
     data          |-> Fields({"stream_id"}, {"flags", "data", "data_hex", "pad_length"}),
     ping          |-> Fields({}, {"flags", "data", "data_hex"}),
     goaway        |-> Fields({"last_stream_id"}, {"error_code", "debug_data", "debug_hex"}),
     window_update |-> Fields({"stream_id", "increment"}, {}),
     rst_stream    |-> Fields({"stream_id"}, {"error_code"}),
     priority      |-> Fields({"stream_id", "stream_dep", "weight"}, {"exclusive"}),
     push_promise  |-> Fields({"stream_id", "promised_stream_id"},
                              {"flags", "headers", "block_hex", "pad_length"}),
     raw           |-> Fields({"frame_type", "stream_id", "flags", "payload_hex"}, {"length"}),
     receive       |-> Fields({}, {"count", "until", "stream_id", "ack_settings", "ack_ping"})]

CommonFields == {"type", "repeat", "stream_id_step"}

FieldsOf(type) == ActionSpecs[type].required \cup ActionSpecs[type].optional

TextFields == {"settings", "flags", "headers", "block_hex", "data_hex", "debug_hex",
               "payload_hex", "error_code"}

UntilValues == {"settings", "settings_ack", "ping_ack", "goaway", "end_stream"}

(***************************************************************************)
(* Checks that validation and execution share                              *)
(***************************************************************************)
Has(a, field) == field \in DOMAIN a

ExactlyOne(a, left, right) == Has(a, left) # Has(a, right)

NotBoth(a, left, right) == ~(Has(a, left) /\ Has(a, right))

TextParses(a) == \A field \in DOMAIN a \cap TextFields : a[field] # Unparsable

FlagsOf(a) == IF Has(a, "flags") THEN a.flags ELSE {}

PriorityFits(a) ==
    /\ Has(a, "stream_dep") /\ Fits32(a.stream_dep)
    /\ Has(a, "weight") /\ Fits8(a.weight)

PingData(a) == IF Has(a, "data") THEN a.data ELSE a.data_hex

\* What both validateScriptAction and buildScriptFrame look at.
ContentFits(a) ==
    /\ TextParses(a)
    /\ a.type \in {"headers", "push_promise"} => ExactlyOne(a, "headers", "block_hex")
    /\ a.type = "headers" /\ "PRIORITY" \in FlagsOf(a) => PriorityFits(a)
    /\ a.type = "priority" => PriorityFits(a)
    /\ a.type = "data" => NotBoth(a, "data", "data_hex")
    /\ a.type = "goaway" => NotBoth(a, "debug_data", "debug_hex")
    /\ a.type = "ping" => /\ Has(a, "data") # Has(a, "data_hex")
                          /\ Len(PingData(a)) = PingSize
    /\ a.type = "window_update" => Fits32(a.increment)
    /\ a.type = "raw" => /\ Fits8(a.flags)
                         /\ Has(a, "length") => Fits32(a.length)

(***************************************************************************)
(* Validation                                                              *)
(***************************************************************************)
ValidTable(a) ==
    /\ Has(a, "type") /\ a.type \in DOMAIN ActionSpecs
    /\ DOMAIN a \subseteq FieldsOf(a.type) \cup CommonFields
    /\ \A field \in DOMAIN a : a[field] # WrongKind
    /\ ActionSpecs[a.type].required \subseteq DOMAIN a

Count(a) == IF Has(a, "repeat") THEN a.repeat ELSE 1

\* Mutant: one iteration too many.
MaxIterationsOffByOne(streamID, step) == (MaxUint32 - streamID) \div step + 2

MaxIterations(streamID, step) == (MaxUint32 - streamID) \div step + 1

\* The last iteration of a stepped action still has a 32-bit stream id.
StepFits(streamID, step, count) ==
    step = 0 \/ count = 1 \/ count <= MaxIterations(streamID, step)

ValidRepeat(a) ==
    /\ Has(a, "repeat") => a.repeat > 0
    /\ Has(a, "stream_id_step") =>
          /\ Fits32(a.stream_id_step) /\ Has(a, "repeat")
          /\ "stream_id" \in FieldsOf(a.type) /\ Has(a, "stream_id") /\ Fits32(a.stream_id)
          /\ StepFits(a.stream_id, a.stream_id_step, a.repeat)

ValidReceive(a) ==
    /\ NotBoth(a, "count", "until")
    /\ Has(a, "count") => a.count > 0
    /\ Has(a, "until") =>
          a.until \in UntilValues /\ (a.until = "end_stream" => Has(a, "stream_id"))

\* Mutant: the content is not looked at before the frame is built.
ValidActionFieldsOnly(a) ==
    /\ ValidTable(a)
    /\ ValidRepeat(a)
    /\ a.type = "sleep" => a.duration_ms > 0
    /\ a.type = "receive" => ValidReceive(a)

\* Of the numbers, only those below have their range checked; stream ids,
\* pad lengths and frame types have not.
ValidAction(a) ==
    /\ ValidTable(a)
    /\ ValidRepeat(a)
    /\ ContentFits(a)
    /\ a.type = "sleep" => a.duration_ms > 0
    /\ a.type = "receive" => ValidReceive(a)

ValidScript(actions) == \A i \in DOMAIN actions : ValidAction(actions[i])

(***************************************************************************)
(* Iterations                                                              *)
(***************************************************************************)
\* uint64(base) + uint64(step) * uint64(iteration), as Go computes it.
StreamAt(streamID, step, iteration) == (streamID + ((step * iteration) % Uint64)) % Uint64

\* Mutant: the iterations are counted from one.
IterationFromOne(a, iteration) ==
    IF Has(a, "stream_id_step")
    THEN [a EXCEPT !.stream_id = StreamAt(@, a.stream_id_step, iteration + 1)]
    ELSE a

Iteration(a, iteration) ==
    IF Has(a, "stream_id_step")
    THEN [a EXCEPT !.stream_id = StreamAt(@, a.stream_id_step, iteration)]
    ELSE a

Overflows(a) == Has(a, "stream_id_step") /\ a.stream_id > MaxUint32

(***************************************************************************)
(* buildScriptFrame                                                        *)
(***************************************************************************)
\* Mutant: a stream id is cast to 32 bits unseen.
RangesFitBytes(a) ==
    \A field \in DOMAIN a \cap {"frame_type", "pad_length"} : Fits8(a[field])

\* Ranges that only building a frame checks.
RangesFit(a) ==
    /\ \A field \in DOMAIN a \cap {"stream_id", "last_stream_id", "promised_stream_id"} :
          Fits32(a[field])
    /\ \A field \in DOMAIN a \cap {"frame_type", "pad_length"} : Fits8(a[field])

Builds(a) ==
    /\ ActionSpecs[a.type].required \subseteq DOMAIN a
    /\ ContentFits(a)
    /\ RangesFit(a)

FieldOr(a, fields) ==
    IF DOMAIN a \cap fields = {} THEN <<>> ELSE a[CHOOSE field \in DOMAIN a \cap fields : TRUE]

(***************************************************************************)
(* The length of a frame                                                   *)
(***************************************************************************)
Flagged(a, flag) ==
    /\ a.type \in IF flag = "PADDED" THEN {"data", "headers", "push_promise"} ELSE {"headers"}
    /\ flag \in FlagsOf(a)

PadLength(a) == IF Has(a, "pad_length") THEN a.pad_length ELSE 0

\* All of a payload but its content: Payload() of the frame.
FramingSize(a) ==
    PartSize[a.type]
    + (IF Flagged(a, "PADDED") THEN PartSize["PADDED"] + PadLength(a) ELSE 0)
    + (IF Flagged(a, "PRIORITY") THEN PartSize["PRIORITY"] ELSE 0)

OctetFields == {"block_hex", "data", "data_hex", "debug_data", "debug_hex", "payload_hex"}

\* How long a header list is, once encoded, depends on the dynamic table: any
\* size from an octet for each field up.
ContentSizes(a) ==
    IF Has(a, "headers") THEN Len(a.headers)..(Len(a.headers) * MaxFieldSize)
    ELSE IF Has(a, "settings") THEN {Len(a.settings) * PartSize["setting"]}
    ELSE {Len(FieldOr(a, OctetFields))}

\* The length in the header of the frame: a raw action may give it.
Lengths(a) ==
    IF a.type = "raw" /\ Has(a, "length") THEN {a.length}
    ELSE {FramingSize(a) + size : size \in ContentSizes(a)}

\* Header.MarshalBinary has 24 bits for the length.
Marshals(length) == length <= MaxUint24

FrameType ==
    [settings |-> "SETTINGS", headers |-> "HEADERS", continuation |-> "CONTINUATION",
     data |-> "DATA", ping |-> "PING", goaway |-> "GOAWAY", push_promise |-> "PUSH_PROMISE",
     window_update |-> "OTHER", rst_stream |-> "OTHER", priority |-> "OTHER", raw |-> "OTHER"]

PayloadFields == {"headers", "block_hex", "data", "data_hex", "payload_hex"}

BuildFrame(a) ==
    [type    |-> FrameType[a.type],
     stream  |-> IF Has(a, "stream_id") THEN a.stream_id ELSE 0,
     flags   |-> IF a.type = "raw" THEN {} ELSE FlagsOf(a) \cap Flags,
     payload |-> FieldOr(a, PayloadFields)]
=============================================================================
