------------------------------- MODULE Output -------------------------------
(***************************************************************************)
(* What the output controller shows of an event: the filters of            *)
(* cmd/mh2c/output_filter.go and the rendering of payloads of              *)
(* output_json.go and internal/framefmt, whose two formats differ in       *)
(* layout only.                                                            *)
(***************************************************************************)
EXTENDS Integers, Sequences, SequencesExt, FiniteSetsExt

CONSTANTS MaxUint32, MaxInt, MaxUint    \* the widths: 32, 63 and 64 bits

ASSUME OutputWidths == /\ {MaxUint32, MaxInt, MaxUint} \subseteq Nat
                       /\ MaxUint32 < MaxInt /\ MaxUint = 2 * MaxInt + 1

\* uint32(n) and int(n) for a uint.
Uint32(n) == n % (MaxUint32 + 1)
AsInt(n) == IF n <= MaxInt THEN n ELSE n - (MaxUint + 1)

FrameNames == {"data", "headers", "priority", "rst_stream", "settings", "push_promise",
               "ping", "goaway", "window_update", "continuation", "raw"}
Directions == {"sent", "received"}

(***************************************************************************)
(* Filters.  A controller is the record newOutputController makes.         *)
(***************************************************************************)
ShowsDirection(controller, direction) ==
    controller.directions = {} \/ direction \in controller.directions

Shows(controller, event) ==
    /\ ShowsDirection(controller, event.direction)
    /\ controller.frames = {} \/ event.type \in controller.frames
    /\ controller.streams = {} \/ event.stream \in controller.streams \cup {0}

(***************************************************************************)
(* Payloads.  A byte is a character of its own, the first or the second    *)
(* byte of a longer one, or part of no character.                          *)
(***************************************************************************)
Byte == {"char", "first", "second", "none"}

ValidUTF8(data) ==
    \A i \in DOMAIN data :
        /\ data[i] # "none"
        /\ data[i] = "first" => i < Len(data) /\ data[i + 1] = "second"
        /\ data[i] = "second" => i > 1 /\ data[i - 1] = "first"

Prefix(data, n) == SubSeq(data, 1, n)

\* Mutant: cut in the middle of a character.
CutAnywhere(data) == data

\* Shorter and shorter until it is valid.
TruncateUTF8Prefix(data) ==
    Prefix(data, Max({n \in 0..Len(data) : ValidUTF8(Prefix(data, n))}))

Exceeds(data, limit) == limit > 0 /\ Len(data) > AsInt(limit)

\* data[:limit] panics beyond the data.
Panics(data, limit) == Exceeds(data, limit) /\ limit > Len(data)

Shown(bytes, truncated) == [bytes |-> bytes, truncated |-> truncated, text |-> TRUE]
NonUTF8(truncated) == [bytes |-> <<>>, truncated |-> truncated, text |-> FALSE]

TruncateHex(data, limit) ==
    IF Exceeds(data, limit) THEN Shown(Prefix(data, limit), TRUE) ELSE Shown(data, FALSE)

DataText(data, limit) ==
    LET seen == IF Exceeds(data, limit) THEN TruncateUTF8Prefix(Prefix(data, limit)) ELSE data
    IN  IF ValidUTF8(seen) THEN Shown(seen, Exceeds(data, limit))
        ELSE NonUTF8(Exceeds(data, limit))

HasData(event) == event.type \in {"data", "ping", "goaway"}
HasBlock(event) == event.type \in {"headers", "continuation", "push_promise"}
NoDebugData(event) == event.type = "goaway" /\ event.payload = <<>>

RendersHex(controller, event) ==
    /\ event.type # "notice"
    /\ HasData(event) => controller.dataFormat # "text" /\ ~NoDebugData(event)
    /\ HasBlock(event) => controller.showHeaderBlock

RendersText(controller, event) ==
    HasData(event) /\ controller.dataFormat # "hex" /\ event.payload # <<>>

RenderPanics(controller, event) ==
    /\ RendersHex(controller, event) \/ RendersText(controller, event)
    /\ Panics(event.payload, controller.dataLimit)

\* A line has the payload in hexadecimal, as text, both or neither.
Line(controller, event) ==
    [event |-> event,
     hex   |-> IF RendersHex(controller, event)
               THEN {TruncateHex(event.payload, controller.dataLimit)} ELSE {},
     text  |-> IF RendersText(controller, event)
               THEN {DataText(event.payload, controller.dataLimit)} ELSE {}]
=============================================================================
