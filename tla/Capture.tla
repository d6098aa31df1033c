------------------------------ MODULE Capture -------------------------------
(***************************************************************************)
(* The capture manager of cmd/mh2c/output_capture.go, which accumulates    *)
(* the header fields and the body of every stream and, when the command    *)
(* ends, saves those of one of them: the stream asked for ("explicit") or  *)
(* the first that ended ("auto").  selected = 0 means none yet, as in the  *)
(* code.                                                                   *)
(***************************************************************************)
EXTENDS HeaderBlocks

CaptureKinds == {"none", "explicit", "auto"}

CaptureState ==
    [kind : CaptureKinds, target : StreamIds, selected : StreamIds,
     known : SUBSET StreamIds,
     headers : [StreamIds -> Seq(Item)], body : [StreamIds -> Seq(Item)]]

NewCapture(kind, target) ==
    [kind |-> kind, target |-> target, selected |-> 0, known |-> {},
     headers |-> [s \in StreamIds |-> <<>>], body |-> [s \in StreamIds |-> <<>>]]

\* Mutant: the last stream to end, instead of the first.
SelectLastStream(c, s) ==
    CASE c.kind = "explicit" /\ s = c.target -> [c EXCEPT !.selected = s]
      [] c.kind = "auto"                     -> [c EXCEPT !.selected = s]
      [] OTHER                               -> c

SelectStream(c, s) ==
    CASE c.kind = "explicit" /\ s = c.target -> [c EXCEPT !.selected = s]
      [] c.kind = "auto" /\ c.selected = 0   -> [c EXCEPT !.selected = s]
      [] OTHER                               -> c

\* Mutant: a second block (trailers) replaces the first.
RecordLastHeaders(c, s, fields, endStream) ==
    LET added == [c EXCEPT !.known = @ \cup {s}, !.headers[s] = fields]
    IN  IF endStream THEN SelectStream(added, s) ELSE added

RecordHeaders(c, s, fields, endStream) ==
    LET added == [c EXCEPT !.known = @ \cup {s}, !.headers[s] = @ \o fields]
    IN  IF endStream THEN SelectStream(added, s) ELSE added

RecordData(c, s, data, endStream) ==
    LET added == [c EXCEPT !.known = @ \cup {s}, !.body[s] = @ \o data]
    IN  IF endStream THEN SelectStream(added, s) ELSE added

\* Events that failed to decode never get here.  A block without fields is
\* not recorded, its END_STREAM included.
CaptureReceived(c, f, event) ==
    CASE c.kind = "none" -> c
      [] c.kind # "none" /\ event.complete /\ event.headers # <<>> ->
            RecordHeaders(c, event.stream, event.headers, event.endStream)
      [] c.kind # "none" /\ f.type = "DATA" ->
            RecordData(c, f.stream, f.payload, "END_STREAM" \in f.flags)
      [] OTHER -> c

\* The stream to save: none or one.
Selected(c) ==
    CASE c.kind = "explicit" -> {c.target} \cap c.known
      [] c.kind = "auto"     -> IF c.selected = 0 THEN {} ELSE {c.selected} \cap c.known
      [] OTHER               -> {}
=============================================================================
