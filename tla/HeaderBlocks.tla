---------------------------- MODULE HeaderBlocks ----------------------------
(***************************************************************************)
(* The header block tracker of client/event.go: it joins a HEADERS or      *)
(* PUSH_PROMISE frame and the CONTINUATION frames that follow into one     *)
(* block and decodes it.  Each operator returns the tracker's next state   *)
(* and the event the client hands to its caller.                           *)
(*                                                                         *)
(* The tracker marks "no block pending" by stream 0, as the code does, so  *)
(* a block opened on stream 0 is stored and yet not pending.               *)
(***************************************************************************)
EXTENDS Frames

Tracker == [stream : StreamIds, block : Seq(Item), end : BOOLEAN]

Event == [complete : BOOLEAN, stream : StreamIds, endStream : BOOLEAN,
          headers : Seq(Item), error : BOOLEAN]

\* reset()
Idle == [stream |-> 0, block |-> <<>>, end |-> FALSE]

NoBlock == [complete |-> FALSE, stream |-> 0, endStream |-> FALSE,
            headers |-> <<>>, error |-> FALSE]

Keep(tracker) == [tracker |-> tracker, event |-> NoBlock]

Refuse(tracker) == [tracker |-> tracker, event |-> [NoBlock EXCEPT !.error = TRUE]]

\* HPACK decoding of a whole block: all of its fields, or an error and none.
Decodes(block) == \A i \in DOMAIN block : block[i] # Undecodable

\* A failed block is complete too: only its fields are missing.
Finish(stream, end, block) ==
    [tracker |-> Idle,
     event   |-> [complete |-> TRUE, stream |-> stream, endStream |-> end,
                  headers  |-> IF Decodes(block) THEN block ELSE <<>>,
                  error    |-> ~Decodes(block)]]

\* END_STREAM is a flag of HEADERS; a PUSH_PROMISE passes FALSE.
StartsEnd(f) == f.type = "HEADERS" /\ "END_STREAM" \in f.flags

\* A block that starts while another is pending loses both.
ConsumeHeaderStart(t, f) ==
    IF t.stream # 0 THEN Refuse(Idle)
    ELSE IF "END_HEADERS" \in f.flags
         THEN Finish(f.stream, StartsEnd(f), f.payload)
         ELSE Keep([stream |-> f.stream, block |-> f.payload, end |-> StartsEnd(f)])

\* A CONTINUATION out of place is an error; on the wrong stream it also
\* drops the pending block.
ConsumeContinuation(t, f) ==
    IF t.stream = 0 THEN Refuse(t)
    ELSE IF f.stream # t.stream THEN Refuse(Idle)
    ELSE IF "END_HEADERS" \in f.flags
         THEN Finish(t.stream, t.end, t.block \o f.payload)
         ELSE Keep([t EXCEPT !.block = @ \o f.payload])

\* Frames of other types pass through, even in the middle of a block.
Consume(t, f) ==
    CASE f.type \in {"HEADERS", "PUSH_PROMISE"} -> ConsumeHeaderStart(t, f)
      [] f.type = "CONTINUATION"                -> ConsumeContinuation(t, f)
      [] OTHER                                  -> Keep(t)
=============================================================================
