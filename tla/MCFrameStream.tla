--------------------------- MODULE MCFrameStream ----------------------------
(***************************************************************************)
(* A few frames of every type, with padding, priority fields and numbers   *)
(* that use the reserved bit.                                              *)
(***************************************************************************)
EXTENDS FrameStream

MkHead(type, flags, stream) == [length |-> 0, type |-> type, flags |-> flags, stream |-> stream]
Big == HighBit + 3

MCFrames ==
    {[Blank(MkHead(DATA, 1, 1)) EXCEPT !.data = <<7, 8>>],
     [Blank(MkHead(DATA, 8, 1)) EXCEPT !.data = <<7>>, !.pad = 2],
     [Blank(MkHead(HEADERS, 44, Big)) EXCEPT !.data = <<5>>, !.pad = 1,
         !.priority = [exclusive |-> TRUE, dep |-> Big, weight |-> 9]],
     [Blank(MkHead(HEADERS, 4, 3)) EXCEPT !.pad = 1],
     [Blank(MkHead(PRIORITY, 0, 3)) EXCEPT !.priority = [exclusive |-> FALSE, dep |-> 5, weight |-> 1]],
     [Blank(MkHead(RST_STREAM, 0, 3)) EXCEPT !.number = Big],
     [Blank(MkHead(SETTINGS, 0, 0)) EXCEPT
         !.settings = <<[id |-> 1, value |-> Big], [id |-> 65, value |-> 70]>>],
     [Blank(MkHead(PUSH_PROMISE, 12, 1)) EXCEPT !.stream = Big, !.data = <<6>>, !.pad = 1],
     [Blank(MkHead(PING, 1, 0)) EXCEPT !.data = <<1, 2, 3, 4, 5, 6, 7, 8>>],
     [Blank(MkHead(GOAWAY, 0, 0)) EXCEPT !.stream = Big, !.number = 2, !.data = <<4>>],
     [Blank(MkHead(WINDOW_UPDATE, 0, 3)) EXCEPT !.number = Big],
     [Blank(MkHead(CONTINUATION, 4, 3)) EXCEPT !.data = <<9>>],
     [Blank([length |-> 2, type |-> 20, flags |-> 63, stream |-> 1]) EXCEPT !.raw = TRUE, !.data = <<1, 2>>],
     [Blank([length |-> 2, type |-> PING, flags |-> 0, stream |-> 0]) EXCEPT !.raw = TRUE, !.data = <<1, 2>>],
     [Blank([length |-> 1, type |-> DATA, flags |-> 8, stream |-> 1]) EXCEPT !.raw = TRUE, !.data = <<1>>],
     [Blank([length |-> 1, type |-> DATA, flags |-> 0, stream |-> Big]) EXCEPT !.raw = TRUE, !.data = <<1>>],
     [Blank([length |-> MaxUint24 + 1, type |-> DATA, flags |-> 8, stream |-> 1]) EXCEPT !.raw = TRUE]}
=============================================================================
