------------------------------- MODULE MCHpack ------------------------------
(***************************************************************************)
(* Small instances of HpackSync: two fields, tables of 0 to 2 fields.      *)
(***************************************************************************)
EXTENDS HpackProperties

MCField == {"a", "b"}
MCFieldLists == {<<>>, <<"a">>, <<"b">>}
MCSizeLists == {<<>>, <<0>>, <<1>>, <<2>>, <<0, 2>>, <<2, 0>>}
MCHandmade == {<<>>, <<Inserted("a")>>}

Frame(type, stream, raw) == [type |-> type, stream |-> stream, raw |-> raw]

\* Blocks in one frame, and blocks in pieces on one stream.
Whole == {Frame("headers", 1, FALSE)}
Orderly == Whole \cup {Frame("continuation", 1, FALSE)}

\* Blocks that start in the middle of another, or on stream 0, or go on elsewhere.
Disorderly == Orderly \cup {Frame("headers", 0, FALSE), Frame("push_promise", 3, FALSE),
                            Frame("continuation", 3, FALSE)}

\* Frames of which the tracker sees only some.
Unseen == Whole \cup {Frame(type, 1, TRUE) : type \in {"headers", "continuation"}}

Quiet == [mode |-> "script", maxTable |-> 2, frames |-> Orderly, clientSettings |-> 0,
          clientBlocks |-> 0, peerSettings |-> 0, peerBlocks |-> 0, peerResizes |-> 0]

Request == [Quiet EXCEPT !.mode = "request", !.clientSettings = 1, !.clientBlocks = 1,
                         !.peerSettings = 2, !.peerBlocks = 2, !.peerResizes = 1]

\* A script that sends SETTINGS across responses, two that send requests and
\* pieces of them across the peer's SETTINGS, two that send pieces in any order,
\* and requests with a small and a large table.
MCPlans ==
    {[Quiet EXCEPT !.maxTable = n, !.clientSettings = 2, !.peerBlocks = 2, !.peerResizes = 1] :
        n \in {0, 2}}
    \cup {[Quiet EXCEPT !.frames = Whole, !.clientBlocks = 3, !.peerSettings = 2],
          [Quiet EXCEPT !.clientBlocks = 3, !.peerSettings = 1]}
    \cup {[Quiet EXCEPT !.frames = f, !.clientBlocks = 3] : f \in {Disorderly, Unseen}}
    \cup {[Request EXCEPT !.maxTable = n] : n \in {0, 2}}
=============================================================================
