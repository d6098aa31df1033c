--------------------------- MODULE HpackProperties --------------------------
(***************************************************************************)
(* When the two ends agree on what a header block says.  Every property    *)
(* names the circumstances that excuse a receiver, so it also says that    *)
(* nothing else can make the tables part.                                  *)
(***************************************************************************)
EXTENDS HpackSync

\* A block of the peer decodes to the fields it means, whatever sizes the
\* client allows and whenever it says so (applySentFrame), but for a block that
\* announces a size
\*   - while a SETTINGS of the client is on its way: the client applies its
\*     limit when it sends it, not when the peer does,
\*   - before a script has sent any, although its limit is below the initial one,
\*   - after a raw SETTINGS that allows more than the client does: it is sent
\*     and not applied.
ResponsesDecode == verdict.by = "client" /\ ~verdict.excused => verdict.right

\* A block of the client decodes at a peer that insists on every rule of
\* RFC 7541, whatever HEADER_TABLE_SIZE the peer sends and in however many
\* SETTINGS (applyFrame), unless before it a script
\*   - wrote while the last size received was above the last acknowledged,
\*   - acknowledged a SETTINGS in the middle of a block,
\*   - gave any of a block in hexadecimal.
\* A peer that is sent frames of blocks in an order that HTTP/2 forbids ends
\* the connection and decodes nothing more.
RequestsDecode == verdict.by = "peer" /\ ~verdict.excused => verdict.right

\* What the client reports of its own blocks (TrackSentFrame) is what it
\* encoded, unless before it
\*   - a SETTINGS came between the frames of a block: applyFrame evicts from
\*     the table that is to decode it,
\*   - a script gave any of a block in hexadecimal, but for raw frames,
\*   - a block was lost, which the encoder has written and the tracker has
\*     never decoded: HEADERS or PUSH_PROMISE while another block is pending, a
\*     CONTINUATION without one or on another stream, a beginning on stream 0.
SentBlocksReadBack == verdict.by = "tracker" /\ ~verdict.excused => verdict.right

\* Outside scripts nothing needs an excuse: run() sends one SETTINGS before
\* all else and acknowledges the peer's before it encodes.
SessionsDecode == plan.mode = "request" => verdict.right
=============================================================================
