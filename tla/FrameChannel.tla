---------------------------- MODULE FrameChannel ----------------------------
(***************************************************************************)
(* What package frame and the connection promise together, and what        *)
(* Session takes for granted of its inbox: frames arrive whole, in the     *)
(* order they were sent, each in the one form that its octets have, until  *)
(* the channel breaks; then nothing arrives any more.                      *)
(***************************************************************************)
EXTENDS Naturals, Sequences

CONSTANTS
    Frames,     \* the frames to send
    Forms(_)    \* what a frame may arrive as: one form, or none

VARIABLES sent, delivered, broken

Init == sent = <<>> /\ delivered = <<>> /\ broken = FALSE

Send ==
    /\ \E f \in Frames : sent' = Append(sent, f)
    /\ UNCHANGED <<delivered, broken>>

Deliver ==
    /\ ~broken
    /\ Len(delivered) < Len(sent)
    /\ \E f \in Forms(sent[Len(delivered) + 1]) : delivered' = Append(delivered, f)
    /\ UNCHANGED <<sent, broken>>

Break == broken' = TRUE /\ UNCHANGED <<sent, delivered>>

Next == Send \/ Deliver \/ Break

Spec == Init /\ [][Next]_<<sent, delivered, broken>>
=============================================================================
