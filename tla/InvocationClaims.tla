-------------------------- MODULE InvocationClaims --------------------------
(***************************************************************************)
(* What the options say and the program does not do.                       *)
(***************************************************************************)
EXTENDS InvocationProperties

\* "request stream ID" (cmd/mh2c/config.go:296): the request goes out on the
\* stream that was asked for, and never on stream 0 (config.go:331, "stream-id
\* must be greater than 0").
StreamIDKept == \A s \in session : s.stream = line.flags.streamID /\ s.stream > 0
=============================================================================
