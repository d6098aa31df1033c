--------------------------- MODULE SessionClaims ----------------------------
(***************************************************************************)
(* What the help texts and the README say of a run and the code does not   *)
(* do.  Each is the property of a run that finds it violated.              *)
(***************************************************************************)
EXTENDS SessionProperties

\* "send GOAWAY before exit when peer did not" (cmd/mh2c/config.go:299).  A
\* GOAWAY that ends the handshake is forgotten: startSession returns only an
\* error, and sawGoAway starts at FALSE in run().  For the same reason observe
\* does not end at such a GOAWAY, up to which it "continues" (README.md:172).
GoAwayOnlyToSilentPeer ==
    \A i, j \in DOMAIN log :
        ~(i < j /\ Type(i) = "GOAWAY" /\ IsReceived(i) /\ Type(j) = "GOAWAY" /\ IsSent(j))

\* --timeout is the "overall timeout" (cmd/mh2c/config.go:294).  The context
\* it bounds is passed to Dial, which ignores it, and to nothing else: a
\* silent peer keeps the client reading for ever.
TimeoutEndsRun == expired ~> Exited

\* "--save-body path stores the captured response body in request/observe
\* mode" (README.md:186).  When the peer closes the connection without a
\* GOAWAY, observe fails with the read and run() returns before Flush: a
\* response captured in full is thrown away.
CapturedBodySaved ==
    [][ /\ ReceiveFails /\ pc = "receive"
        /\ "body" \in cfg.save /\ cap.selected # 0 /\ ~peer.open
        => saved' # {} ]_vars

\* --save-headers is to "save the decoded response headers to a file"
\* (cmd/mh2c/config.go:321, and README.md:187).  The manager records every
\* header block of the stream, whatever frame carries it: the fields of a
\* promised request are saved among those of the response.
SavedHeadersAreResponses ==
    \A file \in saved, s \in SavedStream :
        file.file = "headers" /\ file.whole =>
            Joins(file.content,
                  {i \in DOMAIN log :
                      /\ IsHeaderFrame(i)
                      /\ \E k \in 1..i, n \in i..Len(log) :
                            IsBlock(k, n) /\ StreamOf(k) = s /\ Type(k) = "HEADERS"},
                  Payloads)
=============================================================================
