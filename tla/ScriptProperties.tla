-------------------------- MODULE ScriptProperties --------------------------
(***************************************************************************)
(* What a run of a script promises, stated over the history of what each   *)
(* iteration of each action sent and received.                             *)
(***************************************************************************)
EXTENDS ScriptRun, FiniteSets

(***************************************************************************)
(* What is sent                                                            *)
(***************************************************************************)
\* An iteration, written with the arithmetic of the documentation.
Meant(i, n) ==
    LET a == actions[i] IN
    IF Has(a, "stream_id_step") THEN [a EXCEPT !.stream_id = @ + n * a.stream_id_step] ELSE a

FrameOf(a) == IF a.type = "preface" THEN ConnectionPreface ELSE BuildFrame(a)

Sends(a) == a.type \notin {"sleep", "receive"}

\* Iterations of an action that send a frame of their own.
Sending(i) == IF Sends(actions[i]) THEN 0..(Count(actions[i]) - 1) ELSE {}

\* Iteration n of action i comes before iteration m of action j.
Earlier(i, n, j, m) == i < j \/ (i = j /\ n < m)

\* Whether iteration n of action i has sent its frame by entry k of the log.
SentBy(i, n, k) ==
    \E j \in 1..k : log[j].kind = "sent" /\ log[j].index = i /\ log[j].iteration = n

\* A script sends what it says, as often as it says, with stream ids that
\* advance by the step, in order: nothing is left out, sent twice or sent
\* early, whatever the peer does (what is sent before a frame is what comes before
\* it in the script); and a script that ends well has sent all of it
\* (executeScript, actionForRepeatIteration).
SendsTheScript ==
    ValidScript(actions) /\ pc # "load" =>
        /\ \A k \in DOMAIN log :
              LET j == log[k].index
                  m == log[k].iteration
              IN  log[k].kind = "sent" =>
                     /\ j \in DOMAIN actions /\ m \in Sending(j)
                     /\ log[k].frame = FrameOf(Meant(j, m))
                     /\ \A i \in DOMAIN actions : \A n \in Sending(i) :
                           SentBy(i, n, k - 1) <=> Earlier(i, n, j, m)
        /\ result = "ok" =>
              \A i \in DOMAIN actions : \A n \in Sending(i) : SentBy(i, n, Len(log))

\* The stream ids of an accepted script stay within 32 bits however often a
\* step is repeated, so actionForRepeatIteration never refuses one: the bound
\* of validateActionRepeat, which divides, against the sum that Go computes.
NoOverflow == result # "overflow"

\* Numbers that validation does not look at: those of fields whose range only
\* the execution checks, and the length of a frame, which a raw action gives or
\* the payload has, or may have once its header list is encoded.
BeyondValidation(a) ==
    \/ ~RangesFit(a)
    \/ Sends(a) /\ \E length \in Lengths(a) : ~(length <= MaxUint24)

\* An accepted script fails, apart from what the network and the peer do, only
\* on such a number: all the rest of what buildScriptFrame, MarshalBinary and
\* executeReceiveAction refuse, validateScript has refused before anything is
\* sent.
RefusesOnlyRanges == result = "refused" => BeyondValidation(Meant(index, iteration))

(***************************************************************************)
(* What is received                                                        *)
(***************************************************************************)
\* Positions in the log of what an iteration of a receive action received.
ReceivedBy(i, n) ==
    {k \in DOMAIN log : log[k].kind = "received" /\ log[k].index = i /\ log[k].iteration = n}

Flag(k, flag) == flag \in log[k].frame.flags

IsHeaderFrame(k) ==
    log[k].kind = "received" /\ log[k].frame.type \in {"HEADERS", "PUSH_PROMISE", "CONTINUATION"}

\* log[k] completes a header block that a HEADERS frame of the stream opened.
EndsBlock(stream, k) ==
    \E j \in 1..k :
        /\ \A i \in j..k : IsHeaderFrame(i) =>
              /\ Flag(i, "END_HEADERS") <=> i = k
              /\ log[i].frame.stream = stream
              /\ log[i].frame.type = "CONTINUATION" <=> i # j
        /\ IsHeaderFrame(j) /\ IsHeaderFrame(k)
        /\ log[j].frame.type = "HEADERS" /\ Flag(j, "END_STREAM")

\* log[k], received for action a, is what `until` names.
Names(a, k) ==
    LET type == log[k].frame.type IN
    CASE a.until = "settings"     -> type = "SETTINGS" /\ ~Flag(k, "ACK")
      [] a.until = "settings_ack" -> type = "SETTINGS" /\ Flag(k, "ACK")
      [] a.until = "ping_ack"     -> type = "PING" /\ Flag(k, "ACK")
      [] a.until = "goaway"       -> type = "GOAWAY"
      [] a.until = "end_stream"   ->
            \/ type \in {"DATA", "HEADERS"} /\ log[k].frame.stream = a.stream_id /\ Flag(k, "END_STREAM")
            \/ EndsBlock(a.stream_id, k)

\* What an iteration of a receive action has received by log[k] is enough.
Enough(i, n, k) ==
    LET a == Meant(i, n)
        soFar == {j \in ReceivedBy(i, n) : j <= k}
    IN  IF Has(a, "until") THEN \E j \in soFar : Names(a, j)
        ELSE \/ \E j \in soFar : log[j].frame.type = "GOAWAY"
             \/ Cardinality(soFar) >= Wanted(a)

Past(i, n) == Earlier(i, n, index, iteration)

\* A receive action reads until it has received what it waits for (so many
\* frames, or the frame that `until` names, or, if it names none, a GOAWAY)
\* and not one frame more: the frames behind it are for the next action.
ReceivesEnough ==
    pc # "load" /\ ValidScript(actions) =>
        \A i \in {j \in DOMAIN actions : actions[j].type = "receive"} :
            \A n \in 0..(Count(actions[i]) - 1) :
                /\ Past(i, n) => \E k \in ReceivedBy(i, n) : Enough(i, n, k)
                /\ \A k \in ReceivedBy(i, n) :
                      Enough(i, n, k) => \A j \in ReceivedBy(i, n) : j <= k

Asked(k) ==
    LET a == Meant(log[k].index, log[k].iteration) IN
    /\ log[k].kind = "received" /\ ~Flag(k, "ACK")
    /\ \/ log[k].frame.type = "SETTINGS" /\ Option(a, "ack_settings")
       \/ log[k].frame.type = "PING" /\ Option(a, "ack_ping")

\* The same iteration answers log[k] next.
AnswerFollows(k) ==
    log[k + 1] = [kind |-> "answered", index |-> log[k].index, iteration |-> log[k].iteration,
                  frame |-> Answer(log[k].frame)]

\* A script in which a receive action has ack_settings or ack_ping answers
\* every SETTINGS or PING it receives there, at once, even the frame that
\* ends the action, and no other.
AcksAsAsked ==
    \A k \in DOMAIN log :
        /\ Asked(k) =>
              IF k = Len(log) THEN pc = "answer" \/ result = "io"
              ELSE AnswerFollows(k)
        /\ log[k].kind = "answered" => k > 1 /\ Asked(k - 1)

\* A GOAWAY received by any receive action, in any iteration, spares the peer
\* the client's own; the client's is the last thing it sends.
GoAwayOnlyToSilent ==
    \A k \in DOMAIN log :
        log[k].kind = "closing" =>
            /\ k = Len(log) /\ sendGoAway /\ result = "ok"
            /\ \A j \in 1..(k - 1) :
                  ~(log[j].kind = "received" /\ log[j].frame.type = "GOAWAY")

(***************************************************************************)
(* Liveness                                                                *)
(***************************************************************************)
Exited == pc = "exited"

\* A script that does not receive ends of itself; any script ends with the
\* connection.
ScriptEnds ==
    (~peer.open \/ \A i \in DOMAIN actions : actions[i].type # "receive") ~> Exited
=============================================================================
