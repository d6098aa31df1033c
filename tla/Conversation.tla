---------------------------- MODULE Conversation ----------------------------
(***************************************************************************)
(* What `mh2c request`, `ping` and `observe` promise the peer, whatever    *)
(* the command: the conversation as the peer sees it.  The client greets   *)
(* (preface, SETTINGS), shakes hands (until the peer's SETTINGS is         *)
(* answered, or a GOAWAY), works (sends the command's own frames), waits,  *)
(* takes leave and closes.  It answers what is to be answered before       *)
(* anything else, and has always something to say, to hear or to close:    *)
(* only in hearing does it depend on the peer.                             *)
(***************************************************************************)
EXTENDS Sequences, SequencesExt

VARIABLES
    phase,
    transcript      \* what was said and heard, in the client's order

vars == <<phase, transcript>>

Phases == {"connecting", "greeting", "shaking", "working", "waiting", "leaving", "closed"}

Heard(kind) == [by |-> "peer", kind |-> kind]
Said(kind) == [by |-> "client", kind |-> kind]

\* What may be heard, and what is to be answered.
Asking == {"SETTINGS", "PING"}
Kinds == Asking \cup {"GOAWAY", "other"}

Init == phase = "connecting" /\ transcript = <<>>

Owing(kind) == transcript # <<>> /\ Last(transcript) = Heard(kind)
InDebt == \E kind \in Asking : Owing(kind)
Listening == phase \in {"shaking", "waiting"} /\ ~InDebt

Hear(kind) == transcript' = Append(transcript, Heard(kind))
Say(kind) == transcript' = Append(transcript, Said(kind))

Connect == phase = "connecting" /\ phase' = "greeting" /\ UNCHANGED transcript

Greet ==
    /\ phase = "greeting"
    /\ \/ transcript = <<>> /\ Say("preface") /\ UNCHANGED phase
       \/ transcript # <<>> /\ Say("greeting") /\ phase' = "shaking"

\* The hands are shaken.
GoToWork == phase' \in {"working", "waiting"}

Listen ==
    /\ Listening
    /\ \/ \E kind \in Asking : Hear(kind) /\ UNCHANGED phase
       \/ Hear("GOAWAY") /\ IF phase = "shaking" THEN GoToWork ELSE phase' = "leaving"
       \/ Hear("other") /\ (UNCHANGED phase \/ (phase = "waiting" /\ phase' = "leaving"))

Reply ==
    \E kind \in Asking :
        /\ Owing(kind) /\ phase \in {"shaking", "waiting"}
        /\ Say(kind)
        /\ IF phase = "shaking" /\ kind = "SETTINGS" THEN GoToWork ELSE UNCHANGED phase

Work == phase = "working" /\ Say("work") /\ GoToWork

\* Enough was heard.
StopWaiting == phase = "waiting" /\ Listening /\ phase' = "leaving" /\ UNCHANGED transcript

\* A peer that took leave itself is left without a word.
TakeLeave ==
    /\ phase = "leaving" /\ phase' = "closed"
    /\ UNCHANGED transcript \/ (~Owing("GOAWAY") /\ Say("farewell"))

Fail ==
    /\ phase # "closed" /\ phase' = "closed"
    /\ \/ UNCHANGED transcript
       \/ Listening /\ \E kind \in Kinds : Hear(kind)
       \/ phase = "greeting" /\ \E kind \in {"preface", "greeting"} : Say(kind)
       \/ phase = "working" /\ Say("work")
       \/ phase \in {"shaking", "waiting"} /\ \E kind \in Asking : Owing(kind) /\ Say(kind)

Next == Connect \/ Greet \/ Listen \/ Reply \/ Work \/ StopWaiting \/ TakeLeave \/ Fail

\* The client keeps no one waiting but itself.
Turn == ~Listening /\ Next

SafeSpec == Init /\ [][Next]_vars

Spec == SafeSpec /\ WF_vars(Turn)
=============================================================================
