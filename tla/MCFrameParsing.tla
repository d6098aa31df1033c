--------------------------- MODULE MCFrameParsing ---------------------------
(***************************************************************************)
(* Every type with each of the flags its parser looks at, and payloads of  *)
(* zeros, small numbers and an octet with the highest bit set.             *)
(***************************************************************************)
EXTENDS FrameParsing

MCHeaders ==
    {h \in [length : {0}, type : 0..10, flags : {0, 1, 8, 32, 40}, stream : {1}] :
        /\ h.flags \in {8, 40} => h.type \in {DATA, HEADERS, PUSH_PROMISE}
        /\ h.flags = 32 => h.type = HEADERS
        /\ h.flags = 1 => h.type = PING}

MCValues == {0, 2, 33}
=============================================================================
