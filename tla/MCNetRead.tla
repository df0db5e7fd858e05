----------------------------- MODULE MCNetRead -----------------------------
(***************************************************************************)
(* Model-checking instance of NetRead: good frames of two lengths, of       *)
(* which the shorter has no room for a packet, one whose check code is      *)
(* wrong, one of an unknown type and one that is dropped when it is parsed. *)
(* Of the last two, one comes through or not, as the chunks fall, and one   *)
(* is longer than the whole memory.                                         *)
(***************************************************************************)
EXTENDS NetRead

APacket(type, headLen, ttl) ==
    [type |-> type, headLen |-> headLen, ttl |-> ttl, wellFormed |-> TRUE]
AFrame(len, sum, packet) == [len |-> len, sum |-> sum, packet |-> packet]

TheHandlers == {"known"}
TheFrames ==
    {AFrame(n, TRUE, APacket("known", 0, 1)) : n \in {2, 7}}
        \cup {AFrame(3, FALSE, APacket("known", 0, 1)),
              AFrame(3, TRUE, APacket("known", 0, 0)),
              AFrame(3, TRUE, APacket("unknown", 0, 1)),
              AFrame(14, TRUE, APacket("known", 0, 1)),
              AFrame(17, FALSE, APacket("known", 0, 1))}
=============================================================================
