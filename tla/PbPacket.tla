------------------------------ MODULE PbPacket ------------------------------
(***************************************************************************)
(* What NetPbModule makes of a packet that was cut out of the stream: a     *)
(* head with its length before it, and a body.                              *)
(***************************************************************************)
EXTENDS Naturals

CONSTANTS LenSize,       \* bytes of the length before the head
          Handlers,      \* m_mapPackethandle: message types with a handler
          HasDefault     \* whether there is a default handler

ASSUME PacketAssumption == LenSize \in Nat /\ HasDefault \in BOOLEAN

(***************************************************************************)
(* A packet of len bytes: its message type, the length its head claims to   *)
(* have, the ttl of the head (of a client's head none is checked: 1), and   *)
(* whether head and body are what protobuf can parse.                       *)
(***************************************************************************)
Packet == [type : STRING, headLen : Nat, ttl : Nat, wellFormed : BOOLEAN]

\* PaserPbHead: neither the length nor the head may reach over the end.
PaserPbHead(p, len) == len >= LenSize /\ len >= p.headLen + LenSize /\ p.wellFormed

CheckHeadTTLError(p) == p.ttl > 0

\* The function GeneratePaserPacketFunc makes for a handler: whether a closure
\* for the main thread comes of the packet.
Parsed(p, len) == PaserPbHead(p, len) /\ CheckHeadTTLError(p)

\* The result of the handler's function is the result of the packet.
ReadPbPacketStrict(p, len) ==
    [ok |-> (p.type \in Handlers /\ Parsed(p, len)) \/ HasDefault,
     called |-> p.type \in Handlers /\ Parsed(p, len)]

\* ReadPbPacket: whether the stream may go on, and whether the packet will be
\* handled. What the handler's function returns is not looked at.
ReadPbPacket(p, len) ==
    [ok |-> p.type \in Handlers \/ HasDefault,
     called |-> p.type \in Handlers /\ Parsed(p, len)]
=============================================================================
