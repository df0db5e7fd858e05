------------------------------ MODULE NetWrite ------------------------------
(***************************************************************************)
(* The write path of a session, on its network thread.                      *)
(*                                                                         *)
(* SendPacket posts WriteDataOnSessionThread, which serializes the packet   *)
(* straight into m_buffWrite, or drops it when it does not fit: the memory  *)
(* of this buffer never grows. DoSessionWrite keeps at most one             *)
(* async_write_some outstanding (m_onWriting). asio reads the memory when   *)
(* the socket takes the bytes, some time after the call: what lies at those *)
(* addresses then is what goes out.                                         *)
(***************************************************************************)
EXTENDS SessionBuffer

CONSTANTS PacketLens,    \* sizes of packets on the wire
          MaxPackets     \* bound: packets handed to the session

ASSUME WriteAssumption == PacketLens \subseteq Nat \ {0} /\ MaxPackets \in Nat

VARIABLES buf,           \* m_buffWrite
          accepted,      \* bytes of the packets that were not dropped
          packets,       \* packets handed to the session
          m_onWriting,   \* an async_write_some is outstanding
          from,          \* the address it was given ...
          upto,          \* ... and the one behind the last byte
          wire,          \* bytes the socket has taken
          torn,          \* the socket has taken a byte out of order
          sock           \* "open", "closing" or "closed"

vars == <<buf, accepted, packets, m_onWriting, from, upto, wire, torn, sock>>

Init ==
    /\ buf = NewBuffer
    /\ accepted = 0
    /\ packets = 0
    /\ m_onWriting = FALSE
    /\ from = 0
    /\ upto = 0
    /\ wire = 0
    /\ torn = FALSE
    /\ sock = "open"
-----------------------------------------------------------------------------
\* DoSessionWrite, on buffer b.
DoSessionWrite(b) ==
    IF m_onWriting
    THEN UNCHANGED <<m_onWriting, from, upto>>
    ELSE /\ m_onWriting' = TRUE
         /\ from' = b.rp
         /\ upto' = b.wp

\* A full buffer is reorganized to make room for the packet.
WriteDataReorganizes(n) ==
    LET b == IF n > CurrentWritableSize(buf) THEN ReorganizeData(buf) ELSE buf IN
    /\ packets < MaxPackets
    /\ packets' = packets + 1
    /\ n <= CurrentWritableSize(b)
    /\ buf' = PaddingData(Fill(b, accepted + 1, n), n)
    /\ accepted' = accepted + n
    /\ DoSessionWrite(PaddingData(Fill(b, accepted + 1, n), n))
    /\ UNCHANGED <<wire, torn, sock>>

\* WriteDataOnSessionThread: the packet is dropped, or it is written behind the
\* data and DoSessionWrite is called.
WriteDataOnSessionThread(n) ==
    LET b == PaddingData(Fill(buf, accepted + 1, n), n) IN
    /\ packets < MaxPackets
    /\ packets' = packets + 1
    /\ \/ /\ n > CurrentWritableSize(buf)
          /\ UNCHANGED <<buf, accepted, m_onWriting, from, upto>>
       \/ /\ n <= CurrentWritableSize(buf)
          /\ buf' = b
          /\ accepted' = accepted + n
          /\ DoSessionWrite(b)
    /\ UNCHANGED <<wire, torn, sock>>

\* The buffer after n bytes have gone out.
Consumed(n) ==
    LET b == RemoveData(buf, n) IN
    IF NeedsReorganize(b) THEN ReorganizeData(b) ELSE b

\* The completion handler forgets to write what came in meanwhile.
WriteDoneNoMore(n) ==
    /\ m_onWriting
    /\ sock # "closed"
    /\ n \in 1..(upto - from)
    /\ wire' = wire + n
    /\ torn' = (torn \/ \E i \in 0..(n - 1) : buf.data[from + i] # wire + 1 + i)
    /\ buf' = Consumed(n)
    /\ m_onWriting' = FALSE
    /\ UNCHANGED <<accepted, packets, from, upto, sock>>

\* The socket has taken the first n bytes. The handler removes them, moves the
\* rest to the front if the memory is more than half used, and goes on writing.
WriteDone(n) ==
    /\ m_onWriting
    /\ sock # "closed"
    /\ n \in 1..(upto - from)
    /\ wire' = wire + n
    /\ torn' = (torn \/ \E i \in 0..(n - 1) : buf.data[from + i] # wire + 1 + i)
    /\ buf' = Consumed(n)
    /\ \/ /\ GetReadableSize(Consumed(n)) > 0
          /\ m_onWriting' = TRUE
          /\ from' = Consumed(n).rp
          /\ upto' = Consumed(n).wp
       \/ /\ GetReadableSize(Consumed(n)) = 0
          /\ m_onWriting' = FALSE
          /\ UNCHANGED <<from, upto>>
    /\ UNCHANGED <<accepted, packets, sock>>

\* The operation fails: the session is closed (DoSessionAsyncClose).
WriteError ==
    /\ m_onWriting
    /\ m_onWriting' = FALSE
    /\ sock' = IF sock = "open" THEN "closing" ELSE sock
    /\ UNCHANGED <<buf, accepted, packets, from, upto, wire, torn>>

\* Another reason to close.
AsyncClose ==
    /\ sock = "open"
    /\ sock' = "closing"
    /\ UNCHANGED <<buf, accepted, packets, m_onWriting, from, upto, wire, torn>>

DoSessionCloseInNetLoop ==
    /\ sock = "closing"
    /\ sock' = "closed"
    /\ UNCHANGED <<buf, accepted, packets, m_onWriting, from, upto, wire, torn>>

Idle ==
    /\ ~m_onWriting
    /\ UNCHANGED vars

Next ==
    \/ \E n \in PacketLens : WriteDataOnSessionThread(n)
    \/ \E n \in 1..MaxBuf : WriteDone(n)
    \/ WriteError
    \/ AsyncClose
    \/ DoSessionCloseInNetLoop
    \/ Idle

Spec == Init /\ [][Next]_vars

\* An operation that asio was given completes, with bytes or with an error.
Fairness == WF_vars(WriteError \/ \E n \in 1..MaxBuf : WriteDone(n))

FairSpec == Spec /\ Fairness
-----------------------------------------------------------------------------
(* Properties                                                              *)

\* Every variable has its type; the positions are ordered and inside the memory.
TypeOK ==
    /\ WellFormed(buf)
    /\ accepted \in Nat
    /\ packets \in 0..MaxPackets
    /\ m_onWriting \in BOOLEAN
    /\ from \in Nat
    /\ upto \in Nat
    /\ wire \in Nat
    /\ torn \in BOOLEAN
    /\ sock \in {"open", "closing", "closed"}

\* The peer sees the accepted packets whole, once and in order: a packet that is
\* dropped leaves no part behind, and nothing moves or overwrites the memory
\* that an outstanding write still reads.
WireInOrder ==
    /\ ~torn
    /\ Holds(buf, wire + 1)
    /\ wire + GetReadableSize(buf) = accepted

\* Every byte accepted goes out in the end, unless the session is closed.
AllSent == \A n \in 1..(MaxPackets * MaxBuf) : accepted = n ~> (wire >= n \/ sock # "open")
=============================================================================
