--------------------------- MODULE NetWrite_proofs ---------------------------
(***************************************************************************)
(* Proofs about NetWrite: for every size of the memory and of the packets,  *)
(* the peer sees the packets that were accepted whole, once and in order.   *)
(***************************************************************************)
EXTENDS NetWrite, TLAPS

(***************************************************************************)
(* The inductive invariant. WireInOrder says of the memory what must be in  *)
(* it when the socket reads it; that an outstanding write reads there, and  *)
(* nowhere else, is WritingInv: it was given the address of the first       *)
(* unsent byte, and while it is outstanding the handler neither removes     *)
(* bytes nor moves them.                                                    *)
(***************************************************************************)
WritingInv ==
    m_onWriting => from = buf.rp /\ from <= upto /\ upto <= buf.wp

IInv == TypeOK /\ WireInOrder /\ WritingInv
-----------------------------------------------------------------------------
(* The operations of SessionBuffer                                         *)

\* The parts of a buffer, as the provers need them.
LEMMA BufferFacts ==
    ASSUME NEW b, WellFormed(b)
    PROVE  /\ b.cap \in Nat /\ b.rp \in Nat /\ b.wp \in Nat
           /\ b.cap <= MaxBuf /\ b.rp <= b.wp /\ b.wp <= b.cap
           /\ b.data \in [Address -> Nat]
           /\ b = [cap |-> b.cap, rp |-> b.rp, wp |-> b.wp, data |-> b.data]
           /\ GetReadableSize(b) = b.wp - b.rp /\ GetReadableSize(b) \in Nat
           /\ CurrentWritableSize(b) = b.cap - b.wp /\ CurrentWritableSize(b) \in Nat
<1>1. b \in Buffer /\ b.rp <= b.wp /\ b.wp <= b.cap
  BY DEF WellFormed
<1>2. b.cap \in 0..MaxBuf /\ b.rp \in Nat /\ b.wp \in Nat /\ b.data \in [Address -> Nat]
      /\ b = [cap |-> b.cap, rp |-> b.rp, wp |-> b.wp, data |-> b.data]
  BY <1>1 DEF Buffer
<1> QED
  BY <1>1, <1>2, BufAssumption DEF GetReadableSize, CurrentWritableSize

\* And back.
LEMMA FactsBuffer ==
    ASSUME NEW cap \in Nat, NEW rp \in Nat, NEW wp \in Nat, NEW data \in [Address -> Nat],
           rp <= wp, wp <= cap, cap <= MaxBuf
    PROVE  WellFormed([cap |-> cap, rp |-> rp, wp |-> wp, data |-> data])
BY BufAssumption DEF WellFormed, Buffer

\* A packet that fits is stored behind the unread bytes, which stay as they are.
LEMMA AppendFacts ==
    ASSUME NEW b, WellFormed(b), NEW first \in Nat, NEW n \in Nat, Holds(b, first),
           n <= CurrentWritableSize(b),
           NEW c, c = PaddingData(Fill(b, first + GetReadableSize(b), n), n)
    PROVE  /\ WellFormed(c) /\ Holds(c, first)
           /\ c.cap = b.cap /\ c.rp = b.rp /\ c.wp = b.wp + n
<1>1. /\ b.cap \in Nat /\ b.rp \in Nat /\ b.wp \in Nat
      /\ b.cap <= MaxBuf /\ b.rp <= b.wp /\ b.wp <= b.cap
      /\ b.data \in [Address -> Nat]
      /\ b = [cap |-> b.cap, rp |-> b.rp, wp |-> b.wp, data |-> b.data]
      /\ GetReadableSize(b) = b.wp - b.rp
      /\ n <= b.cap - b.wp
  BY BufferFacts
<1>2. PICK data : data = [i \in Address |->
          IF i \in b.wp..(b.wp + n - 1) THEN first + (b.wp - b.rp) + (i - b.wp)
                                        ELSE b.data[i]]
  OBVIOUS
<1>3. data \in [Address -> Nat]
  <2> SUFFICES ASSUME NEW i \in Address
               PROVE  (IF i \in b.wp..(b.wp + n - 1) THEN first + (b.wp - b.rp) + (i - b.wp)
                                                     ELSE b.data[i]) \in Nat
    BY <1>2
  <2>1. i \in Nat
    BY BufAssumption DEF Address
  <2> QED
    BY <1>1, <2>1
<1>4. Fill(b, first + GetReadableSize(b), n)
        = [cap |-> b.cap, rp |-> b.rp, wp |-> b.wp, data |-> data]
  BY <1>1, <1>2 DEF Fill
<1>5. c = [cap |-> b.cap, rp |-> b.rp, wp |-> b.wp + n, data |-> data]
  BY <1>1, <1>4 DEF PaddingData, CurrentWritableSize
<1>6. WellFormed(c)
  BY <1>1, <1>3, <1>5, FactsBuffer
<1>7. Holds(c, first)
  <2>1. c.rp = b.rp /\ c.wp = b.wp + n /\ c.data = data
    BY <1>5
  <2>2. GetReadableSize(c) = (b.wp + n) - b.rp
    BY <2>1 DEF GetReadableSize
  <2> SUFFICES ASSUME NEW i \in 0..((b.wp + n) - b.rp - 1)
               PROVE  data[b.rp + i] = first + i
    BY <2>1, <2>2 DEF Holds
  <2>3. i \in Nat /\ b.rp + i \in Address
    BY <1>1, BufAssumption, SMTT(60) DEF Address
  <2>4. CASE b.rp + i < b.wp
    <3>1. data[b.rp + i] = b.data[b.rp + i]
      BY <1>1, <1>2, <2>3, <2>4
    <3>2. i \in 0..(b.wp - b.rp - 1)
      BY <1>1, <2>3, <2>4
    <3> QED
      BY <1>1, <3>1, <3>2 DEF Holds
  <2>5. CASE b.rp + i >= b.wp
    <3>1. b.rp + i \in b.wp..(b.wp + n - 1)
      BY <1>1, <2>3, <2>5
    <3>2. data[b.rp + i] = first + (b.wp - b.rp) + ((b.rp + i) - b.wp)
      BY <1>2, <2>3, <3>1
    <3> QED
      BY <1>1, <2>3, <3>2
  <2> QED
    BY <1>1, <2>3, <2>4, <2>5
<1> QED
  BY <1>5, <1>6, <1>7

\* Bytes that were sent are given up from the front.
LEMMA RemoveFacts ==
    ASSUME NEW b, WellFormed(b), NEW first \in Nat, NEW n \in Nat, Holds(b, first),
           n <= GetReadableSize(b),
           NEW c, c = RemoveData(b, n)
    PROVE  /\ WellFormed(c) /\ Holds(c, first + n)
           /\ c.cap = b.cap /\ GetReadableSize(c) = GetReadableSize(b) - n
<1>1. /\ b.cap \in Nat /\ b.rp \in Nat /\ b.wp \in Nat
      /\ b.cap <= MaxBuf /\ b.rp <= b.wp /\ b.wp <= b.cap
      /\ b.data \in [Address -> Nat]
      /\ b = [cap |-> b.cap, rp |-> b.rp, wp |-> b.wp, data |-> b.data]
      /\ GetReadableSize(b) = b.wp - b.rp
      /\ n <= b.wp - b.rp
  BY BufferFacts
<1>2. CASE b.rp + n = b.wp
  <2>1. c.cap = b.cap /\ c.rp = 0 /\ c.wp = 0
    <3>1. c = [b EXCEPT !.rp = 0, !.wp = 0]
      BY <1>1, <1>2 DEF RemoveData
    <3> QED
      BY <1>1, <3>1
  <2>2. WellFormed(c)
    <3>1. c = [b EXCEPT !.rp = 0, !.wp = 0]
      BY <1>1, <1>2 DEF RemoveData
    <3>2. c \in Buffer
      <4>1. PICK d : d = [b EXCEPT !.rp = 0]
        OBVIOUS
      <4>2. d \in Buffer
        BY <4>1 DEF WellFormed, Buffer
      <4>3. c = [d EXCEPT !.wp = 0]
        BY <3>1, <4>1
      <4> QED
        BY <4>2, <4>3 DEF Buffer
    <3> QED
      BY <1>1, <2>1, <3>2 DEF WellFormed
  <2>3. GetReadableSize(c) = 0
    BY <2>1 DEF GetReadableSize
  <2> QED
    BY <1>1, <1>2, <2>1, <2>2, <2>3 DEF Holds
<1>3. CASE b.rp + n # b.wp
  <2>1. c = [cap |-> b.cap, rp |-> b.rp + n, wp |-> b.wp, data |-> b.data]
    BY <1>1, <1>3 DEF RemoveData
  <2>2. WellFormed(c)
    BY <1>1, <2>1, FactsBuffer
  <2>3. GetReadableSize(c) = b.wp - (b.rp + n)
    BY <2>1 DEF GetReadableSize
  <2>4. Holds(c, first + n)
    <3> SUFFICES ASSUME NEW i \in 0..(b.wp - (b.rp + n) - 1)
                 PROVE  b.data[b.rp + n + i] = first + n + i
      BY <2>1, <2>3 DEF Holds
    <3>1. n + i \in 0..(b.wp - b.rp - 1)
      BY <1>1
    <3>2. b.data[b.rp + (n + i)] = first + (n + i)
      BY <1>1, <3>1 DEF Holds
    <3> QED
      BY <1>1, <3>2
  <2> QED
    BY <1>1, <2>1, <2>2, <2>3, <2>4
<1> QED
  BY <1>2, <1>3

\* The unread bytes are the same after they were moved to the front.
LEMMA ReorganizeFacts ==
    ASSUME NEW b, WellFormed(b), NEW first \in Nat, Holds(b, first),
           NEW c, c = ReorganizeData(b)
    PROVE  /\ WellFormed(c) /\ Holds(c, first)
           /\ c.cap = b.cap /\ c.rp = 0 /\ c.wp = GetReadableSize(b)
           /\ GetReadableSize(c) = GetReadableSize(b)
<1>1. /\ b.cap \in Nat /\ b.rp \in Nat /\ b.wp \in Nat
      /\ b.cap <= MaxBuf /\ b.rp <= b.wp /\ b.wp <= b.cap
      /\ b.data \in [Address -> Nat]
      /\ b = [cap |-> b.cap, rp |-> b.rp, wp |-> b.wp, data |-> b.data]
      /\ GetReadableSize(b) = b.wp - b.rp
  BY BufferFacts
<1>2. PICK data : data = [i \in Address |->
          IF i < b.wp - b.rp THEN b.data[i + b.rp] ELSE b.data[i]]
  OBVIOUS
<1>3. data \in [Address -> Nat]
  <2> SUFFICES ASSUME NEW i \in Address
               PROVE  (IF i < b.wp - b.rp THEN b.data[i + b.rp] ELSE b.data[i]) \in Nat
    BY <1>2
  <2>1. i \in Nat /\ (i < b.wp - b.rp => i + b.rp \in Address)
    BY <1>1, BufAssumption DEF Address
  <2> QED
    BY <1>1, <2>1
<1>4. c = [cap |-> b.cap, rp |-> 0, wp |-> b.wp - b.rp, data |-> data]
  BY <1>1, <1>2 DEF ReorganizeData
<1>5. WellFormed(c)
  <2>1. b.wp - b.rp \in Nat /\ b.wp - b.rp <= b.cap /\ 0 <= b.wp - b.rp
    BY <1>1
  <2> QED
    BY <1>1, <1>3, <1>4, <2>1, FactsBuffer
<1>6. GetReadableSize(c) = b.wp - b.rp
  BY <1>1, <1>4 DEF GetReadableSize
<1>7. Holds(c, first)
  <2> SUFFICES ASSUME NEW i \in 0..(b.wp - b.rp - 1)
               PROVE  data[0 + i] = first + i
    BY <1>4, <1>6 DEF Holds
  <2>1. i \in Nat /\ i \in Address /\ i < b.wp - b.rp
    BY <1>1, BufAssumption DEF Address
  <2>2. data[i] = b.data[i + b.rp]
    BY <1>2, <2>1
  <2>3. b.data[b.rp + i] = first + i
    BY <1>1 DEF Holds
  <2> QED
    BY <1>1, <2>1, <2>2, <2>3
<1> QED
  BY <1>1, <1>4, <1>5, <1>6, <1>7

\* The buffer of the completion handler.
LEMMA ConsumedFacts ==
    ASSUME TypeOK, WireInOrder, NEW n \in Nat, n <= GetReadableSize(buf),
           NEW c, c = Consumed(n)
    PROVE  /\ WellFormed(c) /\ Holds(c, wire + 1 + n)
           /\ GetReadableSize(c) = GetReadableSize(buf) - n
<1>1. WellFormed(buf) /\ Holds(buf, wire + 1) /\ wire + 1 \in Nat
  BY DEF TypeOK, WireInOrder
<1>2. PICK d : d = RemoveData(buf, n)
  OBVIOUS
<1>3. /\ WellFormed(d) /\ Holds(d, wire + 1 + n)
      /\ GetReadableSize(d) = GetReadableSize(buf) - n
  BY <1>1, <1>2, RemoveFacts
<1>4. c = ReorganizeData(d) \/ c = d
  BY <1>2 DEF Consumed
<1>5. wire + 1 + n \in Nat
  BY <1>1
<1> QED
  BY <1>3, <1>4, <1>5, ReorganizeFacts
-----------------------------------------------------------------------------
(* The actions                                                             *)

\* WriteDataOnSessionThread appends behind what an outstanding write reads.
LEMMA StepWriteData ==
    ASSUME IInv, NEW n \in PacketLens, WriteDataOnSessionThread(n)
    PROVE  IInv'
<1>0. n \in Nat /\ MaxPackets \in Nat
  BY WriteAssumption
<1>1. packets' \in 0..MaxPackets /\ UNCHANGED <<wire, torn, sock>>
  BY <1>0 DEF IInv, TypeOK, WriteDataOnSessionThread
<1>2. CASE UNCHANGED <<buf, accepted, m_onWriting, from, upto>>
  BY <1>1, <1>2 DEF IInv, TypeOK, WireInOrder, WritingInv
<1>3. CASE ~ UNCHANGED <<buf, accepted, m_onWriting, from, upto>>
  <2>1. PICK b : b = PaddingData(Fill(buf, accepted + 1, n), n)
    OBVIOUS
  <2>2. /\ n <= CurrentWritableSize(buf)
        /\ buf' = b
        /\ accepted' = accepted + n
        /\ DoSessionWrite(b)
    BY <1>3, <2>1 DEF WriteDataOnSessionThread
  <2>3. /\ WellFormed(buf) /\ wire \in Nat /\ accepted \in Nat
        /\ Holds(buf, wire + 1) /\ wire + GetReadableSize(buf) = accepted
        /\ GetReadableSize(buf) = buf.wp - buf.rp /\ GetReadableSize(buf) \in Nat
        /\ buf.rp \in Nat /\ buf.wp \in Nat /\ buf.rp <= buf.wp
    BY BufferFacts DEF IInv, TypeOK, WireInOrder
  <2>4. accepted + 1 = wire + 1 + GetReadableSize(buf) /\ wire + 1 \in Nat
    BY <2>3
  <2>5. /\ WellFormed(b) /\ Holds(b, wire + 1)
        /\ b.rp = buf.rp /\ b.wp = buf.wp + n
    BY <1>0, <2>1, <2>2, <2>3, <2>4, AppendFacts
  <2>6. GetReadableSize(b) = GetReadableSize(buf) + n
    BY <1>0, <2>3, <2>5 DEF GetReadableSize
  <2>7. TypeOK'
    <3>1. from' \in Nat /\ upto' \in Nat
      BY <1>0, <2>2, <2>3, <2>5 DEF DoSessionWrite, IInv, TypeOK
    <3>2. m_onWriting' \in BOOLEAN
      BY <2>2 DEF DoSessionWrite, IInv, TypeOK
    <3> QED
      BY <1>0, <1>1, <2>2, <2>3, <2>5, <3>1, <3>2 DEF IInv, TypeOK
  <2>8. WireInOrder'
    BY <1>0, <1>1, <2>2, <2>3, <2>5, <2>6 DEF IInv, WireInOrder
  <2>9. WritingInv'
    <3>1. CASE m_onWriting
      BY <1>0, <2>2, <2>3, <2>5, <3>1 DEF DoSessionWrite, IInv, TypeOK, WritingInv
    <3>2. CASE ~ m_onWriting
      BY <1>0, <2>2, <2>3, <2>5, <3>2 DEF DoSessionWrite, WritingInv
    <3> QED
      BY <3>1, <3>2
  <2> QED
    BY <2>7, <2>8, <2>9 DEF IInv
<1> QED
  BY <1>2, <1>3

\* The handler of a write removes what was written, and only then moves bytes.
LEMMA StepWriteDone ==
    ASSUME IInv, NEW n \in 1..MaxBuf, WriteDone(n)
    PROVE  IInv'
<1>1. /\ m_onWriting /\ n \in 1..(upto - from)
      /\ wire' = wire + n
      /\ torn' = (torn \/ \E i \in 0..(n - 1) : buf.data[from + i] # wire + 1 + i)
      /\ UNCHANGED <<accepted, packets, sock>>
  BY DEF WriteDone
<1>2. /\ WellFormed(buf) /\ wire \in Nat /\ accepted \in Nat /\ from \in Nat /\ upto \in Nat
      /\ Holds(buf, wire + 1) /\ wire + GetReadableSize(buf) = accepted
      /\ GetReadableSize(buf) = buf.wp - buf.rp /\ GetReadableSize(buf) \in Nat
      /\ buf.rp \in Nat /\ buf.wp \in Nat /\ buf.rp <= buf.wp
      /\ from = buf.rp /\ upto <= buf.wp /\ torn = FALSE
  BY <1>1, BufferFacts DEF IInv, TypeOK, WireInOrder, WritingInv
<1>3. n \in Nat /\ n <= GetReadableSize(buf)
  BY <1>1, <1>2
<1>4. PICK c : c = Consumed(n)
  OBVIOUS
<1>5. /\ WellFormed(c) /\ Holds(c, wire + 1 + n)
      /\ GetReadableSize(c) = GetReadableSize(buf) - n
  BY <1>3, <1>4, ConsumedFacts DEF IInv
<1>6. c.rp \in Nat /\ c.wp \in Nat /\ c.rp <= c.wp
  BY <1>5, BufferFacts
<1>7. /\ buf' = c
      /\ \/ m_onWriting' = TRUE /\ from' = c.rp /\ upto' = c.wp
         \/ m_onWriting' = FALSE /\ from' = from /\ upto' = upto
  BY <1>4 DEF WriteDone
<1>8. torn' = FALSE
  <2>1. \A i \in 0..(n - 1) : i \in 0..(GetReadableSize(buf) - 1)
    BY <1>2, <1>3
  <2>2. \A i \in 0..(n - 1) : buf.data[from + i] = wire + 1 + i
    BY <1>2, <2>1 DEF Holds
  <2> QED
    BY <1>1, <1>2, <2>2
<1>9. TypeOK'
  <2>1. wire' \in Nat /\ from' \in Nat /\ upto' \in Nat /\ WellFormed(buf')
    BY <1>1, <1>2, <1>3, <1>5, <1>6, <1>7
  <2>2. m_onWriting' \in BOOLEAN
    BY <1>7
  <2>3. torn' \in BOOLEAN
    BY <1>8
  <2> QED
    BY <1>1, <2>1, <2>2, <2>3 DEF IInv, TypeOK
<1>10. WireInOrder'
  <2>1. wire' + 1 = wire + 1 + n
    BY <1>1, <1>2, <1>3
  <2>2. Holds(buf', wire' + 1)
    BY <1>5, <1>7, <2>1
  <2>3. wire' + GetReadableSize(buf') = accepted'
    BY <1>1, <1>2, <1>3, <1>5, <1>7
  <2> QED
    BY <1>8, <2>2, <2>3 DEF WireInOrder
<1>11. WritingInv'
  BY <1>6, <1>7 DEF WritingInv
<1> QED
  BY <1>9, <1>10, <1>11 DEF IInv
-----------------------------------------------------------------------------
(* The theorems                                                            *)

\* The inductive invariant holds before anything has been sent.
LEMMA InitInv == Init => IInv
<1> SUFFICES ASSUME Init PROVE IInv
  OBVIOUS
<1>1. PICK data : data = [i \in Address |-> 0]
  OBVIOUS
<1>2. data \in [Address -> Nat] /\ MaxBuf \div InitDiv \in Nat /\ MaxBuf \div InitDiv <= MaxBuf
  BY <1>1, BufAssumption
<1>3. buf = [cap |-> MaxBuf \div InitDiv, rp |-> 0, wp |-> 0, data |-> data]
  BY <1>1 DEF Init, NewBuffer
<1>4. WellFormed(buf)
  BY <1>2, <1>3, FactsBuffer
<1>5. GetReadableSize(buf) = 0
  BY <1>3 DEF GetReadableSize
<1>6. WireInOrder
  BY <1>5 DEF Init, WireInOrder, Holds
<1>7. TypeOK
  <2>1. 0 \in 0..MaxPackets
    BY WriteAssumption
  <2>2. torn \in BOOLEAN /\ m_onWriting \in BOOLEAN
    BY DEF Init
  <2> QED
    BY <1>4, <2>1, <2>2 DEF Init, TypeOK
<1>8. WritingInv
  BY DEF Init, WritingInv
<1> QED
  BY <1>6, <1>7, <1>8 DEF IInv

\* Every step of the write path keeps the inductive invariant.
LEMMA NextInv == IInv /\ [Next]_vars => IInv'
<1> SUFFICES ASSUME IInv, [Next]_vars PROVE IInv'
  OBVIOUS
<1>1. CASE WriteError
  BY <1>1 DEF WriteError, IInv, TypeOK, WireInOrder, WritingInv
<1>2. CASE AsyncClose \/ DoSessionCloseInNetLoop
  BY <1>2 DEF AsyncClose, DoSessionCloseInNetLoop, IInv, TypeOK, WireInOrder, WritingInv
<1>3. CASE UNCHANGED vars
  BY <1>3 DEF vars, IInv, TypeOK, WireInOrder, WritingInv
<1> QED
  BY <1>1, <1>2, <1>3, StepWriteData, StepWriteDone DEF Next, Idle

\* WriteDataOnSessionThread and DoSessionWrite keep the inductive invariant in
\* every behaviour.
THEOREM SafetyInv == Spec => []IInv
BY InitInv, NextInv, PTL DEF Spec

\* Every variable keeps its type, and the positions of m_buffWrite stay in order
\* and inside the memory, whatever packets come and however the socket takes them.
THEOREM TypeCorrect == Spec => []TypeOK
<1>1. IInv => TypeOK
  BY DEF IInv
<1> QED
  BY <1>1, SafetyInv, PTL

\* The socket takes the bytes of the accepted packets in their order, none twice
\* and none left out, although new packets are written into the memory that the
\* outstanding async_write_some still reads.
THEOREM PacketsGoOutInOrder == Spec => []WireInOrder
<1>1. IInv => WireInOrder
  BY DEF IInv
<1> QED
  BY <1>1, SafetyInv, PTL
=============================================================================
