---------------------------- MODULE NetRead_proofs ----------------------------
(***************************************************************************)
(* Proofs about NetRead: for every size of the memory, all frames, also     *)
(* those longer than it, and all chunks, no byte is lost or mixed between   *)
(* the socket and the parser, a read always has room, ShrinkByLength's loop *)
(* has an exit unless the frame at the front is too long, and only what the *)
(* peer got wrong is refused.                                               *)
(***************************************************************************)
EXTENDS NetRead, TLAPS

(***************************************************************************)
(* The inductive invariant.                                                 *)
(*                                                                         *)
(* StreamInv: the frames lie one behind the other, so at most one of them   *)
(* begins at a given byte, and what was read was sent before.               *)
(***************************************************************************)
StreamInv ==
    /\ Len(starts) = Len(frames) + 1
    /\ \A k \in 1..Len(frames) : starts[k + 1] = starts[k] + frames[k].len
    /\ \A j, k \in 1..Len(starts) : j < k => starts[j] < starts[k]
    /\ delivered <= Len(frames)
    /\ received <= StreamLen

\* The refused frame was sent, and it stays the first of the buffer. The close
\* was posted with the refusal.
RefusedInv == refused => delivered < Len(frames) /\ sock # "open"

\* While a handler runs the socket is open, or this is its last handler.
HandlerInv == pc \in {"grow", "parse"} => sock \in {"open", "late"}

\* A handler leaves room behind the data: as the memory is half free, or by
\* growing it.
RoomInv ==
    /\ buf.cap >= 2
    /\ pc \in {"reading", "parse"} => buf.wp < buf.cap
    /\ pc = "grow" => buf.rp = 0 /\ chunk > 0 /\ chunk <= GetReadableSize(buf)

\* The frame at the front is incomplete when a read is issued, so that no more
\* than one chunk can lie behind it; a refused one can be followed by one more.
UnreadInv ==
    LET unread == GetReadableSize(buf)
        front == frames[delivered + 1].len
    IN
    delivered < Len(frames) =>
        /\ pc = "reading" /\ ~ refused => unread < front
        /\ pc \in {"grow", "parse"} /\ ~ refused => unread < front + MaxChunk
        /\ pc = "reading" /\ refused /\ sock # "closed" => unread < front + MaxChunk
        /\ pc \in {"grow", "parse"} /\ refused => unread < front + 2 * MaxChunk

IInv ==
    /\ TypeOK
    /\ StreamIntact
    /\ RefusedOnlyBad
    /\ StreamInv
    /\ RefusedInv
    /\ HandlerInv
    /\ RoomInv
    /\ UnreadInv
-----------------------------------------------------------------------------
(* The operations of SessionBuffer                                         *)

\* The parts of a buffer, as the provers need them.
LEMMA BufferFacts ==
    ASSUME NEW b, WellFormed(b)
    PROVE  /\ b.cap \in Nat /\ b.rp \in Nat /\ b.wp \in Nat
           /\ b.cap <= MaxBuf /\ b.rp <= b.wp /\ b.wp <= b.cap
           /\ b.data \in [Address -> Nat]
           /\ b = [cap |-> b.cap, rp |-> b.rp, wp |-> b.wp, data |-> b.data]
           /\ GetReadableSize(b) = b.wp - b.rp /\ GetReadableSize(b) \in Nat
           /\ CurrentWritableSize(b) = b.cap - b.wp /\ CurrentWritableSize(b) \in Nat
<1>1. b \in Buffer /\ b.rp <= b.wp /\ b.wp <= b.cap
  BY DEF WellFormed
<1>2. b.cap \in 0..MaxBuf /\ b.rp \in Nat /\ b.wp \in Nat /\ b.data \in [Address -> Nat]
      /\ b = [cap |-> b.cap, rp |-> b.rp, wp |-> b.wp, data |-> b.data]
  BY <1>1 DEF Buffer
<1> QED
  BY <1>1, <1>2, BufAssumption DEF GetReadableSize, CurrentWritableSize

\* And back.
LEMMA FactsBuffer ==
    ASSUME NEW cap \in Nat, NEW rp \in Nat, NEW wp \in Nat, NEW data \in [Address -> Nat],
           rp <= wp, wp <= cap, cap <= MaxBuf
    PROVE  WellFormed([cap |-> cap, rp |-> rp, wp |-> wp, data |-> data])
BY BufAssumption DEF WellFormed, Buffer

\* A chunk that was read is stored behind the unread bytes, which stay as they are.
LEMMA AppendFacts ==
    ASSUME NEW b, WellFormed(b), NEW first \in Nat, NEW n \in Nat, Holds(b, first),
           n <= CurrentWritableSize(b),
           NEW c, c = PaddingData(Fill(b, first + GetReadableSize(b), n), n)
    PROVE  /\ WellFormed(c) /\ Holds(c, first)
           /\ c.cap = b.cap /\ c.rp = b.rp /\ c.wp = b.wp + n
<1>1. /\ b.cap \in Nat /\ b.rp \in Nat /\ b.wp \in Nat
      /\ b.cap <= MaxBuf /\ b.rp <= b.wp /\ b.wp <= b.cap
      /\ b.data \in [Address -> Nat]
      /\ b = [cap |-> b.cap, rp |-> b.rp, wp |-> b.wp, data |-> b.data]
      /\ GetReadableSize(b) = b.wp - b.rp
      /\ n <= b.cap - b.wp
  BY BufferFacts
<1>2. PICK data : data = [i \in Address |->
          IF i \in b.wp..(b.wp + n - 1) THEN first + (b.wp - b.rp) + (i - b.wp)
                                        ELSE b.data[i]]
  OBVIOUS
<1>3. data \in [Address -> Nat]
  <2> SUFFICES ASSUME NEW i \in Address
               PROVE  (IF i \in b.wp..(b.wp + n - 1) THEN first + (b.wp - b.rp) + (i - b.wp)
                                                     ELSE b.data[i]) \in Nat
    BY <1>2
  <2>1. i \in Nat
    BY BufAssumption DEF Address
  <2> QED
    BY <1>1, <2>1
<1>4. Fill(b, first + GetReadableSize(b), n)
        = [cap |-> b.cap, rp |-> b.rp, wp |-> b.wp, data |-> data]
  BY <1>1, <1>2 DEF Fill
<1>5. c = [cap |-> b.cap, rp |-> b.rp, wp |-> b.wp + n, data |-> data]
  BY <1>1, <1>4 DEF PaddingData, CurrentWritableSize
<1>6. WellFormed(c)
  BY <1>1, <1>3, <1>5, FactsBuffer
<1>7. Holds(c, first)
  <2>1. c.rp = b.rp /\ c.wp = b.wp + n /\ c.data = data
    BY <1>5
  <2>2. GetReadableSize(c) = (b.wp + n) - b.rp
    BY <2>1 DEF GetReadableSize
  <2> SUFFICES ASSUME NEW i \in 0..((b.wp + n) - b.rp - 1)
               PROVE  data[b.rp + i] = first + i
    BY <2>1, <2>2 DEF Holds
  <2>3. i \in Nat /\ b.rp + i \in Address
    BY <1>1, BufAssumption, SMTT(60) DEF Address
  <2>4. CASE b.rp + i < b.wp
    <3>1. data[b.rp + i] = b.data[b.rp + i]
      BY <1>1, <1>2, <2>3, <2>4
    <3>2. i \in 0..(b.wp - b.rp - 1)
      BY <1>1, <2>3, <2>4
    <3> QED
      BY <1>1, <3>1, <3>2 DEF Holds
  <2>5. CASE b.rp + i >= b.wp
    <3>1. b.rp + i \in b.wp..(b.wp + n - 1)
      BY <1>1, <2>3, <2>5
    <3>2. data[b.rp + i] = first + (b.wp - b.rp) + ((b.rp + i) - b.wp)
      BY <1>2, <2>3, <3>1
    <3> QED
      BY <1>1, <2>3, <3>2
  <2> QED
    BY <1>1, <2>3, <2>4, <2>5
<1> QED
  BY <1>5, <1>6, <1>7

\* A frame that was parsed is given up from the front.
LEMMA RemoveFacts ==
    ASSUME NEW b, WellFormed(b), NEW first \in Nat, NEW n \in Nat, Holds(b, first),
           n <= GetReadableSize(b),
           NEW c, c = RemoveData(b, n)
    PROVE  /\ WellFormed(c) /\ Holds(c, first + n)
           /\ c.cap = b.cap /\ c.wp <= b.wp
           /\ GetReadableSize(c) = GetReadableSize(b) - n
<1>1. /\ b.cap \in Nat /\ b.rp \in Nat /\ b.wp \in Nat
      /\ b.cap <= MaxBuf /\ b.rp <= b.wp /\ b.wp <= b.cap
      /\ b.data \in [Address -> Nat]
      /\ b = [cap |-> b.cap, rp |-> b.rp, wp |-> b.wp, data |-> b.data]
      /\ GetReadableSize(b) = b.wp - b.rp
      /\ n <= b.wp - b.rp
  BY BufferFacts
<1>2. CASE b.rp + n = b.wp
  <2>1. c.cap = b.cap /\ c.rp = 0 /\ c.wp = 0
    <3>1. c = [b EXCEPT !.rp = 0, !.wp = 0]
      BY <1>1, <1>2 DEF RemoveData
    <3> QED
      BY <1>1, <3>1
  <2>2. WellFormed(c)
    <3>1. c = [b EXCEPT !.rp = 0, !.wp = 0]
      BY <1>1, <1>2 DEF RemoveData
    <3>2. c \in Buffer
      <4>1. PICK d : d = [b EXCEPT !.rp = 0]
        OBVIOUS
      <4>2. d \in Buffer
        BY <4>1 DEF WellFormed, Buffer
      <4>3. c = [d EXCEPT !.wp = 0]
        BY <3>1, <4>1
      <4> QED
        BY <4>2, <4>3 DEF Buffer
    <3> QED
      BY <1>1, <2>1, <3>2 DEF WellFormed
  <2>3. GetReadableSize(c) = 0
    BY <2>1 DEF GetReadableSize
  <2> QED
    BY <1>1, <1>2, <2>1, <2>2, <2>3 DEF Holds
<1>3. CASE b.rp + n # b.wp
  <2>1. c = [cap |-> b.cap, rp |-> b.rp + n, wp |-> b.wp, data |-> b.data]
    BY <1>1, <1>3 DEF RemoveData
  <2>2. WellFormed(c)
    BY <1>1, <2>1, FactsBuffer
  <2>3. GetReadableSize(c) = b.wp - (b.rp + n)
    BY <2>1 DEF GetReadableSize
  <2>4. Holds(c, first + n)
    <3> SUFFICES ASSUME NEW i \in 0..(b.wp - (b.rp + n) - 1)
                 PROVE  b.data[b.rp + n + i] = first + n + i
      BY <2>1, <2>3 DEF Holds
    <3>1. n + i \in 0..(b.wp - b.rp - 1)
      BY <1>1
    <3>2. b.data[b.rp + (n + i)] = first + (n + i)
      BY <1>1, <3>1 DEF Holds
    <3> QED
      BY <1>1, <3>2
  <2> QED
    BY <1>1, <2>1, <2>2, <2>3, <2>4
<1> QED
  BY <1>2, <1>3

\* The unread bytes are the same after they were moved to the front.
LEMMA ReorganizeFacts ==
    ASSUME NEW b, WellFormed(b), NEW first \in Nat, Holds(b, first),
           NEW c, c = ReorganizeData(b)
    PROVE  /\ WellFormed(c) /\ Holds(c, first)
           /\ c.cap = b.cap /\ c.rp = 0 /\ c.wp = GetReadableSize(b)
           /\ GetReadableSize(c) = GetReadableSize(b)
<1>1. /\ b.cap \in Nat /\ b.rp \in Nat /\ b.wp \in Nat
      /\ b.cap <= MaxBuf /\ b.rp <= b.wp /\ b.wp <= b.cap
      /\ b.data \in [Address -> Nat]
      /\ b = [cap |-> b.cap, rp |-> b.rp, wp |-> b.wp, data |-> b.data]
      /\ GetReadableSize(b) = b.wp - b.rp
  BY BufferFacts
<1>2. PICK data : data = [i \in Address |->
          IF i < b.wp - b.rp THEN b.data[i + b.rp] ELSE b.data[i]]
  OBVIOUS
<1>3. data \in [Address -> Nat]
  <2> SUFFICES ASSUME NEW i \in Address
               PROVE  (IF i < b.wp - b.rp THEN b.data[i + b.rp] ELSE b.data[i]) \in Nat
    BY <1>2
  <2>1. i \in Nat /\ (i < b.wp - b.rp => i + b.rp \in Address)
    BY <1>1, BufAssumption DEF Address
  <2> QED
    BY <1>1, <2>1
<1>4. c = [cap |-> b.cap, rp |-> 0, wp |-> b.wp - b.rp, data |-> data]
  BY <1>1, <1>2 DEF ReorganizeData
<1>5. WellFormed(c)
  <2>1. b.wp - b.rp \in Nat /\ b.wp - b.rp <= b.cap /\ 0 <= b.wp - b.rp
    BY <1>1
  <2> QED
    BY <1>1, <1>3, <1>4, <2>1, FactsBuffer
<1>6. GetReadableSize(c) = b.wp - b.rp
  BY <1>1, <1>4 DEF GetReadableSize
<1>7. Holds(c, first)
  <2> SUFFICES ASSUME NEW i \in 0..(b.wp - b.rp - 1)
               PROVE  data[0 + i] = first + i
    BY <1>4, <1>6 DEF Holds
  <2>1. i \in Nat /\ i \in Address /\ i < b.wp - b.rp
    BY <1>1, BufAssumption DEF Address
  <2>2. data[i] = b.data[i + b.rp]
    BY <1>2, <2>1
  <2>3. b.data[b.rp + i] = first + i
    BY <1>1 DEF Holds
  <2> QED
    BY <1>1, <2>1, <2>2, <2>3
<1> QED
  BY <1>1, <1>4, <1>5, <1>6, <1>7

\* A turn of ShrinkByLength's loop changes nothing but the size of the memory.
LEMMA GrowFacts ==
    ASSUME NEW b, WellFormed(b), NEW first \in Nat, Holds(b, first), NEW c, c = GrowOnce(b)
    PROVE  /\ WellFormed(c) /\ Holds(c, first)
           /\ c.cap >= b.cap /\ c.rp = b.rp /\ c.wp = b.wp
           /\ GetReadableSize(c) = GetReadableSize(b)
<1>1. /\ b.cap \in Nat /\ b.rp \in Nat /\ b.wp \in Nat
      /\ b.cap <= MaxBuf /\ b.rp <= b.wp /\ b.wp <= b.cap
      /\ b.data \in [Address -> Nat]
      /\ b = [cap |-> b.cap, rp |-> b.rp, wp |-> b.wp, data |-> b.data]
  BY BufferFacts
<1>2. PICK cap : cap = IF 4 * b.cap < MaxBuf THEN 4 * b.cap ELSE MaxBuf
  OBVIOUS
<1>3. cap \in Nat /\ cap >= b.cap /\ cap <= MaxBuf
  BY <1>1, <1>2, BufAssumption
<1>4. c = [cap |-> cap, rp |-> b.rp, wp |-> b.wp, data |-> b.data]
  BY <1>1, <1>2 DEF GrowOnce
<1>5. WellFormed(c)
  BY <1>1, <1>3, <1>4, FactsBuffer
<1>6. c.rp = b.rp /\ c.wp = b.wp /\ c.data = b.data /\ c.cap = cap
  BY <1>4
<1> QED
  BY <1>3, <1>5, <1>6 DEF Holds, GetReadableSize

\* The bytes that can lie behind the last one of the front frame.
LEMMA ChunkArithmetic ==
    ASSUME NEW unread \in Nat, NEW n \in Nat, NEW c \in Nat, NEW len \in Nat, n <= c
    PROVE  /\ unread < len => unread + n < len + c
           /\ unread < len + c => unread + n < len + 2 * c
           /\ unread < len => unread < len + c
           /\ unread < len + c => unread < len + 2 * c
OBVIOUS

\* Appending to a sequence keeps the elements that are there.
LEMMA AppendElements ==
    ASSUME NEW S, NEW q \in Seq(S), NEW e \in S, NEW r, r = Append(q, e)
    PROVE  /\ r \in Seq(S) /\ Len(r) = Len(q) + 1
           /\ \A i \in 1..Len(q) : r[i] = q[i]
           /\ r[Len(q) + 1] = e
OBVIOUS
-----------------------------------------------------------------------------
(* The stream                                                              *)

\* What the proofs use of the state at every step.
LEMMA StateFacts ==
    ASSUME IInv
    PROVE  /\ WellFormed(buf)
           /\ delivered \in Nat /\ received \in Nat /\ chunk \in Nat /\ chunk <= MaxChunk
           /\ Len(frames) \in Nat /\ Len(starts) = Len(frames) + 1
           /\ delivered <= Len(frames)
           /\ delivered + 1 \in 1..Len(starts)
           /\ \A k \in 1..Len(starts) : starts[k] \in Nat
           /\ \A k \in 1..Len(frames) : frames[k] \in Frames
           /\ starts[delivered + 1] \in Nat
           /\ Holds(buf, starts[delivered + 1])
           /\ starts[delivered + 1] + GetReadableSize(buf) = received + 1
           /\ GetReadableSize(buf) \in Nat
<1>1. WellFormed(buf) /\ delivered \in Nat /\ received \in Nat /\ chunk \in 0..MaxChunk
      /\ frames \in Seq(Frames) /\ starts \in Seq(Nat)
  BY DEF IInv, TypeOK
<1>2. Len(frames) \in Nat /\ Len(starts) = Len(frames) + 1 /\ delivered <= Len(frames)
  BY <1>1 DEF IInv, StreamInv
<1>3. delivered + 1 \in 1..Len(starts)
  BY <1>1, <1>2
<1>4. \A k \in 1..Len(starts) : starts[k] \in Nat
  BY <1>1
<1>5. \A k \in 1..Len(frames) : frames[k] \in Frames
  BY <1>1
<1> QED
  BY <1>1, <1>2, <1>3, <1>4, <1>5, BufferFacts, ReadAssumption DEF IInv, StreamIntact

\* What is known of a frame.
LEMMA FrameFacts ==
    ASSUME NEW f \in Frames
    PROVE  /\ f.len \in Nat /\ f.len >= 1 /\ f.len >= HeadLen
           /\ f.sum \in BOOLEAN
BY ReadAssumption

\* When a byte is there, it is the first one of a frame that was sent and not
\* delivered, and of no other.
LEMMA HeadIsNext ==
    ASSUME IInv, GetReadableSize(buf) >= 1
    PROVE  delivered + 1 \in 1..Len(frames) /\ HeadFrame = {delivered + 1}
<1>1. /\ WellFormed(buf)
      /\ delivered \in Nat /\ received \in Nat
      /\ Len(frames) \in Nat /\ Len(starts) = Len(frames) + 1
      /\ delivered <= Len(frames)
      /\ delivered + 1 \in 1..Len(starts)
      /\ \A k \in 1..Len(starts) : starts[k] \in Nat
      /\ starts[delivered + 1] \in Nat
      /\ Holds(buf, starts[delivered + 1])
      /\ starts[delivered + 1] + GetReadableSize(buf) = received + 1
      /\ GetReadableSize(buf) \in Nat
  BY StateFacts
<1>2. received + 1 <= starts[Len(starts)]
  <2>1. Len(starts) \in 1..Len(starts)
    BY <1>1
  <2>2. starts[Len(starts)] \in Nat
    BY <1>1, <2>1
  <2> QED
    BY <1>1, <2>2 DEF IInv, StreamInv, StreamLen
<1>3. delivered + 1 # Len(starts)
  BY <1>1, <1>2
<1>4. delivered + 1 \in 1..Len(frames)
  BY <1>1, <1>3
<1>5. buf.data[buf.rp] = starts[delivered + 1]
  <2>1. 0 \in 0..(GetReadableSize(buf) - 1)
    BY <1>1
  <2>2. buf.data[buf.rp + 0] = starts[delivered + 1] + 0
    BY <1>1, <2>1 DEF Holds
  <2>3. buf.rp + 0 = buf.rp
    BY <1>1, BufferFacts
  <2> QED
    BY <1>1, <2>2, <2>3
<1>6. ASSUME NEW k \in 1..Len(frames), starts[k] = starts[delivered + 1]
      PROVE  k = delivered + 1
  <2>1. k \in 1..Len(starts)
    BY <1>1
  <2>2. ~ (k < delivered + 1) /\ ~ (delivered + 1 < k)
    BY <1>1, <1>6, <2>1, SMTT(60) DEF IInv, StreamInv
  <2> QED
    BY <1>1, <2>2
<1> QED
  BY <1>4, <1>5, <1>6 DEF HeadFrame

\* The buffer is empty when all frames that were sent are delivered.
LEMMA NothingUnread ==
    ASSUME IInv, ~ (delivered < Len(frames))
    PROVE  GetReadableSize(buf) = 0
<1>1. GetReadableSize(buf) \in Nat /\ delivered \in Nat /\ Len(frames) \in Nat
  BY StateFacts
<1>2. delivered + 1 \notin 1..Len(frames)
  BY <1>1
<1> QED
  BY <1>1, <1>2, HeadIsNext

\* What the parts of the invariant say when neither the stream nor what was read
\* and delivered of it changes.
LEMMA StreamStays ==
    ASSUME IInv, UNCHANGED <<frames, starts, received, delivered>>
    PROVE  StreamInv'
BY DEF IInv, StreamInv, StreamLen
-----------------------------------------------------------------------------
(* The actions                                                             *)

\* A frame the peer sends lies behind all it has sent; the buffer is not touched.
LEMMA StepPeerSends ==
    ASSUME IInv, NEW f \in Frames, PeerSends(f)
    PROVE  IInv'
<1>1. /\ WellFormed(buf)
      /\ delivered \in Nat /\ received \in Nat
      /\ Len(frames) \in Nat /\ Len(starts) = Len(frames) + 1
      /\ delivered <= Len(frames)
      /\ delivered + 1 \in 1..Len(starts)
      /\ \A k \in 1..Len(starts) : starts[k] \in Nat
      /\ starts[delivered + 1] \in Nat
  BY StateFacts
<1>2. f.len \in Nat /\ f.len >= 1
  BY FrameFacts
<1>3. Len(starts) \in 1..Len(starts) /\ starts[Len(starts)] \in Nat
  BY <1>1
<1>4. PICK end \in Nat : end = starts[Len(starts)] + f.len
  BY <1>2, <1>3
<1>5. frames \in Seq(Frames) /\ starts \in Seq(Nat)
  BY DEF IInv, TypeOK
<1>6. /\ frames' \in Seq(Frames) /\ Len(frames') = Len(frames) + 1
      /\ \A i \in 1..Len(frames) : frames'[i] = frames[i]
      /\ frames'[Len(frames) + 1] = f
  <2>1. frames' = Append(frames, f)
    BY DEF PeerSends
  <2> QED
    BY <1>5, <2>1, AppendElements
<1>7. /\ starts' \in Seq(Nat) /\ Len(starts') = Len(starts) + 1
      /\ \A i \in 1..Len(starts) : starts'[i] = starts[i]
      /\ starts'[Len(starts) + 1] = end
  <2>1. starts' = Append(starts, end)
    BY <1>4 DEF PeerSends
  <2> QED
    BY <1>5, <2>1, AppendElements
<1>8. /\ UNCHANGED <<received, buf, chunk, delivered, called, refused, sock, pc>>
      /\ Len(frames) < NumFrames
  BY DEF PeerSends
<1>9. TypeOK'
  <2>1. called' \subseteq 1..Len(frames')
    BY <1>1, <1>6, <1>8 DEF IInv, TypeOK
  <2>2. Len(frames') <= NumFrames
    BY <1>1, <1>6, <1>8, ReadAssumption
  <2> QED
    BY <1>6, <1>7, <1>8, <2>1, <2>2 DEF IInv, TypeOK
<1>10. StreamIntact'
  <2>1. starts'[delivered + 1] = starts[delivered + 1]
    BY <1>1, <1>7
  <2> QED
    BY <1>8, <2>1 DEF IInv, StreamIntact
<1>11. RefusedOnlyBad' /\ RefusedInv'
  <2> SUFFICES ASSUME refused
               PROVE  RefusedOnlyBad' /\ RefusedInv'
    BY <1>8 DEF RefusedOnlyBad, RefusedInv
  <2>0. sock # "open"
    BY DEF IInv, RefusedInv
  <2>1. delivered + 1 \in 1..Len(frames) /\ delivered < Len(frames)
    BY <1>1 DEF IInv, RefusedInv
  <2>2. frames'[delivered + 1] = frames[delivered + 1]
    BY <1>6, <2>1
  <2>3. RefusedOnlyBad'
    BY <1>8, <2>2 DEF IInv, RefusedOnlyBad
  <2>4. RefusedInv'
    BY <1>1, <1>6, <1>8, <2>0, <2>1 DEF RefusedInv
  <2> QED
    BY <2>3, <2>4
<1>12. StreamInv'
  <2>1. Len(starts') = Len(frames') + 1
    BY <1>1, <1>6, <1>7
  <2>2. \A k \in 1..Len(frames') : starts'[k + 1] = starts'[k] + frames'[k].len
    <3> SUFFICES ASSUME NEW k \in 1..(Len(frames) + 1)
                 PROVE  starts'[k + 1] = starts'[k] + frames'[k].len
      BY <1>6
    <3>1. CASE k = Len(frames) + 1
      BY <1>1, <1>3, <1>4, <1>6, <1>7, <3>1
    <3>2. CASE k # Len(frames) + 1
      <4>1. k \in 1..Len(frames) /\ k \in 1..Len(starts) /\ k + 1 \in 1..Len(starts)
        BY <1>1, <3>2
      <4>2. starts[k + 1] = starts[k] + frames[k].len
        BY <4>1 DEF IInv, StreamInv
      <4> QED
        BY <1>6, <1>7, <4>1, <4>2
    <3> QED
      BY <3>1, <3>2
  <2>3. \A j, k \in 1..Len(starts') : j < k => starts'[j] < starts'[k]
    <3> SUFFICES ASSUME NEW j \in 1..(Len(starts) + 1), NEW k \in 1..(Len(starts) + 1), j < k
                 PROVE  starts'[j] < starts'[k]
      BY <1>7
    <3>1. j \in 1..Len(starts) /\ starts'[j] = starts[j] /\ starts[j] \in Nat
      BY <1>1, <1>7, SMTT(60)
    <3>2. CASE k = Len(starts) + 1
      <4>1. starts[j] <= starts[Len(starts)]
        <5>1. CASE j = Len(starts)
          BY <3>1, <5>1
        <5>2. CASE j # Len(starts)
          <6>1. starts[j] < starts[Len(starts)]
            BY <1>1, <1>3, <3>1, <5>2 DEF IInv, StreamInv
          <6> QED
            BY <1>3, <3>1, <6>1
        <5> QED
          BY <5>1, <5>2
      <4> QED
        BY <1>2, <1>3, <1>4, <1>7, <3>1, <3>2, <4>1
    <3>3. CASE k # Len(starts) + 1
      <4>1. k \in 1..Len(starts) /\ starts'[k] = starts[k]
        BY <1>1, <1>7, <3>3, SMTT(60)
      <4> QED
        BY <3>1, <4>1 DEF IInv, StreamInv
    <3> QED
      BY <3>2, <3>3
  <2>4. delivered' <= Len(frames')
    BY <1>1, <1>6, <1>8
  <2>5. received' <= StreamLen'
    <3>1. received <= starts[Len(starts)] - 1
      BY DEF IInv, StreamInv, StreamLen
    <3>2. starts'[Len(starts')] = end
      BY <1>7
    <3> QED
      BY <1>1, <1>2, <1>3, <1>4, <1>8, <3>1, <3>2, SMTT(60) DEF StreamLen
  <2> QED
    BY <2>1, <2>2, <2>3, <2>4, <2>5 DEF StreamInv
<1>13. HandlerInv' /\ RoomInv'
  BY <1>8 DEF IInv, HandlerInv, RoomInv
<1>14. UnreadInv'
  <2>1. CASE delivered < Len(frames)
    <3>1. delivered + 1 \in 1..Len(frames)
      BY <1>1, <2>1
    <3>2. frames'[delivered + 1].len = frames[delivered + 1].len
      BY <1>6, <3>1
    <3> QED
      BY <1>8, <2>1, <3>2 DEF IInv, UnreadInv
  <2>2. CASE ~ (delivered < Len(frames))
    <3>1. GetReadableSize(buf) = 0
      BY <2>2, NothingUnread
    <3>2. delivered + 1 = Len(frames) + 1 /\ frames'[delivered + 1].len = f.len
      BY <1>1, <1>6, <2>2
    <3>3. pc = "reading" /\ ~ refused
      BY <2>2 DEF PeerSends, IInv, RefusedInv
    <3> QED
      BY <1>2, <1>8, <3>1, <3>2, <3>3 DEF UnreadInv
  <2> QED
    BY <2>1, <2>2
<1> QED
  BY <1>9, <1>10, <1>11, <1>12, <1>13, <1>14 DEF IInv

\* The memory after a chunk has come in: it is reorganized, or at least half of
\* it is free.
LEMMA StepReadSome ==
    ASSUME IInv, NEW n \in 0..MaxChunk, ReadSome(n)
    PROVE  IInv'
<1>1. /\ WellFormed(buf)
      /\ delivered \in Nat /\ received \in Nat
      /\ Len(frames) \in Nat /\ Len(starts) = Len(frames) + 1
      /\ delivered + 1 \in 1..Len(starts)
      /\ \A k \in 1..Len(starts) : starts[k] \in Nat
      /\ starts[delivered + 1] \in Nat
      /\ Holds(buf, starts[delivered + 1])
      /\ starts[delivered + 1] + GetReadableSize(buf) = received + 1
      /\ GetReadableSize(buf) \in Nat
  BY StateFacts
<1>2. /\ buf.cap \in Nat /\ buf.rp \in Nat /\ buf.wp \in Nat
      /\ buf.rp <= buf.wp /\ buf.wp <= buf.cap
      /\ GetReadableSize(buf) = buf.wp - buf.rp
      /\ CurrentWritableSize(buf) = buf.cap - buf.wp
  BY <1>1, BufferFacts
<1>3. pc = "reading" /\ sock \in {"open", "late"} /\ MaxChunk \in Nat
  BY ReadAssumption DEF ReadSome
<1>4. CurrentWritableSize(buf) # 0
  BY <1>2, <1>3 DEF IInv, RoomInv
<1>5. /\ n \in Nat /\ n >= 1 /\ n <= MaxChunk
      /\ n <= CurrentWritableSize(buf) /\ n <= StreamLen - received
  BY <1>3, <1>4 DEF ReadSome, ChunkSizes
<1>6. PICK b : b = PaddingData(Fill(buf, received + 1, n), n)
  OBVIOUS
<1>7. /\ WellFormed(b) /\ Holds(b, starts[delivered + 1])
      /\ b.cap = buf.cap /\ b.rp = buf.rp /\ b.wp = buf.wp + n
  BY <1>1, <1>5, <1>6, AppendFacts
<1>8. /\ b.cap \in Nat /\ b.wp \in Nat /\ b.wp <= b.cap /\ b.cap >= 2
      /\ GetReadableSize(b) = GetReadableSize(buf) + n
      /\ CurrentWritableSize(b) = b.cap - b.wp
  BY <1>2, <1>5, <1>7, BufferFacts DEF IInv, RoomInv
<1>9. /\ received' = received + n /\ chunk' = n
      /\ buf' = MakeRoom(b).buf /\ pc' = MakeRoom(b).next
      /\ UNCHANGED <<frames, starts, delivered, called, refused, sock>>
  BY <1>6 DEF ReadSome
<1>10. /\ WellFormed(buf') /\ Holds(buf', starts[delivered + 1])
       /\ buf'.cap = b.cap
       /\ GetReadableSize(buf') = GetReadableSize(buf) + n
       /\ \/ pc' = "grow" /\ buf'.rp = 0
          \/ pc' = "parse" /\ buf'.wp < buf'.cap
  <2>1. CASE NeedsReorganize(b)
    <3>1. buf' = ReorganizeData(b) /\ pc' = "grow"
      BY <1>9, <2>1 DEF MakeRoom
    <3> QED
      BY <1>1, <1>7, <1>8, <3>1, ReorganizeFacts, SMTT(60)
  <2>2. CASE ~ NeedsReorganize(b)
    <3>1. buf' = b /\ pc' = "parse"
      BY <1>9, <2>2 DEF MakeRoom
    <3>2. b.cap \div 2 >= 1 /\ b.cap \div 2 \in Nat
      BY <1>8
    <3>3. b.cap - b.wp >= b.cap \div 2
      BY <1>8, <2>2, <3>2 DEF NeedsReorganize, ReorganizeRate
    <3>4. b.wp < b.cap
      BY <1>8, <3>2, <3>3
    <3> QED
      BY <1>7, <1>8, <3>1, <3>4
  <2> QED
    BY <2>1, <2>2
<1>11. TypeOK'
  BY <1>1, <1>5, <1>9, <1>10, SMTT(60) DEF IInv, TypeOK
<1>12. StreamIntact'
  <2>1. starts[delivered + 1] + (GetReadableSize(buf) + n) = (received + n) + 1
    BY <1>1, <1>5, SMTT(60)
  <2> QED
    BY <1>9, <1>10, <2>1 DEF StreamIntact
<1>13. StreamInv'
  <2>1. Len(starts) \in 1..Len(starts) /\ starts[Len(starts)] \in Nat
    BY <1>1
  <2>2. received' <= StreamLen'
    BY <1>1, <1>5, <1>9, <2>1, SMTT(60) DEF StreamLen
  <2> QED
    BY <1>9, <2>2 DEF IInv, StreamInv
<1>14. RefusedOnlyBad' /\ RefusedInv' /\ HandlerInv'
  BY <1>3, <1>9 DEF IInv, RefusedOnlyBad, RefusedInv, HandlerInv
<1>15. RoomInv'
  <2>1. n <= GetReadableSize(buf) + n
    BY <1>1, <1>5
  <2> QED
    BY <1>5, <1>8, <1>9, <1>10, <2>1 DEF RoomInv
<1>16. UnreadInv'
  <2> SUFFICES ASSUME delivered < Len(frames)
               PROVE  UnreadInv'
    BY <1>9 DEF UnreadInv
  <2>1. delivered + 1 \in 1..Len(frames) /\ frames[delivered + 1] \in Frames
    BY <1>1, StateFacts
  <2>2. frames[delivered + 1].len \in Nat
    BY <2>1, FrameFacts
  <2>3. CASE ~ refused
    <3>1. GetReadableSize(buf) < frames[delivered + 1].len
      BY <1>3, <2>3 DEF IInv, UnreadInv
    <3>2. GetReadableSize(buf) + n < frames[delivered + 1].len + MaxChunk
      BY <1>1, <1>3, <1>5, <2>2, <3>1, ChunkArithmetic
    <3> QED
      BY <1>9, <1>10, <2>3, <3>2 DEF UnreadInv
  <2>4. CASE refused
    <3>1. GetReadableSize(buf) < frames[delivered + 1].len + MaxChunk
      BY <1>3, <2>4 DEF IInv, UnreadInv
    <3>2. GetReadableSize(buf) + n < frames[delivered + 1].len + 2 * MaxChunk
      BY <1>1, <1>3, <1>5, <2>2, <3>1, ChunkArithmetic
    <3> QED
      BY <1>9, <1>10, <2>4, <3>2 DEF UnreadInv
  <2> QED
    BY <2>3, <2>4
<1> QED
  BY <1>11, <1>12, <1>13, <1>14, <1>15, <1>16 DEF IInv

\* A turn of ShrinkByLength's loop adds memory behind the data; its end leaves room.
LEMMA StepShrinkByLength ==
    ASSUME IInv, ShrinkByLength
    PROVE  IInv'
<1>1. /\ WellFormed(buf) /\ chunk \in Nat
      /\ starts[delivered + 1] \in Nat
      /\ Holds(buf, starts[delivered + 1])
      /\ starts[delivered + 1] + GetReadableSize(buf) = received + 1
  BY StateFacts
<1>2. /\ buf.cap \in Nat /\ buf.wp \in Nat
      /\ CurrentWritableSize(buf) = buf.cap - buf.wp
  BY <1>1, BufferFacts
<1>3. /\ pc = "grow"
      /\ UNCHANGED <<frames, starts, received, chunk, delivered, called, refused, sock>>
  BY DEF ShrinkByLength
<1>4. buf.rp = 0 /\ chunk > 0 /\ chunk <= GetReadableSize(buf) /\ buf.cap >= 2
  BY <1>3 DEF IInv, RoomInv
<1>5. /\ WellFormed(buf') /\ Holds(buf', starts[delivered + 1])
      /\ GetReadableSize(buf') = GetReadableSize(buf)
      /\ buf'.cap >= 2 /\ buf'.rp = 0
      /\ \/ pc' = "grow"
         \/ pc' = "parse" /\ buf'.wp < buf'.cap
  <2>1. CASE chunk > CurrentWritableSize(buf)
    <3>1. buf' = GrowOnce(buf) /\ pc' = "grow"
      BY <1>1, <1>2, <1>3, <2>1 DEF ShrinkByLength
    <3>2. /\ WellFormed(buf') /\ Holds(buf', starts[delivered + 1])
          /\ buf'.cap >= buf.cap /\ buf'.rp = buf.rp
          /\ GetReadableSize(buf') = GetReadableSize(buf)
      BY <1>1, <3>1, GrowFacts
    <3>3. buf'.cap \in Nat
      BY <3>2, BufferFacts
    <3> QED
      BY <1>2, <1>4, <3>1, <3>2, <3>3
  <2>2. CASE ~ (chunk > CurrentWritableSize(buf))
    <3>1. buf' = buf /\ pc' = "parse" /\ chunk <= CurrentWritableSize(buf)
      BY <2>2 DEF ShrinkByLength
    <3> QED
      BY <1>1, <1>2, <1>4, <3>1
  <2> QED
    BY <2>1, <2>2
<1>6. TypeOK'
  BY <1>3, <1>5 DEF IInv, TypeOK
<1>7. StreamIntact'
  BY <1>1, <1>3, <1>5 DEF StreamIntact
<1>8. StreamInv'
  BY <1>3, StreamStays
<1>9. RefusedOnlyBad' /\ RefusedInv' /\ HandlerInv'
  BY <1>3, <1>5 DEF IInv, RefusedOnlyBad, RefusedInv, HandlerInv
<1>10. RoomInv'
  BY <1>3, <1>4, <1>5 DEF RoomInv
<1>11. UnreadInv'
  BY <1>3, <1>5 DEF IInv, UnreadInv, HandlerInv
<1> QED
  BY <1>6, <1>7, <1>8, <1>9, <1>10, <1>11 DEF IInv

\* A frame that is delivered is the next one. It is none that was refused before.
LEMMA StepReadFrame ==
    ASSUME IInv, NEW k \in 1..Len(frames), ReadFrame(k)
    PROVE  IInv'
<1>1. /\ WellFormed(buf)
      /\ delivered \in Nat /\ received \in Nat
      /\ Len(frames) \in Nat /\ Len(starts) = Len(frames) + 1
      /\ \A i \in 1..Len(starts) : starts[i] \in Nat
      /\ frames[k] \in Frames
      /\ starts[delivered + 1] \in Nat
      /\ Holds(buf, starts[delivered + 1])
      /\ starts[delivered + 1] + GetReadableSize(buf) = received + 1
      /\ GetReadableSize(buf) \in Nat
  BY StateFacts
<1>2. frames[k].len \in Nat /\ frames[k].len >= 1 /\ frames[k].len <= GetReadableSize(buf)
  BY <1>1, FrameFacts DEF ReadFrame, Complete
<1>3. k = delivered + 1
  BY <1>1, <1>2, HeadIsNext DEF ReadFrame
<1>4. k + 1 \in 1..Len(starts) /\ starts[k + 1] = starts[k] + frames[k].len
  BY <1>1 DEF IInv, StreamInv
<1>5. /\ pc = "parse" /\ CheckCode(k) /\ Read(k).ok
      /\ buf' = RemoveData(buf, frames[k].len)
      /\ delivered' = delivered + 1
      /\ called' \subseteq called \cup {k}
      /\ UNCHANGED <<frames, starts, received, chunk, refused, sock, pc>>
  BY DEF ReadFrame
<1>6. /\ WellFormed(buf') /\ Holds(buf', starts[delivered + 1] + frames[k].len)
      /\ buf'.cap = buf.cap /\ buf'.wp <= buf.wp
      /\ GetReadableSize(buf') = GetReadableSize(buf) - frames[k].len
  BY <1>1, <1>2, <1>5, RemoveFacts, SMTT(60)
<1>7. ~ refused
  <2> SUFFICES ASSUME refused PROVE FALSE
    OBVIOUS
  <2>1. frames[k].packet.type \in Handlers \/ HasDefault
    BY <1>5 DEF Read, ReadPbPacket
  <2>2. frames[k].sum
    BY <1>5 DEF CheckCode
  <2> QED
    BY <1>3, <2>1, <2>2 DEF IInv, RefusedOnlyBad
<1>8. delivered' \in Nat /\ delivered' <= Len(frames) /\ delivered' + 1 = k + 1
  BY <1>1, <1>3, <1>5
<1>9. TypeOK'
  <2>1. called' \subseteq 1..Len(frames')
    BY <1>5 DEF IInv, TypeOK
  <2> QED
    BY <1>5, <1>6, <1>8, <2>1 DEF IInv, TypeOK
<1>10. StreamIntact'
  <2>1. Holds(buf', starts[k + 1])
    BY <1>3, <1>4, <1>6
  <2>2. starts[k + 1] + (GetReadableSize(buf) - frames[k].len) = received + 1
    BY <1>1, <1>2, <1>3, <1>4
  <2> QED
    BY <1>5, <1>6, <1>8, <2>1, <2>2 DEF StreamIntact
<1>11. StreamInv'
  BY <1>5, <1>8 DEF IInv, StreamInv, StreamLen
<1>12. RefusedOnlyBad' /\ RefusedInv' /\ HandlerInv'
  BY <1>5, <1>7 DEF IInv, RefusedOnlyBad, RefusedInv, HandlerInv
<1>13. RoomInv'
  <2>1. buf'.wp < buf'.cap
    <3>1. buf.wp < buf.cap
      BY <1>5 DEF IInv, RoomInv
    <3>2. buf.wp \in Nat /\ buf.cap \in Nat /\ buf'.wp \in Nat
      BY <1>1, <1>6, BufferFacts
    <3> QED
      BY <1>6, <3>1, <3>2
  <2> QED
    BY <1>5, <1>6, <2>1 DEF IInv, RoomInv
<1>14. UnreadInv'
  <2> SUFFICES ASSUME delivered' < Len(frames)
               PROVE  UnreadInv'
    BY <1>5 DEF UnreadInv
  <2>1. GetReadableSize(buf) < frames[k].len + MaxChunk
    BY <1>1, <1>3, <1>5, <1>7 DEF IInv, UnreadInv
  <2>2. delivered' + 1 \in 1..Len(frames) /\ frames[delivered' + 1] \in Frames
    <3>1. \A i \in 1..Len(frames) : frames[i] \in Frames
      BY StateFacts
    <3>2. PICK next \in Nat : next = delivered' /\ next < Len(frames)
      BY <1>8
    <3>3. next + 1 \in 1..Len(frames)
      <4>1. \A m, n \in Nat : m < n => m + 1 \in 1..n
        OBVIOUS
      <4>2. Len(frames) \in Nat
        BY <1>1
      <4> QED
        BY <3>2, <4>1, <4>2, Zenon
    <3> QED
      BY <3>1, <3>2, <3>3
  <2>3. PICK next \in Nat : next = frames[delivered' + 1].len
    BY <2>2, FrameFacts
  <2>4. MaxChunk \in Nat
    BY ReadAssumption
  <2>5. GetReadableSize(buf) - frames[k].len < next + MaxChunk
    <3>1. \A unread, len, m, c \in Nat : unread < len + c => unread - len < m + c
      OBVIOUS
    <3> QED
      BY <1>1, <1>2, <2>1, <2>3, <2>4, <3>1
  <2>6. GetReadableSize(buf') < frames'[delivered' + 1].len + MaxChunk
    BY <1>5, <1>6, <2>3, <2>5
  <2> QED
    BY <1>5, <1>7, <2>6 DEF UnreadInv
<1> QED
  BY <1>9, <1>10, <1>11, <1>12, <1>13, <1>14 DEF IInv

\* The frame that is refused is the next one. It is complete and its bytes are
\* the peer's, so it is the peer that has the check code or the type wrong.
LEMMA StepReadRefused ==
    ASSUME IInv, ReadRefused
    PROVE  IInv'
<1>1. /\ delivered \in Nat
      /\ \A i \in 1..Len(frames) : frames[i] \in Frames
      /\ Len(frames) \in Nat
      /\ starts[delivered + 1] \in Nat
      /\ Holds(buf, starts[delivered + 1])
      /\ GetReadableSize(buf) \in Nat
  BY StateFacts
<1>2. GetReadableSize(buf) >= 1
  BY <1>1, ReadAssumption DEF ReadRefused, HasHead
<1>3. PICK k \in 1..Len(frames) : k = delivered + 1 /\ HeadFrame = {k}
  BY <1>2, HeadIsNext
<1>4. Complete(k) /\ ~ (CheckCode(k) /\ Read(k).ok)
  BY <1>3 DEF ReadRefused
<1>5. frames[k].len \in Nat /\ frames[k].len <= GetReadableSize(buf)
  BY <1>1, <1>4, FrameFacts DEF Complete
<1>6. \A i \in 0..(frames[k].len - 1) : buf.data[buf.rp + i] = starts[k] + i
  <2>1. \A i \in 0..(frames[k].len - 1) : i \in 0..(GetReadableSize(buf) - 1)
    BY <1>1, <1>5
  <2> QED
    BY <1>1, <1>3, <2>1 DEF Holds
<1>7. ~ frames[k].sum \/ (frames[k].packet.type \notin Handlers /\ ~ HasDefault)
  <2>1. frames[k].sum => CheckCode(k)
    BY <1>6 DEF CheckCode
  <2>2. frames[k].packet.type \in Handlers \/ HasDefault => Read(k).ok
    BY DEF Read, ReadPbPacket
  <2> QED
    BY <1>4, <2>1, <2>2
<1>8. /\ pc = "parse" /\ refused' = TRUE /\ pc' = "reading"
      /\ sock' = IF sock = "open" THEN "closing" ELSE "closed"
      /\ UNCHANGED <<frames, starts, received, buf, chunk, delivered, called>>
  BY DEF ReadRefused
<1>9. TypeOK'
  <2>1. /\ sock' \in {"open", "closing", "late", "closed"}
        /\ pc' \in {"reading", "grow", "parse", "done"}
    BY <1>8
  <2>2. refused' \in BOOLEAN
    BY <1>8
  <2> QED
    BY <1>8, <2>1, <2>2 DEF IInv, TypeOK
<1>10. StreamIntact' /\ StreamInv'
  BY <1>8, StreamStays DEF IInv, StreamIntact
<1>11. RefusedOnlyBad' /\ RefusedInv'
  <2>1. RefusedOnlyBad'
    BY <1>3, <1>7, <1>8 DEF RefusedOnlyBad
  <2>2. RefusedInv'
    BY <1>1, <1>3, <1>8 DEF RefusedInv
  <2> QED
    BY <2>1, <2>2
<1>12. HandlerInv' /\ RoomInv'
  BY <1>8 DEF IInv, HandlerInv, RoomInv
<1>13. UnreadInv'
  <2>1. delivered < Len(frames)
    BY <1>1, <1>3
  <2>2. CASE ~ refused
    <3>1. GetReadableSize(buf) < frames[delivered + 1].len + MaxChunk
      BY <1>8, <2>1, <2>2 DEF IInv, UnreadInv
    <3> QED
      BY <1>8, <3>1 DEF UnreadInv
  <2>3. CASE refused
    <3>1. sock' = "closed"
      BY <1>8, <2>3 DEF IInv, RefusedInv
    <3> QED
      BY <1>8, <3>1 DEF UnreadInv
  <2> QED
    BY <2>2, <2>3
<1> QED
  BY <1>9, <1>10, <1>11, <1>12, <1>13 DEF IInv

\* Less than a frame is left when the handler has done with the buffer.
LEMMA StepReadMore ==
    ASSUME IInv, ReadMore
    PROVE  IInv'
<1>1. /\ \A i \in 1..Len(frames) : frames[i] \in Frames
      /\ GetReadableSize(buf) \in Nat
  BY StateFacts
<1>2. /\ pc = "parse" /\ pc' = "reading"
      /\ sock' = IF sock = "late" THEN "closed" ELSE sock
      /\ UNCHANGED <<frames, starts, received, buf, chunk, delivered, called, refused>>
  BY DEF ReadMore, ReadAgain
<1>3. ASSUME delivered < Len(frames)
      PROVE  GetReadableSize(buf) < frames[delivered + 1].len
  <2>1. delivered + 1 \in 1..Len(frames)
    BY <1>3, StateFacts
  <2>2. PICK len \in Nat : len = frames[delivered + 1].len /\ HeadLen <= len
    BY <1>1, <2>1, FrameFacts
  <2>3. CASE HasHead
    <3>1. HeadLen \in Nat /\ GetReadableSize(buf) >= 1
      BY <1>1, <2>3, ReadAssumption DEF HasHead
    <3>2. ~ Complete(delivered + 1)
      BY <2>3, <3>1, HeadIsNext DEF ReadMore
    <3> QED
      BY <1>1, <2>2, <3>2 DEF Complete
  <2>4. CASE ~ HasHead
    <3>1. HeadLen \in Nat
      BY ReadAssumption
    <3> QED
      BY <1>1, <2>2, <2>4, <3>1 DEF HasHead
  <2> QED
    BY <2>3, <2>4
<1>4. TypeOK'
  <2>1. /\ sock' \in {"open", "closing", "late", "closed"}
        /\ pc' \in {"reading", "grow", "parse", "done"}
    BY <1>2 DEF IInv, TypeOK
  <2> QED
    BY <1>2, <2>1 DEF IInv, TypeOK
<1>5. StreamIntact' /\ StreamInv'
  BY <1>2, StreamStays DEF IInv, StreamIntact
<1>6. RefusedOnlyBad' /\ RefusedInv' /\ HandlerInv' /\ RoomInv'
  BY <1>2 DEF IInv, RefusedOnlyBad, RefusedInv, HandlerInv, RoomInv
<1>7. UnreadInv'
  <2>1. refused => sock' = "closed"
    BY <1>2 DEF IInv, RefusedInv, HandlerInv
  <2> QED
    BY <1>2, <1>3, <2>1 DEF UnreadInv
<1> QED
  BY <1>4, <1>5, <1>6, <1>7 DEF IInv

\* Closing changes the socket and, at the end, stops the chain of reads.
LEMMA StepCloses ==
    ASSUME IInv, ReadError \/ AsyncClose \/ DoSessionCloseInNetLoop
    PROVE  IInv'
<1>1. /\ pc = "reading" /\ pc' \in {"reading", "done"}
      /\ \/ pc' = "done" /\ sock' = "closed"
         \/ pc' = "reading" /\ sock = "open" /\ sock' = "closing"
         \/ pc' = "reading" /\ sock = "closing" /\ sock' \in {"late", "closed"}
      /\ UNCHANGED <<frames, starts, received, buf, chunk, delivered, called, refused>>
  BY DEF ReadError, AsyncClose, DoSessionCloseInNetLoop
<1>2. GetReadableSize(buf) \in Nat
  BY StateFacts
<1>3. TypeOK'
  BY <1>1 DEF IInv, TypeOK
<1>4. StreamIntact' /\ StreamInv'
  BY <1>1, StreamStays DEF IInv, StreamIntact
<1>5. RefusedOnlyBad' /\ RefusedInv' /\ HandlerInv' /\ RoomInv'
  BY <1>1 DEF IInv, RefusedOnlyBad, RefusedInv, HandlerInv, RoomInv
<1>6. UnreadInv'
  BY <1>1 DEF IInv, UnreadInv
<1> QED
  BY <1>3, <1>4, <1>5, <1>6 DEF IInv
-----------------------------------------------------------------------------
(* The theorems                                                            *)

\* The inductive invariant holds before anything has been sent.
LEMMA InitInv == Init => IInv
<1> SUFFICES ASSUME Init PROVE IInv
  OBVIOUS
<1>1. PICK data : data = [i \in Address |-> 0]
  OBVIOUS
<1>2. PICK cap \in Nat : cap = MaxBuf \div InitDiv /\ cap >= 2 /\ cap <= MaxBuf
  BY BufAssumption
<1>3. buf = [cap |-> cap, rp |-> 0, wp |-> 0, data |-> data]
  BY <1>1, <1>2 DEF Init, NewBuffer
<1>4. WellFormed(buf)
  <2>1. data \in [Address -> Nat]
    BY <1>1
  <2> QED
    BY <1>2, <1>3, <2>1, FactsBuffer
<1>5. buf.cap = cap /\ buf.rp = 0 /\ buf.wp = 0
  BY <1>3
<1>6. GetReadableSize(buf) = 0
  BY <1>5 DEF GetReadableSize
<1>7. /\ frames = <<>> /\ starts = <<1>> /\ received = 0 /\ chunk = 0 /\ delivered = 0
      /\ called = {} /\ refused = FALSE /\ sock = "open" /\ pc = "reading"
  BY DEF Init
<1>8. /\ frames \in Seq(Frames) /\ Len(frames) = 0
      /\ starts \in Seq(Nat) /\ Len(starts) = 1 /\ starts[1] = 1
  BY <1>7
<1>9. TypeOK
  <2>1. Len(frames) <= NumFrames /\ 0 \in 0..MaxChunk
    BY <1>8, ReadAssumption
  <2>2. refused \in BOOLEAN
    BY <1>7
  <2> QED
    BY <1>4, <1>7, <1>8, <2>1, <2>2 DEF TypeOK
<1>10. StreamIntact
  BY <1>6, <1>7, <1>8 DEF StreamIntact, Holds
<1>11. StreamInv
  BY <1>7, <1>8 DEF StreamInv, StreamLen
<1>12. RefusedOnlyBad /\ RefusedInv /\ HandlerInv
  BY <1>7 DEF RefusedOnlyBad, RefusedInv, HandlerInv
<1>13. RoomInv
  BY <1>2, <1>5, <1>7 DEF RoomInv
<1>14. UnreadInv
  BY <1>7, <1>8 DEF UnreadInv
<1> QED
  BY <1>9, <1>10, <1>11, <1>12, <1>13, <1>14 DEF IInv

\* Every step of the read path keeps the inductive invariant.
LEMMA NextInv == IInv /\ [Next]_vars => IInv'
<1> SUFFICES ASSUME IInv, [Next]_vars PROVE IInv'
  OBVIOUS
<1>1. CASE UNCHANGED vars
  BY <1>1 DEF vars, IInv, TypeOK, StreamIntact, RefusedOnlyBad, StreamInv, StreamLen,
              RefusedInv, HandlerInv, RoomInv, UnreadInv
<1> QED
  BY <1>1, StepPeerSends, StepReadSome, StepShrinkByLength, StepReadFrame, StepReadRefused,
     StepReadMore, StepCloses
  DEF Next, Idle

\* DoSessionRead and ReadData keep the inductive invariant in every behaviour.
THEOREM SafetyInv == Spec => []IInv
BY InitInv, NextInv, PTL DEF Spec

\* Every variable keeps its type, and the positions of m_buffRead stay in order
\* and inside the memory.
THEOREM TypeCorrect == Spec => []TypeOK
<1>1. IInv => TypeOK
  BY DEF IInv
<1> QED
  BY <1>1, SafetyInv, PTL

\* However the stream is cut into chunks, and however the memory is moved and
\* made to grow, the buffer holds just the bytes that follow the delivered frames.
THEOREM NoByteIsLost == Spec => []StreamIntact
<1>1. IInv => StreamIntact
  BY DEF IInv
<1> QED
  BY <1>1, SafetyInv, PTL

\* ReadData returns false only for a frame the peer has the check code or the
\* type of wrong, also when it is called once more after the close was posted.
THEOREM OnlyBadIsRefused == Spec => []RefusedOnlyBad
<1>1. IInv => RefusedOnlyBad
  BY DEF IInv
<1> QED
  BY <1>1, SafetyInv, PTL

\* async_read_some is never given an empty memory.
THEOREM ReadsHaveRoom == Spec => []ReadHasRoom
<1>1. IInv => ReadHasRoom
  <2> SUFFICES ASSUME IInv, pc = "reading" PROVE CurrentWritableSize(buf) > 0
    BY DEF ReadHasRoom
  <2>1. WellFormed(buf) /\ buf.wp < buf.cap
    BY DEF IInv, TypeOK, RoomInv
  <2>2. buf.wp \in Nat /\ buf.cap \in Nat /\ CurrentWritableSize(buf) = buf.cap - buf.wp
    BY <2>1, BufferFacts
  <2> QED
    BY <2>1, <2>2
<1> QED
  BY <1>1, SafetyInv, PTL

\* ShrinkByLength's loop can be left, at the full size of the memory at the
\* latest, unless the frame at the front is too long for the memory: also when it
\* was refused and chunks lie behind it.
THEOREM LoopHasExit == Spec => []StuckOnlyByLong
<1>1. IInv => StuckOnlyByLong
  <2> SUFFICES ASSUME IInv, pc = "grow", buf.wp + chunk > MaxBuf
               PROVE  delivered < Len(frames) /\ ~ Fits(delivered + 1)
    BY DEF StuckOnlyByLong
  <2>1. /\ WellFormed(buf) /\ chunk \in Nat /\ chunk <= MaxChunk
        /\ GetReadableSize(buf) \in Nat
        /\ delivered \in Nat /\ Len(frames) \in Nat
    BY StateFacts
  <2>2. buf.wp \in Nat /\ buf.wp <= MaxBuf /\ GetReadableSize(buf) = buf.wp
    <3>1. buf.rp = 0 /\ buf.wp \in Nat /\ buf.cap \in Nat /\ buf.wp <= buf.cap
          /\ buf.cap <= MaxBuf /\ GetReadableSize(buf) = buf.wp - buf.rp
      BY <2>1, BufferFacts DEF IInv, RoomInv
    <3> QED
      BY <3>1, BufAssumption
  <2>3. MaxChunk \in Nat /\ MaxBuf \in Nat
    BY ReadAssumption, BufAssumption
  <2>4. delivered < Len(frames)
    <3> SUFFICES ASSUME ~ (delivered < Len(frames)) PROVE FALSE
      OBVIOUS
    <3>1. GetReadableSize(buf) = 0
      BY NothingUnread
    <3>2. chunk > 0 /\ chunk <= GetReadableSize(buf)
      BY DEF IInv, RoomInv
    <3> QED
      BY <2>1, <3>1, <3>2
  <2>5. PICK len \in Nat : len = frames[delivered + 1].len
    <3>1. delivered + 1 \in 1..Len(frames)
      BY <2>1, <2>4
    <3> QED
      BY <3>1, StateFacts, FrameFacts
  <2>6. GetReadableSize(buf) < len + 2 * MaxChunk
    <3>1. CASE refused
      BY <2>4, <2>5, <3>1 DEF IInv, UnreadInv
    <3>2. CASE ~ refused
      <4>1. GetReadableSize(buf) < len + MaxChunk
        BY <2>4, <2>5, <3>2 DEF IInv, UnreadInv
      <4> QED
        BY <2>1, <2>3, <4>1
    <3> QED
      BY <3>1, <3>2
  <2>7. len + 3 * MaxChunk > MaxBuf
    BY <2>1, <2>2, <2>3, <2>6
  <2> QED
    BY <2>3, <2>4, <2>5, <2>7 DEF Fits
<1> QED
  BY <1>1, SafetyInv, PTL
=============================================================================
