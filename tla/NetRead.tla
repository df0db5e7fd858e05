------------------------------ MODULE NetRead ------------------------------
(***************************************************************************)
(* The read path of a session, on its network thread.                       *)
(*                                                                         *)
(* DoSessionRead has one async_read_some outstanding. Its handler takes     *)
(* the bytes in, makes room when less than half of the memory is free       *)
(* (ReorganizeData, then ShrinkByLength, which grows it), hands the buffer  *)
(* to NetPbModule::ReadData, which cuts frames off its front, and reads     *)
(* again. The peer sends frame after frame; the network delivers its stream *)
(* in chunks of any size.                                                   *)
(***************************************************************************)
EXTENDS SessionBuffer, PbPacket, Sequences

CONSTANTS Frames,        \* what frames the peer may send: see below
          HeadLen,       \* kHeadLen
          NumFrames,     \* bound: frames the peer sends
          MaxChunk       \* the most bytes one read can return

(***************************************************************************)
(* A frame's len is what its head says. ReadData puts no limit on it, so a   *)
(* frame may be longer than the whole memory: the peer is another program,   *)
(* or its head is damaged and all that it sends later is taken for the body. *)
(***************************************************************************)
ASSUME ReadAssumption ==
    /\ HeadLen \in Nat \ {0}
    /\ NumFrames \in Nat
    /\ MaxChunk \in Nat \ {0}
    /\ \A f \in Frames : /\ f.len \in Nat /\ HeadLen <= f.len
                        /\ f.sum \in BOOLEAN
                        /\ f.packet \in Packet

VARIABLES frames,      \* what the peer has sent: the length of each frame with
                       \* its head, whether its check code is right, its packet
          starts,      \* where each of them begins, and where the next one will
          received,    \* bytes of the stream read so far
          buf,         \* m_buffRead
          chunk,       \* length of the last read
          delivered,   \* how many frames ReadPbPacket has accepted
          called,      \* those of which a closure for the main thread was made
          refused,     \* ReadData has returned false
          sock,        \* the socket: see below
          pc           \* the read chain: see below

vars == <<frames, starts, received, buf, chunk, delivered, called, refused, sock, pc>>

(***************************************************************************)
(* pc: "reading", async_read_some is outstanding; "grow", in                *)
(* ShrinkByLength's loop; "parse", in ReadData's loop; "done", no read will *)
(* be issued any more.                                                      *)
(*                                                                         *)
(* sock: "closing", DoSessionCloseInNetLoop is posted; posted handlers run  *)
(* in order, so it runs before any read that completes later; "late", it    *)
(* has run, but a read had completed already and its handler comes next;    *)
(* "closed", reads fail.                                                    *)
(***************************************************************************)
StreamLen == starts[Len(starts)] - 1

Init ==
    /\ frames = <<>>
    /\ starts = <<1>>
    /\ received = 0
    /\ buf = NewBuffer
    /\ chunk = 0
    /\ delivered = 0
    /\ called = {}
    /\ refused = FALSE
    /\ sock = "open"
    /\ pc = "reading"

\* The peer sends a frame. It matters when the next read looks for bytes.
PeerSends(f) ==
    /\ pc = "reading"
    /\ Len(frames) < NumFrames
    /\ frames' = Append(frames, f)
    /\ starts' = Append(starts, starts[Len(starts)] + f.len)
    /\ UNCHANGED <<received, buf, chunk, delivered, called, refused, sock, pc>>
-----------------------------------------------------------------------------
(* DoSessionRead                                                           *)

\* What one read may return. A read into no memory at all returns at once.
ChunkSizes ==
    IF CurrentWritableSize(buf) = 0
    THEN {0}
    ELSE {n \in 1..MaxChunk : /\ n <= CurrentWritableSize(buf)
                              /\ n <= StreamLen - received}

\* The buffer is made to grow without being reorganized first.
MakeRoomGrowOnly(b) ==
    IF NeedsReorganize(b) THEN [buf |-> b, next |-> "grow"]
                          ELSE [buf |-> b, next |-> "parse"]

\* The buffer is reorganized and never made to grow.
MakeRoomNoGrow(b) ==
    IF NeedsReorganize(b) THEN [buf |-> ReorganizeData(b), next |-> "parse"]
                          ELSE [buf |-> b, next |-> "parse"]

MakeRoom(b) ==
    IF NeedsReorganize(b) THEN [buf |-> ReorganizeData(b), next |-> "grow"]
                          ELSE [buf |-> b, next |-> "parse"]

\* The handler of a read that returned n bytes, up to ShrinkByLength's loop.
ReadSome(n) ==
    LET room == MakeRoom(PaddingData(Fill(buf, received + 1, n), n)) IN
    /\ pc = "reading"
    /\ sock \in {"open", "late"}
    /\ n \in ChunkSizes
    /\ received' = received + n
    /\ chunk' = n
    /\ buf' = room.buf
    /\ pc' = room.next
    /\ UNCHANGED <<frames, starts, delivered, called, refused, sock>>

\* ShrinkByLength: one turn of the loop, or its end. At the full size a turn
\* changes nothing, and the loop goes on.
ShrinkByLength ==
    /\ pc = "grow"
    /\ \/ /\ chunk > CurrentWritableSize(buf)
          /\ buf' = GrowOnce(buf)
          /\ UNCHANGED pc
       \/ /\ chunk <= CurrentWritableSize(buf)
          /\ pc' = "parse"
          /\ UNCHANGED buf
    /\ UNCHANGED <<frames, starts, received, chunk, delivered, called, refused, sock>>

\* A read fails or the peer has closed: the session is closed, the chain ends.
ReadError ==
    /\ pc = "reading"
    /\ sock \in {"open", "closed"}
    /\ pc' = "done"
    /\ sock' = "closed"
    /\ UNCHANGED <<frames, starts, received, buf, chunk, delivered, called, refused>>
-----------------------------------------------------------------------------
(* NetPbModule::ReadData                                                   *)

\* The frames of the stream that begin with the byte at the read position.
HeadFrame == {k \in 1..Len(frames) : starts[k] = buf.data[buf.rp]}

\* The head of a frame is in the buffer, and so is the rest of it.
HasHead == GetReadableSize(buf) >= HeadLen
Complete(k) == GetReadableSize(buf) >= frames[k].len

\* The check code covers every byte of the frame.
CheckCode(k) ==
    /\ frames[k].sum
    /\ \A i \in 0..(frames[k].len - 1) : buf.data[buf.rp + i] = starts[k] + i

Read(k) == ReadPbPacket(frames[k].packet, frames[k].len - HeadLen)

\* DoSessionRead after the handler: the last read of a closed socket is over.
ReadAgain ==
    /\ pc' = "reading"
    /\ sock' = IF sock = "late" THEN "closed" ELSE sock

\* A complete frame that passes the check is handed on and removed.
ReadFrame(k) ==
    /\ pc = "parse"
    /\ HasHead
    /\ k \in HeadFrame
    /\ Complete(k)
    /\ CheckCode(k) /\ Read(k).ok
    /\ buf' = RemoveData(buf, frames[k].len)
    /\ delivered' = delivered + 1
    /\ called' = IF Read(k).called THEN called \cup {k} ELSE called
    /\ UNCHANGED <<frames, starts, received, chunk, refused, sock, pc>>

\* ReadData returns false: HandleSessionRead posts the close and reads again.
ReadRefused ==
    /\ pc = "parse"
    /\ HasHead
    /\ \A k \in HeadFrame : Complete(k) /\ ~ (CheckCode(k) /\ Read(k).ok)
    /\ refused' = TRUE
    /\ pc' = "reading"
    /\ sock' = IF sock = "open" THEN "closing" ELSE "closed"
    /\ UNCHANGED <<frames, starts, received, buf, chunk, delivered, called>>

\* ReadData gives up the whole of the buffer when its loop ends.
ReadMoreDrops ==
    /\ pc = "parse"
    /\ HasHead => \E k \in HeadFrame : ~ Complete(k)
    /\ ReadAgain
    /\ buf' = RemoveData(buf, GetReadableSize(buf))
    /\ UNCHANGED <<frames, starts, received, chunk, delivered, called, refused>>

\* ReadData returns true: the frame at the front is not complete yet.
ReadMore ==
    /\ pc = "parse"
    /\ HasHead => \E k \in HeadFrame : ~ Complete(k)
    /\ ReadAgain
    /\ UNCHANGED <<frames, starts, received, buf, chunk, delivered, called, refused>>
-----------------------------------------------------------------------------
\* Another reason to close posts DoSessionAsyncClose: CloseInMainLoop, the read
\* timeout, a failed write.
AsyncClose ==
    /\ pc = "reading"
    /\ sock = "open"
    /\ sock' = "closing"
    /\ UNCHANGED <<frames, starts, received, buf, chunk, delivered, called, refused, pc>>

\* DoSessionCloseInNetLoop. A read that asio had completed already is not undone.
DoSessionCloseInNetLoop ==
    /\ pc = "reading"
    /\ sock = "closing"
    /\ sock' \in {"late", "closed"}
    /\ UNCHANGED <<frames, starts, received, buf, chunk, delivered, called, refused, pc>>

\* The chain has ended, or nothing that was sent is left to read.
Idle ==
    /\ \/ pc = "done"
       \/ pc = "reading" /\ ChunkSizes = {}
    /\ UNCHANGED vars

Next ==
    \/ \E f \in Frames : PeerSends(f)
    \/ \E n \in 0..MaxChunk : ReadSome(n)
    \/ ShrinkByLength
    \/ \E k \in 1..Len(frames) : ReadFrame(k)
    \/ ReadRefused
    \/ ReadMore
    \/ ReadError
    \/ AsyncClose
    \/ DoSessionCloseInNetLoop
    \/ Idle

Spec == Init /\ [][Next]_vars

(***************************************************************************)
(* The network thread runs what is ready, and TCP delivers what the peer    *)
(* has sent. Nothing makes a connection fail or be closed.                  *)
(***************************************************************************)
Handler == ShrinkByLength \/ ReadRefused \/ ReadMore \/ \E k \in 1..Len(frames) : ReadFrame(k)

Fairness ==
    /\ WF_vars(\E n \in 0..MaxChunk : ReadSome(n))
    /\ WF_vars(Handler)
    /\ WF_vars(DoSessionCloseInNetLoop)

FairSpec == Spec /\ Fairness
-----------------------------------------------------------------------------
(* Properties                                                              *)

\* Every variable has its type; the positions are ordered and inside the memory.
TypeOK ==
    /\ frames \in Seq(Frames) /\ Len(frames) <= NumFrames
    /\ starts \in Seq(Nat)
    /\ received \in Nat
    /\ WellFormed(buf)
    /\ chunk \in 0..MaxChunk
    /\ delivered \in Nat
    /\ called \subseteq 1..Len(frames)
    /\ refused \in BOOLEAN
    /\ sock \in {"open", "closing", "late", "closed"}
    /\ pc \in {"reading", "grow", "parse", "done"}

\* No byte is lost, doubled or moved out of order between the socket and the
\* parser: the buffer holds the bytes that follow the delivered frames.
StreamIntact ==
    /\ Holds(buf, starts[delivered + 1])
    /\ starts[delivered + 1] + GetReadableSize(buf) = received + 1

\* ReadData refuses a stream only at a frame whose check code the peer has
\* wrong or whose type nobody handles: memory management never makes a good
\* frame fail its check code, and a packet that cannot be parsed is passed over.
RefusedOnlyBad ==
    refused => \/ ~ frames[delivered + 1].sum
               \/ frames[delivered + 1].packet.type \notin Handlers /\ ~ HasDefault

\* A read is never issued with an empty memory: it would return nothing at once
\* and the network thread would turn for ever.
ReadHasRoom == pc = "reading" => CurrentWritableSize(buf) > 0

\* The frame leaves room for all that may lie behind its last byte but one when
\* ShrinkByLength looks for room: the chunk that completed it, kept because the
\* frame was refused, one more that was read before the close took effect, and
\* as much again as that one.
Fits(k) == frames[k].len + 3 * MaxChunk <= MaxBuf

\* ShrinkByLength's loop turns for ever only for a frame that is too long for the
\* memory: for any other at the front, whatever lies behind it and also after it
\* was refused, the memory can grow enough.
StuckOnlyByLong ==
    pc = "grow" /\ buf.wp + chunk > MaxBuf =>
        delivered < Len(frames) /\ ~ Fits(delivered + 1)

\* Every packet that can be parsed and has a handler is called in the end, also
\* behind one that cannot, unless the session is closed. A frame too long for the
\* memory keeps back itself and what lies behind it, and nothing before it.
AllDelivered ==
    []<>(\/ \A k \in 1..Len(frames) :
              Read(k).called /\ (\A j \in 1..k : Fits(j)) => k \in called
         \/ sock # "open")
=============================================================================
