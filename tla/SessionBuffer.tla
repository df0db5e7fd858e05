--------------------------- MODULE SessionBuffer ---------------------------
(***************************************************************************)
(* SessionBuffer: the byte buffer of each direction of a session.           *)
(*                                                                         *)
(* A buffer is a record: cap bytes of memory, of which rp..wp-1 hold data   *)
(* that was written and not yet read. The memory is modelled byte by byte:  *)
(* data[i] is the number in its stream of the byte at address i, so that    *)
(* moving or growing the memory can be seen to lose or mix nothing.         *)
(***************************************************************************)
EXTENDS Naturals

CONSTANTS MaxBuf,        \* nMaxBuffSize
          InitDiv        \* k_init_buffer_size_div_number

\* NetModule.h's kReorganizeRate.
ReorganizeRate == 2

\* What NetModule asserts of a buffer before it divides by kReorganizeRate.
ASSUME BufAssumption ==
    /\ MaxBuf \in Nat
    /\ InitDiv \in Nat \ {0}
    /\ MaxBuf \div InitDiv \in 2..MaxBuf

Address == 0..(MaxBuf - 1)

Buffer == [cap : 0..MaxBuf, rp : Nat, wp : Nat, data : [Address -> Nat]]

NewBuffer ==
    [cap |-> MaxBuf \div InitDiv, rp |-> 0, wp |-> 0,
     data |-> [i \in Address |-> 0]]

GetReadableSize(b) == b.wp - b.rp
CurrentWritableSize(b) == b.cap - b.wp

\* Bytes first..first+len-1 of the stream are stored behind the write position.
Fill(b, first, len) ==
    [b EXCEPT !.data = [i \in Address |->
        IF i \in b.wp..(b.wp + len - 1) THEN first + (i - b.wp) ELSE b.data[i]]]

\* PaddingData and MoveWritePos: both refuse to pass the end of the memory.
PaddingData(b, len) ==
    IF len > CurrentWritableSize(b) THEN b ELSE [b EXCEPT !.wp = @ + len]

\* Both positions start over when the buffer runs empty.
RemoveData(b, len) ==
    LET n == IF len > GetReadableSize(b) THEN GetReadableSize(b) ELSE len
    IN IF b.rp + n = b.wp THEN [b EXCEPT !.rp = 0, !.wp = 0]
                          ELSE [b EXCEPT !.rp = @ + n]

\* The positions move and the bytes do not.
ReorganizeNoMove(b) == [b EXCEPT !.wp = b.wp - b.rp, !.rp = 0]

\* The unread bytes are moved to the start of the memory.
ReorganizeData(b) ==
    [b EXCEPT !.wp = b.wp - b.rp, !.rp = 0,
              !.data = [i \in Address |->
                  IF i < GetReadableSize(b) THEN b.data[i + b.rp] ELSE b.data[i]]]

\* One turn of ShrinkByLength's loop.
GrowOnce(b) ==
    [b EXCEPT !.cap = IF 4 * @ < MaxBuf THEN 4 * @ ELSE MaxBuf]

NeedsReorganize(b) == CurrentWritableSize(b) < b.cap \div ReorganizeRate

\* The bytes between the positions are bytes first, first+1, ... of the stream.
Holds(b, first) ==
    \A i \in 0..(GetReadableSize(b) - 1) : b.data[b.rp + i] = first + i

WellFormed(b) ==
    /\ b \in Buffer
    /\ b.rp <= b.wp
    /\ b.wp <= b.cap
=============================================================================
