------------------------------ MODULE MsgFifo ------------------------------
(***************************************************************************)
(* What NetPbModule promises the game modules about incoming packets: every *)
(* packet a network thread hands over is called exactly once on the main    *)
(* thread, and callbacks run in the order in which they were handed over,   *)
(* so packets read by one network thread keep their order.                  *)
(*                                                                         *)
(* The module says nothing of locks, frames or batches: MsgQueue implements *)
(* it.                                                                      *)
(***************************************************************************)
EXTENDS Naturals, Sequences

CONSTANTS NetThreads,    \* the threads of NetPbModule's work loop pool
          MaxPackets     \* bound: packets read by one network thread

VARIABLES posted,        \* events handed over so far
          queue,         \* events handed over and not called yet
          called         \* events called, in order

fifoVars == <<posted, queue, called>>

Event == NetThreads \X (1..MaxPackets)

Init ==
    /\ posted = {}
    /\ queue = <<>>
    /\ called = <<>>

\* Thread t hands over its n-th packet: later than all those it handed over.
Post(t, n) ==
    /\ \A e \in posted : e[1] = t => e[2] < n
    /\ posted' = posted \cup {<<t, n>>}
    /\ queue' = Append(queue, <<t, n>>)
    /\ UNCHANGED called

\* The main thread calls the oldest event.
Call ==
    /\ queue # <<>>
    /\ called' = Append(called, Head(queue))
    /\ queue' = Tail(queue)
    /\ UNCHANGED posted

Next ==
    \/ \E t \in NetThreads, n \in 1..MaxPackets : Post(t, n)
    \/ Call

Spec == Init /\ [][Next]_fifoVars
=============================================================================
