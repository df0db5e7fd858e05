\* Two network threads of two packets each: enough for a push during a swap,
\* a push while callbacks run, spinning on both sides and a stop in any state.
CONSTANTS
    NetThreads = {n1, n2}
    Main = main
    MaxPackets = 2
SPECIFICATION FairSpec
INVARIANTS
    LockInv
    ExactlyOnceInOrder
PROPERTIES
    ImplementsFifo
    EventuallyCalled
    StopCompletes
