\* A memory of 6 bytes: packets that fill it, that just do not fit behind unsent
\* bytes, and that never fit.
CONSTANTS
    MaxBuf = 12
    InitDiv = 2
    PacketLens = {1, 3, 6, 7}
    MaxPackets = 4
SPECIFICATION FairSpec
INVARIANTS
    WireInOrder
PROPERTIES
    AllSent
