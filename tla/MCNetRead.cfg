\* A buffer of 16 bytes that starts with 2: frames shorter and longer than the
\* initial memory, chunks that end inside heads and bodies, growth to the limit.
CONSTANTS
    MaxBuf = 16
    InitDiv = 8
    Frames <- TheFrames
    Handlers <- TheHandlers
    HasDefault = FALSE
    LenSize = 1
    HeadLen = 2
    NumFrames = 3
    MaxChunk = 3
SPECIFICATION FairSpec
INVARIANTS
    StreamIntact
    RefusedOnlyBad
    ReadHasRoom
    StuckOnlyByLong
PROPERTIES
    AllDelivered
