\* Three sessions: one that is current, one of which an old heartbeat is still
\* awaited and one more that a stale reconnect opens.
CONSTANTS
    Elements <- TheElements
    IterationOrder <- TheOrder
    CRC32 <- TheCrc
    Self <- Gate
    KnownTo <- TheKnownTo
    Ids = {1, 2, 3}
    Dialers = {}
    MaxLinks = 2
    MaxAccepted = 0
    MaxBeats = 2
    MaxReady = 3
SPECIFICATION FairSpec
INVARIANTS
    NoDeadSession
    Supervised
PROPERTIES
    LossIsRepaired
    PeerLearns
