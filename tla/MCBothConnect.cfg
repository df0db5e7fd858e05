\* Two servers that connect to each other: what the gate sends and what it accepts
\* lead to the same entry of its list. Three sessions: one that this server has
\* connected, one that it has accepted, and one of either kind that takes the
\* place of a session that has ended while a heartbeat of it still waits.
CONSTANTS
    Elements <- TheElements
    IterationOrder <- TheOrder
    CRC32 <- TheCrc
    Self <- Gate
    KnownTo <- TheKnownTo
    Ids = {1, 2, 3}
    Dialers <- TheKnownTo
    MaxLinks = 2
    MaxAccepted = 1
    MaxBeats = 1
    MaxReady = 1
SPECIFICATION FairSpec
PROPERTIES
    DeadIsTakenBack
