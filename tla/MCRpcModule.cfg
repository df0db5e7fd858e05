\* Two types and three queries: a query in each generation of one type and one
\* issued in the middle of a sweep; two answers make a late and a double one.
CONSTANTS
    MsgTypes = {heartbeat, login}
    NoMsg = NoMsg
    MaxQuery = 3
    MaxReplies = 2
SPECIFICATION FairSpec
INVARIANTS
    CalledExactlyOnce
    OnePeriodOfGrace
PROPERTIES
    SweepUndisturbed
    KeepsPromise
    EveryQuerySettles
