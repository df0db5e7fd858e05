CONSTANTS
    Accepts = {a1}
    Connects = {c1}
    NoSession = NoSession
    Budgets <- LifeBudgets
SPECIFICATION FairSpec
INVARIANTS
    MainKnowsLess
    NoGhost
    CallbacksInOrder
    OneReadChain
PROPERTIES
    ClosedIsForgotten
    SilentPeerIsDropped
