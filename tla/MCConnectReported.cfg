\* One session of our own, whose attempts to connect may fail.
CONSTANTS
    Accepts = {}
    Connects = {c1}
    NoSession = NoSession
    Budgets <- ConnectBudgets
SPECIFICATION FairSpec
PROPERTIES
    ConnectReported
