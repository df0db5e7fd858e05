CONSTANTS
    Keys = {k1, k2, k3}
    Vals = {v1, v2}
    Default = Default
    Garbage = Garbage
    MaxRows = 2
    Users = {u1, u2}
    ArgNumMax = 6
    Unfilled = Unfilled
SPECIFICATION DbSpec
SYMMETRY RowSymmetry
INVARIANTS
    LoadIsFaithful
    SavedAloneIsLoaded
    StatementsMeanIt
