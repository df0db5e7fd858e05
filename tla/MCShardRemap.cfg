CONSTANTS
    Rows <- MCRows
    Contents = {c1, c2}
    NoRow = NoRow
    Nums <- MCNums
    Slats <- MCSlats
    NoSlat = NoSlat
    Place <- MCPlace
    Route <- MCRoute
    NoDir = NoDir
    Broken = Broken
    MaxCrashes = 1
SPECIFICATION FairSpec
INVARIANTS
    NothingStale
    NothingLost
    ServesAll
    
PROPERTY
    ServesInTheEnd
