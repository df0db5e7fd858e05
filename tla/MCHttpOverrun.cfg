SPECIFICATION Spec
CONSTANTS
    Paths <- MCPaths
    Registered <- MCRegistered
    HasDefault = FALSE
    MaxBody = 2
    MaxRequests = 2
    MaxSize = 64
INVARIANT RemovesWhatIsThere
CHECK_DEADLOCK FALSE
