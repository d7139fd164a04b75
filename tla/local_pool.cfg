SPECIFICATION FairSpec
CONSTANTS
    Items = {i1, i2}
    Slots = 2
    SingleInstance = TRUE
    MaxTokens = 3
    MaxStarts = 2
INVARIANTS PoolInv ClaimsAreCarried
PROPERTIES QueuedIsTaken StopReturns
CHECK_DEADLOCK FALSE
