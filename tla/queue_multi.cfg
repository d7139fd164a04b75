SPECIFICATION Spec
CONSTANTS
    p1 = p1
    p2 = p2
    w1 = w1
    w2 = w2
    Items = {i1, i2}
    Workers = {w1, w2}
    Operators = {o1, o2}
    Instances = {p1, p2}
    InstanceOf <- TwoProcesses
    NoItem = NoItem
    MaxItemAttempts = 2
    SingleInstance = FALSE
    MaxCrashes = 1
    MaxRetries = 2
SYMMETRY QueueSymmetry
INVARIANTS QueueInv ClaimIffInFlight OneOwner UploadedHasBudget
PROPERTIES FencedZombies ImplementsLifecycle
CHECK_DEADLOCK FALSE
