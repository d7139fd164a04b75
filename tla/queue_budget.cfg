SPECIFICATION Spec
CONSTANTS
    p1 = p1
    p2 = p2
    w1 = w1
    w2 = w2
    Items = {i1, i2}
    Workers = {w1, w2}
    Operators = {o1}
    Instances = {p1}
    InstanceOf <- OneProcess
    NoItem = NoItem
    MaxItemAttempts = 2
    SingleInstance = TRUE
    MaxCrashes = 2
    MaxRetries = 1
INVARIANT UploadedHasBudget
CHECK_DEADLOCK FALSE
