SPECIFICATION PipelineSpec
CONSTANTS
    p1 = p1
    p2 = p2
    w1 = w1
    w2 = w2
    Items = {i1}
    Workers = {w1}
    Operators = {o1}
    Instances = {p1}
    InstanceOf <- OneProcess
    NoItem = NoItem
    MaxItemAttempts = 2
    SingleInstance = TRUE
    MaxCrashes = 1
    MaxRetries = 0
    MaxDrafts = 1
    MaxCalls = 1
PROPERTY ValidatedRunSkipsProvider
CHECK_DEADLOCK FALSE
