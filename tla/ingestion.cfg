SPECIFICATION FairSpec
CONSTANTS
    Requests = {r1, r2}
    Keys = {k1}
    NoKey = NoKey
    Digests = {d1}
    MaxImages = 2
    Sweepers = {s1}
INVARIANTS IngestionInv BytesOutliveTheSweep OneAnswerPerKey AnsweredLeavesNoFiles
PROPERTY LeftoversAreCollected
