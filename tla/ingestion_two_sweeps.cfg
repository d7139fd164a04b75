SPECIFICATION Spec
CONSTANTS
    Requests = {r1, r2}
    Keys = {k1}
    NoKey = NoKey
    Digests = {d1}
    MaxImages = 2
    Sweepers = {s1, s2}
INVARIANTS IngestionInv BytesOutliveTheSweep OneAnswerPerKey AnsweredLeavesNoFiles
