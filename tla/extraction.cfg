SPECIFICATION ExtractionSpec
CONSTANTS
    MaxAttempts = 2
    MaxRepairs = 1
    FirstLimit = 8
    Ceiling = 14
    Scans <- MCScans
    Replies <- MCReplies
    Answers <- MCAnswers
    PageWidth = 100
    PageHeight = 60
    Padding = 6
    MaxRegions = 2
    MinWords = 2
    MaxChars = 5
    MaxDescription = 2
    MaxCandidates = 2
INVARIANTS RunnerInv CallsBounded BudgetsIndependent RepairsStayRepairs
    NoTextIsLost ReadingIsCanonical AnswersAreClassified DraftsAreGrounded
PROPERTY LoopEnds
CHECK_DEADLOCK FALSE
