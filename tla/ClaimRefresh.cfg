SPECIFICATION OneHandleSpec
CONSTANTS
    File <- MCFile
    Version <- MCVersion
    Name <- MCName
    NoRecord = NoRecord
    MaxCopies = 2
    Builtin = {"len"}
    TestFile = {"tst"}
    TestName = {"test_it"}
    Source <- TwoByTwo
    Extract <- ExtractTwoByTwo
    Tracked = {}
    BatchSize = 2
    RefLimit = 10
    ForeignKeys = TRUE
    Ops = {"index_all"}
    Deltas <- MCDeltas
    Interruptible = {"index_all"}
    MaxCrashes = 1
PROPERTY
    RefreshesResolve
