SPECIFICATION FairSpec
CONSTANTS
    File <- MCFile
    Version <- MCVersion
    Name <- MCName
    NoRecord = NoRecord
    MaxCopies = 2
    Builtin = {"len"}
    TestFile = {"tst"}
    TestName = {"test_it"}
    Source <- WithErrors
    Extract <- ExtractWithErrors
    Tracked = {"lib"}
    BatchSize = 1
    RefLimit = 10
    ForeignKeys = FALSE
    Ops = {"index_all", "delete_file"}
    Deltas <- MCDeltas
    Interruptible = {"index_all"}
    MaxCrashes = 1
PROPERTIES
    AbsSpec
    OperationsEnd
    FilesConverge
