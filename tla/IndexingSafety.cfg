SPECIFICATION Spec
CONSTANTS
    File <- MCFile
    Version <- MCVersion
    Name <- MCName
    NoRecord = NoRecord
    MaxCopies = 2
    Builtin = {"len"}
    TestFile = {"tst"}
    TestName = {"test_it"}
    Source <- TwoVersions
    Extract <- ExtractTwoVersions
    Tracked = {}
    BatchSize = 2
    RefLimit = 10
    ForeignKeys = TRUE
    Ops = {"index_all", "apply_delta"}
    Deltas <- MCDeltas
    Interruptible = {"apply_delta"}
    MaxCrashes = 1
INVARIANTS
    TypeOK
    ReferentialIntegrity
    RecordedFilesComplete
    RecordedFilesExact
PROPERTY
    NoReferenceDropped
