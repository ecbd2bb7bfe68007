SPECIFICATION Spec
CONSTANTS
    File <- MCFile
    Version <- MCVersion
    Name <- MCName
    NoRecord = NoRecord
    MaxCopies = 2
    Builtin = {}
    TestFile = {"leaf"}
    TestName = {"test_it"}
    Source <- MCSource
    Extract <- MCExtract
    Tracked = {}
    BatchSize = 2
    RefLimit = 10
    ForeignKeys = TRUE
    Ops = {"apply_delta"}
    Deltas <- MCDeltas
    Interruptible = {"apply_delta"}
    MaxCrashes = 1
INVARIANTS
    DerivedEdgesUnique
    TestsJustified
