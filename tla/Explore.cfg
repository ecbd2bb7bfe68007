SPECIFICATION Spec
CONSTANTS
    Projects <- AllProjects
    TestFiles = {"t"}
    Blank = {"g"}
    Width = 1
    Estimate = 1
    Gap = 2
    Padding = 1
    PerFile = 5
    EdgeImportance = 2
    MaxSignatures = 1
    Dense = 3
    MaxDepth = 4
    MaxBridge = 1
    ParentLimit = 10
    MaxOutput = 20
    MaxFiles = 3
    WholeLines = 6
    Unique = 1
    Reserve = 1
    Ceiling = 22
    MinSource = 11
    Preface = 3
    Notice = 1
    Heading = 1
    SectionNote = 1
    FlowLine = 1
    ListHeading = 2
    Item <- ItemOf
    ItemEstimate = 2
    MoreItem = 1
    ListMax = 1
    Signal = 2
    Truncated = 2
    MaxEdits = 1
INVARIANTS
    FlowSound
    FlowFound
    FilesAccounted
    NecessaryShown
    OptionalWithinBudget
    OutputBounded
    LinesOnce
    SkeletonBounded
CHECK_DEADLOCK FALSE
