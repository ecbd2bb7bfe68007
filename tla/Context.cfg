SPECIFICATION Spec
CONSTANTS
    TestFile = {"t"}
    Distinctive = 3
    PerName = 8
    MaxSeeds = 3
    FileFloor = 2
    TestFloor = 1
    Databases <- MCDatabases
    Questions <- MCQuestions
INVARIANTS
    SeedsNamed
    EntryPoints
    RootsAnswered
    AnswerClosed
