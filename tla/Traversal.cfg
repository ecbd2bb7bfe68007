SPECIFICATION FairSpec
CONSTANTS
    Id <- MCId
    Container = {"a", "b"}
    Graphs <- MCGraphs
    Queries <- MCQueries
INVARIANTS
    WithinDepth
    DepthFirstComplete
    BreadthFirstComplete
    BreadthFirstTree
    PathShortest
    EdgesOnce
PROPERTY
    QueriesEnd
