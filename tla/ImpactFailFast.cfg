\* A failing test stops before it reaches all of its sources.
SPECIFICATION Spec
CONSTANTS
    t1 = t1
    t2 = t2
    Absent = Absent
    StopAtFailure = TRUE
    Tests <- MCTests
    Files <- MCFiles
    Included <- MCFiles
    Sources <- MCSources
    Contents <- MCContents
    Surface <- MCSurface
    InitialTree <- MCInitialTree
    Commits <- MCCommits
    Executes <- MCExecutes
    Passes <- MCPasses
    Silent = {}
    MaxRetained = 4
INVARIANT
    CacheIsTrue
