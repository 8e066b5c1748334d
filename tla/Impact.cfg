\* A failing test stops before it reaches all of its sources, and one resource is no part of
\* the revision; at most two cached revisions.
SPECIFICATION Spec
CONSTANTS
    t1 = t1
    t2 = t2
    Absent = Absent
    StopAtFailure = TRUE
    Tests <- MCTests
    Files <- MCFiles
    Included <- MCIncluded
    Sources <- MCSources
    Contents <- MCContents
    Surface <- MCSurface
    InitialTree <- MCInitialTree
    Commits <- MCCommits
    Executes <- MCExecutes
    Passes <- MCPasses
    Silent <- MCSilent
    MaxRetained = 4
INVARIANTS
    TypeOK
    ClaimsAreSound
    CacheIsSound
    BaselineIsLearned
