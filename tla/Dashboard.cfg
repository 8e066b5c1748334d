\* Two runs write while one client reads page by page, or the dashboard is used; one line has a
\* large value and one test a large name.
SPECIFICATION Spec
CONSTANTS
    MaxRuns = 2
    Tests = {1, 2, 3}
    Lines = {1, 2}
    Heavy = {2}
    Wide = {3}
    Logs <- MCLogs
    Readers = {c}
    Asks <- MCAsks
    Limits = {1, 3}
    MaxBytes = 3
    Overhead = 1
    ListLimit = 3
    MaxKeys = 2
    None = None
INVARIANTS
    TypeOK
    ReadIsWhole
PROPERTIES
    StuckOnlyOnLargeItems
    SelectionStays
    ListCatchesUp
CHECK_DEADLOCK FALSE
