SPECIFICATION TestFileSpec
CONSTANTS
    MinBlocks = 2
    MaxBlocks = 16
    PageSize = 4
    IntSize = 2
    MinPages = 8
    MaxPages = 16
    FirstHot = 3
    Passes = 6
    MaxRuns = 1
INVARIANT EachPageFromDisk
CHECK_DEADLOCK FALSE
