SPECIFICATION CoreSpec
CONSTANTS
    TestCount = 6
    MaxPreemptions = 0
INVARIANT TwoSyscalls
CHECK_DEADLOCK FALSE
