SPECIFICATION Spec
CONSTANTS
    NumThreads = 4
    ThreadCalls = 2
    Measurements = 2
    MaxStacks = 10
    MaxProcesses = 12
INVARIANTS TypeOK CreatedUpToLimit LinesAccounted
PROPERTY AllOutput
CHECK_DEADLOCK FALSE
