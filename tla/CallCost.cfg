SPECIFICATION CostSpec
CONSTANTS
    TestCount = 12
    Half = 2
    Clocks = 2
    IntMax = 3
    Samples <- MCSamples
INVARIANTS TypeOK EveryWaitBlocks ResultsAreSamples
PROPERTY FutexEndsInWaitpid
CHECK_DEADLOCK FALSE
