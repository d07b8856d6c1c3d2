SPECIFICATION Spec
CONSTANT NumThreads = 3
INVARIANTS TypeOK SetUpBeforeMeasure OwnFile ArrivalsMeet
PROPERTY AllMeasured
CHECK_DEADLOCK FALSE
