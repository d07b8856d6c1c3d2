SPECIFICATION ClientSpec
CONSTANTS
    TestCount = 6
    Hosts = 2
    Size = 4
    SndBuf = 2
    MaxDelay = 1
    Ports = {1, 2, 3, 4}
    TimeWait = 3
INVARIANTS ClientTypeOK LossEndsRun PeakWithinBuffer NeverOutOfPorts
CHECK_DEADLOCK FALSE
