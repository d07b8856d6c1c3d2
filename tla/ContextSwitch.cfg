SPECIFICATION SwitchSpec
CONSTANTS
    TestCount = 8
    MaxPreemptions = 3
INVARIANTS SwitchTypeOK OneWriterAtATime SleeperHasWaker ExitsAfterFullRun ReturnsAfterFullRun
           SwitchesPerIteration
PROPERTIES StrictAlternation Terminates ThreadsTerminate FinishesByYielding
CHECK_DEADLOCK FALSE
