SPECIFICATION Spec
CONSTANTS
    StartSize = 2
    MaxSize = 4
    SizeStep = 2
    TestCount = 2
    Hosts = 2
    UintModulus = 16
INVARIANTS TypeOK SampleIsRoundTrip NothingLostInFlight
PROPERTY Completes
CHECK_DEADLOCK FALSE
