SPECIFICATION Spec
CONSTANT TestCount = 2
PROPERTY ChildWaitsIndefinitely
CHECK_DEADLOCK FALSE
