SPECIFICATION MedianSpec
CONSTANTS
    Half = 2
    Clocks = 1
    IntMax = 3
    Samples <- MCSamples
INVARIANT SortedBeforeMedian
CHECK_DEADLOCK FALSE
