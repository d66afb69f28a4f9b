\* Nets with one receiver and with several, in wide windows and in narrow ones.
SPECIFICATION LoadFairSpec
CONSTANTS
    Requests <- SomeRequests
    SpineLengths = {101, 199}
    Percents = {0, 1, 50, 99}
    MaxTries = 16
    MaxDraws = 9
    NaN = NaN
INVARIANTS NoSwing
PROPERTIES LoopEnds
CHECK_DEADLOCK FALSE
