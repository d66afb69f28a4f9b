SPECIFICATION ArcSpec
CONSTANTS
    MaxSize = 3
    Axes <- SomeAxes
    Points = {0, 1, 2, 3, 4, 5, 6, 7}
    Outside = Outside
    Drivers <- SomeDrivers
    Receivers <- SomeReceivers
    MaxReceivers = 2
    Rounding = 1
    Infinity = 1000
INVARIANTS CornersSurround ConvexCombination GeneratedInRange StressBelowLimits
CHECK_DEADLOCK FALSE
