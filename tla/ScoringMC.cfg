SPECIFICATION Spec
CONSTANTS
    Circuits <- AllCases
    NumCkts = 2
    Scale = 800
    Infinite = Infinite
INVARIANTS CloserIsNoWorse OutliersAreErrors FailedNotCounted
CHECK_DEADLOCK FALSE
