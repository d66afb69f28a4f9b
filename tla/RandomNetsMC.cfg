\* Both kinds of testsuite.
SPECIFICATION Spec
CONSTANTS
    Library <- Gates
    NoPin = NoPin
    Stresses = {FALSE, TRUE}
    NumNets = 2
    MaxReceivers = 2
    PiModels = FALSE
    StressDrivers <- TwoDrivers
    StressReceiver = "INV"
INVARIANTS InstancesDistinct CircuitMatchesNet LimitAccountsForPins
CHECK_DEADLOCK FALSE
