\* The stress suite, two nets for each driver.
SPECIFICATION Spec
CONSTANTS
    Library <- Gates
    NoPin = NoPin
    Stresses = {TRUE}
    NumNets = 2
    MaxReceivers = 2
    PiModels = FALSE
    StressDrivers <- TwoDrivers
    StressReceiver = "INV"
INVARIANTS StressLoadMatchesNet
CHECK_DEADLOCK FALSE
