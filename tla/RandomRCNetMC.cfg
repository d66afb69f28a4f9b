SPECIFICATION Spec
CONSTANTS
    MaxReceivers = 4
    MaxLayer = 3
INVARIANTS IndicesUnique DrivenOnce EveryReceiverReached WiresCounted StackComplete
CHECK_DEADLOCK FALSE
