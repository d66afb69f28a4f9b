SPECIFICATION Spec
CONSTANTS
    Libraries <- SomeLibraries
    Stages <- SomeStages
    AsuPoints <- Wave
INVARIANTS MeasuresHappen StageConnected
CHECK_DEADLOCK FALSE
