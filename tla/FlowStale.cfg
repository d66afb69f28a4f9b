\* The delay calculation of the second round crashes.
SPECIFICATION FairSpec
CONSTANTS
    NumCkts = 2
    Measures = {delay}
    MaxRounds = 2
    MaxCrashes = 1
    NoFile = NoFile
    Empty = Empty
    Absent = Absent
    Zero = Zero
    Neg = Neg
    NoScore = NoScore
    Ignored = Ignored
    Decks = {1, 2}
    Workers = {w1, w2}
    Idle = Idle
    Scripts <- StaleScripts
PROPERTIES MergedIsThisRun
CHECK_DEADLOCK FALSE
