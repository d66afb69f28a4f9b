SPECIFICATION FairSpec
CONSTANTS
    NumCkts = 2
    Measures = {delay}
    MaxRounds = 2
    MaxCrashes = 2
    NoFile = NoFile
    Empty = Empty
    Absent = Absent
    Zero = Zero
    Neg = Neg
    NoScore = NoScore
    Ignored = Ignored
    Decks = {1, 2}
    Workers = {w1, w2}
    Idle = Idle
    Scripts <- AllScripts
INVARIANTS ScoreDescribesFile ResultsBelongToDecks CleanRunIsWhole GoldenIsOnDisk
PROPERTIES MergeKeepsComputed RoundEnds
CHECK_DEADLOCK FALSE
