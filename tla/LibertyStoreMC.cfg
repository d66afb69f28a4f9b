SPECIFICATION Spec
CONSTANTS
    Key <- Keys
    NoKey = NoKey
    NoItem = 0
    HashCode <- Codes
    MaxBuckets = 4
    Threshold = 1
    Primes <- Sizes
    LastPrime = 5
    Group = {1, 2, 3}
    Root = Root
    Heads <- SomeHeads
    MasterSize = 1
    LibrarySize = 3
    GroupSize = 1
    MaxEdits = 3
INVARIANTS TablesWellFormed FoundIsNamed FirstIsFound QuitFreesAll
PROPERTY ImplementsNames
CHECK_DEADLOCK FALSE
