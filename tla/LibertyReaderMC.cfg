SPECIFICATION FairSpec
CONSTANTS
    Files <- AllFiles
    NoRelated = NoRelated
    Garbage = Garbage
    NoLibrary = NoLibrary
INVARIANTS LibraryIsFile CheckedBeforeStored
CHECK_DEADLOCK FALSE
PROPERTIES ReaderEnds
