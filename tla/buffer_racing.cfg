CONSTANTS
    s1 = s1
    s2 = s2
    w1 = w1
    NumPieces = 2
    PieceLength = 2
    StartBuffer <- Third
    EndBuffer = 1
    NumFiles = 2
    FileOffset <- TinyOffsets
    FileSize <- TinySizes
    MinCandidateSize = 1
    SmallSize = 1
    FileIndex = 1
    Setters <- OneSetter
    Settings <- SetToSeven
    Gets = {1}
    Watchers <- OneWatcher
    Orderly = FALSE
    Corruptible = {1}
SPECIFICATION Spec
INVARIANT NoConcurrentMapAccess
PROPERTY EveryoneIsAnswered
CHECK_DEADLOCK FALSE
