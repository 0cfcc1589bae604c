CONSTANTS
    s1 = s1
    s2 = s2
    w1 = w1
    NumPieces = 3
    PieceLength = 2
    StartBuffer <- Third
    EndBuffer = 1
    NumFiles = 2
    FileOffset <- ShortOffsets
    FileSize <- ShortSizes
    MinCandidateSize = 1
    SmallSize = 0
    FileIndex <- Minus1
    Setters <- TwoSetters
    Settings <- SetToSeven
    Gets = {}
    Watchers <- NoWatcher
    Orderly = FALSE
    Corruptible = {}
SPECIFICATION Spec
INVARIANT SelectedIsWanted
CHECK_DEADLOCK FALSE
