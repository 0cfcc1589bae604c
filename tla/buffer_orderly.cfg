CONSTANTS
    s1 = s1
    s2 = s2
    w1 = w1
    NumPieces = 5
    PieceLength = 2
    StartBuffer <- Third
    EndBuffer = 1
    NumFiles = 2
    FileOffset <- TwoOffsets
    FileSize <- TwoSizes
    MinCandidateSize = 3
    SmallSize = 4
    FileIndex = 1
    Setters <- TwoSetters
    Settings <- SetAnyWay
    Gets = {0, 2}
    Watchers <- OneWatcher
    Orderly = TRUE
    Corruptible = {1}
SPECIFICATION Spec
SYMMETRY SetterSymmetry
INVARIANTS TypeOK FullMeansBuffered SelectedIsWanted AlwaysFetches AlwaysBuffers
CHECK_DEADLOCK FALSE
