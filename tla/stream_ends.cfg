CONSTANTS
    r1 = r1
    r2 = r2
    movie = movie
    subs = subs
    Readers <- TwoReaders
    Asks <- SeekingAsks
    Files <- TwoFiles
    FileOffset <- Offsets
    FileSize <- Sizes
    NumPieces = 3
    PieceLength = 2
    BufLen = 4
    InitialPriorities <- Everything
    OthersVectors <- OtherWanted
SPECIFICATION Spec
PROPERTIES EveryRequestEnds OwnSeekKeepsWait
CHECK_DEADLOCK FALSE
