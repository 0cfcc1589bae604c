CONSTANTS
    r1 = r1
    r2 = r2
    movie = movie
    subs = subs
    Readers <- TwoReaders
    Asks <- MixedAsks
    Files <- TwoFiles
    FileOffset <- Offsets
    FileSize <- Sizes
    NumPieces = 3
    PieceLength = 2
    BufLen = 4
    InitialPriorities <- AnyStart
    OthersVectors = {}
SPECIFICATION Spec
SYMMETRY ReaderSymmetry
INVARIANTS TypeOK ServedVerified
PROPERTY ServesRanges
CHECK_DEADLOCK FALSE
