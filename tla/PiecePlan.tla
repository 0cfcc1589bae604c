------------------------------ MODULE PiecePlan ------------------------------
(***************************************************************************)
(* prioritizepieces: which pieces of a torrent are fetched for a file, and *)
(* which of them the player needs first.  The file is given by where it    *)
(* begins in the torrent and by its size, in bytes.                        *)
(***************************************************************************)
EXTENDS Integers

CONSTANTS
    NumPieces,
    PieceLength,
    StartBuffer,    \* startBufferPieces for a file that spans so many pieces
    EndBuffer       \* endBufferPieces: the pieces in ten megabytes, rounded up

Pieces == 0..(NumPieces - 1)

\* config.buffer is the share of the file that comes first.  Whatever it is and
\* however its product is rounded, the result is some number of pieces.
ASSUME PlanAssumption ==
    /\ NumPieces \in Nat \ {0}
    /\ PieceLength \in Nat \ {0}
    /\ StartBuffer \in [0..(NumPieces + 1) -> Nat]
    /\ EndBuffer \in Nat \ {0}

Largest(a, b) == IF a > b THEN a ELSE b

\* startPiece and endPiece.  The latter is the piece of the byte after the file.
StartPiece(offset)     == offset \div PieceLength
EndPiece(offset, size) == (offset + size) \div PieceLength

\* Where curPiece is after the loops of prioritizepieces, each of which goes on
\* from where the one before has stopped.
HeadStop(offset, size) ==
    StartPiece(offset) + StartBuffer[EndPiece(offset, size) - StartPiece(offset)] + 1
\* Mutant of MiddleStop: endBufferPieces is not subtracted.
MiddleStopLate(offset, size) ==
    Largest(HeadStop(offset, size), EndPiece(offset, size))

MiddleStop(offset, size) ==
    Largest(HeadStop(offset, size), EndPiece(offset, size) - EndBuffer)
\* Mutant of TailStop: curPiece < endPiece in the condition of the last loop.
TailStopShort(offset, size) == Largest(MiddleStop(offset, size), EndPiece(offset, size))

TailStop(offset, size)   == Largest(MiddleStop(offset, size), EndPiece(offset, size) + 1)
VectorLength(offset, size) == Largest(TailStop(offset, size), NumPieces)

\* The keys of bufferPiecesProgress: the second loop's and the fourth's.
HeadKeys(offset, size)   == StartPiece(offset)..(HeadStop(offset, size) - 1)
TailKeys(offset, size)   == MiddleStop(offset, size)..(TailStop(offset, size) - 1)
BufferKeys(offset, size) == HeadKeys(offset, size) \cup TailKeys(offset, size)

\* piecesPriorities, the vector given to PrioritizePieces
Vector(offset, size) ==
    [p \in 0..(VectorLength(offset, size) - 1) |->
        IF p \in BufferKeys(offset, size) THEN 7
        ELSE IF p \in HeadStop(offset, size)..(MiddleStop(offset, size) - 1) THEN 1
        ELSE 0]

-----------------------------------------------------------------------------
(* What a plan should be *)

\* The pieces that hold a byte of the file.
PiecesOf(offset, size) ==
    {p \in Pieces : \E b \in offset..(offset + size - 1) : b \div PieceLength = p}

Fits(offset, size) == offset + size <= NumPieces * PieceLength

\* Every piece of the file is fetched, and beyond its first and its last byte
\* nothing but the pieces of the buffer.
FetchesTheFile(offset, size) ==
    \A p \in Pieces :
        /\ p \in PiecesOf(offset, size) => Vector(offset, size)[p] > 0
        /\ Vector(offset, size)[p] > 0 =>
             p \in StartPiece(offset)..EndPiece(offset, size) \/ p \in HeadKeys(offset, size)

\* The buffer holds the beginning and the end of the file: no player starts
\* without them.
BuffersBothEnds(offset, size) ==
    size > 0 =>
       /\ offset \div PieceLength \in BufferKeys(offset, size)
       /\ (offset + size - 1) \div PieceLength \in BufferKeys(offset, size)
=============================================================================
