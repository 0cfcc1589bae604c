--------------------------- MODULE MCTorrentStream ---------------------------
(* Instances of TorrentStream for TLC: three pieces of two bytes. *)
EXTENDS TorrentStream, TLC

CONSTANTS r1, r2, movie, subs

TwoReaders == {r1, r2}
TwoFiles   == {movie, subs}

\* The second piece holds the end of one file and the beginning of the other,
\* and the other ends with the last piece.
Offsets == (movie :> 0) @@ (subs :> 3)
Sizes   == (movie :> 3) @@ (subs :> 3)

Whole(f)  == [file |-> f, first |-> 0, last |-> 3, ranged |-> FALSE, sniffed |-> FALSE]
Sniffed(f) == [Whole(f) EXCEPT !.sniffed = TRUE]
Tail(f)   == [Whole(f) EXCEPT !.first = 2, !.ranged = TRUE]
Middle(f) == [Whole(f) EXCEPT !.first = 1, !.last = 2, !.ranged = TRUE]
TailSniffed(f) == [Tail(f) EXCEPT !.sniffed = TRUE]

MixedAsks == {Whole(movie), Middle(movie), TailSniffed(subs)}
SeekingAsks == {TailSniffed(subs)}
SomeAsks == {Whole(movie), Tail(movie), TailSniffed(subs)}

\* -file-index 9999, -file-index -1, and one file that is wanted.
AllWanted  == [p \in Pieces |-> 1]
NoneWanted == [p \in Pieces |-> 0]
MovieWanted == [p \in Pieces |-> IF p \in 0..1 THEN 7 ELSE 0]
Everything == {AllWanted}
AnyStart   == {AllWanted, NoneWanted, MovieWanted}

\* What /get/ makes of it for the other file: the piece that both are in stays wanted.
OtherWanted == {[p \in Pieces |-> IF p \in 0..1 THEN 1 ELSE 0]}

ReaderSymmetry == Permutations(Readers)
=============================================================================
