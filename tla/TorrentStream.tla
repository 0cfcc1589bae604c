--------------------------- MODULE TorrentStream ---------------------------
(***************************************************************************)
(* /files/<name>: net/http's file server reads a TorrentFile, whose Read   *)
(* waits until libtorrent has the piece it is about to read and whose Seek *)
(* makes libtorrent fetch from there on.  Several requests share one       *)
(* torrent and its vector of piece priorities; each has its own copy of    *)
(* the bitfield of pieces, asked for again when it is half a second old.   *)
(*                                                                         *)
(* A byte is its offset.  A set bit is taken to mean, as the code takes it *)
(* to mean, that the bytes of that piece are in the file on disk.          *)
(***************************************************************************)
EXTENDS Integers, FiniteSets

CONSTANTS
    Readers,             \* requests for /files/, one goroutine each
    Asks,                \* what they may ask: [file, first, last, ranged, sniffed]
    Files,
    FileOffset,          \* where each file begins in the torrent
    FileSize,
    NumPieces,
    PieceLength,
    BufLen,              \* the longest slice net/http passes to Read
    InitialPriorities,   \* the vectors the torrent may start from
    OthersVectors        \* the vectors that /priority and /get/ make of it meanwhile

Pieces == 0..(NumPieces - 1)
Priorities == 0..7

\* Bytes first..last-1 of the file are asked for.  A request without a Range has
\* ranged FALSE and first 0.  A file whose name does not tell its type is sniffed.
AskSet == [file: Files, first: Nat, last: Nat, ranged: BOOLEAN, sniffed: BOOLEAN]

ASSUME StreamAssumption ==
    /\ NumPieces \in Nat \ {0}
    /\ PieceLength \in Nat \ {0}
    /\ BufLen \in Nat \ {0}
    /\ FileOffset \in [Files -> Nat]
    /\ FileSize \in [Files -> Nat \ {0}]
    /\ \A f \in Files : FileOffset[f] + FileSize[f] <= NumPieces * PieceLength
    /\ Asks \subseteq AskSet
    /\ \A a \in Asks : a.first < a.last /\ a.last <= FileSize[a.file]
    /\ \A a \in Asks : a.ranged \/ a.first = 0
    /\ InitialPriorities \subseteq [Pieces -> Priorities]
    /\ OthersVectors \subseteq [Pieces -> Priorities]
    /\ "others" \notin Readers

VARIABLES
    verified,   \* the pieces libtorrent has
    prio,       \* its priority for each piece
    running,    \* the session and the torrent are not paused
    busy,       \* allocating, or checking resume data: a state above Seeding
    stream,     \* the TorrentFile of each request and how far the request is
    setBy       \* whose vector libtorrent was given last: history

vars == <<verified, prio, running, busy, stream, setBy>>

NotOpened == [pc: {"new", "notfound"}]
Points == {"seek", "read", "check", "poll", "tick", "ready", "end"}
Opened == [pc: Points, ask: Asks, sniffing: BOOLEAN, pos: Nat, left: Nat,
           bits: SUBSET Pieces, fresh: BOOLEAN, closed: BOOLEAN]

TypeOK ==
    /\ verified \subseteq Pieces
    /\ prio \in [Pieces -> Priorities]
    /\ running \in BOOLEAN
    /\ busy \in BOOLEAN
    /\ stream \in [Readers -> NotOpened \cup Opened]
    /\ setBy \in Readers \cup {"others"}

-----------------------------------------------------------------------------
(* Offsets and priorities *)

\* tf.pieceFromOffset
PieceAt(f, offset)      == (FileOffset[f] + offset) \div PieceLength
PieceOffset(f, offset)  == (FileOffset[f] + offset) % PieceLength

\* tf.getPieces
StartPiece(f) == PieceAt(f, 1)
EndPiece(f)   == PieceAt(f, FileSize[f] - 1)

\* math.Ceil(float64(n) * startBufferPercent), half a percent
BufferShare(n) == (n + 199) \div 200

\* The pieces from p on that Seek wants first.
BuffPieces(f, p) ==
    LET share == BufferShare(EndPiece(f) - StartPiece(f))
        atLeastOne == IF share = 0 THEN 1 ELSE share
    IN  IF p + atLeastOne > EndPiece(f) THEN EndPiece(f) - p ELSE atLeastOne

\* Mutant of SeekPriorities: the loop stops before the last piece of the file.
SeekPrioritiesShort(f, p) ==
    [q \in Pieces |->
        CASE q < p                                  -> 0
          [] p <= q /\ q < p + BuffPieces(f, p)     -> 7
          [] p + BuffPieces(f, p) <= q /\ q < EndPiece(f) -> 1
          [] OTHER                                  -> 0]

\* The vector Seek gives to PrioritizePieces.
SeekPriorities(f, p) ==
    [q \in Pieces |->
        CASE q < p                                  -> 0
          [] p <= q /\ q < p + BuffPieces(f, p)     -> 7
          [] p + BuffPieces(f, p) <= q /\ q <= EndPiece(f) -> 1
          [] OTHER                                  -> 0]

\* PiecePriority of an index libtorrent does not have is zero.
PriorityOf(p) == IF p \in Pieces THEN prio[p] ELSE 0

\* SetPieceDeadline of the three pieces from p: libtorrent may lift a priority of
\* zero so that the deadline means something.
Deadlines(p) ==
    {prio, [q \in Pieces |-> IF q \in p..(p + 2) /\ prio[q] = 0 THEN 1 ELSE prio[q]]}

-----------------------------------------------------------------------------
(* updatePieces and hasPiece *)

Refreshed(s) ==
    IF s.fresh \/ busy THEN s ELSE [s EXCEPT !.bits = verified, !.fresh = TRUE]

\* The answers hasPiece may give.  The slice over the bitfield is one bit longer
\* than the bitfield: what follows the last piece is whatever memory holds there.
HasPiece(s, p) ==
    IF busy /\ ~s.fresh THEN {FALSE}
    ELSE IF p = NumPieces THEN BOOLEAN
    ELSE {p \in Refreshed(s).bits}

\* The piece the next byte of a stream is in.
Here(s) == PieceAt(s.ask.file, s.pos)

-----------------------------------------------------------------------------
Init ==
    /\ verified \in SUBSET Pieces
    /\ prio \in InitialPriorities
    /\ running = TRUE
    /\ busy \in BOOLEAN
    /\ stream = [r \in Readers |-> [pc |-> "new"]]
    /\ setBy = "others"

At(r, pc) == stream[r].pc = pc
Become(r, s) == stream' = [stream EXCEPT ![r] = s]

\* Open finds the file on disk and in the torrent.
Open(r, a) ==
    /\ At(r, "new")
    /\ Become(r, [pc |-> IF a.ranged /\ ~a.sniffed THEN "seek" ELSE "read",
                  ask |-> a, sniffing |-> a.sniffed, pos |-> 0, left |-> 0,
                  bits |-> {}, fresh |-> FALSE, closed |-> FALSE])
    /\ UNCHANGED <<verified, prio, setBy, running, busy>>

\* Open finds no such file on disk yet, or not in the torrent, or the torrent
\* gone: the answer is 404.
NotFound(r) ==
    /\ At(r, "new")
    /\ Become(r, [pc |-> "notfound"])
    /\ UNCHANGED <<verified, prio, setBy, running, busy>>

\* Seek(target, io.SeekStart): after the sniffing to the beginning, and for a
\* Range to its first byte.
Seek(r) ==
    LET s == stream[r]
        target == IF s.sniffing THEN 0 ELSE s.ask.first
        p == PieceAt(s.ask.file, target)
    IN  /\ At(r, "seek")
        /\ \E has \in HasPiece(s, p) :
              IF has
              THEN UNCHANGED <<prio, setBy>>
              ELSE prio' = SeekPriorities(s.ask.file, p) /\ setBy' = r
        /\ Become(r, [Refreshed(s) EXCEPT
                         !.pos = target,
                         !.sniffing = FALSE,
                         !.pc = IF s.sniffing /\ s.ask.ranged THEN "seek" ELSE "read"])
        /\ UNCHANGED <<verified, running, busy>>

\* Mutant of BeginRead: the slice is full length, whatever is left of the range.
BeginReadFull(r) ==
    /\ At(r, "read")
    /\ Become(r, [stream[r] EXCEPT !.pc = "check", !.left = BufLen])
    /\ UNCHANGED <<verified, prio, setBy, running, busy>>

\* net/http calls Read: 512 bytes to sniff, then what is left of the range.
BeginRead(r) ==
    LET s == stream[r]
        wanted == IF s.sniffing THEN BufLen ELSE s.ask.last - s.pos
    IN  /\ At(r, "read")
        /\ wanted > 0
        /\ Become(r, [s EXCEPT !.pc = "check",
                               !.left = IF wanted < BufLen THEN wanted ELSE BufLen])
        /\ UNCHANGED <<verified, prio, setBy, running, busy>>

\* What Read's caller does with an error: the sniffing goes on with what it has,
\* a response ends there.
Fail(s) == [s EXCEPT !.pc = IF s.sniffing THEN "seek" ELSE "end"]

\* waitForPiece, its first hasPiece
CheckPiece(r) ==
    LET s == stream[r]
    IN  /\ At(r, "check")
        /\ \E has \in HasPiece(s, Here(s)) :
              IF has
              THEN Become(r, [Refreshed(s) EXCEPT !.pc = "ready"]) /\ UNCHANGED prio
              ELSE Become(r, [Refreshed(s) EXCEPT !.pc = "poll"]) /\ prio' \in Deadlines(Here(s))
        /\ UNCHANGED <<verified, setBy, running, busy>>

\* waitForPiece, the condition of its loop
PollPiece(r) ==
    LET s == stream[r]
    IN  /\ At(r, "poll")
        /\ \E has \in HasPiece(s, Here(s)) :
              Become(r, [Refreshed(s) EXCEPT !.pc = IF has THEN "ready" ELSE "tick"])
        /\ UNCHANGED <<verified, prio, setBy, running, busy>>

\* Mutant of Tick: a piece that nobody wants any more is still waited for.
TickRegardless(r) ==
    LET s == stream[r]
    IN  /\ At(r, "tick")
        /\ Become(r, IF s.closed THEN Fail(s) ELSE [s EXCEPT !.pc = "poll"])
        /\ UNCHANGED <<verified, prio, setBy, running, busy>>

\* waitForPiece, case <-ticker
Tick(r) ==
    LET s == stream[r]
    IN  /\ At(r, "tick")
        /\ Become(r, IF PriorityOf(Here(s)) = 0 \/ s.closed
                     THEN Fail(s)
                     ELSE [s EXCEPT !.pc = "poll"])
        /\ UNCHANGED <<verified, prio, setBy, running, busy>>

\* Mutant of InThisPiece: a whole piece, however much of the slice is left.
WholePiece(s) == PieceLength

\* Mutant of InThisPiece: the rest of the slice, without the clamp to the piece.
WholeSlice(s) == s.left

\* How much of the rest of the slice lies in the piece that was waited for.
InThisPiece(s) ==
    LET offset == PieceOffset(s.ask.file, s.pos)
    IN  IF offset + s.left > PieceLength THEN PieceLength - offset ELSE s.left

\* tf.File.Read, and the rest of the loop of Read.  At the end of the file there
\* is nothing to read: io.EOF.
ReadDisk(r) ==
    LET s == stream[r]
        rest == FileSize[s.ask.file] - s.pos
        n1 == IF InThisPiece(s) < rest THEN InThisPiece(s) ELSE rest
        full == s.left = n1
    IN  /\ At(r, "ready")
        /\ Become(r, IF n1 = 0 THEN Fail(s)
                     ELSE [s EXCEPT !.pos = s.pos + n1,
                                    !.left = s.left - n1,
                                    !.pc = IF ~full THEN "check"
                                           ELSE IF s.sniffing THEN "seek" ELSE "read"])
        /\ UNCHANGED <<verified, prio, setBy, running, busy>>

\* The range is served, or its client turned out to have left when a slice was
\* written to it: net/http stops reading.
Finish(r) ==
    /\ At(r, "read")
    /\ ~stream[r].sniffing
    /\ Become(r, [stream[r] EXCEPT !.pc = "end"])
    /\ UNCHANGED <<verified, prio, setBy, running, busy>>

\* defer f.Close() in net/http
Close(r) ==
    /\ At(r, "end")
    /\ ~stream[r].closed
    /\ Become(r, [stream[r] EXCEPT !.closed = TRUE])
    /\ UNCHANGED <<verified, prio, setBy, running, busy>>

Reader(r) ==
    \/ \E a \in Asks : Open(r, a)
    \/ NotFound(r)
    \/ Seek(r)
    \/ BeginRead(r)
    \/ CheckPiece(r)
    \/ PollPiece(r)
    \/ Tick(r)
    \/ ReadDisk(r)
    \/ Finish(r)
    \/ Close(r)

-----------------------------------------------------------------------------
(* libtorrent, the clock and the other requests *)

Download(p) ==
    /\ running
    /\ p \notin verified
    /\ prio[p] > 0
    /\ verified' = verified \cup {p}
    /\ UNCHANGED <<prio, setBy, running, busy, stream>>

\* /stop and /resume, /pausetorrent and /resumetorrent
PauseOrResume ==
    /\ running' = ~running
    /\ UNCHANGED <<verified, prio, setBy, busy, stream>>

\* The files are allocated, the resume data is checked.
Settle ==
    /\ busy
    /\ busy' = FALSE
    /\ UNCHANGED <<verified, prio, setBy, running, stream>>

\* Half a second has passed since updatePieces asked for the bitfield.
Age(r) ==
    /\ stream[r].pc \in Points
    /\ stream[r].fresh
    /\ Become(r, [stream[r] EXCEPT !.fresh = FALSE])
    /\ UNCHANGED <<verified, prio, setBy, running, busy>>

\* /priority and /get/, which leaves no other file wanted (only zero or not counts here)
Prioritize ==
    /\ prio' \in OthersVectors
    /\ setBy' = "others"
    /\ UNCHANGED <<verified, running, busy, stream>>

World ==
    \/ \E p \in Pieces : Download(p)
    \/ PauseOrResume
    \/ Settle
    \/ \E r \in Readers : Age(r)
    \/ Prioritize

Next == (\E r \in Readers : Reader(r)) \/ World

\* Goroutines and the clock go on, libtorrent gets a piece it keeps wanting while
\* it may run, and leaves the states above Seeding.  No request need be made.
Fairness ==
    /\ \A r \in Readers :
         /\ WF_vars(Seek(r) \/ BeginRead(r) \/ CheckPiece(r) \/ PollPiece(r)
                      \/ Tick(r) \/ ReadDisk(r))
         /\ WF_vars(Finish(r) \/ Close(r))
         /\ WF_vars(Age(r))
    /\ \A p \in Pieces : WF_vars(Download(p))
    /\ WF_vars(Settle)

Spec == Init /\ [][Next]_vars /\ Fairness

-----------------------------------------------------------------------------
(* Properties *)

\* Where the bytes a request has read since its last Seek begin.
Base(s) == IF s.sniffing THEN 0 ELSE s.ask.first

\* Every byte that a request hands to its client was read after libtorrent had
\* its piece: neither a bitfield half a second old, nor a slice longer than a
\* piece, nor another request's seek lets a hole of the sparse file through
\* (TorrentFile.Read).
ServedVerified ==
    \A r \in Readers :
        stream[r].pc \in Points =>
           \A b \in Base(stream[r])..(stream[r].pos - 1) :
              PieceAt(stream[r].ask.file, b) \in verified

\* What a response may look like from outside: its bytes in order, none before
\* libtorrent has it, none outside the range.
Response(s) ==
    IF s.pc \in Points
    THEN [state |-> IF s.closed THEN "over" ELSE "serving",
          ask   |-> s.ask,
          next  |-> IF s.sniffing \/ s.pc = "seek" THEN s.ask.first ELSE s.pos]
    ELSE [state |-> "none"]

Abstract == INSTANCE RangeServer WITH
    available <- verified,
    response  <- [r \in Readers |-> Response(stream[r])],
    PieceOf   <- PieceAt

\* /files/ implements RangeServer.
ServesRanges == Abstract!Spec

\* waitForPiece gives up with "file was closed": on a file that is still open it
\* must not give up, for the response it belongs to would be cut short.
FailedWaitMeansClosed ==
    [][\A r \in Readers :
          stream[r].pc = "tick" /\ stream'[r].pc = "end" => stream[r].closed]_vars

\* A request's own seeks leave no piece that it goes on to read out of the vector: if
\* waitForPiece gives up on an open file, then another request, or /priority or /get/,
\* was the last to say what is wanted (TorrentFile.Seek).
OwnSeekKeepsWait ==
    [][\A r \in Readers :
          stream[r].pc = "tick" /\ stream'[r].pc = "end" => stream[r].closed \/ setBy # r]_vars

\* No request waits for ever in a torrent that is not paused for good, if /priority and
\* /get/ do not change for ever what is wanted: it gets its bytes or an error.
EveryRequestEnds ==
    (<>[]running /\ <>[][~Prioritize]_vars) =>
       \A r \in Readers :
          (stream[r].pc \in Points) ~> (stream[r].pc = "end" /\ stream[r].closed)
=============================================================================
