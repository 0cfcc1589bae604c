------------------------- MODULE TorrentStreamProofs -------------------------
(***************************************************************************)
(* Theorems about TorrentStream, for any requests, files, pieces, length   *)
(* of a piece and length of a slice.                                       *)
(***************************************************************************)
EXTENDS TorrentStream, TLAPS

-----------------------------------------------------------------------------
(* Offsets *)

\* The bytes up to the end of a piece lie in that piece.
LEMMA SamePiece ==
    ASSUME NEW x \in Nat, NEW L \in Nat \ {0}, NEW k \in Nat, (x % L) + k < L
    PROVE  (x + k) \div L = x \div L
  OBVIOUS

\* A byte of the torrent lies in one of its pieces.
LEMMA InTorrent ==
    ASSUME NEW x \in Nat, NEW L \in Nat \ {0}, NEW N \in Nat, x < N * L
    PROVE  x \div L \in 0..(N - 1)
<1>1. x \div L < N
  OBVIOUS
<1>2. x \div L \in Nat
  OBVIOUS
<1> QED BY <1>1, <1>2

\* Where a byte lies in its piece.
LEMMA OffsetInPiece ==
    ASSUME NEW x \in Nat, NEW L \in Nat \ {0}
    PROVE  x \div L \in Nat /\ x % L \in 0..(L - 1)
<1>1. x \div L \in Nat
  OBVIOUS
<1>2. x % L \in 0..(L - 1)
  OBVIOUS
<1> QED BY <1>1, <1>2

-----------------------------------------------------------------------------
(* The inductive invariant *)

InCall == {"check", "poll", "tick", "ready"}

\* What is true of an open TorrentFile: its bitfield is never ahead of
\* libtorrent, the bytes it has read were there, a Read is inside the range and
\* the file, and the piece waited for is there when the disk is read, or there is
\* nothing left to read.
FileInv(s) ==
    /\ s.bits \subseteq verified
    /\ \A b \in Base(s)..(s.pos - 1) : PieceAt(s.ask.file, b) \in verified
    /\ s.pos <= FileSize[s.ask.file]
    /\ s.pc = "seek" /\ ~s.sniffing => s.pos = 0
    /\ s.pc = "end" => ~s.sniffing
    /\ s.pc \notin {"seek", "end"} /\ ~s.sniffing => s.ask.first <= s.pos
    /\ ~s.sniffing => s.pos <= s.ask.last
    /\ s.closed => s.pc = "end"
    /\ s.pc \in InCall =>
         /\ s.left > 0
         /\ ~s.sniffing => s.pos + s.left <= s.ask.last
    /\ s.pc = "ready" => Here(s) \in verified \/ Here(s) = NumPieces

StreamInv ==
    /\ TypeOK
    /\ \A r \in Readers : stream[r].pc \in Points => FileInv(stream[r])

-----------------------------------------------------------------------------
(* Steps *)

\* The vectors of priorities are vectors of priorities.
LEMMA PrioritiesOK ==
    ASSUME TypeOK
    PROVE  /\ \A f \in Files, p \in Int : SeekPriorities(f, p) \in [Pieces -> Priorities]
           /\ \A p \in Int : Deadlines(p) \subseteq [Pieces -> Priorities]
<1>1. ASSUME NEW f \in Files, NEW p \in Int
      PROVE  SeekPriorities(f, p) \in [Pieces -> Priorities]
  BY DEF SeekPriorities, Priorities
<1>2. ASSUME NEW p \in Int PROVE Deadlines(p) \subseteq [Pieces -> Priorities]
  BY DEF TypeOK, Deadlines, Priorities
<1> QED BY <1>1, <1>2

\* A file's offset is a piece of the torrent, up to the end of the file.
LEMMA PieceOfByte ==
    ASSUME NEW f \in Files, NEW o \in Nat
    PROVE  /\ PieceAt(f, o) \in Nat
           /\ PieceOffset(f, o) \in 0..(PieceLength - 1)
           /\ o < FileSize[f] => PieceAt(f, o) \in Pieces
           /\ \A k \in Nat : PieceOffset(f, o) + k < PieceLength =>
                 PieceAt(f, o + k) = PieceAt(f, o)
<1> DEFINE x == FileOffset[f] + o
<1>1. x \in Nat /\ PieceLength \in Nat \ {0} /\ NumPieces \in Nat
  BY StreamAssumption
<1>2. o < FileSize[f] => x < NumPieces * PieceLength
  <2>1. /\ FileOffset[f] \in Nat /\ FileSize[f] \in Nat
        /\ FileOffset[f] + FileSize[f] <= NumPieces * PieceLength
    BY StreamAssumption
  <2>2. NumPieces * PieceLength \in Nat
    BY <1>1
  <2> QED BY <2>1, <2>2
<1>3. x \div PieceLength \in Nat /\ x % PieceLength \in 0..(PieceLength - 1)
  <2> HIDE DEF x
  <2> QED BY <1>1, OffsetInPiece
<1>4. o < FileSize[f] => x \div PieceLength \in Pieces
  BY <1>1, <1>2, InTorrent DEF Pieces
<1>5. ASSUME NEW k \in Nat, PieceOffset(f, o) + k < PieceLength
      PROVE  PieceAt(f, o + k) = PieceAt(f, o)
  <2>1. (x + k) \div PieceLength = x \div PieceLength
    BY <1>1, <1>5, SamePiece DEF PieceOffset
  <2>2. FileOffset[f] + (o + k) = x + k
    BY StreamAssumption
  <2> QED BY <2>1, <2>2 DEF PieceAt
<1> QED BY <1>3, <1>4, <1>5 DEF PieceAt, PieceOffset

\* What updatePieces changes, and what hasPiece may then answer.
LEMMA RefreshedOK ==
    ASSUME TypeOK, NEW s \in Opened, s.bits \subseteq verified, NEW p \in Nat
    PROVE  /\ Refreshed(s) \in Opened
           /\ Refreshed(s).bits \subseteq verified
           /\ Refreshed(s).ask = s.ask
           /\ Refreshed(s).sniffing = s.sniffing
           /\ Refreshed(s).pos = s.pos
           /\ Refreshed(s).left = s.left
           /\ Refreshed(s).closed = s.closed
           /\ \A has \in HasPiece(s, p) :
                 has \in BOOLEAN /\ (has => p \in verified \/ p = NumPieces)
<1>1. CASE s.fresh \/ busy
  BY <1>1 DEF Refreshed, HasPiece, Opened
<1>2. CASE ~(s.fresh \/ busy)
  <2>1. Refreshed(s) = [s EXCEPT !.bits = verified, !.fresh = TRUE]
    BY <1>2 DEF Refreshed
  <2>2. Refreshed(s).bits = verified
    BY <2>1 DEF Opened
  <2>3. \A has \in HasPiece(s, p) :
           has \in BOOLEAN /\ (has => p \in verified \/ p = NumPieces)
    BY <2>2 DEF HasPiece
  <2>4. verified \in SUBSET Pieces
    BY DEF TypeOK
  <2> QED BY <2>1, <2>2, <2>3, <2>4 DEF Opened
<1> QED BY <1>1, <1>2

\* A step of one request that leaves its own file in order leaves all in order.
LEMMA Moves ==
    ASSUME StreamInv, NEW r \in Readers, NEW s, Become(r, s),
           (s \in Opened /\ FileInv(s)) \/ s \in NotOpened,
           UNCHANGED <<verified, running, busy>>, prio' \in [Pieces -> Priorities],
           setBy' \in {setBy, r}
    PROVE  StreamInv'
<1>1. stream' \in [Readers -> NotOpened \cup Opened]
  BY DEF StreamInv, TypeOK, Become
<1>2. ASSUME NEW q \in Readers, stream'[q].pc \in Points
      PROVE  FileInv(stream[q])'
  <2>1. CASE q = r
    <3>1. stream'[q] = s
      BY <2>1 DEF Become, StreamInv, TypeOK
    <3>2. s \notin NotOpened
      BY <1>2, <3>1 DEF NotOpened, Points
    <3> QED BY <3>1, <3>2 DEF FileInv, Base, Here
  <2>2. CASE q # r
    <3>1. stream'[q] = stream[q]
      BY <2>2 DEF Become, StreamInv, TypeOK
    <3> QED BY <1>2, <3>1 DEF StreamInv, FileInv, Base, Here
  <2> QED BY <2>1, <2>2
<1> QED BY <1>1, <1>2 DEF StreamInv, TypeOK

\* Every step keeps the invariant.
LEMMA StreamStep == StreamInv /\ [Next]_vars => StreamInv'
<1> SUFFICES ASSUME StreamInv, [Next]_vars PROVE StreamInv'
  OBVIOUS
<1>0. TypeOK /\ stream \in [Readers -> NotOpened \cup Opened]
  BY DEF StreamInv, TypeOK
<1>1. ASSUME NEW r \in Readers, Reader(r) PROVE StreamInv'
  <2> DEFINE s == stream[r]
  <2>0. /\ prio \in [Pieces -> Priorities]
        /\ s.pc \in Points => s \in Opened /\ FileInv(s)
    BY <1>0 DEF StreamInv, TypeOK, NotOpened, Points
  <2>1. ASSUME NEW a \in Asks, Open(r, a) PROVE StreamInv'
    <3> DEFINE t == [pc |-> IF a.ranged /\ ~a.sniffed THEN "seek" ELSE "read",
                     ask |-> a, sniffing |-> a.sniffed, pos |-> 0, left |-> 0,
                     bits |-> {}, fresh |-> FALSE, closed |-> FALSE]
    <3>1. a \in AskSet /\ (a.ranged \/ a.first = 0) /\ a.first < a.last
      BY StreamAssumption
    <3>2. t \in Opened
      BY <3>1 DEF Opened, Points, AskSet
    <3>3. FileSize[a.file] \in Nat
      BY <3>1, StreamAssumption DEF AskSet
    <3>4. FileInv(t)
      BY <3>1, <3>3 DEF FileInv, Base, InCall, AskSet
    <3> QED BY <2>0, <2>1, <3>2, <3>4, Moves DEF Open
  <2>2. CASE NotFound(r)
    <3>1. [pc |-> "notfound"] \in NotOpened
      BY DEF NotOpened
    <3> QED BY <2>0, <2>2, <3>1, Moves DEF NotFound
  <2>3. ASSUME s.pc \in Points
        PROVE  /\ s \in Opened /\ s.ask \in AskSet /\ s.pos \in Nat /\ s.left \in Nat
               /\ s.sniffing \in BOOLEAN /\ s.closed \in BOOLEAN
               /\ s.ask.file \in Files /\ s.ask.first \in Nat /\ s.ask.last \in Nat
               /\ s.ask.first < s.ask.last /\ s.ask.last <= FileSize[s.ask.file]
               /\ FileSize[s.ask.file] \in Nat
               /\ s.ask.ranged \/ s.ask.first = 0
               /\ FileInv(s)
    <3>1. s \in Opened /\ FileInv(s) /\ s.ask \in Asks
      BY <2>0, <2>3 DEF Opened
    <3>2. s.ask \in AskSet /\ s.ask.file \in Files
      BY <3>1, StreamAssumption DEF AskSet
    <3>3. FileSize[s.ask.file] \in Nat
      BY <3>2, StreamAssumption
    <3> QED BY <3>1, <3>2, <3>3, StreamAssumption DEF Opened, AskSet
  <2>4. CASE Seek(r)
    <3> DEFINE target == IF s.sniffing THEN 0 ELSE s.ask.first
               p == PieceAt(s.ask.file, target)
               t == [Refreshed(s) EXCEPT
                         !.pos = target,
                         !.sniffing = FALSE,
                         !.pc = IF s.sniffing /\ s.ask.ranged THEN "seek" ELSE "read"]
    <3>1. s.pc = "seek" /\ s.pc \in Points
      BY <2>4 DEF Seek, At, Points
    <3>2. target \in Nat /\ p \in Nat
      BY <2>3, <3>1, PieceOfByte
    <3>3. /\ Refreshed(s) \in Opened /\ Refreshed(s).bits \subseteq verified
          /\ Refreshed(s).ask = s.ask /\ Refreshed(s).closed = s.closed
      BY <1>0, <2>3, <3>1, <3>2, RefreshedOK DEF FileInv
    <3>4. t \in Opened
      BY <3>2, <3>3 DEF Opened, Points
    <3>5. FileInv(t)
      <4>1. /\ t.bits \subseteq verified /\ t.pos = target /\ t.sniffing = FALSE
            /\ t.ask = s.ask /\ t.closed = FALSE
            /\ t.pc = IF s.sniffing /\ s.ask.ranged THEN "seek" ELSE "read"
        BY <2>3, <3>1, <3>3 DEF Opened, FileInv
      <4> QED BY <2>3, <3>1, <3>2, <4>1 DEF FileInv, Base, InCall
    <3>6. prio' \in [Pieces -> Priorities]
      BY <1>0, <2>0, <2>3, <2>4, <3>1, <3>2, PrioritiesOK DEF Seek
    <3> QED BY <2>4, <3>4, <3>5, <3>6, Moves DEF Seek
  <2>5. CASE BeginRead(r)
    <3> DEFINE wanted == IF s.sniffing THEN BufLen ELSE s.ask.last - s.pos
               t == [s EXCEPT !.pc = "check",
                              !.left = IF wanted < BufLen THEN wanted ELSE BufLen]
    <3>1. s.pc = "read" /\ s.pc \in Points /\ wanted > 0
      BY <2>5 DEF BeginRead, At, Points
    <3>2. BufLen \in Nat \ {0} /\ wanted \in Nat
      BY <2>3, <3>1, StreamAssumption
    <3>3. t \in Opened
      BY <2>3, <3>1, <3>2 DEF Opened, Points
    <3>4. FileInv(t)
      BY <2>3, <3>1, <3>2 DEF FileInv, Base, InCall, Opened
    <3> QED BY <2>0, <2>5, <3>3, <3>4, Moves DEF BeginRead
  <2>6. CASE CheckPiece(r) \/ PollPiece(r)
    <3>1. s.pc \in {"check", "poll"} /\ s.pc \in Points
      BY <2>6 DEF CheckPiece, PollPiece, At, Points
    <3>2. Here(s) \in Nat
      BY <2>3, <3>1, PieceOfByte DEF Here
    <3>3. PICK has \in HasPiece(s, Here(s)), pc \in {"ready", "poll", "tick"} :
             /\ Become(r, [Refreshed(s) EXCEPT !.pc = pc])
             /\ pc = "ready" => has
             /\ prio' = prio \/ prio' \in Deadlines(Here(s))
      BY <2>6 DEF CheckPiece, PollPiece
    <3> DEFINE t == [Refreshed(s) EXCEPT !.pc = pc]
    <3>4. /\ Refreshed(s) \in Opened /\ Refreshed(s).bits \subseteq verified
          /\ Refreshed(s).ask = s.ask /\ Refreshed(s).sniffing = s.sniffing
          /\ Refreshed(s).pos = s.pos /\ Refreshed(s).left = s.left
          /\ Refreshed(s).closed = s.closed
          /\ has => Here(s) \in verified \/ Here(s) = NumPieces
      BY <1>0, <2>3, <3>1, <3>2, RefreshedOK DEF FileInv
    <3>5. t \in Opened
      BY <3>4 DEF Opened, Points
    <3>6. /\ t.bits \subseteq verified /\ t.ask = s.ask /\ t.sniffing = s.sniffing
          /\ t.pos = s.pos /\ t.left = s.left /\ t.closed = s.closed /\ t.pc = pc
      BY <3>4 DEF Opened
    <3>7. FileInv(t)
      BY <2>3, <3>1, <3>3, <3>4, <3>6 DEF FileInv, Base, InCall, Here
    <3>8. /\ UNCHANGED <<verified, running, busy>> /\ prio' \in [Pieces -> Priorities]
          /\ setBy' \in {setBy, r}
      BY <1>0, <2>0, <2>6, <3>2, <3>3, PrioritiesOK DEF CheckPiece, PollPiece
    <3> QED BY <3>3, <3>5, <3>7, <3>8, Moves
  <2>7. CASE Tick(r)
    <3>1. s.pc = "tick" /\ s.pc \in Points /\ s.pc \in InCall
      BY <2>7 DEF Tick, At, Points, InCall
    <3>2. PICK pc \in {"poll", "seek", "end"} :
             /\ Become(r, [s EXCEPT !.pc = pc])
             /\ pc = "seek" => s.sniffing
             /\ pc = "end" => ~s.sniffing
      BY <2>7 DEF Tick, Fail
    <3>3. [s EXCEPT !.pc = pc] \in Opened
      BY <2>3, <3>1 DEF Opened, Points
    <3>4. FileInv([s EXCEPT !.pc = pc])
      BY <2>3, <3>1, <3>2 DEF FileInv, Base, InCall, Opened
    <3> QED BY <2>0, <2>7, <3>2, <3>3, <3>4, Moves DEF Tick
  <2>8. CASE ReadDisk(r)
    <3> DEFINE rest == FileSize[s.ask.file] - s.pos
               here == InThisPiece(s)
               n1 == IF here < rest THEN here ELSE rest
    <3>1. s.pc = "ready" /\ s.pc \in Points /\ s.pc \in InCall
      BY <2>8 DEF ReadDisk, At, Points, InCall
    <3>2. rest \in Nat /\ s.left \in Nat \ {0}
      BY <2>3, <3>1 DEF FileInv
    <3>3. PieceOffset(s.ask.file, s.pos) \in 0..(PieceLength - 1) /\ PieceLength \in Nat
      BY <2>3, <3>1, PieceOfByte, StreamAssumption
    <3>4. /\ here \in Nat \ {0} /\ here <= s.left
          /\ PieceOffset(s.ask.file, s.pos) + here <= PieceLength
      BY <3>2, <3>3 DEF InThisPiece
    <3>5. n1 \in Nat /\ n1 <= s.left /\ n1 <= here /\ n1 <= rest
      BY <3>2, <3>4
    <3>6. CASE n1 = 0
      <4>1. Become(r, Fail(s))
        BY <2>8, <3>6 DEF ReadDisk
      <4>2. Fail(s) \in Opened
        BY <2>3, <3>1 DEF Fail, Opened, Points
      <4>3. FileInv(Fail(s))
        BY <2>3, <3>1 DEF Fail, FileInv, Base, InCall, Opened
      <4> QED BY <2>0, <2>8, <4>1, <4>2, <4>3, Moves DEF ReadDisk
    <3>7. CASE n1 # 0
      <4>1. PICK pc \in {"check", "seek", "read"} :
               /\ Become(r, [s EXCEPT !.pos = s.pos + n1, !.left = s.left - n1, !.pc = pc])
               /\ pc = "check" <=> s.left # n1
               /\ pc = "seek" => s.sniffing
        BY <2>8, <3>7 DEF ReadDisk
      <4> DEFINE t == [s EXCEPT !.pos = s.pos + n1, !.left = s.left - n1, !.pc = pc]
      <4>2. t \in Opened
        <5>1. s.pos + n1 \in Nat /\ s.left - n1 \in Nat
          BY <2>3, <3>1, <3>5
        <5> HIDE DEF n1
        <5> QED BY <2>3, <3>1, <5>1 DEF Opened, Points
      <4>3. /\ t.pos = s.pos + n1 /\ t.left = s.left - n1 /\ t.pc = pc /\ t.ask = s.ask
            /\ t.sniffing = s.sniffing /\ t.bits = s.bits /\ t.closed = s.closed
        BY <2>3, <3>1 DEF Opened
      <4>4. Here(s) \in verified
        <5>1. s.pos < FileSize[s.ask.file]
          BY <2>3, <3>1, <3>5, <3>7
        <5>2. Here(s) \in Pieces
          BY <2>3, <3>1, <5>1, PieceOfByte DEF Here
        <5> QED BY <2>3, <3>1, <5>2, StreamAssumption DEF FileInv, Pieces
      <4>5. ASSUME NEW b \in s.pos..(s.pos + n1 - 1)
            PROVE  PieceAt(s.ask.file, b) = Here(s)
        <5> DEFINE k == b - s.pos
        <5>1. k \in Nat /\ b = s.pos + k /\ PieceOffset(s.ask.file, s.pos) + k < PieceLength
          BY <2>3, <3>1, <3>3, <3>4, <3>5
        <5> HIDE DEF k
        <5> QED BY <2>3, <3>1, <5>1, PieceOfByte DEF Here
      <4>6. \A b \in Base(t)..(t.pos - 1) : PieceAt(t.ask.file, b) \in verified
        <5> SUFFICES ASSUME NEW b \in Base(t)..(t.pos - 1)
                     PROVE  PieceAt(s.ask.file, b) \in verified
          BY <4>3
        <5>1. Base(t) = Base(s) /\ Base(s) \in Nat
          BY <2>3, <3>1, <4>3 DEF Base
        <5>2. b \in Base(s)..(s.pos - 1) \/ b \in s.pos..(s.pos + n1 - 1)
          BY <2>3, <3>1, <3>5, <4>3, <5>1
        <5> QED BY <2>3, <3>1, <4>4, <4>5, <5>2 DEF FileInv
      <4>7. FileInv(t)
        <5>1. t.pos <= FileSize[t.ask.file]
          BY <2>3, <3>1, <3>5, <4>3
        <5>2. t.pc \in InCall => t.left > 0
          BY <3>2, <3>5, <4>1, <4>3 DEF InCall
        <5>3. ~t.sniffing => /\ t.ask.first <= t.pos /\ t.pos <= t.ask.last
                             /\ t.pos + t.left <= t.ask.last
          BY <2>3, <3>1, <3>2, <3>5, <4>3 DEF FileInv
        <5>4. t.bits \subseteq verified /\ ~t.closed
          BY <2>3, <3>1, <4>3 DEF FileInv
        <5> QED BY <4>1, <4>3, <4>6, <5>1, <5>2, <5>3, <5>4 DEF FileInv
      <4> QED BY <2>0, <2>8, <4>1, <4>2, <4>7, Moves DEF ReadDisk
    <3> QED BY <3>6, <3>7
  <2>9. CASE Finish(r) \/ Close(r)
    <3>1. s.pc \in {"read", "end"} /\ s.pc \in Points /\ ~s.sniffing
      BY <2>3, <2>9 DEF Finish, Close, At, Points, FileInv
    <3>2. PICK closed \in {s.closed, TRUE} :
             Become(r, [s EXCEPT !.pc = "end", !.closed = closed])
      <4>1. CASE Finish(r)
        <5>1. Become(r, [s EXCEPT !.pc = "end", !.closed = s.closed])
          BY <2>3, <3>1, <4>1 DEF Finish, Become, Opened
        <5> QED BY <5>1
      <4>2. CASE Close(r)
        <5>1. Become(r, [s EXCEPT !.pc = "end", !.closed = TRUE])
          BY <2>3, <3>1, <4>2 DEF Close, At, Become, Opened
        <5> QED BY <5>1
      <4> QED BY <2>9, <4>1, <4>2
    <3> DEFINE t == [s EXCEPT !.pc = "end", !.closed = closed]
    <3>3. t \in Opened
      BY <2>3, <3>1 DEF Opened, Points
    <3>4. FileInv(t)
      BY <2>3, <3>1 DEF FileInv, Base, InCall, Opened
    <3> QED BY <2>0, <2>9, <3>2, <3>3, <3>4, Moves DEF Finish, Close
  <2> QED BY <1>1, <2>1, <2>2, <2>4, <2>5, <2>6, <2>7, <2>8, <2>9 DEF Reader
<1>2. CASE World
  <2>1. ASSUME NEW p \in Pieces, Download(p) PROVE StreamInv'
    <3>1. TypeOK' /\ stream' = stream /\ verified \subseteq verified'
      BY <1>0, <2>1 DEF TypeOK, Download
    <3> QED BY <3>1 DEF StreamInv, FileInv, Base, Here
  <2>2. CASE PauseOrResume \/ Settle \/ Prioritize
    <3>1. stream' = stream /\ verified' = verified
      BY <2>2 DEF PauseOrResume, Settle, Prioritize
    <3>2. running' \in BOOLEAN /\ busy' \in BOOLEAN
      BY <1>0, <2>2, Zenon DEF TypeOK, PauseOrResume, Settle, Prioritize
    <3>3. prio' \in [Pieces -> Priorities] /\ setBy' \in Readers \cup {"others"}
      BY <1>0, <2>2, StreamAssumption DEF TypeOK, PauseOrResume, Settle, Prioritize
    <3>4. TypeOK'
      BY <1>0, <3>1, <3>2, <3>3 DEF TypeOK
    <3> QED BY <3>1, <3>4 DEF StreamInv, FileInv, Base, Here
  <2>3. ASSUME NEW r \in Readers, Age(r) PROVE StreamInv'
    <3> DEFINE s == stream[r]
               t == [s EXCEPT !.fresh = FALSE]
    <3>1. s \in Opened /\ FileInv(s) /\ Become(r, t)
      BY <1>0, <2>3 DEF Age, StreamInv, NotOpened, Points
    <3>2. t \in Opened
      BY <3>1 DEF Opened
    <3>3. FileInv(t)
      BY <3>1 DEF FileInv, Base, Here, Opened
    <3> QED BY <1>0, <2>3, <3>1, <3>2, <3>3, Moves DEF Age, TypeOK
  <2> QED BY <1>2, <2>1, <2>2, <2>3 DEF World
<1>3. CASE UNCHANGED vars
  BY <1>3 DEF vars, StreamInv, TypeOK, FileInv, Base, Here
<1> QED BY <1>1, <1>2, <1>3 DEF Next

\* The invariant holds to begin with: no request was made.
LEMMA InitStream == Init => StreamInv
<1> SUFFICES ASSUME Init PROVE StreamInv
  OBVIOUS
<1>1. stream \in [Readers -> NotOpened] /\ \A r \in Readers : stream[r].pc = "new"
  BY DEF Init, NotOpened
<1>2. running \in BOOLEAN /\ busy \in BOOLEAN
  BY Zenon DEF Init
<1>3. TypeOK
  BY <1>1, <1>2, StreamAssumption DEF Init, TypeOK
<1> QED BY <1>1, <1>3 DEF StreamInv, Points

-----------------------------------------------------------------------------
(* Theorems *)

\* The variables of a streaming torrent keep their types for ever.
THEOREM StreamTypes == Spec => []TypeOK
<1>1. StreamInv => TypeOK
  BY DEF StreamInv
<1> QED BY <1>1, InitStream, StreamStep, PTL DEF Spec

\* Whatever the files, the ranges, the lengths, the seeks of other requests and
\* the age of the bitfields: no byte is served before its piece is verified.
THEOREM OnlyVerifiedServed == Spec => []ServedVerified
<1>1. StreamInv => ServedVerified
  BY DEF StreamInv, ServedVerified, FileInv
<1> QED BY <1>1, InitStream, StreamStep, PTL DEF Spec

-----------------------------------------------------------------------------
(* TorrentStream implements RangeServer *)

\* What a client sees of each request.
Seen == [r \in Readers |-> Response(stream[r])]

\* A step that changes nothing a client can see.
LEMMA Invisible ==
    ASSUME StreamInv, NEW r \in Readers, NEW s, Become(r, s), UNCHANGED verified,
           Response(s) = Response(stream[r])
    PROVE  UNCHANGED Abstract!vars
<1>1. Seen' = Seen
  <2> SUFFICES ASSUME NEW q \in Readers PROVE Response(stream'[q]) = Response(stream[q])
    BY DEF Seen, Response
  <2>1. stream'[q] = IF q = r THEN s ELSE stream[q]
    BY DEF Become, StreamInv, TypeOK
  <2> QED BY <2>1
<1> QED BY <1>1 DEF Abstract!vars, Seen

\* Every step of TorrentStream is a step of RangeServer, or invisible.
LEMMA RangeStep == StreamInv /\ StreamInv' /\ [Next]_vars => [Abstract!Next]_(Abstract!vars)
<1> SUFFICES ASSUME StreamInv, StreamInv', [Next]_vars
             PROVE  [Abstract!Next]_(Abstract!vars)
  OBVIOUS
<1>0. stream \in [Readers -> NotOpened \cup Opened]
  BY DEF StreamInv, TypeOK
<1>1. ASSUME NEW r \in Readers, Reader(r)
      PROVE  [Abstract!Next]_(Abstract!vars)
  <2> DEFINE s == stream[r]
  <2>0. ASSUME s.pc \in Points PROVE s \in Opened /\ FileInv(s)
    BY <1>0, <2>0 DEF StreamInv, NotOpened, Points
  <2>1. ASSUME NEW a \in Asks, Open(r, a) PROVE Abstract!Next
    <3>1. s.pc = "new" /\ verified' = verified
      BY <2>1 DEF Open, At
    <3>2. /\ stream'[r].pc \in {"seek", "read"} /\ stream'[r].ask = a
          /\ stream'[r].sniffing = a.sniffed /\ stream'[r].closed = FALSE
          /\ stream'[r].pos = 0
          /\ stream'[r].pc = "read" => a.sniffed \/ a.first = 0
          /\ \A q \in Readers \ {r} : stream'[q] = stream[q]
      BY <1>0, <2>1, StreamAssumption DEF Open, Become, AskSet
    <3>3. Response(stream[r]) = Abstract!None
      BY <3>1 DEF Response, Points, Abstract!None
    <3>4. Response(stream'[r]) = [state |-> "serving", ask |-> a, next |-> a.first]
      BY <3>2 DEF Response, Points
    <3>5. Seen[r] = Abstract!None
      BY <3>3 DEF Seen
    <3>6. Seen' = [Seen EXCEPT ![r] = [state |-> "serving", ask |-> a, next |-> a.first]]
      BY <3>2, <3>4 DEF Seen, Response
    <3>7. Abstract!Begin(r, a)
      BY <3>1, <3>5, <3>6 DEF Abstract!Begin, Seen
    <3> QED BY <3>7 DEF Abstract!Next
  <2>2. CASE NotFound(r)
    <3>1. s.pc = "new" /\ Become(r, [pc |-> "notfound"]) /\ UNCHANGED verified
      BY <2>2 DEF NotFound, At
    <3>2. Response([pc |-> "notfound"]) = Response(s)
      BY <3>1 DEF Response, Points
    <3> QED BY <3>1, <3>2, Invisible
  <2>3. CASE Seek(r)
    <3> DEFINE target == IF s.sniffing THEN 0 ELSE s.ask.first
               t == [Refreshed(s) EXCEPT
                         !.pos = target,
                         !.sniffing = FALSE,
                         !.pc = IF s.sniffing /\ s.ask.ranged THEN "seek" ELSE "read"]
    <3>1. s.pc = "seek" /\ Become(r, t) /\ UNCHANGED verified
      BY <2>3 DEF Seek, At
    <3>2. s \in Opened /\ s.ask \in Asks /\ ~s.closed
      BY <2>0, <3>1 DEF Points, Opened, FileInv
    <3>3. s.ask.ranged \/ s.ask.first = 0
      BY <3>2, StreamAssumption
    <3>4. /\ t.ask = s.ask /\ t.closed = s.closed /\ t.pos = target
          /\ t.pc = IF s.sniffing /\ s.ask.ranged THEN "seek" ELSE "read"
          /\ t.sniffing = FALSE
      BY <3>2 DEF Refreshed, Opened
    <3>5. Response(t) = Response(s)
      BY <3>1, <3>2, <3>3, <3>4 DEF Response, Points
    <3> QED BY <3>1, <3>5, Invisible
  <2>4. CASE BeginRead(r) \/ CheckPiece(r) \/ PollPiece(r) \/ Tick(r) \/ Finish(r)
    <3>1. s.pc \in Points \ {"seek"} /\ s.pc \in Points
      BY <2>4 DEF BeginRead, CheckPiece, PollPiece, Tick, Finish, At, Points
    <3>2. s \in Opened /\ UNCHANGED verified /\ FileInv(s)
      BY <2>0, <2>4, <3>1 DEF BeginRead, CheckPiece, PollPiece, Tick, Finish
    <3>3. PICK t : /\ Become(r, t)
                   /\ t.pc \in Points /\ (t.pc = "seek" => s.sniffing)
                   /\ t.ask = s.ask /\ t.closed = s.closed
                   /\ t.pos = s.pos /\ t.sniffing = s.sniffing
      <4>1. CASE BeginRead(r)
        <5>1. PICK left : Become(r, [s EXCEPT !.pc = "check", !.left = left])
          BY <4>1 DEF BeginRead
        <5> DEFINE t == [s EXCEPT !.pc = "check", !.left = left]
        <5>2. /\ t.pc = "check" /\ t.ask = s.ask /\ t.closed = s.closed
              /\ t.pos = s.pos /\ t.sniffing = s.sniffing
          BY <3>2 DEF Opened
        <5> QED BY <5>1, <5>2 DEF Points
      <4>2. CASE CheckPiece(r) \/ PollPiece(r)
        <5>1. PICK pc \in {"ready", "poll", "tick"} :
                 Become(r, [Refreshed(s) EXCEPT !.pc = pc])
          BY <4>2 DEF CheckPiece, PollPiece
        <5> DEFINE t == [Refreshed(s) EXCEPT !.pc = pc]
        <5>2. /\ t.pc = pc /\ t.ask = s.ask /\ t.closed = s.closed
              /\ t.pos = s.pos /\ t.sniffing = s.sniffing
          BY <3>2 DEF Refreshed, Opened
        <5> QED BY <5>1, <5>2 DEF Points
      <4>3. CASE Tick(r)
        BY <3>2, <4>3 DEF Tick, Fail, Opened, Points
      <4>4. CASE Finish(r)
        BY <3>2, <4>4 DEF Finish, Opened, Points
      <4> QED BY <2>4, <4>1, <4>2, <4>3, <4>4
    <3>4. Response(t) = Response(s)
      BY <3>1, <3>3 DEF Response
    <3> QED BY <3>2, <3>3, <3>4, Invisible
  <2>5. CASE ReadDisk(r)
    <3>1. s.pc = "ready" /\ UNCHANGED verified /\ s.pc \in Points
      BY <2>5 DEF ReadDisk, At, Points
    <3>2. s \in Opened /\ FileInv(s) /\ s.pos \in Nat /\ s.ask.first \in Nat
      <4>1. s \in Opened /\ FileInv(s)
        BY <2>0, <3>1
      <4> QED BY <4>1, StreamAssumption DEF Opened, AskSet
    <3>3. PICK t : /\ Become(r, t)
                   /\ t.pc \in Points /\ (t.pc = "seek" => s.sniffing)
                   /\ t.ask = s.ask /\ t.closed = s.closed /\ t.sniffing = s.sniffing
                   /\ t.pc = "end" => t.pos = s.pos
                   /\ t.pc # "end" => t.pos = s.pos \/ t.pos > s.pos
      <4> DEFINE rest == FileSize[s.ask.file] - s.pos
                 n1 == IF InThisPiece(s) < rest THEN InThisPiece(s) ELSE rest
      <4>1. n1 \in Nat
        <5>1. PieceOffset(s.ask.file, s.pos) \in 0..(PieceLength - 1) /\ rest \in Nat
          BY <3>2, PieceOfByte, StreamAssumption DEF Opened, AskSet, FileInv
        <5>2. s.left \in Nat /\ PieceLength \in Nat
          BY <3>2, StreamAssumption DEF Opened
        <5> QED BY <5>1, <5>2 DEF InThisPiece
      <4>2. CASE n1 = 0
        <5>1. Become(r, Fail(s))
          BY <2>5, <4>2 DEF ReadDisk
        <5> QED BY <3>2, <5>1 DEF Fail, Opened, Points
      <4>3. CASE n1 # 0
        <5>1. PICK pc \in {"check", "seek", "read"} :
                 /\ Become(r, [s EXCEPT !.pos = s.pos + n1, !.left = s.left - n1, !.pc = pc])
                 /\ pc = "seek" => s.sniffing
          BY <2>5, <4>3 DEF ReadDisk
        <5>2. s.pos + n1 > s.pos
          BY <3>2, <4>1, <4>3
        <5> DEFINE t == [s EXCEPT !.pos = s.pos + n1, !.left = s.left - n1, !.pc = pc]
        <5> HIDE DEF n1
        <5>3. /\ t.pc = pc /\ t.ask = s.ask /\ t.closed = s.closed
              /\ t.pos = s.pos + n1 /\ t.sniffing = s.sniffing
          BY <3>2 DEF Opened
        <5> QED BY <5>1, <5>2, <5>3 DEF Points
      <4> QED BY <4>2, <4>3
    <3>4. t = stream'[r] /\ FileInv(t) /\ t \in Opened
      <4>1. t = stream'[r]
        BY <1>0, <3>3 DEF Become
      <4>2. FileInv(t)'
        BY <3>3, <4>1 DEF StreamInv
      <4>3. t \in Opened
        BY <3>3, <4>1 DEF StreamInv, TypeOK, NotOpened, Points
      <4> QED BY <3>1, <4>1, <4>2, <4>3 DEF FileInv, Base, Here
    <3>5. CASE s.sniffing \/ t.pos = s.pos
      <4>1. Response(t) = Response(s)
        BY <3>1, <3>3, <3>5 DEF Response
      <4> QED BY <3>1, <3>3, <4>1, Invisible
    <3>6. CASE ~s.sniffing /\ t.pos # s.pos
      <4>1. t.pos > s.pos /\ s.ask.first <= s.pos /\ t.pos <= s.ask.last /\ ~s.closed
        BY <3>1, <3>2, <3>3, <3>4, <3>6 DEF FileInv
      <4>2. /\ Response(s) = [state |-> "serving", ask |-> s.ask, next |-> s.pos]
            /\ Response(t) = [state |-> "serving", ask |-> s.ask, next |-> t.pos]
        BY <3>1, <3>3, <3>6, <4>1 DEF Response
      <4>3. \A b \in s.pos..(t.pos - 1) : PieceAt(s.ask.file, b) \in verified
        BY <3>2, <3>3, <3>4, <3>6, <4>1 DEF FileInv, Base, Opened
      <4>4. Seen[r] = Response(s) /\ Seen' = [Seen EXCEPT ![r].next = t.pos]
        <5>1. \A q \in Readers : stream'[q] = IF q = r THEN t ELSE stream[q]
          BY <1>0, <3>3 DEF Become
        <5> QED BY <4>2, <5>1 DEF Seen, Response
      <4>5. Response(s) # Abstract!None /\ Response(s).state = "serving"
        BY <4>2 DEF Abstract!None
      <4>6. Abstract!Serve(r, t.pos)
        BY <3>1, <4>1, <4>2, <4>3, <4>4, <4>5 DEF Abstract!Serve, Seen
      <4>7. t.pos \in Seen[r].ask.first..Seen[r].ask.last
        <5>1. s.ask.last \in Nat /\ t.pos \in Nat
          BY <3>2, <3>4, StreamAssumption DEF Opened, AskSet
        <5> QED BY <3>2, <4>1, <4>2, <4>4, <5>1
      <4> QED BY <4>4, <4>5, <4>6, <4>7 DEF Abstract!Next, Seen
    <3> QED BY <3>5, <3>6
  <2>6. CASE Close(r)
    <3>1. /\ s.pc = "end" /\ ~s.closed /\ UNCHANGED verified /\ s.pc \in Points
          /\ Become(r, [s EXCEPT !.closed = TRUE])
      BY <2>6 DEF Close, At, Points
    <3>2. s \in Opened /\ ~s.sniffing
      BY <2>0, <3>1 DEF FileInv
    <3>3. /\ Response(s) = [state |-> "serving", ask |-> s.ask, next |-> s.pos]
          /\ Response([s EXCEPT !.closed = TRUE])
               = [state |-> "over", ask |-> s.ask, next |-> s.pos]
      BY <3>1, <3>2 DEF Response, Opened
    <3>4. Seen[r] = Response(s) /\ Seen' = [Seen EXCEPT ![r].state = "over"]
      <4>1. \A q \in Readers :
               stream'[q] = IF q = r THEN [s EXCEPT !.closed = TRUE] ELSE stream[q]
        BY <1>0, <3>1 DEF Become
      <4>2. Seen' = [q \in Readers |-> Response(stream'[q])]
        BY DEF Seen, Response
      <4>3. [Response(s) EXCEPT !.state = "over"] = Response([s EXCEPT !.closed = TRUE])
        BY <3>3
      <4> QED BY <4>1, <4>2, <4>3 DEF Seen
    <3>5. Response(s) # Abstract!None /\ Response(s).state = "serving"
      BY <3>3 DEF Abstract!None
    <3>6. Abstract!End(r)
      BY <3>1, <3>4, <3>5 DEF Abstract!End, Seen
    <3> QED BY <3>6 DEF Abstract!Next
  <2> QED BY <1>1, <2>1, <2>2, <2>3, <2>4, <2>5, <2>6 DEF Reader
<1>2. CASE World
  <2>1. ASSUME NEW p \in Pieces, Download(p) PROVE Abstract!Next
    <3>1. Abstract!More
      BY <2>1 DEF Abstract!More, Download, Response
    <3> QED BY <3>1 DEF Abstract!Next
  <2>2. CASE PauseOrResume \/ Settle \/ Prioritize
    BY <2>2 DEF Abstract!vars, Response, PauseOrResume, Settle, Prioritize
  <2>3. ASSUME NEW r \in Readers, Age(r) PROVE UNCHANGED Abstract!vars
    <3> DEFINE s == stream[r]
    <3>1. s \in Opened /\ Become(r, [s EXCEPT !.fresh = FALSE]) /\ UNCHANGED verified
      BY <1>0, <2>3 DEF Age, NotOpened, Points
    <3>2. Response([s EXCEPT !.fresh = FALSE]) = Response(s)
      BY <3>1 DEF Response, Opened
    <3> QED BY <3>1, <3>2, Invisible
  <2> QED BY <1>2, <2>1, <2>2, <2>3 DEF World
<1>3. CASE UNCHANGED vars
  BY <1>3 DEF vars, Abstract!vars, Response
<1> QED BY <1>1, <1>2, <1>3 DEF Next

\* /files/ keeps the promise of RangeServer: a response is its range, in order and
\* without a gap, as far as it goes, and no byte of it is ahead of the torrent.
THEOREM ImplementsRangeServer == Spec => ServesRanges
<1>1. Init => Abstract!Init
  BY DEF Init, Abstract!Init, Abstract!None, Response, Points
<1> QED BY <1>1, InitStream, StreamStep, RangeStep, PTL
        DEF Spec, ServesRanges, Abstract!Spec
-----------------------------------------------------------------------------
(* A request is not given up by its own seeks *)

\* The pieces from where the next Seek may go, or the range begins, to the last one of
\* the file.
Ahead(s) ==
    PieceAt(s.ask.file, IF s.sniffing \/ s.pc = "seek" THEN 0 ELSE s.ask.first)
      .. EndPiece(s.ask.file)

\* As long as a request was the last to say what is wanted, all that it may yet read is.
WantedInv ==
    \A r \in Readers :
        setBy = r => /\ stream[r].pc \in Points
                     /\ \A p \in Ahead(stream[r]) \cap Pieces : prio[p] > 0

\* Pieces are in the order of their bytes.
LEMMA PiecesInOrder ==
    ASSUME NEW f \in Files, NEW a \in Nat, NEW b \in Nat, a <= b
    PROVE  PieceAt(f, a) \in Nat /\ PieceAt(f, b) \in Nat /\ PieceAt(f, a) <= PieceAt(f, b)
<1> DEFINE x == FileOffset[f] + a
           y == FileOffset[f] + b
<1>1. x \in Nat /\ y \in Nat /\ x <= y /\ PieceLength \in Nat \ {0}
  BY StreamAssumption
<1> HIDE DEF x, y
<1>2. x \div PieceLength <= y \div PieceLength
  BY <1>1
<1> QED BY <1>2, PieceOfByte DEF PieceAt, x, y

\* What Seek gives to PrioritizePieces wants everything from its piece to the file's end.
LEMMA SeekWants ==
    ASSUME NEW f \in Files, NEW p \in Nat, NEW q \in (p .. EndPiece(f)) \cap Pieces
    PROVE  SeekPriorities(f, p)[q] > 0
<1>1. StartPiece(f) \in Nat /\ EndPiece(f) \in Nat
  BY PieceOfByte, StreamAssumption DEF StartPiece, EndPiece
<1>2. BufferShare(EndPiece(f) - StartPiece(f)) \in Int
  <2> DEFINE n == EndPiece(f) - StartPiece(f) + 199
  <2>1. n \in Int
    BY <1>1
  <2> HIDE DEF n
  <2>2. n \div 200 \in Int
    BY <2>1
  <2> QED BY <2>2 DEF BufferShare, n
<1>3. BuffPieces(f, p) \in Int
  BY <1>1, <1>2 DEF BuffPieces
<1>4. q \in Int /\ p <= q /\ q <= EndPiece(f)
  BY <1>1 DEF Pieces
<1>5. CASE q < p + BuffPieces(f, p)
  BY <1>3, <1>4, <1>5 DEF SeekPriorities
<1>6. CASE ~(q < p + BuffPieces(f, p))
  <2>1. p + BuffPieces(f, p) <= q /\ ~(q < p)
    BY <1>3, <1>4, <1>6
  <2> QED BY <1>4, <1>6, <2>1 DEF SeekPriorities
<1> QED BY <1>5, <1>6

\* A step of one request that makes no other's pieces unwanted, and leaves its own pieces
\* ahead wanted if it was the last to say what is.
LEMMA WantedKept ==
    ASSUME StreamInv, WantedInv, NEW r \in Readers, NEW t, Become(r, t), t.pc \in Points,
           setBy' \in {setBy, r},
           setBy' # r => \A p \in Pieces : prio[p] > 0 => prio'[p] > 0,
           setBy' = r => \A p \in Ahead(t) \cap Pieces : prio'[p] > 0
    PROVE  WantedInv'
<1>1. stream'[r] = t /\ \A q \in Readers \ {r} : stream'[q] = stream[q]
  BY DEF Become, StreamInv, TypeOK
<1>2. ASSUME NEW q \in Readers, setBy' = q, q # r
      PROVE  /\ stream'[q].pc \in Points
             /\ \A p \in Ahead(stream[q]) \cap Pieces : prio'[p] > 0
             /\ Ahead(stream[q])' = Ahead(stream[q])
  BY <1>1, <1>2 DEF WantedInv, Ahead
<1>3. Ahead(stream[r])' = Ahead(t)
  BY <1>1 DEF Ahead
<1> QED BY <1>1, <1>2, <1>3 DEF WantedInv

\* Every step keeps wanted what the last request that said so may yet read.
LEMMA WantedStep ==
    ASSUME StreamInv, WantedInv, [Next]_vars
    PROVE  WantedInv'
<1>0. stream \in [Readers -> NotOpened \cup Opened]
  BY DEF StreamInv, TypeOK
<1>1. ASSUME NEW r \in Readers, Reader(r) PROVE WantedInv'
  <2> DEFINE s == stream[r]
  <2>0. ASSUME s.pc \in Points
        PROVE  /\ s \in Opened /\ FileInv(s) /\ s.ask.file \in Files
               /\ s.ask.first \in Nat /\ (s.ask.ranged \/ s.ask.first = 0)
    <3>1. s \in Opened /\ FileInv(s)
      BY <1>0, <2>0 DEF StreamInv, NotOpened, Points
    <3> QED BY <3>1, StreamAssumption DEF Opened, AskSet
  <2>1. ASSUME NEW a \in Asks, Open(r, a) PROVE WantedInv'
    <3> DEFINE t == [pc |-> IF a.ranged /\ ~a.sniffed THEN "seek" ELSE "read",
                     ask |-> a, sniffing |-> a.sniffed, pos |-> 0, left |-> 0,
                     bits |-> {}, fresh |-> FALSE, closed |-> FALSE]
    <3>1. Become(r, t) /\ UNCHANGED <<prio, setBy>> /\ s.pc = "new" /\ t.pc \in Points
      BY <2>1 DEF Open, At, Points
    <3>2. setBy # r
      BY <3>1 DEF WantedInv, Points
    <3> HIDE DEF t
    <3> QED BY <3>1, <3>2, WantedKept
  <2>2. CASE NotFound(r)
    <3>1. s.pc = "new" /\ UNCHANGED <<prio, setBy>>
          /\ \A q \in Readers \ {r} : stream'[q] = stream[q]
      BY <1>0, <2>2 DEF NotFound, At, Become
    <3>2. setBy # r
      BY <3>1 DEF WantedInv, Points
    <3> QED BY <3>1, <3>2 DEF WantedInv, Ahead
  <2>3. CASE Seek(r)
    <3> DEFINE target == IF s.sniffing THEN 0 ELSE s.ask.first
               p == PieceAt(s.ask.file, target)
               t == [Refreshed(s) EXCEPT
                         !.pos = target,
                         !.sniffing = FALSE,
                         !.pc = IF s.sniffing /\ s.ask.ranged THEN "seek" ELSE "read"]
    <3>1. s.pc = "seek" /\ s.pc \in Points /\ Become(r, t)
      BY <2>3 DEF Seek, At, Points
    <3>2. /\ t.ask = s.ask /\ t.sniffing = FALSE /\ t.pc \in Points
          /\ t.pc = IF s.sniffing /\ s.ask.ranged THEN "seek" ELSE "read"
      BY <2>0, <3>1 DEF Refreshed, Opened, Points
    <3>3. target \in Nat /\ p \in Nat /\ PieceAt(s.ask.file, 0) \in Nat
          /\ PieceAt(s.ask.file, 0) <= p
      BY <2>0, <3>1, PiecesInOrder
    <3>4. Ahead(t) = p .. EndPiece(s.ask.file)
      BY <2>0, <3>1, <3>2 DEF Ahead
    <3>5. Ahead(s) = PieceAt(s.ask.file, 0) .. EndPiece(s.ask.file)
      BY <3>1 DEF Ahead
    <3>6. \/ UNCHANGED <<prio, setBy>>
          \/ prio' = SeekPriorities(s.ask.file, p) /\ setBy' = r
      BY <2>3 DEF Seek
    <3> HIDE DEF t, p, target
    <3>7. ASSUME setBy' = r, NEW q \in Ahead(t) \cap Pieces PROVE prio'[q] > 0
      <4>1. CASE UNCHANGED <<prio, setBy>>
        <5>1. q \in Ahead(s) \cap Pieces
          BY <3>3, <3>4, <3>5, <3>7, PieceOfByte, <2>0, <3>1 DEF Pieces, EndPiece
        <5> QED BY <3>7, <4>1, <5>1 DEF WantedInv
      <4>2. CASE prio' = SeekPriorities(s.ask.file, p)
        BY <2>0, <3>1, <3>3, <3>4, <3>7, <4>2, SeekWants
      <4> QED BY <3>6, <4>1, <4>2
    <3> QED BY <3>1, <3>2, <3>6, <3>7, WantedKept
  <2>4. ASSUME NEW t, Become(r, t), s.pc \in Points \ {"seek"},
               t.pc \in Points, t.ask = s.ask, t.sniffing = s.sniffing,
               t.pc = "seek" => s.sniffing, UNCHANGED setBy,
               \A p \in Pieces : prio[p] > 0 => prio'[p] > 0
        PROVE  WantedInv'
    <3>1. Ahead(t) = Ahead(s)
      BY <2>4 DEF Ahead
    <3>2. ASSUME setBy' = r, NEW p \in Ahead(t) \cap Pieces PROVE prio'[p] > 0
      BY <2>4, <3>1, <3>2 DEF WantedInv
    <3> QED BY <2>4, <3>2, WantedKept
  <2>5. CASE BeginRead(r) \/ Finish(r) \/ Close(r)
    <3>1. s.pc \in Points \ {"seek"} /\ UNCHANGED <<prio, setBy>>
      BY <2>5 DEF BeginRead, Finish, Close, At, Points
    <3>2. CASE BeginRead(r)
      <4>1. PICK left : Become(r, [s EXCEPT !.pc = "check", !.left = left])
        BY <3>2 DEF BeginRead
      <4> DEFINE t == [s EXCEPT !.pc = "check", !.left = left]
      <4>2. t.pc = "check" /\ t.ask = s.ask /\ t.sniffing = s.sniffing
        BY <2>0, <3>1 DEF Opened
      <4> QED BY <2>4, <3>1, <4>1, <4>2 DEF Points
    <3>3. CASE Finish(r)
      <4> DEFINE t == [s EXCEPT !.pc = "end"]
      <4>1. t.pc = "end" /\ t.ask = s.ask /\ t.sniffing = s.sniffing /\ Become(r, t)
        BY <2>0, <3>1, <3>3 DEF Opened, Finish
      <4> QED BY <2>4, <3>1, <4>1 DEF Points
    <3>4. CASE Close(r)
      <4> DEFINE t == [s EXCEPT !.closed = TRUE]
      <4>1. t.pc = s.pc /\ t.ask = s.ask /\ t.sniffing = s.sniffing /\ Become(r, t)
        BY <2>0, <3>1, <3>4 DEF Opened, Close
      <4> QED BY <2>4, <3>1, <4>1 DEF Points
    <3> QED BY <2>5, <3>2, <3>3, <3>4
  <2>6. CASE CheckPiece(r) \/ PollPiece(r)
    <3>1. s.pc \in Points \ {"seek"} /\ UNCHANGED setBy
      BY <2>6 DEF CheckPiece, PollPiece, At, Points
    <3>2. PICK pc \in {"ready", "poll", "tick"} :
             /\ Become(r, [Refreshed(s) EXCEPT !.pc = pc])
             /\ prio' = prio \/ prio' \in Deadlines(Here(s))
      BY <2>6 DEF CheckPiece, PollPiece
    <3> DEFINE t == [Refreshed(s) EXCEPT !.pc = pc]
    <3>3. t.pc = pc /\ t.ask = s.ask /\ t.sniffing = s.sniffing
      BY <2>0, <3>1 DEF Refreshed, Opened
    <3>4. \A p \in Pieces : prio[p] > 0 => prio'[p] > 0
      BY <3>2 DEF Deadlines, StreamInv, TypeOK
    <3> QED BY <2>4, <3>1, <3>2, <3>3, <3>4 DEF Points
  <2>7. CASE Tick(r) \/ ReadDisk(r)
    <3>1. s.pc \in Points \ {"seek"} /\ UNCHANGED <<prio, setBy>>
      BY <2>7 DEF Tick, ReadDisk, At, Points
    <3>2. ASSUME NEW pc \in {"poll", "seek", "end"}, Become(r, [s EXCEPT !.pc = pc]),
                 pc = "seek" => s.sniffing
          PROVE  WantedInv'
      <4> DEFINE t == [s EXCEPT !.pc = pc]
      <4>1. t.pc = pc /\ t.ask = s.ask /\ t.sniffing = s.sniffing
        BY <2>0, <3>1 DEF Opened
      <4> QED BY <2>4, <3>1, <3>2, <4>1 DEF Points
    <3>3. CASE Tick(r)
      BY <3>2, <3>3 DEF Tick, Fail
    <3>4. CASE ReadDisk(r)
      <4> DEFINE rest == FileSize[s.ask.file] - s.pos
                 n1 == IF InThisPiece(s) < rest THEN InThisPiece(s) ELSE rest
      <4>1. CASE n1 = 0
        BY <3>2, <3>4, <4>1 DEF ReadDisk, Fail
      <4>2. CASE n1 # 0
        <5>1. PICK pc \in {"check", "seek", "read"} :
                 /\ Become(r, [s EXCEPT !.pos = s.pos + n1, !.left = s.left - n1, !.pc = pc])
                 /\ pc = "seek" => s.sniffing
          BY <3>4, <4>2 DEF ReadDisk
        <5> DEFINE t == [s EXCEPT !.pos = s.pos + n1, !.left = s.left - n1, !.pc = pc]
        <5> HIDE DEF n1
        <5>2. t.pc = pc /\ t.ask = s.ask /\ t.sniffing = s.sniffing
          BY <2>0, <3>1 DEF Opened
        <5> QED BY <2>4, <3>1, <5>1, <5>2 DEF Points
      <4> QED BY <4>1, <4>2
    <3> QED BY <2>7, <3>3, <3>4
  <2> QED BY <1>1, <2>1, <2>2, <2>3, <2>5, <2>6, <2>7 DEF Reader
<1>2. CASE World
  <2>1. CASE (\E p \in Pieces : Download(p)) \/ PauseOrResume \/ Settle
    BY <2>1 DEF Download, PauseOrResume, Settle, WantedInv, Ahead
  <2>2. CASE Prioritize
    BY <2>2, StreamAssumption DEF Prioritize, WantedInv
  <2>3. ASSUME NEW r \in Readers, Age(r) PROVE WantedInv'
    <3> DEFINE s == stream[r]
               t == [s EXCEPT !.fresh = FALSE]
    <3>1. s \in Opened /\ Become(r, t) /\ UNCHANGED <<prio, setBy>> /\ s.pc \in Points
      BY <1>0, <2>3 DEF Age, NotOpened, Points
    <3>2. t.pc = s.pc /\ Ahead(t) = Ahead(s)
      BY <3>1 DEF Opened, Ahead
    <3> HIDE DEF t
    <3>3. ASSUME setBy' = r, NEW p \in Ahead(t) \cap Pieces PROVE prio'[p] > 0
      BY <3>1, <3>2, <3>3 DEF WantedInv
    <3> QED BY <3>1, <3>2, <3>3, WantedKept
  <2> QED BY <1>2, <2>1, <2>2, <2>3 DEF World
<1>3. CASE UNCHANGED vars
  BY <1>3 DEF vars, WantedInv, Ahead
<1> QED BY <1>1, <1>2, <1>3 DEF Next

\* To begin with no request has said what is wanted.
LEMMA InitWanted == Init => WantedInv
  BY StreamAssumption DEF Init, WantedInv

\* In every torrent, from whatever vector of priorities and whatever /priority and /get/
\* make of it: of all that a request goes on to read, its own seeks put nothing out of the
\* vector, so that where waitForPiece gives up on an open file, another request or a
\* handler has had the last word.
THEOREM OwnSeekKeeps == Spec => OwnSeekKeepsWait
<1> DEFINE Kept == \A r \in Readers :
              stream[r].pc = "tick" /\ stream'[r].pc = "end" => stream[r].closed \/ setBy # r
<1>1. StreamInv /\ WantedInv /\ [Next]_vars => [Kept]_vars
  <2> SUFFICES ASSUME StreamInv, WantedInv, Next, NEW r \in Readers,
                      stream[r].pc = "tick", stream'[r].pc = "end", ~stream[r].closed, setBy = r
               PROVE  FALSE
    OBVIOUS
  <2> DEFINE s == stream[r]
  <2>1. Tick(r)
    <3>1. stream'[r] # stream[r] /\ stream \in [Readers -> NotOpened \cup Opened]
      BY DEF StreamInv, TypeOK
    <3>2. ~World
      <4>1. ASSUME NEW q \in Readers, Age(q) PROVE FALSE
        <5>1. stream[q] \in Opened
          BY <3>1, <4>1 DEF Age, NotOpened, Points
        <5>2. stream'[r].pc = stream[r].pc
          BY <3>1, <4>1, <5>1 DEF Age, Become, Opened
        <5> QED BY <5>2
      <4> QED BY <3>1, <4>1 DEF World, Download, PauseOrResume, Settle, Prioritize
    <3>3. PICK q \in Readers : Reader(q)
      BY <3>2 DEF Next
    <3>4. q = r
      BY <3>1, <3>3 DEF Reader, Open, NotFound, Seek, BeginRead, CheckPiece, PollPiece, Tick,
                        ReadDisk, Finish, Close, Become
    <3> QED BY <3>3, <3>4 DEF Reader, Open, NotFound, Seek, BeginRead, CheckPiece, PollPiece,
                               ReadDisk, Finish, Close, At
  <2>2. s \in Opened /\ FileInv(s) /\ s.pc \in InCall
    BY DEF StreamInv, TypeOK, NotOpened, Points, InCall
  <2>3. ~s.sniffing /\ PriorityOf(Here(s)) = 0
    <3>1. stream \in [Readers -> NotOpened \cup Opened]
      BY DEF StreamInv, TypeOK
    <3>2. stream'[r] = IF PriorityOf(Here(s)) = 0 \/ s.closed THEN Fail(s)
                       ELSE [s EXCEPT !.pc = "poll"]
      BY <2>1, <3>1 DEF Tick, Become
    <3> QED BY <2>2, <3>2 DEF Fail, Opened
  <2>4. s.ask.file \in Files /\ s.ask.first \in Nat /\ s.pos \in Nat /\ s.left \in Nat
        /\ s.ask.last \in Nat /\ s.ask.last <= FileSize[s.ask.file]
        /\ FileSize[s.ask.file] \in Nat \ {0}
    BY <2>2, StreamAssumption DEF Opened, AskSet
  <2>5. s.ask.first <= s.pos /\ s.pos <= FileSize[s.ask.file] - 1
    BY <2>2, <2>3, <2>4 DEF FileInv, InCall
  <2>6. /\ Here(s) \in Nat /\ PieceAt(s.ask.file, s.ask.first) \in Nat
        /\ PieceAt(s.ask.file, s.ask.first) <= Here(s)
    BY <2>4, <2>5, PiecesInOrder DEF Here
  <2>7. Here(s) <= EndPiece(s.ask.file) /\ EndPiece(s.ask.file) \in Nat
    <3>1. FileSize[s.ask.file] - 1 \in Nat
      BY <2>4
    <3> QED BY <2>4, <2>5, <3>1, PiecesInOrder DEF Here, EndPiece
  <2>8. Here(s) \in Pieces
    <3>1. s.pos < FileSize[s.ask.file]
      BY <2>4, <2>5
    <3> QED BY <2>4, <3>1, PieceOfByte DEF Here
  <2>9. Here(s) \in Ahead(s)
    BY <2>3, <2>6, <2>7 DEF Ahead
  <2> QED BY <2>3, <2>8, <2>9 DEF WantedInv, PriorityOf
<1>2. Init => WantedInv
  BY InitWanted
<1>3. StreamInv /\ WantedInv /\ [Next]_vars => WantedInv'
  BY WantedStep
<1> QED BY <1>1, <1>2, <1>3, InitStream, StreamStep, PTL DEF Spec, OwnSeekKeepsWait
=============================================================================
