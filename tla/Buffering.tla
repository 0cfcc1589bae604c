------------------------------ MODULE Buffering ------------------------------
(***************************************************************************)
(* Which file is being downloaded, and how full its buffer is.  The        *)
(* goroutine of handleSignals chooses a file when the metadata comes;      *)
(* requests for /priority choose another; requests for /lsfile report.     *)
(* They share fileEntryIdx, which nothing protects, and the map            *)
(* bufferPiecesProgress, which a mutex protects but for the making of it.  *)
(*                                                                         *)
(* Deadlines are left out: they order the pieces that the priorities want. *)
(* lastEntryIdx is too: it is never below zero, which is all that is asked. *)
(***************************************************************************)
EXTENDS PiecePlan

CONSTANTS
    NumFiles,
    FileOffset, FileSize,
    MinCandidateSize,    \* minCandidateSize, 80 megabytes
    SmallSize,           \* 10485760 in prioHandler
    FileIndex,           \* config.fileIndex
    Setters,             \* requests for /priority or /get/, each made at most once
    Settings,            \* what they may ask: pairs of an index and a priority
    Gets,                \* or the numbers they may ask of /get/, of no file too
    Watchers,            \* clients that poll /lsfile
    Orderly,             \* clients await the metadata, and each answer before they ask on
    Corruptible          \* the pieces that may prove corrupt once fetched: bounds the runs

Files == 0..(NumFiles - 1)
AllFiles == 9999
Priorities == 0..7

ASSUME BufferingAssumption ==
    /\ NumFiles \in Nat \ {0}
    /\ FileOffset \in [Files -> Nat] /\ FileSize \in [Files -> Nat \ {0}]
    /\ \A f \in Files : Fits(FileOffset[f], FileSize[f])
    /\ MinCandidateSize \in Nat /\ SmallSize \in Nat
    /\ FileIndex \in Int
    /\ Setters \cap Watchers = {}
    /\ {"loop", "free"} \cap (Setters \cup Watchers) = {}
    /\ Settings \subseteq Files \X (Priorities \cup {AllFiles})
    /\ Gets \subseteq Int
    /\ Orderly \in BOOLEAN /\ Corruptible \subseteq Pieces

Loop == "loop"                      \* the goroutine of handleSignals
Planners == Setters \cup {Loop}     \* those that run prioritizepieces

VARIABLES
    torrentInfo,            \* TRUE once onMetadataReceived has assigned it
    fileEntryIdx,
    bufferPiecesProgress,   \* piece |-> TRUE for 1.0, FALSE for less
    lock,                   \* the holder of bufferPiecesProgressLock, or "free"
    filePrio, prio,         \* libtorrent's priorities of files and of pieces
    piece,                  \* "missing", "blocks" (all there, unchecked), "have"
    corrupt,                \* history: the pieces that were fetched and proved corrupt
    pc,
    mine,                   \* what a planner holds in its local variables
    report                  \* what a watcher holds, and its last answer

libVars == <<filePrio, prio, piece, corrupt>>
vars == <<torrentInfo, fileEntryIdx, bufferPiecesProgress, lock, libVars, pc, mine, report>>

Nothing == [q \in {} |-> FALSE]

Init ==
    /\ torrentInfo = FALSE
    /\ fileEntryIdx = 0
    /\ bufferPiecesProgress = Nothing
    /\ lock = "free"
    /\ filePrio = [f \in Files |-> 4]
    /\ prio = [q \in Pieces |-> 4]
    /\ piece = [q \in Pieces |-> "missing"]
    /\ corrupt = {}
    /\ pc = [x \in Planners \cup Watchers |-> "idle"]
    /\ mine = [x \in Planners |-> [index |-> 0, priority |-> 0, offset |-> 0, size |-> 0, cur |-> 0]]
    /\ report = [w \in Watchers |-> [full |-> FALSE, file |-> 0]]

At(x, point) == pc[x] = point
Goto(x, point) == pc' = [pc EXCEPT ![x] = point]

-----------------------------------------------------------------------------
(* libtorrent: the priority of a piece follows from those of its files *)

Highest(S) == CHOOSE n \in S : \A m \in S : m <= n
FromFiles(priorities) ==
    [q \in Pieces |->
        Highest({0} \cup {priorities[f] : f \in {g \in Files : q \in PiecesOf(FileOffset[g], FileSize[g])}})]
SetFilePriorities(priorities) == filePrio' = priorities /\ prio' = FromFiles(priorities)

-----------------------------------------------------------------------------
(* onMetadataReceived *)

Candidates == {f \in Files : FileSize[f] > MinCandidateSize}

\* The first of the biggest files.
Biggest == CHOOSE f \in Files : \A g \in Files :
               FileSize[g] < FileSize[f] \/ (FileSize[g] = FileSize[f] /\ f <= g)

\* chooseFile
ChooseFile == IF FileIndex \in Candidates THEN FileIndex ELSE Biggest

MetadataReceived ==
    /\ At(Loop, "idle")
    /\ torrentInfo' = TRUE
    /\ Goto(Loop, "choose")
    /\ UNCHANGED <<fileEntryIdx, bufferPiecesProgress, lock, libVars, mine, report>>

SelectFirst ==
    /\ At(Loop, "choose")
    /\ fileEntryIdx' = ChooseFile
    /\ Goto(Loop, "files")
    /\ UNCHANGED <<torrentInfo, bufferPiecesProgress, lock, libVars, mine, report>>

\* PrioritizeFiles, and then prioritizepieces unless all files or none are wanted
NoFileInParticular == FileIndex = AllFiles \/ FileIndex = -1
PrioritizeFiles ==
    /\ At(Loop, "files")
    /\ SetFilePriorities([f \in Files |->
          IF FileIndex = AllFiles THEN 4
          ELSE IF FileIndex # -1 /\ f = fileEntryIdx THEN 7 ELSE 0])
    /\ Goto(Loop, IF NoFileInParticular THEN "done" ELSE "offset")
    /\ UNCHANGED <<torrentInfo, fileEntryIdx, bufferPiecesProgress, lock, piece, corrupt, mine, report>>

OnMetadataReceived == MetadataReceived \/ SelectFirst \/ PrioritizeFiles

-----------------------------------------------------------------------------
(* prioritizepieces, run by the loop or by a request *)

ReadOffset(x) ==
    /\ At(x, "offset")
    /\ mine' = [mine EXCEPT ![x].offset = FileOffset[fileEntryIdx]]
    /\ Goto(x, "size")
    /\ UNCHANGED <<torrentInfo, fileEntryIdx, bufferPiecesProgress, lock, libVars, report>>

ReadSize(x) ==
    /\ At(x, "size")
    /\ mine' = [mine EXCEPT ![x].size = FileSize[fileEntryIdx]]
    /\ Goto(x, "make")
    /\ UNCHANGED <<torrentInfo, fileEntryIdx, bufferPiecesProgress, lock, libVars, report>>

\* bufferPiecesProgress = make(map[int]float64), without the lock
MakeMap(x) ==
    /\ At(x, "make")
    /\ bufferPiecesProgress' = Nothing
    /\ Goto(x, "lock")
    /\ UNCHANGED <<torrentInfo, fileEntryIdx, lock, libVars, mine, report>>

\* Mutant of Lock: a lock that several may hold, as if by RLock.
LockShared(x) ==
    /\ At(x, "lock")
    /\ lock' = x
    /\ Goto(x, IF x \in Watchers THEN "length" ELSE "head")
    /\ UNCHANGED <<torrentInfo, fileEntryIdx, bufferPiecesProgress, libVars, mine, report>>

Lock(x) ==
    /\ At(x, "lock")
    /\ lock = "free"
    /\ lock' = x
    /\ Goto(x, IF x \in Watchers THEN "length" ELSE "head")
    /\ UNCHANGED <<torrentInfo, fileEntryIdx, bufferPiecesProgress, libVars, mine, report>>

\* The map after the keys are assigned zero.
Zeroed(keys) == [q \in DOMAIN bufferPiecesProgress \cup keys |->
                   IF q \in keys THEN FALSE ELSE bufferPiecesProgress[q]]

FillHead(x) ==
    /\ At(x, "head")
    /\ bufferPiecesProgress' = Zeroed(HeadKeys(mine[x].offset, mine[x].size))
    /\ Goto(x, "tail")
    /\ UNCHANGED <<torrentInfo, fileEntryIdx, lock, libVars, mine, report>>

\* Mutant of FillTail: the pieces of the file's end are not counted.
FillTailForgotten(x) ==
    /\ At(x, "tail")
    /\ Goto(x, "vector")
    /\ UNCHANGED <<torrentInfo, fileEntryIdx, bufferPiecesProgress, lock, libVars, mine, report>>

FillTail(x) ==
    /\ At(x, "tail")
    /\ bufferPiecesProgress' = Zeroed(TailKeys(mine[x].offset, mine[x].size))
    /\ Goto(x, "vector")
    /\ UNCHANGED <<torrentInfo, fileEntryIdx, lock, libVars, mine, report>>

\* PrioritizePieces, and the deferred Unlock.  Entries past the last piece are lost.
PrioritizePieces(x) ==
    /\ At(x, "vector")
    /\ prio' = [q \in Pieces |-> Vector(mine[x].offset, mine[x].size)[q]]
    /\ lock' = "free"
    /\ Goto(x, "done")
    /\ UNCHANGED <<torrentInfo, fileEntryIdx, bufferPiecesProgress, filePrio, piece, corrupt, mine, report>>

Prioritizepieces(x) ==
    \/ ReadOffset(x)
    \/ ReadSize(x)
    \/ MakeMap(x)
    \/ Lock(x)
    \/ FillHead(x)
    \/ FillTail(x)
    \/ PrioritizePieces(x)

-----------------------------------------------------------------------------
(* prioHandler *)

InProgress(x) == ~At(x, "idle") /\ ~At(x, "done")

\* Before the metadata /lsfile has no file to tell of, and /priority panics before it
\* changes anything.  Orderly clients have no other request under way.
MayAsk == torrentInfo /\ (Orderly => At(Loop, "done") /\ \A x \in Setters \cup Watchers : ~InProgress(x))

\* Mutant of AskPriority: 9999 is a priority like any other.
AskPriorityPlain(r) ==
    /\ At(r, "idle")
    /\ MayAsk
    /\ \E s \in Settings :
         /\ mine' = [mine EXCEPT ![r] = [@ EXCEPT !.index = s[1], !.priority = s[2]]]
         /\ Goto(r, IF s[1] = fileEntryIdx /\ filePrio[s[1]] = s[2] THEN "done" ELSE "select")
    /\ UNCHANGED <<torrentInfo, fileEntryIdx, bufferPiecesProgress, lock, libVars, report>>

\* The request, and the test that ends it early: the file is selected already and
\* has that priority.
AskPriority(r) ==
    /\ At(r, "idle")
    /\ MayAsk
    /\ \E s \in Settings :
         /\ mine' = [mine EXCEPT ![r] = [@ EXCEPT !.index = s[1], !.priority = s[2]]]
         /\ Goto(r, IF s[1] = fileEntryIdx /\ filePrio[s[1]] = s[2] THEN "done"
                    ELSE IF s[2] = AllFiles THEN "all" ELSE "select")
    /\ UNCHANGED <<torrentInfo, fileEntryIdx, bufferPiecesProgress, lock, libVars, report>>

\* priority=9999: FilePriority(i, 4) of every file
WantAll(r) ==
    /\ At(r, "all")
    /\ SetFilePriorities([f \in Files |-> 4])
    /\ Goto(r, "done")
    /\ UNCHANGED <<torrentInfo, fileEntryIdx, bufferPiecesProgress, lock, piece, corrupt, mine, report>>

Select(r) ==
    /\ At(r, "select")
    /\ fileEntryIdx' = mine[r].index
    /\ Goto(r, "file")
    /\ UNCHANGED <<torrentInfo, bufferPiecesProgress, lock, libVars, mine, report>>

\* FilePriority(index, priority), and what follows for a big or a small file
PrioritizeFile(r) ==
    /\ At(r, "file")
    /\ SetFilePriorities([filePrio EXCEPT ![mine[r].index] = mine[r].priority])
    /\ Goto(r, IF FileSize[mine[r].index] > SmallSize THEN "offset" ELSE "getpieces")
    /\ UNCHANGED <<torrentInfo, fileEntryIdx, bufferPiecesProgress, lock, piece, corrupt, mine, report>>

\* getFilePiecesAndOffset(fileEntryIdx)
GetFilePieces(r) ==
    /\ At(r, "getpieces")
    /\ mine' = [mine EXCEPT ![r] = [@ EXCEPT !.offset = FileOffset[fileEntryIdx],
                                            !.size = FileSize[fileEntryIdx], !.cur = 0]]
    /\ Goto(r, "small")
    /\ UNCHANGED <<torrentInfo, fileEntryIdx, bufferPiecesProgress, lock, libVars, report>>

\* The pieces of a small file come first and those wanted before come after.
SmallFile(r) ==
    LET cur == mine[r].cur
    IN  /\ At(r, "small")
        /\ cur < NumPieces
        /\ prio' = [prio EXCEPT ![cur] =
              IF cur \in StartPiece(mine[r].offset)..EndPiece(mine[r].offset, mine[r].size) THEN 7
              ELSE IF @ > 0 THEN 1 ELSE 0]
        /\ mine' = [mine EXCEPT ![r].cur = cur + 1]
        /\ Goto(r, IF cur + 1 = NumPieces THEN "done" ELSE "small")
        /\ UNCHANGED <<torrentInfo, fileEntryIdx, bufferPiecesProgress, lock, filePrio, piece, corrupt, report>>

PrioHandler(r) ==
    \/ AskPriority(r)
    \/ WantAll(r)
    \/ Select(r)
    \/ PrioritizeFile(r)
    \/ GetFilePieces(r)
    \/ SmallFile(r)

-----------------------------------------------------------------------------
(* getHandler *)

AskGet(r) ==
    /\ At(r, "idle")
    /\ MayAsk
    /\ \E index \in Gets : mine' = [mine EXCEPT ![r] = [@ EXCEPT !.index = index, !.cur = 0]]
    /\ Goto(r, "get")
    /\ UNCHANGED <<torrentInfo, fileEntryIdx, bufferPiecesProgress, lock, libVars, report>>

\* FilePriority(i, 1) or FilePriority(i, 0), one file after the other; the answer is
\* 404 for every number.
GetFile(r) ==
    LET cur == mine[r].cur
    IN  /\ At(r, "get")
        /\ SetFilePriorities([filePrio EXCEPT ![cur] = IF cur = mine[r].index THEN 1 ELSE 0])
        /\ mine' = [mine EXCEPT ![r].cur = cur + 1]
        /\ Goto(r, IF cur + 1 = NumFiles THEN "done" ELSE "get")
        /\ UNCHANGED <<torrentInfo, fileEntryIdx, bufferPiecesProgress, lock, piece, corrupt, report>>

GetHandler(r) == AskGet(r) \/ GetFile(r)

-----------------------------------------------------------------------------
(* fileHandler *)

\* While libtorrent checks files, buffer is zero without a look at the map.
AskFile(w) ==
    /\ At(w, "idle")
    /\ MayAsk
    /\ report' = [report EXCEPT ![w] = [full |-> FALSE, file |-> 0]]
    /\ \E checking \in BOOLEAN : Goto(w, IF checking THEN "name" ELSE "lock")
    /\ UNCHANGED <<torrentInfo, fileEntryIdx, bufferPiecesProgress, lock, libVars, mine>>

\* if lenght > 0, with lenght := len(bufferPiecesProgress)
ReadLength(w) ==
    /\ At(w, "length")
    /\ Goto(w, IF bufferPiecesProgress = Nothing THEN "unlock" ELSE "progress")
    /\ UNCHANGED <<torrentInfo, fileEntryIdx, bufferPiecesProgress, lock, libVars, mine, report>>

\* piecesProgress: pieces that libtorrent has, or has all blocks of, are at 1.0,
\* and what is at 1.0 stays there.
PiecesProgress(w) ==
    /\ At(w, "progress")
    /\ bufferPiecesProgress' =
          [q \in DOMAIN bufferPiecesProgress |->
              bufferPiecesProgress[q] \/ (q \in Pieces /\ piece[q] # "missing")]
    /\ Goto(w, "total")
    /\ UNCHANGED <<torrentInfo, fileEntryIdx, lock, libVars, mine, report>>

\* The sum over the map there is now, which another goroutine may have replaced by
\* an empty one, divided by the length of the one there was: 1, or less.
Total(w) ==
    /\ At(w, "total")
    /\ report' = [report EXCEPT ![w].full =
          bufferPiecesProgress # Nothing /\ \A q \in DOMAIN bufferPiecesProgress : bufferPiecesProgress[q]]
    /\ Goto(w, "unlock")
    /\ UNCHANGED <<torrentInfo, fileEntryIdx, bufferPiecesProgress, lock, libVars, mine>>

\* Mutant of Unlock: fileHandler keeps the lock.
UnlockForgotten(w) ==
    /\ At(w, "unlock")
    /\ Goto(w, "name")
    /\ UNCHANGED <<torrentInfo, fileEntryIdx, bufferPiecesProgress, lock, libVars, mine, report>>

Unlock(w) ==
    /\ At(w, "unlock")
    /\ lock' = "free"
    /\ Goto(w, "name")
    /\ UNCHANGED <<torrentInfo, fileEntryIdx, bufferPiecesProgress, libVars, mine, report>>

\* The answer names fileEntryIdx as it is by then.
AnswerFile(w) ==
    /\ At(w, "name")
    /\ report' = [report EXCEPT ![w].file = fileEntryIdx]
    /\ Goto(w, "done")
    /\ UNCHANGED <<torrentInfo, fileEntryIdx, bufferPiecesProgress, lock, libVars, mine>>

\* The client has its answer and may poll again.
PollAgain(w) ==
    /\ At(w, "done")
    /\ Goto(w, "idle")
    /\ UNCHANGED <<torrentInfo, fileEntryIdx, bufferPiecesProgress, lock, libVars, mine, report>>

FileHandler(w) ==
    \/ AskFile(w)
    \/ Lock(w)
    \/ ReadLength(w)
    \/ PiecesProgress(w)
    \/ Total(w)
    \/ Unlock(w)
    \/ AnswerFile(w)
    \/ PollAgain(w)

-----------------------------------------------------------------------------
(* libtorrent fetches the pieces that are wanted, then checks their hash *)

Fetch(q) ==
    /\ prio[q] > 0
    /\ piece[q] = "missing"
    /\ piece' = [piece EXCEPT ![q] = "blocks"]
    /\ UNCHANGED <<torrentInfo, fileEntryIdx, bufferPiecesProgress, lock, filePrio, prio, corrupt, pc,
                   mine, report>>

CheckHash(q) ==
    /\ piece[q] = "blocks"
    /\ \/ /\ piece' = [piece EXCEPT ![q] = "have"]
          /\ UNCHANGED corrupt
       \/ /\ q \in Corruptible
          /\ piece' = [piece EXCEPT ![q] = "missing"]
          /\ corrupt' = corrupt \cup {q}
    /\ UNCHANGED <<torrentInfo, fileEntryIdx, bufferPiecesProgress, lock, filePrio, prio, pc, mine, report>>

-----------------------------------------------------------------------------
Next ==
    \/ OnMetadataReceived
    \/ \E x \in Planners : Prioritizepieces(x)
    \/ \E r \in Setters : PrioHandler(r) \/ GetHandler(r)
    \/ \E w \in Watchers : FileHandler(w)
    \/ \E q \in Pieces : Fetch(q) \/ CheckHash(q)

\* The goroutines go on, and sync.RWMutex starves no one.  No request need be made.
Goes(x) == ~At(x, "idle")
Fairness ==
    /\ \A x \in Planners : WF_vars(Goes(x) /\ Prioritizepieces(x)) /\ SF_vars(Lock(x))
    /\ WF_vars(OnMetadataReceived)
    /\ \A r \in Setters : WF_vars(Goes(r) /\ (PrioHandler(r) \/ GetHandler(r)))
    /\ \A w \in Watchers : WF_vars(Goes(w) /\ FileHandler(w)) /\ SF_vars(Lock(w))

Spec == Init /\ [][Next]_vars /\ Fairness

-----------------------------------------------------------------------------
(* Properties *)

PlannerPoints == {"idle", "choose", "files", "offset", "size", "make", "lock", "head", "tail",
                  "vector", "select", "all", "file", "getpieces", "small", "get", "done"}
WatcherPoints == {"idle", "lock", "length", "progress", "total", "unlock", "name", "done"}

TypeOK ==
    /\ torrentInfo \in BOOLEAN
    /\ fileEntryIdx \in Files
    /\ DOMAIN bufferPiecesProgress \subseteq Nat
    /\ \A q \in DOMAIN bufferPiecesProgress : bufferPiecesProgress[q] \in BOOLEAN
    /\ lock \in {"free"} \cup Planners \cup Watchers
    /\ filePrio \in [Files -> Priorities]
    /\ prio \in [Pieces -> Priorities]
    /\ piece \in [Pieces -> {"missing", "blocks", "have"}]
    /\ corrupt \subseteq Pieces
    /\ \A x \in Planners : pc[x] \in PlannerPoints
    /\ \A w \in Watchers : pc[w] \in WatcherPoints
    /\ mine \in [Planners -> [index: Files \cup Gets, priority: Priorities \cup {AllFiles},
                              offset: Nat, size: Nat, cur: Nat]]
    /\ report \in [Watchers -> [full: BOOLEAN, file: Files]]

\* The points at which the contents of bufferPiecesProgress are read or written.
InMap(x) == pc[x] \in {"head", "tail", "vector", "length", "progress", "total", "unlock"}

\* No two goroutines are in the map at a time, which Go answers with the end of the
\* process: prioritizepieces and fileHandler both take bufferPiecesProgressLock.
NoConcurrentMapAccess ==
    \A x, y \in Planners \cup Watchers : InMap(x) /\ InMap(y) => x = y

\* What an answer of /lsfile says of the file it names: a buffer of 1 only when libtorrent
\* has fetched each piece of that file's buffer, and lost none but what proved corrupt.
\* For a small file prioHandler makes no map: what is said of one is of another file.
Buffer(f) == BufferKeys(FileOffset[f], FileSize[f])
WasFetched(q) == piece[q] # "missing" \/ q \in corrupt
FullMeansBuffered ==
    \A w \in Watchers :
        At(w, "done") /\ report[w].full /\ FileSize[report[w].file] > SmallSize =>
           \A q \in Buffer(report[w].file) \cap Pieces : WasFetched(q)

Quiet == At(Loop, "done") /\ \A r \in Setters : ~InProgress(r)
Wanted(f) == \A q \in PiecesOf(FileOffset[f], FileSize[f]) : prio[q] > 0

\* "File named ... is set with priority ..." (prioHandler): once the requests for
\* /priority are over, the file that the last of them selected is being fetched, to
\* its last piece, unless its own priority was set to zero.
SelectedIsWanted ==
    Quiet /\ filePrio[fileEntryIdx] > 0 => Wanted(fileEntryIdx)

\* Wherever a file may begin and end in a torrent whose metadata is still to come.
Places == {place \in (0..(NumPieces * PieceLength)) \X (0..(NumPieces * PieceLength)) :
             Fits(place[1], place[2])}

\* prioritizepieces fetches every piece of the file and, outside it, nothing that
\* is not part of its buffer: wherever the file begins and ends within its pieces,
\* and however head and tail of the buffer overlap.
AlwaysFetches == ~torrentInfo => \A place \in Places : FetchesTheFile(place[1], place[2])

\* bufferPiecesProgress counts the piece of the first byte and that of the last:
\* the buffer is never reported full before the player can start.
AlwaysBuffers == ~torrentInfo => \A place \in Places : BuffersBothEnds(place[1], place[2])

\* Every request for /priority or /lsfile is answered: the lock is always given
\* back, and no loop of prioHandler is endless.
EveryoneIsAnswered ==
    /\ \A r \in Setters : InProgress(r) ~> At(r, "done")
    /\ \A w \in Watchers : InProgress(w) ~> At(w, "done")
=============================================================================
