--------------------------- MODULE BufferingProofs ---------------------------
(* bufferPiecesProgress is never in the hands of two goroutines; the selected file is *)
(* fetched, and its buffer is there when it is said to be, if clients wait for answers. *)
EXTENDS Buffering, PiecePlanProofs, WellFoundedInduction, TLAPS

Goroutines == Planners \cup Watchers

\* Who is in the map holds the lock, and the other way round.
LockInv ==
    /\ pc \in [Goroutines -> PlannerPoints \cup WatcherPoints]
    /\ \A x \in Goroutines : InMap(x) <=> lock = x

\* "free" is the name of no goroutine.
LEMMA FreeIsNobody == "free" \notin Goroutines
  BY BufferingAssumption DEF Goroutines, Planners, Loop

\* A goroutine that moves without the lock's being taken or given back, and neither
\* into the map nor out of it.
LEMMA MovesOn ==
    ASSUME LockInv, NEW x \in Goroutines,
           NEW point \in PlannerPoints \cup WatcherPoints, Goto(x, point),
           UNCHANGED lock, InMap(x) <=> InMap(x)'
    PROVE  LockInv'
<1>1. pc' \in [Goroutines -> PlannerPoints \cup WatcherPoints]
  BY DEF LockInv, Goto
<1>2. ASSUME NEW y \in Goroutines PROVE InMap(y)' <=> lock' = y
  <2>1. CASE y = x
    BY <2>1 DEF LockInv
  <2>2. CASE y # x
    <3>1. pc'[y] = pc[y]
      BY <2>2 DEF LockInv, Goto
    <3> QED BY <3>1 DEF LockInv, InMap
  <2> QED BY <2>1, <2>2
<1> QED BY <1>1, <1>2 DEF LockInv

\* A goroutine that takes the lock and enters the map.
LEMMA Takes ==
    ASSUME LockInv, NEW x \in Goroutines, Lock(x)
    PROVE  LockInv'
<1> USE DEF Lock, Goto, At
<1> DEFINE point == IF x \in Watchers THEN "length" ELSE "head"
<1>1. point \in PlannerPoints \cup WatcherPoints /\ point \in {"length", "head"}
  BY DEF PlannerPoints, WatcherPoints
<1>2. pc' = [pc EXCEPT ![x] = point]
  OBVIOUS
<1> HIDE DEF point
<1>3. pc' \in [Goroutines -> PlannerPoints \cup WatcherPoints]
  BY <1>1, <1>2 DEF LockInv
<1>4. ASSUME NEW y \in Goroutines PROVE InMap(y)' <=> lock' = y
  <2>1. CASE y = x
    <3>1. pc'[y] = point
      BY <1>2, <2>1 DEF LockInv
    <3> QED BY <1>1, <2>1, <3>1 DEF InMap
  <2>2. CASE y # x
    <3>1. pc'[y] = pc[y]
      BY <1>2, <2>2 DEF LockInv
    <3>2. ~InMap(y)
      BY FreeIsNobody DEF LockInv
    <3> QED BY <2>2, <3>1, <3>2 DEF InMap
  <2> QED BY <2>1, <2>2
<1> QED BY <1>3, <1>4 DEF LockInv

\* A goroutine that gives the lock back and leaves the map.
LEMMA GivesBack ==
    ASSUME LockInv, NEW x \in Goroutines, InMap(x), lock' = "free",
           NEW point \in {"name", "done"}, Goto(x, point)
    PROVE  LockInv'
<1> USE DEF Goto
<1>1. pc' \in [Goroutines -> PlannerPoints \cup WatcherPoints]
  BY DEF LockInv, PlannerPoints, WatcherPoints
<1>2. ASSUME NEW y \in Goroutines PROVE InMap(y)' <=> lock' = y
  <2>1. lock' # y
    BY FreeIsNobody
  <2>2. CASE y = x
    <3>1. pc'[y] = point
      BY <2>2 DEF LockInv
    <3> QED BY <2>1, <3>1 DEF InMap
  <2>3. CASE y # x
    <3>1. pc'[y] = pc[y]
      BY <2>3 DEF LockInv
    <3>2. ~InMap(y)
      BY <2>3 DEF LockInv
    <3> QED BY <2>1, <3>1, <3>2 DEF InMap
  <2> QED BY <2>2, <2>3
<1> QED BY <1>1, <1>2 DEF LockInv

\* A step that moves nobody.
LEMMA NobodyMoves ==
    ASSUME LockInv, UNCHANGED <<pc, lock>>
    PROVE  LockInv'
  BY DEF LockInv, InMap

\* The initial state: nobody is in the map.
LEMMA InitLock == Init => LockInv
  BY FreeIsNobody DEF Init, LockInv, InMap, Goroutines, PlannerPoints, WatcherPoints

\* A step of a goroutine from one point to another, both in the map or both outside.
LEMMA StepMoves ==
    ASSUME LockInv, NEW x \in Goroutines,
           NEW from \in PlannerPoints \cup WatcherPoints, At(x, from),
           NEW to \in PlannerPoints \cup WatcherPoints, Goto(x, to), UNCHANGED lock,
           from \in {"head", "tail", "vector", "length", "progress", "total", "unlock"}
             <=> to \in {"head", "tail", "vector", "length", "progress", "total", "unlock"}
    PROVE  LockInv'
<1>1. pc'[x] = to /\ pc[x] = from
  BY DEF At, Goto, LockInv
<1>2. InMap(x) <=> InMap(x)'
  BY <1>1 DEF InMap
<1> QED BY <1>2, MovesOn

\* Every step keeps the lock with who is in the map.
LEMMA LockStep == LockInv /\ [Next]_vars => LockInv'
<1> SUFFICES ASSUME LockInv, [Next]_vars PROVE LockInv'
  OBVIOUS
<1> USE DEF PlannerPoints, WatcherPoints
<1>1. ASSUME OnMetadataReceived PROVE LockInv'
  <2>0. Loop \in Goroutines
    BY DEF Goroutines, Planners
  <2>1. CASE MetadataReceived
    BY <2>0, <2>1, StepMoves DEF MetadataReceived
  <2>2. CASE SelectFirst
    BY <2>0, <2>2, StepMoves DEF SelectFirst
  <2>3. CASE PrioritizeFiles
    <3> DEFINE to == IF NoFileInParticular THEN "done" ELSE "offset"
    <3>1. to \in {"done", "offset"}
      OBVIOUS
    <3>2. At(Loop, "files") /\ Goto(Loop, to) /\ UNCHANGED lock
      BY <2>3 DEF PrioritizeFiles
    <3> HIDE DEF to
    <3> QED BY <2>0, <3>1, <3>2, StepMoves
  <2> QED BY <1>1, <2>1, <2>2, <2>3 DEF OnMetadataReceived
<1>2. ASSUME NEW x \in Planners, Prioritizepieces(x) PROVE LockInv'
  <2>0. x \in Goroutines
    BY DEF Goroutines
  <2>1. CASE ReadOffset(x)
    BY <2>0, <2>1, StepMoves DEF ReadOffset
  <2>2. CASE ReadSize(x)
    BY <2>0, <2>2, StepMoves DEF ReadSize
  <2>3. CASE MakeMap(x)
    BY <2>0, <2>3, StepMoves DEF MakeMap
  <2>4. CASE Lock(x)
    BY <2>0, <2>4, Takes
  <2>5. CASE FillHead(x)
    BY <2>0, <2>5, StepMoves DEF FillHead
  <2>6. CASE FillTail(x)
    BY <2>0, <2>6, StepMoves DEF FillTail
  <2>7. CASE PrioritizePieces(x)
    <3>1. InMap(x) /\ lock' = "free" /\ Goto(x, "done")
      BY <2>7 DEF PrioritizePieces, At, InMap
    <3> QED BY <2>0, <3>1, GivesBack
  <2> QED BY <1>2, <2>1, <2>2, <2>3, <2>4, <2>5, <2>6, <2>7 DEF Prioritizepieces
<1>3. ASSUME NEW r \in Setters, PrioHandler(r) \/ GetHandler(r) PROVE LockInv'
  <2>0. r \in Goroutines
    BY DEF Goroutines, Planners
  <2>1. CASE AskPriority(r)
    <3>1. PICK to \in {"done", "all", "select"} : Goto(r, to)
      BY <2>1 DEF AskPriority
    <3>2. At(r, "idle") /\ UNCHANGED lock
      BY <2>1 DEF AskPriority
    <3> QED BY <2>0, <3>1, <3>2, StepMoves
  <2>2. CASE WantAll(r)
    BY <2>0, <2>2, StepMoves DEF WantAll
  <2>3. CASE Select(r)
    BY <2>0, <2>3, StepMoves DEF Select
  <2>4. CASE PrioritizeFile(r)
    <3>1. PICK to \in {"offset", "getpieces"} : Goto(r, to)
      BY <2>4 DEF PrioritizeFile
    <3>2. At(r, "file") /\ UNCHANGED lock
      BY <2>4 DEF PrioritizeFile
    <3> QED BY <2>0, <3>1, <3>2, StepMoves
  <2>5. CASE GetFilePieces(r)
    BY <2>0, <2>5, StepMoves DEF GetFilePieces
  <2>6. CASE SmallFile(r)
    <3>1. PICK to \in {"done", "small"} : Goto(r, to)
      BY <2>6 DEF SmallFile
    <3>2. At(r, "small") /\ UNCHANGED lock
      BY <2>6 DEF SmallFile
    <3> QED BY <2>0, <3>1, <3>2, StepMoves
  <2>7. CASE AskGet(r)
    BY <2>0, <2>7, StepMoves DEF AskGet
  <2>8. CASE GetFile(r)
    <3>1. PICK to \in {"done", "get"} : Goto(r, to)
      BY <2>8 DEF GetFile
    <3>2. At(r, "get") /\ UNCHANGED lock
      BY <2>8 DEF GetFile
    <3> QED BY <2>0, <3>1, <3>2, StepMoves
  <2> QED BY <1>3, <2>1, <2>2, <2>3, <2>4, <2>5, <2>6, <2>7, <2>8 DEF PrioHandler, GetHandler
<1>4. ASSUME NEW w \in Watchers, FileHandler(w) PROVE LockInv'
  <2>0. w \in Goroutines
    BY DEF Goroutines
  <2>1. CASE AskFile(w)
    <3>1. PICK to \in {"name", "lock"} : Goto(w, to)
      BY <2>1 DEF AskFile
    <3>2. At(w, "idle") /\ UNCHANGED lock
      BY <2>1 DEF AskFile
    <3> QED BY <2>0, <3>1, <3>2, StepMoves
  <2>2. CASE Lock(w)
    BY <2>0, <2>2, Takes
  <2>3. CASE ReadLength(w)
    <3>1. PICK to \in {"unlock", "progress"} : Goto(w, to)
      BY <2>3 DEF ReadLength
    <3>2. At(w, "length") /\ UNCHANGED lock
      BY <2>3 DEF ReadLength
    <3> QED BY <2>0, <3>1, <3>2, StepMoves
  <2>4. CASE PiecesProgress(w)
    BY <2>0, <2>4, StepMoves DEF PiecesProgress
  <2>5. CASE Total(w)
    BY <2>0, <2>5, StepMoves DEF Total
  <2>6. CASE Unlock(w)
    <3>1. InMap(w) /\ lock' = "free" /\ Goto(w, "name")
      BY <2>6 DEF Unlock, At, InMap
    <3> QED BY <2>0, <3>1, GivesBack
  <2>7. CASE AnswerFile(w)
    BY <2>0, <2>7, StepMoves DEF AnswerFile
  <2>8. CASE PollAgain(w)
    BY <2>0, <2>8, StepMoves DEF PollAgain
  <2> QED BY <1>4, <2>1, <2>2, <2>3, <2>4, <2>5, <2>6, <2>7, <2>8 DEF FileHandler
<1>5. ASSUME NEW q \in Pieces, Fetch(q) \/ CheckHash(q) PROVE LockInv'
  BY <1>5, NobodyMoves DEF Fetch, CheckHash
<1>6. ASSUME UNCHANGED vars PROVE LockInv'
  BY <1>6, NobodyMoves DEF vars
<1> QED BY <1>1, <1>2, <1>3, <1>4, <1>5, <1>6 DEF Next

\* Whatever the number of requests for /priority and /lsfile, and whenever the
\* metadata comes, no two goroutines read or write the map at a time.
THEOREM OneInTheMap == Spec => []NoConcurrentMapAccess
<1>1. LockInv => NoConcurrentMapAccess
  BY DEF LockInv, NoConcurrentMapAccess, Goroutines
<1> QED BY <1>1, InitLock, LockStep, PTL DEF Spec

-----------------------------------------------------------------------------
(* chooseFile, and the priorities of pieces *)

\* A set of numbers has a least one.
LEMMA LeastNat ==
    ASSUME NEW T \in SUBSET Nat, T # {}
    PROVE  \E n \in T : \A m \in T : n <= m
<1> DEFINE less == OpToRel(<, Nat)
<1>1. IsWellFoundedOn(less, Nat)
  BY NatLessThanWellFounded
<1>2. \A x, y \in Nat : <<x, y>> \in less <=> x < y
  BY DEF OpToRel
<1> HIDE DEF less
<1>3. PICK x \in T : \A y \in T : <<y, x>> \notin less
  BY <1>1, WFMin
<1>4. ASSUME NEW y \in T PROVE x <= y
  <2>1. x \in Nat /\ y \in Nat
    OBVIOUS
  <2>2. ~(y < x)
    BY <1>2, <1>3, <2>1
  <2> QED BY <2>1, <2>2
<1> QED BY <1>4

\* f is bigger than g, or as big and before it.
Beats(f, g) == FileSize[g] < FileSize[f] \/ (FileSize[g] = FileSize[f] /\ f <= g)

\* Of the first n files there is always one that beats the others: were n the least
\* number without, the best of n - 1 files or the last would be the one.
LEMMA SomeFileBeats ==
    \E f \in Files : \A g \in Files : Beats(f, g)
<1> DEFINE Best(n) == \E f \in 0..(n - 1) : \A g \in 0..(n - 1) : Beats(f, g)
           T == {n \in 1..NumFiles : ~Best(n)}
<1>1. NumFiles \in Nat /\ NumFiles > 0 /\ Files = 0..(NumFiles - 1)
  BY BufferingAssumption DEF Files
<1>2. \A f \in Files : FileSize[f] \in Nat
  BY BufferingAssumption
<1>3. T = {}
  <2>1. SUFFICES ASSUME T # {} PROVE FALSE
    OBVIOUS
  <2>2. T \in SUBSET Nat
    OBVIOUS
  <2>3. PICK n \in T : \A m \in T : n <= m
    BY <2>1, <2>2, LeastNat
  <2>4. n \in Nat /\ n >= 1 /\ n <= NumFiles /\ ~Best(n)
    BY <1>1
  <2>5. n # 1
    <3>1. 0 \in Files
      BY <1>1
    <3>2. Beats(0, 0)
      BY <1>2, <3>1 DEF Beats
    <3>3. SUFFICES ASSUME n = 1 PROVE FALSE
      OBVIOUS
    <3>4. 0..(n - 1) = {0}
      BY <3>3
    <3> QED BY <2>4, <3>2, <3>4
  <2>6. Best(n - 1)
    <3>1. n - 1 \in 1..NumFiles /\ ~(n <= n - 1)
      BY <1>1, <2>4, <2>5
    <3>2. n - 1 \notin T
      BY <2>3, <3>1
    <3> QED BY <3>1, <3>2
  <2>7. PICK f \in 0..(n - 2) : \A g \in 0..(n - 2) : Beats(f, g)
    <3>1. (n - 1) - 1 = n - 2
      BY <2>4
    <3> QED BY <2>6, <3>1
  <2> DEFINE l == n - 1
  <2>8. /\ l \in Files /\ f \in Files /\ f \in 0..(n - 1) /\ l \in 0..(n - 1)
        /\ f \in Nat /\ l \in Nat /\ f < l
    BY <1>1, <2>4, <2>5, <2>7
  <2>9. \A g \in 0..(n - 1) : g \in 0..(n - 2) \/ g = l
    BY <2>4
  <2>10. \A g \in 0..(n - 2) : g \in Files /\ g \in Nat /\ g < l
    BY <1>1, <2>4
  <2> HIDE DEF l
  <2>11. CASE FileSize[l] > FileSize[f]
    <3>1. ASSUME NEW g \in 0..(n - 1) PROVE Beats(l, g)
      <4>1. CASE g = l
        BY <1>2, <2>8, <4>1 DEF Beats
      <4>2. CASE g \in 0..(n - 2)
        <5>1. FileSize[g] \in Nat /\ FileSize[l] \in Nat /\ FileSize[f] \in Nat
          BY <1>2, <2>8, <2>10, <4>2
        <5>2. FileSize[g] <= FileSize[f]
          BY <2>7, <4>2, <5>1 DEF Beats
        <5> QED BY <2>11, <5>1, <5>2 DEF Beats
      <4> QED BY <2>9, <4>1, <4>2
    <3> QED BY <2>4, <2>8, <3>1
  <2>12. CASE ~(FileSize[l] > FileSize[f])
    <3>1. FileSize[l] \in Nat /\ FileSize[f] \in Nat
      BY <1>2, <2>8
    <3>2. Beats(f, l)
      BY <2>8, <2>12, <3>1 DEF Beats
    <3>3. \A g \in 0..(n - 1) : Beats(f, g)
      BY <2>7, <2>9, <3>2
    <3> QED BY <2>4, <2>8, <3>3
  <2> QED BY <2>11, <2>12
<1>4. Best(NumFiles)
  <2>1. NumFiles \in 1..NumFiles
    BY <1>1
  <2> HIDE DEF Best
  <2> QED BY <1>3, <2>1
<1> QED BY <1>1, <1>4

\* chooseFile returns a file of the torrent.
LEMMA ChoosesAFile == Biggest \in Files /\ ChooseFile \in Files
<1>1. Biggest \in Files
  BY SomeFileBeats DEF Biggest, Beats
<1> QED BY <1>1 DEF ChooseFile, Candidates

\* The highest of some priorities.
LEMMA HighestIs ==
    ASSUME NEW S \in SUBSET Priorities, S # {}
    PROVE  Highest(S) \in S /\ \A m \in S : m <= Highest(S)
<1> DEFINE T == {7 - m : m \in S}
<1>1. T \in SUBSET Nat /\ T # {}
  <2>1. \A m \in S : 7 - m \in Nat
    BY DEF Priorities
  <2> QED BY <2>1
<1>2. PICK t \in T : \A u \in T : t <= u
  BY <1>1, LeastNat
<1>3. PICK n \in S : t = 7 - n
  OBVIOUS
<1>4. ASSUME NEW m \in S PROVE m <= n
  <2>1. 7 - n <= 7 - m
    BY <1>2, <1>3
  <2> QED BY <2>1 DEF Priorities
<1>5. n \in S /\ \A m \in S : m <= n
  BY <1>4
<1> QED BY <1>5 DEF Highest

\* A piece of a wanted file is wanted as much, or more.
LEMMA PiecesFollow ==
    ASSUME NEW priorities \in [Files -> Priorities]
    PROVE  /\ FromFiles(priorities) \in [Pieces -> Priorities]
           /\ \A f \in Files : \A q \in PiecesOf(FileOffset[f], FileSize[f]) :
                priorities[f] <= FromFiles(priorities)[q]
<1> DEFINE of(q) == {g \in Files : q \in PiecesOf(FileOffset[g], FileSize[g])}
           S(q) == {0} \cup {priorities[f] : f \in of(q)}
<1>1. ASSUME NEW q \in Pieces
      PROVE  S(q) \in SUBSET Priorities /\ S(q) # {}
  BY DEF Priorities
<1>2. ASSUME NEW q \in Pieces
      PROVE  Highest(S(q)) \in Priorities /\ \A m \in S(q) : m <= Highest(S(q))
  <2> HIDE DEF S
  <2>1. Highest(S(q)) \in S(q) /\ \A m \in S(q) : m <= Highest(S(q))
    BY <1>1, HighestIs
  <2> QED BY <1>1, <2>1
<1>3. FromFiles(priorities) = [q \in Pieces |-> Highest(S(q))]
  BY DEF FromFiles
<1>4. FromFiles(priorities) \in [Pieces -> Priorities]
  BY <1>2, <1>3
<1>5. ASSUME NEW f \in Files, NEW q \in PiecesOf(FileOffset[f], FileSize[f])
      PROVE  priorities[f] <= FromFiles(priorities)[q]
  <2>1. q \in Pieces
    BY DEF PiecesOf
  <2>2. priorities[f] \in S(q)
    BY <2>1
  <2> HIDE DEF S
  <2> QED BY <1>2, <1>3, <2>1, <2>2
<1> QED BY <1>4, <1>5

-----------------------------------------------------------------------------
(* Types *)

\* A planner is at a planner's point, a watcher at a watcher's.
PcOK ==
    /\ pc \in [Goroutines -> PlannerPoints \cup WatcherPoints]
    /\ \A x \in Planners : pc[x] \in PlannerPoints
    /\ \A w \in Watchers : pc[w] \in WatcherPoints

\* What /priority does with its index and priority it does after it has looked at them.
Asked ==
    \A x \in Planners : pc[x] \in {"select", "file"} =>
        mine[x].index \in Files /\ mine[x].priority \in Priorities

\* The size that prioritizepieces has read is that of some file.
Sizes == \A x \in Planners : mine[x].size <= NumPieces * PieceLength

TypeInv == TypeOK /\ PcOK /\ Asked /\ Sizes

MineSet == [index: Files \cup Gets, priority: Priorities \cup {AllFiles},
            offset: Nat, size: Nat, cur: Nat]

\* No goroutine is of both kinds, and the loop is no request.
LEMMA PlannersDoNotWatch ==
    /\ Planners \cap Watchers = {} /\ Loop \in Planners /\ Loop \notin Setters
    /\ Setters \subseteq Planners
  BY BufferingAssumption DEF Planners, Loop

\* A planner goes from one of its points to another.
LEMMA PlannerGoes ==
    ASSUME PcOK, NEW x \in Planners, NEW to \in PlannerPoints, Goto(x, to)
    PROVE  PcOK'
<1>1. x \in Goroutines /\ x \notin Watchers
  BY PlannersDoNotWatch DEF Goroutines
<1>2. pc' \in [Goroutines -> PlannerPoints \cup WatcherPoints]
  BY <1>1 DEF PcOK, Goto
<1>3. \A y \in Goroutines : pc'[y] = IF y = x THEN to ELSE pc[y]
  BY <1>1 DEF PcOK, Goto
<1> QED BY <1>1, <1>2, <1>3 DEF PcOK, Goroutines

\* A watcher goes from one of its points to another.
LEMMA WatcherGoes ==
    ASSUME PcOK, NEW w \in Watchers, NEW to \in WatcherPoints, Goto(w, to)
    PROVE  PcOK'
<1>1. w \in Goroutines /\ w \notin Planners
  BY PlannersDoNotWatch DEF Goroutines
<1>2. pc' \in [Goroutines -> PlannerPoints \cup WatcherPoints]
  BY <1>1 DEF PcOK, Goto
<1>3. \A y \in Goroutines : pc'[y] = IF y = w THEN to ELSE pc[y]
  BY <1>1 DEF PcOK, Goto
<1> QED BY <1>1, <1>2, <1>3 DEF PcOK, Goroutines

\* A step that does not end before either of the two points of Asked, and changes
\* nobody else's local variables.
LEMMA AskedKept ==
    ASSUME PcOK, Asked, NEW x \in Goroutines, NEW to, Goto(x, to), to \notin {"select", "file"},
           \A y \in Planners : y # x => mine'[y] = mine[y]
    PROVE  Asked'
<1>1. \A y \in Goroutines : pc'[y] = IF y = x THEN to ELSE pc[y]
  BY DEF PcOK, Goto
<1>2. ASSUME NEW y \in Planners, pc'[y] \in {"select", "file"}
      PROVE  mine'[y].index \in Files /\ mine'[y].priority \in Priorities
  <2>1. y \in Goroutines
    BY DEF Goroutines
  <2>2. y # x /\ pc[y] \in {"select", "file"}
    BY <1>1, <1>2, <2>1
  <2> QED BY <2>2 DEF Asked
<1> QED BY <1>2 DEF Asked

\* The numbers of a file.
LEMMA FileNumbers ==
    ASSUME NEW f \in Files
    PROVE  /\ FileOffset[f] \in Nat /\ FileSize[f] \in Nat /\ FileSize[f] > 0
           /\ Fits(FileOffset[f], FileSize[f])
           /\ FileSize[f] <= NumPieces * PieceLength
<1>1. /\ FileOffset[f] \in Nat /\ FileSize[f] \in Nat \ {0}
      /\ Fits(FileOffset[f], FileSize[f])
  BY BufferingAssumption
<1> QED BY <1>1, FittingSize

\* What prioritizepieces puts into the map and into the vector, for whatever offset
\* and size it has read.
LEMMA PlanTypes ==
    ASSUME NEW offset \in Nat, NEW size \in Nat, size <= NumPieces * PieceLength
    PROVE  /\ HeadKeys(offset, size) \subseteq Nat /\ TailKeys(offset, size) \subseteq Nat
           /\ [q \in Pieces |-> Vector(offset, size)[q]] \in [Pieces -> Priorities]
<1>1. /\ StartPiece(offset) \in Nat
      /\ HeadStop(offset, size) \in Nat /\ MiddleStop(offset, size) \in Nat
      /\ TailStop(offset, size) \in Nat /\ VectorLength(offset, size) \in Nat
      /\ NumPieces <= VectorLength(offset, size)
  BY Stops
<1>2. HeadKeys(offset, size) \subseteq Nat /\ TailKeys(offset, size) \subseteq Nat
  BY <1>1 DEF HeadKeys, TailKeys
<1>3. ASSUME NEW q \in Pieces PROVE Vector(offset, size)[q] \in Priorities
  <2>1. q \in 0..(VectorLength(offset, size) - 1)
    BY <1>1, PlanAssumption DEF Pieces
  <2>2. Vector(offset, size)[q] \in {0, 1, 7}
    BY <2>1 DEF Vector
  <2> QED BY <2>2 DEF Priorities
<1> QED BY <1>2, <1>3

\* A map of pieces to TRUE or FALSE.
MapOK(m) == DOMAIN m \subseteq Nat /\ \A q \in DOMAIN m : m[q] \in BOOLEAN

\* A map with keys set to zero is a map of pieces.
LEMMA ZeroedOK ==
    ASSUME MapOK(bufferPiecesProgress), NEW keys \in SUBSET Nat
    PROVE  MapOK(Zeroed(keys))
<1> DEFINE b == bufferPiecesProgress
<1>1. DOMAIN Zeroed(keys) = DOMAIN b \cup keys
  BY DEF Zeroed
<1>2. ASSUME NEW q \in DOMAIN b \cup keys PROVE Zeroed(keys)[q] \in BOOLEAN
  <2>1. Zeroed(keys)[q] = IF q \in keys THEN FALSE ELSE b[q]
    BY DEF Zeroed
  <2>2. CASE q \in keys
    BY <2>1, <2>2
  <2>3. CASE q \notin keys
    <3>1. b[q] \in BOOLEAN
      BY <1>2, <2>3 DEF MapOK
    <3> QED BY <2>1, <2>3, <3>1
  <2> QED BY <2>2, <2>3
<1> QED BY <1>1, <1>2 DEF MapOK

\* So is a map just made.
LEMMA NothingOK == MapOK(Nothing)
  BY DEF MapOK, Nothing

\* The initial values have their types.
LEMMA InitTypes == Init => TypeInv
<1> SUFFICES ASSUME Init PROVE TypeInv
  OBVIOUS
<1> USE DEF Init
<1>1. 0 \in Files /\ 4 \in Priorities /\ 0 \in Priorities
  BY BufferingAssumption DEF Files, Priorities
<1>2. MapOK(bufferPiecesProgress)
  BY NothingOK
<1>3. PcOK
  BY DEF PcOK, Goroutines, PlannerPoints, WatcherPoints
<1>4. Asked
  BY DEF Asked
<1>5. Sizes
  BY PlanAssumption DEF Sizes
<1>6. mine \in [Planners -> MineSet]
  BY <1>1 DEF MineSet
<1>7. report \in [Watchers -> [full: BOOLEAN, file: Files]]
  BY <1>1
<1> QED BY <1>1, <1>2, <1>3, <1>4, <1>5, <1>6, <1>7 DEF TypeInv, TypeOK, PcOK, MapOK, MineSet

\* The parts of TypeOK, as the steps need them.
LEMMA TypeParts ==
    TypeOK <=> /\ torrentInfo \in BOOLEAN
               /\ fileEntryIdx \in Files
               /\ MapOK(bufferPiecesProgress)
               /\ lock \in {"free"} \cup Goroutines
               /\ filePrio \in [Files -> Priorities]
               /\ prio \in [Pieces -> Priorities]
               /\ piece \in [Pieces -> {"missing", "blocks", "have"}]
               /\ corrupt \subseteq Pieces
               /\ \A x \in Planners : pc[x] \in PlannerPoints
               /\ \A w \in Watchers : pc[w] \in WatcherPoints
               /\ mine \in [Planners -> MineSet]
               /\ report \in [Watchers -> [full: BOOLEAN, file: Files]]
  BY DEF TypeOK, MapOK, Goroutines, MineSet

\* onMetadataReceived.
LEMMA MetadataTypes ==
    ASSUME TypeInv, OnMetadataReceived
    PROVE  TypeInv'
<1> USE DEF TypeInv
<1>0. Loop \in Planners /\ Loop \in Goroutines
  BY PlannersDoNotWatch DEF Goroutines
<1>1. CASE MetadataReceived
  <2> USE <1>1 DEF MetadataReceived
  <2>1. Goto(Loop, "choose") /\ UNCHANGED mine
    OBVIOUS
  <2>2. PcOK'
    BY <1>0, <2>1, PlannerGoes DEF PlannerPoints
  <2>3. Asked'
    BY <1>0, <2>1, AskedKept
  <2>4. Sizes'
    BY DEF Sizes
  <2> QED BY <2>2, <2>3, <2>4 DEF TypeOK, PcOK, libVars
<1>2. CASE SelectFirst
  <2> USE <1>2 DEF SelectFirst
  <2>1. Goto(Loop, "files") /\ UNCHANGED mine
    OBVIOUS
  <2>2. PcOK'
    BY <1>0, <2>1, PlannerGoes DEF PlannerPoints
  <2>3. Asked'
    BY <1>0, <2>1, AskedKept
  <2>4. Sizes'
    BY DEF Sizes
  <2>5. fileEntryIdx' \in Files
    BY ChoosesAFile
  <2> QED BY <2>2, <2>3, <2>4, <2>5 DEF TypeOK, PcOK, libVars
<1>3. CASE PrioritizeFiles
  <2> DEFINE priorities ==
        [f \in Files |-> IF FileIndex = AllFiles THEN 4
                         ELSE IF FileIndex # -1 /\ f = fileEntryIdx THEN 7 ELSE 0]
  <2> USE <1>3 DEF PrioritizeFiles
  <2>1. PICK to \in {"done", "offset"} : Goto(Loop, to)
    OBVIOUS
  <2>2. UNCHANGED mine
    OBVIOUS
  <2>3. PcOK'
    BY <1>0, <2>1, PlannerGoes DEF PlannerPoints
  <2>4. Asked'
    BY <1>0, <2>1, <2>2, AskedKept
  <2>5. Sizes'
    BY DEF Sizes
  <2>6. priorities \in [Files -> Priorities]
    BY DEF Priorities
  <2>7. filePrio' = priorities /\ prio' = FromFiles(priorities)
    BY DEF SetFilePriorities
  <2> HIDE DEF priorities
  <2>8. filePrio' \in [Files -> Priorities] /\ prio' \in [Pieces -> Priorities]
    BY <2>6, <2>7, PiecesFollow
  <2> QED BY <2>3, <2>4, <2>5, <2>8 DEF TypeOK, PcOK
<1> QED BY <1>1, <1>2, <1>3 DEF OnMetadataReceived

\* Taking the lock, by planner or watcher.
LEMMA LockTypes ==
    ASSUME TypeInv, NEW x \in Goroutines, Lock(x)
    PROVE  TypeInv'
<1> USE DEF TypeInv, Lock
<1> DEFINE to == IF x \in Watchers THEN "length" ELSE "head"
<1>1. Goto(x, to) /\ UNCHANGED mine /\ lock' = x
  OBVIOUS
<1>2. PcOK'
  <2>1. CASE x \in Watchers
    BY <1>1, <2>1, WatcherGoes DEF WatcherPoints
  <2>2. CASE x \notin Watchers
    BY <1>1, <2>2, PlannerGoes DEF PlannerPoints, Goroutines
  <2> QED BY <2>1, <2>2
<1>3. Asked'
  BY <1>1, AskedKept
<1>4. Sizes'
  BY DEF Sizes
<1> QED BY <1>1, <1>2, <1>3, <1>4 DEF TypeOK, PcOK, libVars, Goroutines

\* prioritizepieces.
LEMMA PlanStepTypes ==
    ASSUME TypeInv, NEW x \in Planners, Prioritizepieces(x)
    PROVE  TypeInv'
<1> USE DEF TypeInv
<1>0. x \in Goroutines /\ mine \in [Planners -> MineSet] /\ fileEntryIdx \in Files
  BY TypeParts DEF Goroutines
<1>a. MapOK(bufferPiecesProgress) /\ mine[x].offset \in Nat /\ mine[x].size \in Nat
      /\ mine[x].size <= NumPieces * PieceLength
  BY <1>0, TypeParts DEF MineSet, Sizes
<1>1. CASE ReadOffset(x)
  <2> USE <1>1 DEF ReadOffset
  <2>1. mine' = [mine EXCEPT ![x].offset = FileOffset[fileEntryIdx]] /\ Goto(x, "size")
    OBVIOUS
  <2>2. /\ mine' \in [Planners -> MineSet]
        /\ \A y \in Planners : mine'[y].size = mine[y].size
        /\ \A y \in Planners : y # x => mine'[y] = mine[y]
    BY <1>0, <2>1, FileNumbers DEF MineSet
  <2>3. PcOK'
    BY <2>1, PlannerGoes DEF PlannerPoints
  <2>4. Asked'
    BY <1>0, <2>1, <2>2, AskedKept
  <2>5. Sizes'
    BY <2>2 DEF Sizes
  <2> QED BY <2>2, <2>3, <2>4, <2>5 DEF TypeOK, PcOK, libVars, MineSet
<1>2. CASE ReadSize(x)
  <2> USE <1>2 DEF ReadSize
  <2>1. mine' = [mine EXCEPT ![x].size = FileSize[fileEntryIdx]] /\ Goto(x, "make")
    OBVIOUS
  <2>2. mine' \in [Planners -> MineSet]
        /\ \A y \in Planners : y # x => mine'[y] = mine[y]
    BY <1>0, <2>1, FileNumbers DEF MineSet
  <2>3. mine'[x].size = FileSize[fileEntryIdx]
    BY <1>0, <2>1 DEF MineSet
  <2>4. PcOK'
    BY <2>1, PlannerGoes DEF PlannerPoints
  <2>5. Asked'
    BY <1>0, <2>1, <2>2, AskedKept
  <2>6. Sizes'
    BY <1>0, <2>2, <2>3, FileNumbers DEF Sizes
  <2> QED BY <2>2, <2>4, <2>5, <2>6 DEF TypeOK, PcOK, libVars, MineSet
<1>3. CASE MakeMap(x)
  <2> USE <1>3 DEF MakeMap
  <2>1. Goto(x, "lock") /\ UNCHANGED mine /\ bufferPiecesProgress' = Nothing
    OBVIOUS
  <2>2. PcOK'
    BY <2>1, PlannerGoes DEF PlannerPoints
  <2>3. Asked'
    BY <1>0, <2>1, AskedKept
  <2>4. Sizes'
    BY DEF Sizes
  <2>5. MapOK(bufferPiecesProgress')
    BY <2>1, NothingOK
  <2> QED BY <2>2, <2>3, <2>4, <2>5 DEF TypeOK, PcOK, libVars, MapOK
<1>4. CASE Lock(x)
  BY <1>0, <1>4, LockTypes
<1>5. CASE FillHead(x)
  <2> USE <1>5 DEF FillHead
  <2>1. Goto(x, "tail") /\ UNCHANGED mine
        /\ bufferPiecesProgress' = Zeroed(HeadKeys(mine[x].offset, mine[x].size))
    OBVIOUS
  <2>2. PcOK'
    BY <2>1, PlannerGoes DEF PlannerPoints
  <2>3. Asked'
    BY <1>0, <2>1, AskedKept
  <2>4. Sizes'
    BY DEF Sizes
  <2>5. MapOK(bufferPiecesProgress')
    BY <1>a, <2>1, PlanTypes, ZeroedOK
  <2> QED BY <2>2, <2>3, <2>4, <2>5 DEF TypeOK, PcOK, libVars, MapOK
<1>6. CASE FillTail(x)
  <2> USE <1>6 DEF FillTail
  <2>1. Goto(x, "vector") /\ UNCHANGED mine
        /\ bufferPiecesProgress' = Zeroed(TailKeys(mine[x].offset, mine[x].size))
    OBVIOUS
  <2>2. PcOK'
    BY <2>1, PlannerGoes DEF PlannerPoints
  <2>3. Asked'
    BY <1>0, <2>1, AskedKept
  <2>4. Sizes'
    BY DEF Sizes
  <2>5. MapOK(bufferPiecesProgress')
    BY <1>a, <2>1, PlanTypes, ZeroedOK
  <2> QED BY <2>2, <2>3, <2>4, <2>5 DEF TypeOK, PcOK, libVars, MapOK
<1>7. CASE PrioritizePieces(x)
  <2> USE <1>7 DEF PrioritizePieces
  <2>1. Goto(x, "done") /\ UNCHANGED mine
        /\ prio' = [q \in Pieces |-> Vector(mine[x].offset, mine[x].size)[q]]
    OBVIOUS
  <2>2. PcOK'
    BY <2>1, PlannerGoes DEF PlannerPoints
  <2>3. Asked'
    BY <1>0, <2>1, AskedKept
  <2>4. Sizes'
    BY DEF Sizes
  <2>5. prio' \in [Pieces -> Priorities]
    BY <1>a, <2>1, PlanTypes
  <2> QED BY <2>2, <2>3, <2>4, <2>5 DEF TypeOK, PcOK
<1> QED BY <1>1, <1>2, <1>3, <1>4, <1>5, <1>6, <1>7 DEF Prioritizepieces

\* A planner's step that leaves the local variables of all as they are.
LEMMA PlannerStepTypes ==
    ASSUME TypeInv, NEW x \in Planners,
           NEW to \in PlannerPoints, to \notin {"select", "file"}, Goto(x, to),
           UNCHANGED <<torrentInfo, bufferPiecesProgress, lock, piece, corrupt, mine, report>>,
           fileEntryIdx' \in Files,
           filePrio' \in [Files -> Priorities], prio' \in [Pieces -> Priorities]
    PROVE  TypeInv'
<1> USE DEF TypeInv
<1>1. x \in Goroutines
  BY DEF Goroutines
<1>2. PcOK'
  BY PlannerGoes
<1>3. Asked'
  BY <1>1, AskedKept
<1>4. Sizes'
  BY DEF Sizes
<1> QED BY <1>2, <1>3, <1>4 DEF TypeOK, PcOK

\* A planner's step that changes its own local variables, and maybe priorities.
LEMMA PlannerSetsTypes ==
    ASSUME TypeInv, NEW x \in Planners,
           NEW to \in PlannerPoints, to \notin {"select", "file"}, Goto(x, to),
           UNCHANGED <<torrentInfo, fileEntryIdx, bufferPiecesProgress, lock, piece, corrupt,
                       report>>,
           filePrio' \in [Files -> Priorities], prio' \in [Pieces -> Priorities],
           mine' \in [Planners -> MineSet], mine'[x].size <= NumPieces * PieceLength,
           \A y \in Planners : y # x => mine'[y] = mine[y]
    PROVE  TypeInv'
<1> USE DEF TypeInv
<1>1. x \in Goroutines
  BY DEF Goroutines
<1>2. PcOK'
  BY PlannerGoes
<1>3. Asked'
  BY <1>1, AskedKept
<1>4. Sizes'
  BY DEF Sizes
<1> QED BY <1>2, <1>3, <1>4 DEF TypeOK, PcOK, MineSet

\* prioHandler.
LEMMA PrioStepTypes ==
    ASSUME TypeInv, NEW r \in Setters, PrioHandler(r)
    PROVE  TypeInv'
<1>0. /\ r \in Planners /\ r \in Goroutines
      /\ mine \in [Planners -> MineSet] /\ fileEntryIdx \in Files
      /\ filePrio \in [Files -> Priorities] /\ prio \in [Pieces -> Priorities]
      /\ mine[r].size <= NumPieces * PieceLength
  BY PlannersDoNotWatch, TypeParts DEF TypeInv, Goroutines, Sizes
<1>1. CASE AskPriority(r)
  <2> USE <1>1 DEF AskPriority
  <2>1. PICK s \in Settings :
           /\ mine' = [mine EXCEPT ![r] = [@ EXCEPT !.index = s[1], !.priority = s[2]]]
           /\ Goto(r, IF s[1] = fileEntryIdx /\ filePrio[s[1]] = s[2] THEN "done"
                      ELSE IF s[2] = AllFiles THEN "all" ELSE "select")
    OBVIOUS
  <2>2. s[1] \in Files /\ s[2] \in Priorities \cup {AllFiles}
    BY BufferingAssumption
  <2> DEFINE new == [mine[r] EXCEPT !.index = s[1], !.priority = s[2]]
  <2>a. mine' = [mine EXCEPT ![r] = new]
    BY <2>1
  <2>c. mine[r] \in MineSet
    BY <1>0
  <2>d. s[1] \in Files \cup Gets
    BY <2>2
  <2>e. new \in MineSet
    BY ONLY <2>2, <2>c, <2>d DEF MineSet, new
  <2>b. new \in MineSet /\ new.size = mine[r].size /\ new.index = s[1] /\ new.priority = s[2]
    BY ONLY <2>c, <2>e DEF MineSet, new
  <2> HIDE DEF new
  <2>3. /\ mine' \in [Planners -> MineSet]
        /\ \A y \in Planners : mine'[y].size = mine[y].size
        /\ \A y \in Planners : y # r => mine'[y] = mine[y]
        /\ mine'[r].index = s[1] /\ mine'[r].priority = s[2]
    BY <1>0, <2>a, <2>b
  <2>4. PICK to \in {"done", "all", "select"} :
           /\ Goto(r, to)
           /\ to = "select" => s[2] # AllFiles
    BY <2>1
  <2>5. PcOK'
    BY <1>0, <2>4, PlannerGoes DEF TypeInv, PlannerPoints
  <2>6. Asked'
    <3>1. CASE to # "select"
      BY <1>0, <2>3, <2>4, <3>1, AskedKept DEF TypeInv
    <3>2. CASE to = "select"
      <4>1. \A y \in Goroutines : pc'[y] = IF y = r THEN to ELSE pc[y]
        BY <1>0, <2>4 DEF TypeInv, PcOK, Goto
      <4>2. mine'[r].index \in Files /\ mine'[r].priority \in Priorities
        BY <2>2, <2>3, <2>4, <3>2
      <4> QED BY <2>3, <4>1, <4>2 DEF TypeInv, Asked, Goroutines
    <3> QED BY <3>1, <3>2
  <2>7. Sizes'
    BY <2>3 DEF TypeInv, Sizes
  <2> QED BY <2>3, <2>5, <2>6, <2>7 DEF TypeInv, TypeOK, PcOK, libVars, MineSet
<1>2. CASE WantAll(r)
  <2> USE <1>2 DEF WantAll
  <2> DEFINE priorities == [f \in Files |-> 4]
  <2>1. priorities \in [Files -> Priorities]
    BY DEF Priorities
  <2>2. filePrio' = priorities /\ prio' = FromFiles(priorities)
    BY DEF SetFilePriorities
  <2> HIDE DEF priorities
  <2>3. filePrio' \in [Files -> Priorities] /\ prio' \in [Pieces -> Priorities]
    BY <2>1, <2>2, PiecesFollow
  <2> QED BY <1>0, <2>3, PlannerStepTypes DEF PlannerPoints
<1>3. CASE Select(r)
  <2> USE <1>3 DEF Select
  <2>1. pc[r] = "select" /\ Goto(r, "file") /\ UNCHANGED mine /\ fileEntryIdx' = mine[r].index
    BY DEF At
  <2>2. mine[r].index \in Files /\ mine[r].priority \in Priorities
    BY <1>0, <2>1 DEF TypeInv, Asked
  <2>3. PcOK'
    BY <1>0, <2>1, PlannerGoes DEF TypeInv, PlannerPoints
  <2>4. Asked'
    <3>1. \A y \in Goroutines : pc'[y] = IF y = r THEN "file" ELSE pc[y]
      BY <1>0, <2>1 DEF TypeInv, PcOK, Goto
    <3> QED BY <2>1, <2>2, <3>1 DEF TypeInv, Asked, Goroutines
  <2>5. Sizes'
    BY <2>1 DEF TypeInv, Sizes
  <2> QED BY <2>1, <2>2, <2>3, <2>4, <2>5 DEF TypeInv, TypeOK, PcOK, libVars
<1>4. CASE PrioritizeFile(r)
  <2> USE <1>4 DEF PrioritizeFile
  <2> DEFINE priorities == [filePrio EXCEPT ![mine[r].index] = mine[r].priority]
  <2>1. pc[r] = "file" /\ filePrio' = priorities /\ prio' = FromFiles(priorities)
    BY DEF At, SetFilePriorities
  <2>2. priorities \in [Files -> Priorities]
    BY <1>0, <2>1 DEF TypeInv, Asked
  <2>3. PICK to \in {"offset", "getpieces"} : Goto(r, to)
    OBVIOUS
  <2> HIDE DEF priorities
  <2>4. filePrio' \in [Files -> Priorities] /\ prio' \in [Pieces -> Priorities]
    BY <2>1, <2>2, PiecesFollow
  <2> QED BY <1>0, <2>3, <2>4, PlannerStepTypes DEF PlannerPoints
<1>5. CASE GetFilePieces(r)
  <2> USE <1>5 DEF GetFilePieces
  <2> DEFINE new == [mine[r] EXCEPT !.offset = FileOffset[fileEntryIdx],
                                    !.size = FileSize[fileEntryIdx], !.cur = 0]
  <2>1. mine' = [mine EXCEPT ![r] = new]
    OBVIOUS
  <2>a. new \in MineSet /\ new.size = FileSize[fileEntryIdx]
    BY <1>0, FileNumbers DEF MineSet
  <2> HIDE DEF new
  <2>2. /\ mine' \in [Planners -> MineSet]
        /\ \A y \in Planners : y # r => mine'[y] = mine[y]
        /\ mine'[r].size <= NumPieces * PieceLength
    BY <1>0, <2>1, <2>a, FileNumbers
  <2>3. Goto(r, "small") /\ UNCHANGED <<filePrio, prio>>
    BY DEF libVars
  <2> QED BY <1>0, <2>2, <2>3, PlannerSetsTypes DEF PlannerPoints, libVars
<1>6. CASE SmallFile(r)
  <2> USE <1>6 DEF SmallFile
  <2> DEFINE cur == mine[r].cur
             new == IF cur \in StartPiece(mine[r].offset)..EndPiece(mine[r].offset, mine[r].size)
                    THEN 7 ELSE IF prio[cur] > 0 THEN 1 ELSE 0
  <2>1. mine' = [mine EXCEPT ![r].cur = cur + 1] /\ cur \in Nat
    BY <1>0 DEF MineSet
  <2>2. /\ mine' \in [Planners -> MineSet]
        /\ \A y \in Planners : y # r => mine'[y] = mine[y]
        /\ mine'[r].size <= NumPieces * PieceLength
    <3> DEFINE my == [mine[r] EXCEPT !.cur = cur + 1]
    <3>1. my \in MineSet /\ my.size = mine[r].size
      BY <1>0, <2>1 DEF MineSet
    <3>2. mine' = [mine EXCEPT ![r] = my]
      BY <2>1
    <3> HIDE DEF my
    <3> QED BY <1>0, <3>1, <3>2
  <2>3. PICK to \in {"done", "small"} : Goto(r, to)
    OBVIOUS
  <2>4. new \in {0, 1, 7}
    OBVIOUS
  <2>5. prio' = [prio EXCEPT ![cur] = new]
    OBVIOUS
  <2> HIDE DEF new
  <2>a. new \in Priorities
    BY <2>4 DEF Priorities
  <2>6. prio' \in [Pieces -> Priorities]
    BY <1>0, <2>5, <2>a
  <2> QED BY <1>0, <2>2, <2>3, <2>6, PlannerSetsTypes DEF PlannerPoints
<1> QED BY <1>1, <1>2, <1>3, <1>4, <1>5, <1>6 DEF PrioHandler

\* getHandler.
LEMMA GetStepTypes ==
    ASSUME TypeInv, NEW r \in Setters, GetHandler(r)
    PROVE  TypeInv'
<1>0. /\ r \in Planners /\ mine \in [Planners -> MineSet]
      /\ filePrio \in [Files -> Priorities] /\ prio \in [Pieces -> Priorities]
      /\ mine[r].size <= NumPieces * PieceLength
  BY PlannersDoNotWatch, TypeParts DEF TypeInv, Sizes
<1>1. CASE AskGet(r)
  <2> USE <1>1 DEF AskGet
  <2>b. PICK index \in Gets : mine' = [mine EXCEPT ![r] = [@ EXCEPT !.index = index, !.cur = 0]]
    OBVIOUS
  <2> DEFINE new == [mine[r] EXCEPT !.index = index, !.cur = 0]
  <2>1. mine' = [mine EXCEPT ![r] = new]
    BY <2>b
  <2>c. mine[r] \in MineSet /\ index \in Files \cup Gets
    BY <1>0
  <2>d. new \in MineSet
    BY ONLY <2>c DEF MineSet, new
  <2>a. new \in MineSet /\ new.size = mine[r].size
    BY ONLY <2>c, <2>d DEF MineSet, new
  <2> HIDE DEF new
  <2>2. /\ mine' \in [Planners -> MineSet]
        /\ \A y \in Planners : y # r => mine'[y] = mine[y]
        /\ mine'[r].size <= NumPieces * PieceLength
    BY <1>0, <2>1, <2>a
  <2>3. Goto(r, "get") /\ UNCHANGED <<filePrio, prio>>
    BY DEF libVars
  <2> QED BY <1>0, <2>2, <2>3, PlannerSetsTypes DEF PlannerPoints, libVars
<1>2. CASE GetFile(r)
  <2> USE <1>2 DEF GetFile
  <2> DEFINE cur == mine[r].cur
             new == IF cur = mine[r].index THEN 1 ELSE 0
             priorities == [filePrio EXCEPT ![cur] = new]
  <2>1. mine' = [mine EXCEPT ![r].cur = cur + 1] /\ cur \in Nat
    BY <1>0 DEF MineSet
  <2>2. /\ mine' \in [Planners -> MineSet]
        /\ \A y \in Planners : y # r => mine'[y] = mine[y]
        /\ mine'[r].size <= NumPieces * PieceLength
    BY <1>0, <2>1 DEF MineSet
  <2>3. PICK to \in {"done", "get"} : Goto(r, to)
    OBVIOUS
  <2>5. filePrio' = priorities /\ prio' = FromFiles(priorities)
    BY DEF SetFilePriorities
  <2>a. new \in Priorities
    BY DEF Priorities
  <2> HIDE DEF new
  <2>4. priorities \in [Files -> Priorities]
    BY <1>0, <2>a
  <2> HIDE DEF priorities
  <2>6. filePrio' \in [Files -> Priorities] /\ prio' \in [Pieces -> Priorities]
    BY <2>4, <2>5, PiecesFollow
  <2> QED BY <1>0, <2>2, <2>3, <2>6, PlannerSetsTypes DEF PlannerPoints
<1> QED BY <1>1, <1>2 DEF GetHandler

\* A watcher's step that leaves the map, the lock and libtorrent alone.
LEMMA WatcherStepTypes ==
    ASSUME TypeInv, NEW w \in Watchers, NEW to \in WatcherPoints, Goto(w, to),
           UNCHANGED <<torrentInfo, fileEntryIdx, libVars, mine>>,
           MapOK(bufferPiecesProgress'), lock' \in {"free", lock},
           report' \in [Watchers -> [full: BOOLEAN, file: Files]]
    PROVE  TypeInv'
<1> USE DEF TypeInv
<1>1. w \in Goroutines /\ to \notin {"select", "file"}
  BY DEF Goroutines, WatcherPoints
<1>2. PcOK'
  BY WatcherGoes
<1>3. Asked'
  BY <1>1, AskedKept
<1>4. Sizes'
  BY DEF Sizes
<1> QED BY <1>2, <1>3, <1>4 DEF TypeOK, PcOK, MapOK, libVars

\* fileHandler.
LEMMA FileStepTypes ==
    ASSUME TypeInv, NEW w \in Watchers, FileHandler(w)
    PROVE  TypeInv'
<1>0. /\ w \in Goroutines
      /\ MapOK(bufferPiecesProgress) /\ fileEntryIdx \in Files
      /\ report \in [Watchers -> [full: BOOLEAN, file: Files]]
  BY TypeParts DEF TypeInv, Goroutines
<1>1. CASE AskFile(w)
  <2> USE <1>1 DEF AskFile
  <2>1. PICK to \in {"name", "lock"} : Goto(w, to)
    OBVIOUS
  <2>2. 0 \in Files
    BY BufferingAssumption DEF Files
  <2>3. report' \in [Watchers -> [full: BOOLEAN, file: Files]]
    BY <1>0, <2>2
  <2> QED BY <1>0, <2>1, <2>3, WatcherStepTypes DEF WatcherPoints
<1>2. CASE Lock(w)
  BY <1>0, <1>2, LockTypes
<1>3. CASE ReadLength(w)
  <2> USE <1>3 DEF ReadLength
  <2>1. PICK to \in {"unlock", "progress"} : Goto(w, to)
    OBVIOUS
  <2> QED BY <1>0, <2>1, WatcherStepTypes DEF WatcherPoints
<1>4. CASE PiecesProgress(w)
  <2> USE <1>4 DEF PiecesProgress
  <2> DEFINE b == bufferPiecesProgress
             Now(q) == b[q] \/ (q \in Pieces /\ piece[q] # "missing")
  <2>1. b' = [q \in DOMAIN b |-> Now(q)]
    OBVIOUS
  <2>2. DOMAIN b \subseteq Nat /\ \A q \in DOMAIN b : b[q] \in BOOLEAN
    BY <1>0 DEF MapOK
  <2>3. \A q \in DOMAIN b : Now(q) \in BOOLEAN
    BY <2>2
  <2> HIDE DEF Now
  <2>4. DOMAIN b' \subseteq Nat /\ \A q \in DOMAIN b' : b'[q] \in BOOLEAN
    BY <2>1, <2>2, <2>3, Zenon
  <2>5. MapOK(bufferPiecesProgress')
    BY <2>4 DEF MapOK
  <2> QED BY <1>0, <2>5, WatcherStepTypes DEF WatcherPoints
<1>5. CASE Total(w)
  <2> USE <1>5 DEF Total
  <2> DEFINE b == bufferPiecesProgress
             full == b # Nothing /\ \A q \in DOMAIN b : b[q]
  <2>1. report' = [report EXCEPT ![w].full = full]
    OBVIOUS
  <2>2. full \in BOOLEAN
    OBVIOUS
  <2> HIDE DEF full
  <2>3. report' \in [Watchers -> [full: BOOLEAN, file: Files]]
    BY <1>0, <2>1, <2>2
  <2> QED BY <1>0, <2>3, WatcherStepTypes DEF WatcherPoints
<1>6. CASE Unlock(w)
  BY <1>0, <1>6, WatcherStepTypes DEF Unlock, WatcherPoints
<1>7. CASE AnswerFile(w)
  <2> USE <1>7 DEF AnswerFile
  <2>1. report' \in [Watchers -> [full: BOOLEAN, file: Files]]
    BY <1>0
  <2> QED BY <1>0, <2>1, WatcherStepTypes DEF WatcherPoints
<1>8. CASE PollAgain(w)
  BY <1>0, <1>8, WatcherStepTypes DEF PollAgain, WatcherPoints
<1> QED BY <1>1, <1>2, <1>3, <1>4, <1>5, <1>6, <1>7, <1>8 DEF FileHandler

\* libtorrent's own steps.
LEMMA PieceStepTypes ==
    ASSUME TypeInv, NEW q \in Pieces, Fetch(q) \/ CheckHash(q)
    PROVE  TypeInv'
<1> USE DEF TypeInv
<1>1. piece \in [Pieces -> {"missing", "blocks", "have"}]
  BY TypeParts
<1>2. piece' \in [Pieces -> {"missing", "blocks", "have"}]
  BY <1>1 DEF Fetch, CheckHash
<1>7. corrupt' \subseteq Pieces
  BY DEF TypeOK, Fetch, CheckHash
<1>3. UNCHANGED <<torrentInfo, fileEntryIdx, bufferPiecesProgress, lock, filePrio, prio, pc, mine, report>>
  BY DEF Fetch, CheckHash
<1>4. PcOK'
  BY <1>3 DEF PcOK
<1>5. Asked'
  BY <1>3 DEF Asked
<1>6. Sizes'
  BY <1>3 DEF Sizes
<1> QED BY <1>2, <1>3, <1>4, <1>5, <1>6, <1>7 DEF TypeOK, PcOK

\* Every step keeps the types.
LEMMA StepTypes == TypeInv /\ [Next]_vars => TypeInv'
<1> SUFFICES ASSUME TypeInv, [Next]_vars PROVE TypeInv'
  OBVIOUS
<1>1. CASE OnMetadataReceived
  BY <1>1, MetadataTypes
<1>2. CASE \E x \in Planners : Prioritizepieces(x)
  BY <1>2, PlanStepTypes
<1>3. CASE \E r \in Setters : PrioHandler(r) \/ GetHandler(r)
  BY <1>3, PrioStepTypes, GetStepTypes
<1>4. CASE \E w \in Watchers : FileHandler(w)
  BY <1>4, FileStepTypes
<1>5. CASE \E q \in Pieces : Fetch(q) \/ CheckHash(q)
  BY <1>5, PieceStepTypes
<1>6. CASE UNCHANGED vars
  <2> USE <1>6 DEF vars, libVars
  <2>1. PcOK'
    BY DEF TypeInv, PcOK
  <2>2. Asked'
    BY DEF TypeInv, Asked
  <2>3. Sizes'
    BY DEF TypeInv, Sizes
  <2> QED BY <2>1, <2>2, <2>3 DEF TypeInv, TypeOK, PcOK
<1> QED BY <1>1, <1>2, <1>3, <1>4, <1>5, <1>6 DEF Next

\* The types of all of Buffering's state: that fileEntryIdx is always the number of a
\* file, although every request stores what it was asked for, that priorities stay
\* libtorrent's own, and that each goroutine reads the numbers of a file.
THEOREM BufferingTypes == Spec => []TypeOK
<1>1. Spec => []TypeInv
  BY InitTypes, StepTypes, PTL DEF Spec
<1>2. TypeInv => TypeOK
  BY DEF TypeInv
<1> QED BY <1>1, <1>2, PTL

-----------------------------------------------------------------------------
(* Orderly clients *)

\* One at a time, and nobody before the loop has seen to the metadata.
Calm ==
    /\ \A x, y \in Goroutines : InProgress(x) /\ InProgress(y) => x = y
    /\ pc[Loop] # "done" => \A y \in Goroutines \ {Loop} : pc[y] = "idle"

\* No one but x is at work.
Alone(x) ==
    /\ \A y \in Goroutines : y # x => ~InProgress(y)
    /\ x = Loop => \A y \in Goroutines \ {Loop} : pc[y] = "idle"
    /\ x # Loop => pc[Loop] = "done"

\* Who is at work is the only one.
LEMMA AtWorkAlone ==
    ASSUME Calm, NEW x \in Goroutines, InProgress(x)
    PROVE  Alone(x)
<1>1. x = Loop => pc[Loop] # "done"
  BY DEF InProgress, At
<1>2. x # Loop => pc[x] # "idle"
  BY DEF InProgress, At
<1> QED BY <1>1, <1>2 DEF Calm, Alone

\* An orderly client asks when nobody is at work.
LEMMA AskerAlone ==
    ASSUME Orderly, MayAsk, NEW x \in Setters \cup Watchers
    PROVE  Alone(x)
<1>1. x # Loop
  BY PlannersDoNotWatch
<1>2. At(Loop, "done") /\ \A y \in Setters \cup Watchers : ~InProgress(y)
  BY DEF MayAsk
<1>3. ~InProgress(Loop)
  BY <1>2 DEF InProgress
<1> QED BY <1>1, <1>2, <1>3 DEF Alone, At, Goroutines, Planners

\* Someone alone at work does not make anybody else begin.
LEMMA CalmKept ==
    ASSUME PcOK, NEW x \in Goroutines, Alone(x), NEW to, Goto(x, to)
    PROVE  Calm'
<1>1. \A y \in Goroutines : pc'[y] = IF y = x THEN to ELSE pc[y]
  BY DEF PcOK, Goto
<1>2. Loop \in Goroutines
  BY PlannersDoNotWatch DEF Goroutines
<1>3. \A y \in Goroutines : y # x => ~InProgress(y)'
  BY <1>1 DEF Alone, InProgress, At
<1>4. pc'[Loop] # "done" => \A y \in Goroutines \ {Loop} : pc'[y] = "idle"
  BY <1>1, <1>2 DEF Alone
<1> QED BY <1>3, <1>4 DEF Calm

-----------------------------------------------------------------------------
(* The selected file is fetched *)

\* What a planner has read is of the file that is still selected, and of the pieces
\* it has been through those of the file are wanted.
PlanOf(x) ==
    /\ pc[x] \in {"size", "make", "lock", "head", "tail", "vector", "small"} =>
         mine[x].offset = FileOffset[fileEntryIdx]
    /\ pc[x] \in {"make", "lock", "head", "tail", "vector", "small"} =>
         mine[x].size = FileSize[fileEntryIdx]
    /\ pc[x] = "small" =>
         \A q \in PiecesOf(FileOffset[fileEntryIdx], FileSize[fileEntryIdx]) :
            q < mine[x].cur => prio[q] > 0

SelectedOK == filePrio[fileEntryIdx] > 0 => Wanted(fileEntryIdx)

WantInv == Calm /\ (\A x \in Planners : PlanOf(x)) /\ SelectedIsWanted

\* A planner at work has only its own plan to see to, and at its end the file.
LEMMA PlannerWants ==
    ASSUME PcOK, NEW x \in Planners, Alone(x),
           NEW to \in PlannerPoints \ {"idle"}, Goto(x, to),
           PlanOf(x)', to = "done" => SelectedOK'
    PROVE  WantInv'
<1>0. x \in Goroutines /\ Loop \in Goroutines /\ Planners \subseteq Goroutines
  BY PlannersDoNotWatch DEF Goroutines
<1>1. \A y \in Goroutines : pc'[y] = IF y = x THEN to ELSE pc[y]
  BY <1>0 DEF PcOK, Goto
<1>2. Calm'
  BY <1>0, CalmKept
<1>3. ASSUME NEW y \in Planners, y # x PROVE PlanOf(y)'
  <2>1. pc'[y] \in {"idle", "done"}
    BY <1>0, <1>1, <1>3 DEF Alone, InProgress, At
  <2> QED BY <2>1 DEF PlanOf
<1>4. SelectedIsWanted'
  <2>1. CASE to = "done"
    BY <2>1 DEF SelectedIsWanted, SelectedOK
  <2>2. CASE to # "done"
    <3>1. pc'[x] \notin {"idle", "done"}
      BY <1>0, <1>1, <2>2
    <3>2. x = Loop \/ x \in Setters
      BY DEF Planners
    <3>3. ~Quiet'
      BY <3>1, <3>2 DEF Quiet, InProgress, At
    <3> QED BY <3>3 DEF SelectedIsWanted
  <2> QED BY <2>1, <2>2
<1> QED BY <1>2, <1>3, <1>4 DEF WantInv

\* A watcher, or libtorrent, leaves priorities and the choice of the file alone.
LEMMA NothingWanted ==
    ASSUME WantInv, Calm', UNCHANGED <<fileEntryIdx, filePrio, prio, mine>>,
           \A x \in Planners : pc'[x] = pc[x]
    PROVE  WantInv'
<1>1. ASSUME NEW x \in Planners PROVE PlanOf(x)'
  BY <1>1 DEF WantInv, PlanOf
<1>2. Quiet' = Quiet
  BY PlannersDoNotWatch DEF Quiet, InProgress, At
<1>3. SelectedIsWanted'
  BY <1>2 DEF WantInv, SelectedIsWanted, Wanted
<1> QED BY <1>1, <1>3 DEF WantInv

\* The priorities of pieces that follow from those of files.
LEMMA FollowsFiles ==
    ASSUME NEW priorities \in [Files -> Priorities], SetFilePriorities(priorities),
           fileEntryIdx' \in Files
    PROVE  SelectedOK'
<1>1. filePrio' = priorities /\ prio' = FromFiles(priorities)
  BY DEF SetFilePriorities
<1>2. ASSUME filePrio'[fileEntryIdx'] > 0,
             NEW q \in PiecesOf(FileOffset[fileEntryIdx'], FileSize[fileEntryIdx'])
      PROVE  prio'[q] > 0
  <2>1. q \in Pieces
    BY DEF PiecesOf
  <2>2. priorities[fileEntryIdx'] <= FromFiles(priorities)[q]
    BY PiecesFollow
  <2>3. priorities[fileEntryIdx'] \in Nat /\ FromFiles(priorities)[q] \in Nat
    BY <2>1, PiecesFollow DEF Priorities
  <2> QED BY <1>1, <1>2, <2>2, <2>3
<1> QED BY <1>2 DEF SelectedOK, Wanted

\* onMetadataReceived wants the file that it chooses.
LEMMA MetadataWants ==
    ASSUME TypeInv, WantInv, OnMetadataReceived
    PROVE  WantInv'
<1>0. /\ PcOK /\ Loop \in Planners /\ Loop \in Goroutines
      /\ fileEntryIdx \in Files /\ filePrio \in [Files -> Priorities]
  BY PlannersDoNotWatch, TypeParts DEF TypeInv, Goroutines
<1>a. Alone(Loop)
  <2>1. pc[Loop] # "done"
    BY DEF OnMetadataReceived, MetadataReceived, SelectFirst, PrioritizeFiles, At
  <2>2. \A y \in Goroutines : y # Loop => pc[y] = "idle"
    BY <2>1 DEF WantInv, Calm
  <2> QED BY <2>2 DEF Alone, InProgress, At
<1>1. CASE MetadataReceived \/ SelectFirst
  <2>1. PICK to \in {"choose", "files"} : Goto(Loop, to)
    BY <1>1 DEF MetadataReceived, SelectFirst
  <2>2. pc'[Loop] = to
    BY <1>0, <2>1 DEF PcOK, Goto
  <2>3. PlanOf(Loop)'
    BY <2>2 DEF PlanOf
  <2> QED BY <1>0, <1>a, <2>1, <2>3, PlannerWants DEF PlannerPoints
<1>2. CASE PrioritizeFiles
  <2> DEFINE priorities ==
        [f \in Files |-> IF FileIndex = AllFiles THEN 4
                         ELSE IF FileIndex # -1 /\ f = fileEntryIdx THEN 7 ELSE 0]
  <2>1. PICK to \in {"done", "offset"} : Goto(Loop, to)
    BY <1>2 DEF PrioritizeFiles
  <2>2. pc'[Loop] = to
    BY <1>0, <2>1 DEF PcOK, Goto
  <2>3. PlanOf(Loop)'
    BY <2>2 DEF PlanOf
  <2>4. priorities \in [Files -> Priorities]
    BY DEF Priorities
  <2>5. SetFilePriorities(priorities) /\ fileEntryIdx' \in Files
    BY <1>0, <1>2 DEF PrioritizeFiles
  <2> HIDE DEF priorities
  <2>6. SelectedOK'
    BY <2>4, <2>5, FollowsFiles
  <2> QED BY <1>0, <1>a, <2>1, <2>3, <2>6, PlannerWants DEF PlannerPoints
<1> QED BY <1>1, <1>2 DEF OnMetadataReceived

\* prioritizepieces wants every piece of the file whose place it has read.
LEMMA PlanWants ==
    ASSUME TypeInv, WantInv, NEW x \in Planners, Prioritizepieces(x)
    PROVE  WantInv'
<1>0. /\ PcOK /\ x \in Goroutines /\ x \notin Watchers
      /\ fileEntryIdx \in Files /\ mine \in [Planners -> MineSet]
  BY PlannersDoNotWatch, TypeParts DEF TypeInv, Goroutines
<1>a. Alone(x)
  <2>1. InProgress(x)
    BY DEF InProgress, At, Prioritizepieces, ReadOffset, ReadSize, MakeMap, Lock, FillHead,
           FillTail, PrioritizePieces
  <2> QED BY <1>0, <2>1, AtWorkAlone DEF WantInv
<1>b. PlanOf(x)
  BY DEF WantInv
<1>1. CASE ReadOffset(x)
  <2>1. pc'[x] = "size" /\ Goto(x, "size") /\ UNCHANGED fileEntryIdx
    BY <1>0, <1>1 DEF ReadOffset, Goto, PcOK
  <2>2. mine'[x].offset = FileOffset[fileEntryIdx]
    BY <1>0, <1>1 DEF ReadOffset, MineSet
  <2>3. PlanOf(x)'
    BY <2>1, <2>2 DEF PlanOf
  <2> QED BY <1>0, <1>a, <2>1, <2>3, PlannerWants DEF PlannerPoints
<1>2. CASE ReadSize(x)
  <2>1. pc[x] = "size" /\ pc'[x] = "make" /\ Goto(x, "make") /\ UNCHANGED fileEntryIdx
    BY <1>0, <1>2 DEF ReadSize, At, Goto, PcOK
  <2>2. mine'[x].size = FileSize[fileEntryIdx] /\ mine'[x].offset = mine[x].offset
    BY <1>0, <1>2 DEF ReadSize, MineSet
  <2>3. PlanOf(x)'
    BY <1>b, <2>1, <2>2 DEF PlanOf
  <2> QED BY <1>0, <1>a, <2>1, <2>3, PlannerWants DEF PlannerPoints
<1>3. CASE MakeMap(x) \/ Lock(x) \/ FillHead(x) \/ FillTail(x)
  <2>1. pc[x] \in {"make", "lock", "head", "tail"} /\ UNCHANGED <<fileEntryIdx, mine>>
    BY <1>3 DEF MakeMap, Lock, FillHead, FillTail, At
  <2>2. PICK to \in {"lock", "head", "tail", "vector"} : Goto(x, to)
    BY <1>0, <1>3 DEF MakeMap, Lock, FillHead, FillTail
  <2>3. pc'[x] = to
    BY <1>0, <2>2 DEF PcOK, Goto
  <2>4. PlanOf(x)'
    BY <1>b, <2>1, <2>3 DEF PlanOf
  <2> QED BY <1>0, <1>a, <2>2, <2>4, PlannerWants DEF PlannerPoints
<1>4. CASE PrioritizePieces(x)
  <2> DEFINE offset == FileOffset[fileEntryIdx]
             size == FileSize[fileEntryIdx]
  <2>1. pc[x] = "vector" /\ pc'[x] = "done" /\ Goto(x, "done") /\ UNCHANGED fileEntryIdx
    BY <1>0, <1>4 DEF PrioritizePieces, At, Goto, PcOK
  <2>2. mine[x].offset = offset /\ mine[x].size = size
    BY <1>b, <2>1 DEF PlanOf
  <2>3. prio' = [q \in Pieces |-> Vector(offset, size)[q]]
    BY <1>4, <2>2 DEF PrioritizePieces
  <2>4. offset \in Nat /\ size \in Nat /\ Fits(offset, size)
    BY <1>0, FileNumbers
  <2> HIDE DEF offset, size
  <2>5. FetchesTheFile(offset, size)
    BY <2>4, FetchesEveryFile
  <2>6. \A q \in PiecesOf(offset, size) : prio'[q] > 0
    BY <2>3, <2>5 DEF FetchesTheFile, PiecesOf
  <2>7. SelectedOK'
    BY <2>1, <2>6 DEF SelectedOK, Wanted, offset, size
  <2>8. PlanOf(x)'
    BY <2>1 DEF PlanOf
  <2> QED BY <1>0, <1>a, <2>1, <2>7, <2>8, PlannerWants DEF PlannerPoints
<1> QED BY <1>1, <1>2, <1>3, <1>4 DEF Prioritizepieces

\* The pieces of a file are from startPiece to endPiece.
LEMMA PiecesSpan ==
    ASSUME NEW offset \in Nat, NEW size \in Nat, NEW q \in PiecesOf(offset, size)
    PROVE  q \in StartPiece(offset)..EndPiece(offset, size)
<1>1. PICK b \in offset..(offset + size - 1) : b \div PieceLength = q
  BY DEF PiecesOf
<1>2. b \in Nat /\ offset <= b /\ b <= offset + size /\ offset + size \in Nat
  OBVIOUS
<1>3. PieceLength \in Nat \ {0}
  BY PlanAssumption
<1>4. offset \div PieceLength <= b \div PieceLength
  BY <1>2, <1>3, DivMonotone
<1>5. b \div PieceLength <= (offset + size) \div PieceLength
  BY <1>2, <1>3, DivMonotone
<1>6. /\ offset \div PieceLength \in Nat /\ b \div PieceLength \in Nat
      /\ (offset + size) \div PieceLength \in Nat
  BY <1>2, <1>3, DivMonotone
<1> QED BY <1>1, <1>4, <1>5, <1>6 DEF StartPiece, EndPiece

\* prioHandler leaves the file that it selects wanted, small or big.
LEMMA PrioWants ==
    ASSUME Orderly, TypeInv, WantInv, NEW r \in Setters, PrioHandler(r)
    PROVE  WantInv'
<1>0. /\ PcOK /\ r \in Planners /\ r \in Goroutines
      /\ fileEntryIdx \in Files /\ mine \in [Planners -> MineSet]
      /\ filePrio \in [Files -> Priorities] /\ prio \in [Pieces -> Priorities]
  BY PlannersDoNotWatch, TypeParts DEF TypeInv, Goroutines
<1>a. Alone(r)
  <2>1. CASE AskPriority(r)
    BY <2>1, AskerAlone DEF AskPriority
  <2>2. CASE ~AskPriority(r)
    <3>1. InProgress(r)
      BY <2>2 DEF PrioHandler, InProgress, At, WantAll, Select, PrioritizeFile, GetFilePieces, SmallFile
    <3> QED BY <1>0, <3>1, AtWorkAlone DEF WantInv
  <2> QED BY <2>1, <2>2
<1>b. PlanOf(r)
  BY <1>0 DEF WantInv
<1>1. CASE AskPriority(r)
  <2>1. PICK to \in {"done", "all", "select"} : Goto(r, to)
    BY <1>1 DEF AskPriority
  <2>2. pc'[r] = to
    BY <1>0, <2>1 DEF PcOK, Goto
  <2>3. PlanOf(r)'
    BY <2>2 DEF PlanOf
  <2>4. SelectedOK
    BY <1>1 DEF WantInv, SelectedIsWanted, SelectedOK, Quiet, AskPriority, MayAsk
  <2>5. SelectedOK'
    BY <1>1, <2>4 DEF SelectedOK, Wanted, AskPriority, libVars
  <2> QED BY <1>0, <1>a, <2>1, <2>3, <2>5, PlannerWants DEF PlannerPoints
<1>2. CASE WantAll(r)
  <2> DEFINE priorities == [f \in Files |-> 4]
  <2>1. Goto(r, "done") /\ SetFilePriorities(priorities) /\ fileEntryIdx' \in Files
    BY <1>0, <1>2 DEF WantAll
  <2>2. pc'[r] = "done"
    BY <1>0, <2>1 DEF PcOK, Goto
  <2>3. PlanOf(r)'
    BY <2>2 DEF PlanOf
  <2>4. priorities \in [Files -> Priorities]
    BY DEF Priorities
  <2> HIDE DEF priorities
  <2>5. SelectedOK'
    BY <2>1, <2>4, FollowsFiles
  <2> QED BY <1>0, <1>a, <2>1, <2>3, <2>5, PlannerWants DEF PlannerPoints
<1>3. CASE Select(r) \/ PrioritizeFile(r)
  <2>1. PICK to \in {"file", "offset", "getpieces"} : Goto(r, to)
    BY <1>3 DEF Select, PrioritizeFile
  <2>2. pc'[r] = to
    BY <1>0, <2>1 DEF PcOK, Goto
  <2>3. PlanOf(r)'
    BY <2>2 DEF PlanOf
  <2> QED BY <1>0, <1>a, <2>1, <2>3, PlannerWants DEF PlannerPoints
<1>4. CASE GetFilePieces(r)
  <2>1. pc'[r] = "small" /\ Goto(r, "small") /\ UNCHANGED fileEntryIdx
    BY <1>0, <1>4 DEF GetFilePieces, Goto, PcOK
  <2>2. /\ mine'[r].offset = FileOffset[fileEntryIdx] /\ mine'[r].size = FileSize[fileEntryIdx]
        /\ mine'[r].cur = 0
    BY <1>0, <1>4 DEF GetFilePieces, MineSet
  <2>3. \A q \in PiecesOf(FileOffset[fileEntryIdx], FileSize[fileEntryIdx]) : ~(q < mine'[r].cur)
    BY <2>2, PlanAssumption DEF PiecesOf, Pieces
  <2>4. PlanOf(r)'
    BY <2>1, <2>2, <2>3 DEF PlanOf
  <2> QED BY <1>0, <1>a, <2>1, <2>4, PlannerWants DEF PlannerPoints
<1>5. CASE SmallFile(r)
  <2> DEFINE cur == mine[r].cur
             offset == FileOffset[fileEntryIdx]
             size == FileSize[fileEntryIdx]
             new == IF cur \in StartPiece(offset)..EndPiece(offset, size) THEN 7
                    ELSE IF prio[cur] > 0 THEN 1 ELSE 0
  <2>1. pc[r] = "small" /\ UNCHANGED fileEntryIdx /\ cur < NumPieces /\ cur \in Nat
    BY <1>0, <1>5 DEF SmallFile, At, MineSet
  <2>2. /\ mine[r].offset = offset /\ mine[r].size = size
        /\ \A q \in PiecesOf(offset, size) : q < cur => prio[q] > 0
    BY <1>b, <2>1 DEF PlanOf
  <2>3. /\ prio' = [prio EXCEPT ![cur] = new]
        /\ mine' = [mine EXCEPT ![r].cur = cur + 1]
    BY <1>5, <2>2 DEF SmallFile
  <2>4. /\ mine'[r].offset = offset /\ mine'[r].size = size /\ mine'[r].cur = cur + 1
    BY <1>0, <2>2, <2>3 DEF MineSet
  <2>5. offset \in Nat /\ size \in Nat
    BY <1>0, FileNumbers
  <2>6. \A q \in PiecesOf(offset, size) : q < cur + 1 => prio'[q] > 0
    <3> SUFFICES ASSUME NEW q \in PiecesOf(offset, size), q < cur + 1 PROVE prio'[q] > 0
      OBVIOUS
    <3>1. q \in Pieces /\ q \in Int
      BY DEF PiecesOf, Pieces
    <3>2. CASE q = cur
      <4>1. new = 7
        BY <2>5, <3>2, PiecesSpan
      <4> QED BY <1>0, <2>3, <3>1, <3>2, <4>1
    <3>3. CASE q # cur
      <4>1. q < cur
        BY <2>1, <3>1, <3>3
      <4>2. prio'[q] = prio[q]
        BY <1>0, <2>3, <3>1, <3>3
      <4> QED BY <2>2, <4>1, <4>2
    <3> QED BY <3>2, <3>3
  <2>7. PICK to \in {"done", "small"} :
           Goto(r, to) /\ (to = "done" => cur + 1 = NumPieces)
    BY <1>5 DEF SmallFile
  <2>8. pc'[r] = to
    BY <1>0, <2>7 DEF PcOK, Goto
  <2> HIDE DEF cur, new
  <2>9. PlanOf(r)'
    BY <2>1, <2>4, <2>6, <2>8 DEF PlanOf
  <2>10. to = "done" => SelectedOK'
    <3>1. to = "done" => \A q \in PiecesOf(offset, size) : q < cur + 1
      BY <2>1, <2>7, PlanAssumption DEF PiecesOf, Pieces
    <3> QED BY <2>1, <2>6, <3>1 DEF SelectedOK, Wanted
  <2> QED BY <1>0, <1>a, <2>7, <2>9, <2>10, PlannerWants DEF PlannerPoints
<1> QED BY <1>1, <1>2, <1>3, <1>4, <1>5 DEF PrioHandler

\* getHandler wants the selected file whole, or gives it the priority zero.
LEMMA GetWants ==
    ASSUME Orderly, TypeInv, WantInv, NEW r \in Setters, GetHandler(r)
    PROVE  WantInv'
<1>0. /\ PcOK /\ r \in Planners /\ r \in Goroutines
      /\ fileEntryIdx \in Files /\ filePrio \in [Files -> Priorities]
  BY PlannersDoNotWatch, TypeParts DEF TypeInv, Goroutines
<1>1. CASE AskGet(r)
  <2>1. Goto(r, "get") /\ pc'[r] = "get" /\ Alone(r)
    BY <1>0, <1>1, AskerAlone DEF AskGet, Goto, PcOK
  <2>2. PlanOf(r)'
    BY <2>1 DEF PlanOf
  <2> QED BY <1>0, <2>1, <2>2, PlannerWants DEF PlannerPoints
<1>2. CASE GetFile(r)
  <2> DEFINE new == IF mine[r].cur = mine[r].index THEN 1 ELSE 0
             priorities == [filePrio EXCEPT ![mine[r].cur] = new]
  <2>1. InProgress(r)
    BY <1>2 DEF GetFile, InProgress, At
  <2>2. Alone(r)
    BY <1>0, <2>1, AtWorkAlone DEF WantInv
  <2>3. PICK to \in {"done", "get"} : Goto(r, to)
    BY <1>2 DEF GetFile
  <2>4. pc'[r] = to
    BY <1>0, <2>3 DEF PcOK, Goto
  <2>5. PlanOf(r)'
    BY <2>4 DEF PlanOf
  <2>6. SetFilePriorities(priorities) /\ fileEntryIdx' \in Files
    BY <1>0, <1>2 DEF GetFile
  <2>7. new \in Priorities
    BY DEF Priorities
  <2> HIDE DEF new
  <2>8. priorities \in [Files -> Priorities]
    BY <1>0, <2>7
  <2> HIDE DEF priorities
  <2>9. SelectedOK'
    BY <2>6, <2>8, FollowsFiles
  <2> QED BY <1>0, <2>2, <2>3, <2>5, <2>9, PlannerWants DEF PlannerPoints
<1> QED BY <1>1, <1>2 DEF GetHandler

\* fileHandler changes no priority.
LEMMA FileWants ==
    ASSUME Orderly, TypeInv, WantInv, NEW w \in Watchers, FileHandler(w)
    PROVE  WantInv'
<1>0. PcOK /\ w \in Goroutines /\ w \notin Planners /\ w # Loop /\ Planners \subseteq Goroutines
      /\ Loop \in Goroutines
  BY PlannersDoNotWatch DEF TypeInv, Goroutines
<1>1. UNCHANGED <<fileEntryIdx, filePrio, prio, mine>>
  BY DEF FileHandler, AskFile, Lock, ReadLength, PiecesProgress, Total, Unlock, AnswerFile,
         PollAgain, libVars
<1>2. PICK to : Goto(w, to)
  BY DEF FileHandler, AskFile, Lock, ReadLength, PiecesProgress, Total, Unlock, AnswerFile, PollAgain
<1>3. \A y \in Goroutines : pc'[y] = IF y = w THEN to ELSE pc[y]
  BY <1>0, <1>2 DEF PcOK, Goto
<1>4. Calm'
  <2>1. CASE AskFile(w)
    BY <1>0, <1>2, <2>1, AskerAlone, CalmKept DEF AskFile
  <2>2. CASE PollAgain(w)
    <3>1. pc[w] = "done" /\ pc'[w] = "idle"
      BY <1>0, <2>2 DEF PollAgain, At, Goto, PcOK
    <3>2. pc[Loop] = "done" /\ pc'[Loop] = pc[Loop]
      BY <1>0, <1>3, <3>1 DEF WantInv, Calm
    <3>3. \A y \in Goroutines : InProgress(y)' => InProgress(y)
      BY <1>3, <3>1 DEF InProgress, At
    <3> QED BY <3>2, <3>3 DEF WantInv, Calm
  <2>3. CASE ~AskFile(w) /\ ~PollAgain(w)
    <3>1. InProgress(w)
      BY <2>3 DEF FileHandler, Lock, ReadLength, PiecesProgress, Total, Unlock, AnswerFile,
                  InProgress, At
    <3> QED BY <1>0, <1>2, <3>1, AtWorkAlone, CalmKept DEF WantInv
  <2> QED BY <2>1, <2>2, <2>3
<1> QED BY <1>0, <1>1, <1>3, <1>4, NothingWanted

\* Every step keeps the selected file wanted, once nobody is at work.
LEMMA StepWants == Orderly /\ TypeInv /\ WantInv /\ [Next]_vars => WantInv'
<1> SUFFICES ASSUME Orderly, TypeInv, WantInv, [Next]_vars PROVE WantInv'
  OBVIOUS
<1>1. CASE OnMetadataReceived
  BY <1>1, MetadataWants
<1>2. CASE \E x \in Planners : Prioritizepieces(x)
  BY <1>2, PlanWants
<1>3. CASE \E r \in Setters : PrioHandler(r) \/ GetHandler(r)
  BY <1>3, PrioWants, GetWants
<1>4. CASE \E w \in Watchers : FileHandler(w)
  BY <1>4, FileWants
<1>5. ASSUME UNCHANGED <<pc, fileEntryIdx, filePrio, prio, mine>> PROVE WantInv'
  <2>1. Calm'
    BY <1>5 DEF WantInv, Calm, InProgress, At
  <2> QED BY <1>5, <2>1, NothingWanted
<1>6. ASSUME NEW q \in Pieces, Fetch(q) \/ CheckHash(q)
      PROVE  UNCHANGED <<pc, fileEntryIdx, filePrio, prio, mine>>
  BY <1>6 DEF Fetch, CheckHash
<1>7. UNCHANGED vars => UNCHANGED <<pc, fileEntryIdx, filePrio, prio, mine>>
  BY DEF vars, libVars
<1> QED BY <1>1, <1>2, <1>3, <1>4, <1>5, <1>6, <1>7 DEF Next

\* At the start the loop has still to choose a file.
LEMMA InitWants == Init => WantInv
<1> SUFFICES ASSUME Init PROVE WantInv
  OBVIOUS
<1>1. \A x \in Goroutines : pc[x] = "idle"
  BY DEF Init, Goroutines
<1>2. Loop \in Goroutines /\ Planners \subseteq Goroutines
  BY PlannersDoNotWatch DEF Goroutines
<1>3. Calm
  BY <1>1 DEF Calm, InProgress, At
<1>4. \A x \in Planners : PlanOf(x)
  BY <1>1, <1>2 DEF PlanOf
<1>5. SelectedIsWanted
  BY <1>1, <1>2 DEF SelectedIsWanted, Quiet, At
<1> QED BY <1>3, <1>4, <1>5 DEF WantInv

\* Clients that ask one thing at a time have the file they selected last fetched to its
\* last piece, big or small, wherever it begins and ends, after /get/ too.
THEOREM SelectedFileIsFetched ==
    ASSUME Orderly
    PROVE  Spec => []SelectedIsWanted
<1>1. Spec => []TypeInv
  BY InitTypes, StepTypes, PTL DEF Spec
<1>2. TypeInv /\ WantInv /\ [Next]_vars => WantInv'
  BY StepWants
<1>3. WantInv => SelectedIsWanted
  BY DEF WantInv
<1> QED BY <1>1, <1>2, <1>3, InitWants, PTL DEF Spec

-----------------------------------------------------------------------------
(* A buffer that is reported full *)

\* prioHandler makes the map of such a file.
Big(f) == FileSize[f] > SmallSize

Fetched(f) == Big(f) => \A q \in Buffer(f) \cap Pieces : WasFetched(q)

\* What the map says is there is there.
Truthful ==
    \A q \in DOMAIN bufferPiecesProgress \cap Pieces :
        bufferPiecesProgress[q] = TRUE => WasFetched(q)

\* The map is of the selected file, unless that is small, or nobody has made it yet.
MapRight ==
    \/ bufferPiecesProgress = Nothing
    \/ Big(fileEntryIdx) => DOMAIN bufferPiecesProgress = Buffer(fileEntryIdx)

\* How far a planner is with the map.
MapOf(x) ==
    /\ pc[x] = "file" => mine[x].index = fileEntryIdx
    /\ pc[x] \in {"getpieces", "small"} => ~Big(fileEntryIdx)
    /\ pc[x] \in {"choose", "files"} => bufferPiecesProgress = Nothing
    /\ pc[x] \in {"lock", "head"} => DOMAIN bufferPiecesProgress = {}
    /\ pc[x] = "tail" =>
         DOMAIN bufferPiecesProgress = HeadKeys(FileOffset[fileEntryIdx], FileSize[fileEntryIdx])
    /\ pc[x] = "vector" => DOMAIN bufferPiecesProgress = Buffer(fileEntryIdx)
    /\ pc[x] \in {"all", "get"} => MapRight

\* What a watcher is about to say, or has said.
Told(w) ==
    /\ pc[w] \in {"lock", "length"} => report[w].full = FALSE
    /\ pc[w] \in {"unlock", "name"} /\ report[w].full = TRUE => Fetched(fileEntryIdx)
    /\ pc[w] = "done" /\ report[w].full = TRUE => Fetched(report[w].file)

FullInv ==
    /\ Truthful
    /\ pc[Loop] = "idle" => bufferPiecesProgress = Nothing
    /\ \A x \in Planners : MapOf(x)
    /\ Quiet => MapRight
    /\ \A w \in Watchers : Told(w)

\* A planner alone at work has only its own place in the map to see to.
LEMMA PlannerMaps ==
    ASSUME FullInv, PcOK, NEW x \in Planners, Alone(x),
           NEW to \in PlannerPoints \ {"idle"}, Goto(x, to),
           UNCHANGED <<piece, corrupt, report>>, Truthful', MapOf(x)', to = "done" => MapRight'
    PROVE  FullInv'
<1>0. x \in Goroutines /\ Loop \in Goroutines /\ Loop \in Planners /\ Planners \subseteq Goroutines
      /\ Watchers \subseteq Goroutines /\ x \notin Watchers /\ (x = Loop \/ x \in Setters)
  BY PlannersDoNotWatch DEF Goroutines, Planners
<1>1. \A y \in Goroutines : pc'[y] = IF y = x THEN to ELSE pc[y]
  BY <1>0 DEF PcOK, Goto
<1>2. pc'[Loop] # "idle"
  BY <1>0, <1>1 DEF Alone
<1>3. ASSUME NEW y \in Planners, y # x PROVE MapOf(y)'
  <2>1. pc'[y] \in {"idle", "done"}
    BY <1>0, <1>1, <1>3 DEF Alone, InProgress, At
  <2> QED BY <2>1 DEF MapOf
<1>4. Quiet' => MapRight'
  <2>1. CASE to = "done"
    BY <2>1
  <2>2. CASE to # "done"
    <3>1. pc'[x] \notin {"idle", "done"}
      BY <1>0, <1>1, <2>2
    <3>2. ~Quiet'
      BY <1>0, <3>1 DEF Quiet, InProgress, At
    <3> QED BY <3>2
  <2> QED BY <2>1, <2>2
<1>5. ASSUME NEW w \in Watchers PROVE Told(w)'
  <2>1. pc[w] \in {"idle", "done"} /\ pc'[w] = pc[w]
    BY <1>0, <1>1, <1>5 DEF Alone, InProgress, At
  <2>2. Told(w)
    BY DEF FullInv
  <2> QED BY <2>1, <2>2 DEF WasFetched, Told, Fetched, Big, Buffer
<1> QED BY <1>2, <1>3, <1>4, <1>5 DEF FullInv

\* A step of a watcher that is alone.
LEMMA WatcherMaps ==
    ASSUME FullInv, PcOK, NEW w \in Watchers, Alone(w), NEW to, Goto(w, to),
           UNCHANGED <<fileEntryIdx, piece, corrupt>>,
           \A v \in Watchers : v # w => report'[v] = report[v],
           Truthful', MapRight', Told(w)'
    PROVE  FullInv'
<1>0. w \in Goroutines /\ Loop \in Goroutines /\ Planners \subseteq Goroutines /\ w \notin Planners
      /\ Loop \in Planners /\ Watchers \subseteq Goroutines
  BY PlannersDoNotWatch DEF Goroutines
<1>1. \A y \in Goroutines : pc'[y] = IF y = w THEN to ELSE pc[y]
  BY <1>0 DEF PcOK, Goto
<1>2. pc'[Loop] # "idle"
  BY <1>0, <1>1 DEF Alone
<1>3. ASSUME NEW y \in Planners PROVE MapOf(y)'
  <2>1. pc'[y] \in {"idle", "done"}
    BY <1>0, <1>1, <1>3 DEF Alone, InProgress, At
  <2> QED BY <2>1 DEF MapOf
<1>4. ASSUME NEW v \in Watchers, v # w PROVE Told(v)'
  <2>1. pc[v] \in {"idle", "done"} /\ pc'[v] = pc[v]
    BY <1>0, <1>1, <1>4 DEF Alone, InProgress, At
  <2>2. Told(v)
    BY DEF FullInv
  <2> QED BY <1>4, <2>1, <2>2 DEF WasFetched, Told, Fetched, Big, Buffer
<1> QED BY <1>2, <1>3, <1>4 DEF FullInv

\* No planner at work and the map as it was; of the pieces no more are missing.
LEMMA NothingMaps ==
    ASSUME FullInv, UNCHANGED <<fileEntryIdx, bufferPiecesProgress, mine>>,
           \A x \in Planners : pc'[x] = pc[x],
           \A q \in Pieces : WasFetched(q) => WasFetched(q)',
           \A w \in Watchers : Told(w)'
    PROVE  FullInv'
<1>0. Loop \in Planners /\ Setters \subseteq Planners
  BY PlannersDoNotWatch
<1>1. Truthful'
  BY DEF WasFetched, FullInv, Truthful
<1>2. Quiet' = Quiet /\ MapRight' = MapRight
  BY <1>0 DEF Quiet, InProgress, At, MapRight, Buffer, Nothing, Big
<1>3. ASSUME NEW x \in Planners PROVE MapOf(x)'
  <2>1. MapOf(x)
    BY DEF FullInv
  <2> QED BY <1>2, <2>1 DEF MapOf, Buffer, Nothing
<1>4. pc'[Loop] = "idle" => bufferPiecesProgress' = Nothing
  BY <1>0 DEF FullInv, Nothing
<1> QED BY <1>1, <1>2, <1>3, <1>4 DEF FullInv

\* Zero of some pieces is true of the map.
LEMMA ZeroedTrue ==
    ASSUME Truthful, NEW keys, bufferPiecesProgress' = Zeroed(keys), UNCHANGED <<piece, corrupt>>
    PROVE  Truthful' /\ DOMAIN bufferPiecesProgress' = DOMAIN bufferPiecesProgress \cup keys
<1> DEFINE b == bufferPiecesProgress
<1>1. DOMAIN b' = DOMAIN b \cup keys
  BY DEF Zeroed
<1>2. ASSUME NEW q \in DOMAIN b' \cap Pieces, b'[q] = TRUE PROVE WasFetched(q)'
  <2>1. b'[q] = IF q \in keys THEN FALSE ELSE b[q]
    BY <1>1 DEF Zeroed
  <2>2. q \notin keys
    BY <1>2, <2>1
  <2>3. q \in DOMAIN b \cap Pieces /\ b[q] = TRUE
    BY <1>1, <1>2, <2>1, <2>2
  <2> QED BY <2>3 DEF WasFetched, Truthful
<1> QED BY <1>1, <1>2 DEF WasFetched, Truthful

\* onMetadataReceived finds no map yet.
LEMMA MetadataMaps ==
    ASSUME TypeInv, WantInv, FullInv, OnMetadataReceived
    PROVE  FullInv'
<1>0. PcOK /\ Loop \in Planners /\ Loop \in Goroutines
  BY PlannersDoNotWatch DEF TypeInv, Goroutines
<1>a. Alone(Loop)
  <2>1. pc[Loop] # "done"
    BY DEF OnMetadataReceived, MetadataReceived, SelectFirst, PrioritizeFiles, At
  <2>2. \A y \in Goroutines : y # Loop => pc[y] = "idle"
    BY <2>1 DEF WantInv, Calm
  <2> QED BY <2>2 DEF Alone, InProgress, At
<1>1. bufferPiecesProgress = Nothing
  <2>1. pc[Loop] \in {"idle", "choose", "files"}
    BY DEF OnMetadataReceived, MetadataReceived, SelectFirst, PrioritizeFiles, At
  <2>2. MapOf(Loop)
    BY <1>0 DEF FullInv
  <2> QED BY <2>1, <2>2 DEF FullInv, MapOf
<1>2. UNCHANGED <<bufferPiecesProgress, piece, corrupt, report>>
  BY DEF OnMetadataReceived, MetadataReceived, SelectFirst, PrioritizeFiles, libVars
<1>3. PICK to \in {"choose", "files", "done", "offset"} : Goto(Loop, to)
  BY DEF OnMetadataReceived, MetadataReceived, SelectFirst, PrioritizeFiles
<1>4. pc'[Loop] = to
  BY <1>0, <1>3 DEF PcOK, Goto
<1>5. bufferPiecesProgress' = Nothing /\ MapRight' /\ Nothing' = Nothing
  BY <1>1, <1>2 DEF MapRight, Nothing
<1>6. MapOf(Loop)'
  BY <1>3, <1>4, <1>5 DEF MapOf
<1>7. Truthful'
  BY <1>2 DEF WasFetched, FullInv, Truthful
<1> QED BY <1>0, <1>a, <1>2, <1>3, <1>5, <1>6, <1>7, PlannerMaps DEF PlannerPoints

\* prioritizepieces leaves the map of the selected file's buffer, with nothing in it counted.
LEMMA PlanMaps ==
    ASSUME TypeInv, WantInv, FullInv, NEW x \in Planners, Prioritizepieces(x)
    PROVE  FullInv'
<1>0. PcOK /\ x \in Goroutines /\ x \notin Watchers
  BY PlannersDoNotWatch DEF TypeInv, Goroutines
<1>a. Alone(x)
  <2>1. InProgress(x)
    BY DEF InProgress, At, Prioritizepieces, ReadOffset, ReadSize, MakeMap, Lock, FillHead,
           FillTail, PrioritizePieces
  <2> QED BY <1>0, <2>1, AtWorkAlone DEF WantInv
<1>b. PlanOf(x) /\ MapOf(x) /\ Truthful
  BY DEF WantInv, FullInv
<1>c. UNCHANGED <<fileEntryIdx, piece, corrupt, report>>
  BY DEF Prioritizepieces, ReadOffset, ReadSize, MakeMap, Lock, FillHead, FillTail,
         PrioritizePieces, libVars
<1>1. CASE ReadOffset(x) \/ ReadSize(x)
  <2>1. PICK to \in {"size", "make"} : Goto(x, to)
    BY <1>1 DEF ReadOffset, ReadSize
  <2>2. pc'[x] = to
    BY <1>0, <2>1 DEF PcOK, Goto
  <2>3. MapOf(x)'
    BY <2>2 DEF MapOf
  <2>4. Truthful'
    BY <1>1, <1>b, <1>c DEF WasFetched, ReadOffset, ReadSize, Truthful
  <2> QED BY <1>0, <1>a, <1>c, <2>1, <2>3, <2>4, PlannerMaps DEF PlannerPoints
<1>2. CASE MakeMap(x)
  <2>1. Goto(x, "lock") /\ bufferPiecesProgress' = Nothing
    BY <1>2 DEF MakeMap
  <2>2. pc'[x] = "lock" /\ DOMAIN bufferPiecesProgress' = {}
    BY <1>0, <2>1 DEF PcOK, Goto, Nothing
  <2>3. MapOf(x)'
    BY <2>2 DEF MapOf
  <2>4. Truthful'
    BY <2>2 DEF WasFetched, Truthful
  <2> QED BY <1>0, <1>a, <1>c, <2>1, <2>3, <2>4, PlannerMaps DEF PlannerPoints
<1>3. CASE Lock(x)
  <2>1. pc[x] = "lock" /\ Goto(x, "head") /\ UNCHANGED bufferPiecesProgress
    BY <1>0, <1>3 DEF Lock, At
  <2>2. pc'[x] = "head"
    BY <1>0, <2>1 DEF PcOK, Goto
  <2>3. MapOf(x)'
    BY <1>b, <2>1, <2>2 DEF MapOf
  <2>4. Truthful'
    BY <1>b, <1>c, <2>1 DEF WasFetched, Truthful
  <2> QED BY <1>0, <1>a, <1>c, <2>1, <2>3, <2>4, PlannerMaps DEF PlannerPoints
<1>4. CASE FillHead(x)
  <2> DEFINE keys == HeadKeys(mine[x].offset, mine[x].size)
  <2>1. pc[x] = "head" /\ Goto(x, "tail") /\ bufferPiecesProgress' = Zeroed(keys)
    BY <1>4 DEF FillHead, At
  <2>2. pc'[x] = "tail"
    BY <1>0, <2>1 DEF PcOK, Goto
  <2>3. Truthful' /\ DOMAIN bufferPiecesProgress' = DOMAIN bufferPiecesProgress \cup keys
    BY <1>b, <1>c, <2>1, ZeroedTrue
  <2>4. DOMAIN bufferPiecesProgress = {}
    BY <1>b, <2>1 DEF MapOf
  <2>5. mine[x].offset = FileOffset[fileEntryIdx] /\ mine[x].size = FileSize[fileEntryIdx]
    BY <1>b, <2>1 DEF PlanOf
  <2>6. DOMAIN bufferPiecesProgress' = HeadKeys(FileOffset[fileEntryIdx], FileSize[fileEntryIdx])
    BY <2>3, <2>4, <2>5
  <2>7. MapOf(x)'
    BY <1>c, <2>2, <2>6 DEF MapOf, HeadKeys, HeadStop, StartPiece, EndPiece
  <2> QED BY <1>0, <1>a, <1>c, <2>1, <2>3, <2>7, PlannerMaps DEF PlannerPoints
<1>5. CASE FillTail(x)
  <2> DEFINE keys == TailKeys(mine[x].offset, mine[x].size)
  <2>1. pc[x] = "tail" /\ Goto(x, "vector") /\ bufferPiecesProgress' = Zeroed(keys)
    BY <1>5 DEF FillTail, At
  <2>2. pc'[x] = "vector"
    BY <1>0, <2>1 DEF PcOK, Goto
  <2>3. Truthful' /\ DOMAIN bufferPiecesProgress' = DOMAIN bufferPiecesProgress \cup keys
    BY <1>b, <1>c, <2>1, ZeroedTrue
  <2>4. DOMAIN bufferPiecesProgress = HeadKeys(FileOffset[fileEntryIdx], FileSize[fileEntryIdx])
    BY <1>b, <2>1 DEF MapOf
  <2>5. mine[x].offset = FileOffset[fileEntryIdx] /\ mine[x].size = FileSize[fileEntryIdx]
    BY <1>b, <2>1 DEF PlanOf
  <2>6. DOMAIN bufferPiecesProgress' = Buffer(fileEntryIdx)
    BY <2>3, <2>4, <2>5 DEF Buffer, BufferKeys
  <2>7. Buffer(fileEntryIdx)' = Buffer(fileEntryIdx)
    BY <1>c DEF Buffer
  <2>8. MapOf(x)'
    BY <2>2, <2>6, <2>7 DEF MapOf
  <2> QED BY <1>0, <1>a, <1>c, <2>1, <2>3, <2>8, PlannerMaps DEF PlannerPoints
<1>6. CASE PrioritizePieces(x)
  <2>1. pc[x] = "vector" /\ Goto(x, "done") /\ UNCHANGED bufferPiecesProgress
    BY <1>6 DEF PrioritizePieces, At
  <2>2. pc'[x] = "done"
    BY <1>0, <2>1 DEF PcOK, Goto
  <2>3. MapOf(x)'
    BY <2>2 DEF MapOf
  <2>4. Truthful'
    BY <1>b, <1>c, <2>1 DEF WasFetched, Truthful
  <2>5. DOMAIN bufferPiecesProgress' = Buffer(fileEntryIdx)
    BY <1>b, <2>1 DEF MapOf
  <2>6. Buffer(fileEntryIdx)' = Buffer(fileEntryIdx)
    BY <1>c DEF Buffer
  <2>7. MapRight'
    BY <2>5, <2>6 DEF MapRight
  <2> QED BY <1>0, <1>a, <1>c, <2>1, <2>3, <2>4, <2>7, PlannerMaps DEF PlannerPoints
<1> QED BY <1>1, <1>2, <1>3, <1>4, <1>5, <1>6 DEF Prioritizepieces

\* The handlers that select a file, or set priorities only, leave a map of it.
LEMMA SetterMaps ==
    ASSUME Orderly, TypeInv, WantInv, FullInv, NEW r \in Setters,
           PrioHandler(r) \/ GetHandler(r)
    PROVE  FullInv'
<1>0. PcOK /\ r \in Planners /\ r \in Goroutines /\ r # Loop
  BY PlannersDoNotWatch DEF TypeInv, Goroutines
<1>a. Alone(r)
  <2>1. CASE AskPriority(r) \/ AskGet(r)
    BY <2>1, AskerAlone DEF AskPriority, AskGet
  <2>2. CASE ~AskPriority(r) /\ ~AskGet(r)
    <3>1. InProgress(r)
      BY <2>2 DEF PrioHandler, GetHandler, InProgress, At, WantAll, Select, PrioritizeFile,
                  GetFilePieces, SmallFile, GetFile
    <3> QED BY <1>0, <3>1, AtWorkAlone DEF WantInv
  <2> QED BY <2>1, <2>2
<1>b. MapOf(r) /\ Truthful
  BY <1>0 DEF FullInv
<1>c. UNCHANGED <<bufferPiecesProgress, piece, corrupt, report>>
  BY DEF PrioHandler, GetHandler, AskPriority, WantAll, Select, PrioritizeFile, GetFilePieces,
         SmallFile, AskGet, GetFile, libVars
<1>d. Truthful'
  BY <1>b, <1>c DEF WasFetched, Truthful
<1>1. CASE AskPriority(r) \/ AskGet(r)
  <2>1. PICK to \in {"done", "all", "select", "get"} : Goto(r, to)
    BY <1>1 DEF AskPriority, AskGet
  <2>2. MapRight /\ UNCHANGED fileEntryIdx
    <3>1. \A s \in Setters : ~InProgress(s)
      BY <1>0, <1>1 DEF AskPriority, AskGet, MayAsk
    <3>2. At(Loop, "done")
      BY <1>1 DEF AskPriority, AskGet, MayAsk
    <3> QED BY <1>1, <3>1, <3>2 DEF FullInv, Quiet, AskPriority, AskGet
  <2>3. MapRight'
    BY <1>c, <2>2 DEF MapRight, Buffer, Nothing, Big
  <2>4. pc'[r] = to
    BY <1>0, <2>1 DEF PcOK, Goto
  <2>5. MapOf(r)'
    BY <2>3, <2>4 DEF MapOf
  <2> QED BY <1>0, <1>a, <1>c, <1>d, <2>1, <2>3, <2>5, PlannerMaps DEF PlannerPoints
<1>2. CASE WantAll(r) \/ GetFile(r)
  <2>1. PICK to \in {"done", "get"} : Goto(r, to)
    BY <1>2 DEF WantAll, GetFile
  <2>2. MapRight /\ UNCHANGED fileEntryIdx
    BY <1>2, <1>b DEF MapOf, WantAll, GetFile, At
  <2>3. MapRight'
    BY <1>c, <2>2 DEF MapRight, Buffer, Nothing, Big
  <2>4. pc'[r] = to
    BY <1>0, <2>1 DEF PcOK, Goto
  <2>5. MapOf(r)'
    BY <2>3, <2>4 DEF MapOf
  <2> QED BY <1>0, <1>a, <1>c, <1>d, <2>1, <2>3, <2>5, PlannerMaps DEF PlannerPoints
<1>3. CASE Select(r) \/ PrioritizeFile(r)
  <2>1. PICK to \in {"file", "offset", "getpieces"} :
           /\ Goto(r, to)
           /\ to = "getpieces" => ~Big(fileEntryIdx) /\ UNCHANGED fileEntryIdx
           /\ to = "file" => fileEntryIdx' = mine[r].index /\ UNCHANGED mine
    BY <1>3, <1>b DEF MapOf, Select, PrioritizeFile, At, Big
  <2>2. pc'[r] = to
    BY <1>0, <2>1 DEF PcOK, Goto
  <2>3. MapOf(r)'
    BY <2>1, <2>2 DEF MapOf, Big
  <2> QED BY <1>0, <1>a, <1>c, <1>d, <2>1, <2>3, PlannerMaps DEF PlannerPoints
<1>4. CASE GetFilePieces(r) \/ SmallFile(r)
  <2>1. PICK to \in {"small", "done"} : Goto(r, to)
    BY <1>4 DEF GetFilePieces, SmallFile
  <2>2. ~Big(fileEntryIdx) /\ UNCHANGED fileEntryIdx
    BY <1>4, <1>b DEF MapOf, GetFilePieces, SmallFile, At
  <2>3. MapRight'
    BY <2>2 DEF MapRight, Big
  <2>4. pc'[r] = to
    BY <1>0, <2>1 DEF PcOK, Goto
  <2>5. MapOf(r)'
    BY <2>2, <2>4 DEF MapOf, Big
  <2> QED BY <1>0, <1>a, <1>c, <1>d, <2>1, <2>3, <2>5, PlannerMaps DEF PlannerPoints
<1> QED BY <1>1, <1>2, <1>3, <1>4 DEF PrioHandler, GetHandler

\* A watcher's step up to its answer, of one that is at work.
LEMMA WatcherAtWorkMaps ==
    ASSUME TypeInv, WantInv, FullInv, NEW w \in Watchers, InProgress(w), FileHandler(w)
    PROVE  FullInv'
<1>0. /\ PcOK /\ w \in Goroutines /\ w # Loop /\ MapOK(bufferPiecesProgress)
      /\ report \in [Watchers -> [full: BOOLEAN, file: Files]]
  BY PlannersDoNotWatch, TypeParts DEF TypeInv, Goroutines
<1>a. Alone(w)
  BY <1>0, AtWorkAlone DEF WantInv
<1>b. Told(w) /\ Truthful /\ MapRight
  <2>1. Quiet
    <3>1. \A r \in Setters : ~InProgress(r)
      BY <1>a, PlannersDoNotWatch DEF Alone, Goroutines
    <3> QED BY <1>0, <1>a, <3>1 DEF Quiet, Alone, At
  <2> QED BY <2>1 DEF FullInv
<1>c. UNCHANGED <<fileEntryIdx, piece, corrupt>> /\ Fetched(fileEntryIdx)' = Fetched(fileEntryIdx)
  <2>1. UNCHANGED <<fileEntryIdx, piece, corrupt>>
    BY DEF FileHandler, AskFile, Lock, ReadLength, PiecesProgress, Total, Unlock, AnswerFile,
           PollAgain, libVars
  <2> QED BY <2>1 DEF WasFetched, Fetched, Big, Buffer
<1>d. ASSUME UNCHANGED bufferPiecesProgress PROVE Truthful' /\ MapRight'
  BY <1>b, <1>c, <1>d DEF WasFetched, Truthful, MapRight, Buffer, Nothing
<1>1. CASE Lock(w) \/ ReadLength(w) \/ Unlock(w)
  <2>1. /\ UNCHANGED <<bufferPiecesProgress, report>>
        /\ pc[w] \in {"lock", "length", "unlock"}
    BY <1>1 DEF Lock, ReadLength, Unlock, At
  <2>2. PICK to \in {"length", "unlock", "progress", "name"} :
           /\ Goto(w, to)
           /\ pc[w] = "lock" => to = "length"
           /\ pc[w] = "length" => to \in {"unlock", "progress"}
           /\ pc[w] = "unlock" => to = "name"
    BY <1>1 DEF Lock, ReadLength, Unlock, At
  <2>3. pc'[w] = to
    BY <1>0, <2>2 DEF PcOK, Goto
  <2>4. Told(w)'
    BY <1>b, <1>c, <2>1, <2>2, <2>3 DEF Told
  <2> QED BY <1>0, <1>a, <1>c, <1>d, <2>1, <2>2, <2>4, WatcherMaps
<1>2. CASE PiecesProgress(w)
  <2> DEFINE b == bufferPiecesProgress
             Now(q) == b[q] \/ (q \in Pieces /\ piece[q] # "missing")
  <2>1. b' = [q \in DOMAIN b |-> Now(q)] /\ Goto(w, "total") /\ UNCHANGED report
    BY <1>2 DEF PiecesProgress
  <2>2. pc'[w] = "total"
    BY <1>0, <2>1 DEF PcOK, Goto
  <2>3. Told(w)'
    BY <2>2 DEF Told
  <2>4. \A q \in DOMAIN b : b[q] \in BOOLEAN
    BY <1>0 DEF MapOK
  <2>5. ASSUME NEW q \in DOMAIN b \cap Pieces, Now(q) PROVE WasFetched(q)
    <3>1. b[q] => b[q] = TRUE
      BY <2>4
    <3> QED BY <1>b, <2>5, <3>1 DEF WasFetched, Truthful
  <2> HIDE DEF Now
  <2>6. DOMAIN b' = DOMAIN b /\ \A q \in DOMAIN b : b'[q] = Now(q)
    BY <2>1
  <2>7. ASSUME NEW q \in DOMAIN b' \cap Pieces, b'[q] = TRUE PROVE WasFetched(q)'
    <3>1. q \in DOMAIN b \cap Pieces /\ Now(q)
      BY <2>6, <2>7
    <3> QED BY <1>c, <2>5, <3>1 DEF WasFetched
  <2>8. Truthful'
    BY <2>7 DEF WasFetched, Truthful
  <2>9. MapRight'
    <3>1. CASE b = Nothing
      <4>1. DOMAIN b = {}
        BY <3>1 DEF Nothing
      <4>2. b' = Nothing
        BY <2>1, <4>1 DEF Nothing
      <4> QED BY <4>2 DEF MapRight, Nothing
    <3>2. CASE Big(fileEntryIdx) => DOMAIN b = Buffer(fileEntryIdx)
      BY <1>c, <2>6, <3>2 DEF MapRight, Buffer, Big
    <3> QED BY <1>b, <3>1, <3>2 DEF MapRight
  <2> QED BY <1>0, <1>a, <1>c, <2>1, <2>3, <2>8, <2>9, WatcherMaps
<1>3. CASE Total(w)
  <2> DEFINE b == bufferPiecesProgress
             full == b # Nothing /\ \A q \in DOMAIN b : b[q]
  <2>1. report' = [report EXCEPT ![w].full = full] /\ Goto(w, "unlock") /\ UNCHANGED b
    BY <1>3 DEF Total
  <2>2. pc'[w] = "unlock"
    BY <1>0, <2>1 DEF PcOK, Goto
  <2>3. full => Fetched(fileEntryIdx)
    <3> SUFFICES ASSUME full, Big(fileEntryIdx), NEW q \in Buffer(fileEntryIdx) \cap Pieces
                 PROVE  WasFetched(q)
      BY DEF Fetched
    <3>1. q \in DOMAIN b
      BY <1>b DEF MapRight
    <3>2. b[q] = TRUE
      BY <1>0, <3>1 DEF MapOK
    <3> QED BY <1>b, <3>1, <3>2 DEF WasFetched, Truthful
  <2>4. full \in BOOLEAN
    OBVIOUS
  <2> HIDE DEF full
  <2>5. report'[w].full = full /\ \A v \in Watchers : v # w => report'[v] = report[v]
    BY <1>0, <2>1
  <2>6. Told(w)'
    BY <1>c, <2>2, <2>3, <2>4, <2>5 DEF Told
  <2> QED BY <1>0, <1>a, <1>c, <1>d, <2>1, <2>5, <2>6, WatcherMaps
<1>4. CASE AnswerFile(w)
  <2>1. /\ pc[w] = "name" /\ Goto(w, "done") /\ UNCHANGED bufferPiecesProgress
        /\ report' = [report EXCEPT ![w].file = fileEntryIdx]
    BY <1>4 DEF AnswerFile, At
  <2>2. pc'[w] = "done"
    BY <1>0, <2>1 DEF PcOK, Goto
  <2>3. /\ report'[w].full = report[w].full /\ report'[w].file = fileEntryIdx
        /\ \A v \in Watchers : v # w => report'[v] = report[v]
    BY <1>0, <2>1
  <2>4. report[w].full = TRUE => Fetched(fileEntryIdx)
    BY <1>b, <2>1 DEF Told
  <2>5. Fetched(report[w].file)' <=> Fetched(fileEntryIdx)
    BY <1>c, <2>3 DEF WasFetched, Fetched, Big, Buffer
  <2>6. Told(w)'
    BY <2>2, <2>3, <2>4, <2>5 DEF Told
  <2> QED BY <1>0, <1>a, <1>c, <1>d, <2>1, <2>3, <2>6, WatcherMaps
<1>5. ~AskFile(w) /\ ~PollAgain(w)
  BY DEF InProgress, AskFile, PollAgain
<1> QED BY <1>1, <1>2, <1>3, <1>4, <1>5 DEF FileHandler

\* fileHandler counts only pieces that are there.
LEMMA FileMaps ==
    ASSUME Orderly, TypeInv, WantInv, FullInv, NEW w \in Watchers, FileHandler(w)
    PROVE  FullInv'
<1>0. /\ PcOK /\ w \in Goroutines /\ w \notin Planners /\ Planners \subseteq Goroutines
      /\ Watchers \subseteq Goroutines
      /\ report \in [Watchers -> [full: BOOLEAN, file: Files]]
  BY PlannersDoNotWatch, TypeParts DEF TypeInv, Goroutines
<1>1. CASE AskFile(w) \/ PollAgain(w)
  <2>1. UNCHANGED <<fileEntryIdx, bufferPiecesProgress, piece, corrupt, mine>>
    BY <1>1 DEF AskFile, PollAgain, libVars
  <2>2. PICK to \in {"name", "lock", "idle"} : Goto(w, to)
    BY <1>1 DEF AskFile, PollAgain
  <2>3. \A y \in Goroutines : pc'[y] = IF y = w THEN to ELSE pc[y]
    BY <1>0, <2>2 DEF PcOK, Goto
  <2>4. /\ \A v \in Watchers : v # w => report'[v] = report[v]
        /\ to # "idle" => report'[w].full = FALSE
    <3>1. CASE AskFile(w)
      BY <1>0, <3>1 DEF AskFile
    <3>2. CASE PollAgain(w)
      <4>1. to = "idle"
        BY <1>0, <2>3, <3>2 DEF PollAgain, Goto, PcOK
      <4> QED BY <3>2, <4>1 DEF PollAgain
    <3> QED BY <1>1, <3>1, <3>2
  <2>5. ASSUME NEW v \in Watchers PROVE Told(v)'
    <3>1. CASE v = w
      BY <1>0, <2>3, <2>4, <3>1 DEF Told
    <3>2. CASE v # w
      <4>1. Told(v) /\ pc'[v] = pc[v] /\ report'[v] = report[v]
        BY <1>0, <2>3, <2>4, <3>2 DEF FullInv
      <4> QED BY <2>1, <4>1 DEF WasFetched, Told, Fetched, Big, Buffer
    <3> QED BY <3>1, <3>2
  <2>6. \A x \in Planners : pc'[x] = pc[x]
    BY <1>0, <2>3
  <2>7. \A q \in Pieces : WasFetched(q) => WasFetched(q)'
    BY <2>1 DEF WasFetched
  <2> QED BY <2>1, <2>5, <2>6, <2>7, NothingMaps
<1>2. CASE ~AskFile(w) /\ ~PollAgain(w)
  <2>1. InProgress(w)
    BY <1>2 DEF FileHandler, Lock, ReadLength, PiecesProgress, Total, Unlock, AnswerFile,
                InProgress, At
  <2> QED BY <2>1, WatcherAtWorkMaps
<1> QED BY <1>1, <1>2

\* A piece that was fetched is not missing again, unless it proves corrupt.
LEMMA PieceMaps ==
    ASSUME TypeInv, FullInv, NEW q \in Pieces, Fetch(q) \/ CheckHash(q)
    PROVE  FullInv'
<1>1. UNCHANGED <<fileEntryIdx, bufferPiecesProgress, pc, mine, report>>
  BY DEF Fetch, CheckHash
<1>2. piece \in [Pieces -> {"missing", "blocks", "have"}]
  BY TypeParts DEF TypeInv
<1>3. \A p \in Pieces : WasFetched(p) => WasFetched(p)'
  BY <1>2 DEF Fetch, CheckHash, WasFetched
<1>4. ASSUME NEW w \in Watchers PROVE Told(w)'
  <2>1. Told(w)
    BY DEF FullInv
  <2>2. pc'[w] \in {"unlock", "name"} /\ report'[w].full = TRUE => Fetched(fileEntryIdx)'
    <3>1. Fetched(fileEntryIdx) => Fetched(fileEntryIdx)'
      BY <1>1, <1>3 DEF WasFetched, Fetched, Big, Buffer
    <3> QED BY <1>1, <2>1, <3>1 DEF Told
  <2>3. pc'[w] = "done" /\ report'[w].full = TRUE => Fetched(report[w].file)'
    <3>1. Fetched(report[w].file) => Fetched(report[w].file)'
      BY <1>1, <1>3 DEF WasFetched, Fetched, Big, Buffer
    <3> QED BY <1>1, <2>1, <3>1 DEF Told
  <2> QED BY <1>1, <2>1, <2>2, <2>3 DEF Told
<1> QED BY <1>1, <1>3, <1>4, NothingMaps

\* Every step keeps the map true and of the selected file.
LEMMA StepMaps ==
    ASSUME Orderly
    PROVE  TypeInv /\ WantInv /\ FullInv /\ [Next]_vars => FullInv'
<1> SUFFICES ASSUME TypeInv, WantInv, FullInv, [Next]_vars PROVE FullInv'
  OBVIOUS
<1>1. CASE OnMetadataReceived
  BY <1>1, MetadataMaps
<1>2. CASE \E x \in Planners : Prioritizepieces(x)
  BY <1>2, PlanMaps
<1>3. CASE \E r \in Setters : PrioHandler(r) \/ GetHandler(r)
  BY <1>3, SetterMaps
<1>4. CASE \E w \in Watchers : FileHandler(w)
  BY <1>4, FileMaps
<1>5. CASE \E q \in Pieces : Fetch(q) \/ CheckHash(q)
  BY <1>5, PieceMaps
<1>6. CASE UNCHANGED vars
  <2>1. UNCHANGED <<fileEntryIdx, bufferPiecesProgress, piece, corrupt, pc, mine, report>>
    BY <1>6 DEF vars, libVars
  <2>2. ASSUME NEW w \in Watchers PROVE Told(w)'
    BY <2>1 DEF WasFetched, FullInv, Told, Fetched, Big, Buffer
  <2>3. \A q \in Pieces : WasFetched(q) => WasFetched(q)'
    BY <2>1 DEF WasFetched
  <2> QED BY <2>1, <2>2, <2>3, NothingMaps
<1> QED BY <1>1, <1>2, <1>3, <1>4, <1>5, <1>6 DEF Next

\* At the start there is no map.
LEMMA InitMaps == Init => FullInv
<1> SUFFICES ASSUME Init PROVE FullInv
  OBVIOUS
<1>1. (\A x \in Planners : pc[x] = "idle") /\ \A w \in Watchers : pc[w] = "idle"
  BY DEF Init
<1>2. Truthful
  BY DEF WasFetched, Init, Truthful, Nothing
<1>3. MapRight
  BY DEF Init, MapRight
<1>4. \A x \in Planners : MapOf(x)
  BY <1>1 DEF MapOf
<1>5. \A w \in Watchers : Told(w)
  BY <1>1 DEF Told
<1> QED BY <1>2, <1>3, <1>4, <1>5 DEF FullInv, Init

\* What /lsfile says to clients that ask one thing at a time: a buffer of 1 is said of a
\* file that is not small only when libtorrent has fetched each piece of that file's
\* buffer, and lost none but what proved corrupt.
THEOREM FullBufferIsThere ==
    ASSUME Orderly
    PROVE  Spec => []FullMeansBuffered
<1>1. Spec => []TypeInv
  BY InitTypes, StepTypes, PTL DEF Spec
<1>2. TypeInv /\ WantInv /\ [Next]_vars => WantInv'
  BY StepWants
<1>3. TypeInv /\ WantInv /\ FullInv /\ [Next]_vars => FullInv'
  BY StepMaps
<1>4. FullInv => FullMeansBuffered
  BY DEF WasFetched, FullInv, Told, Fetched, Big, FullMeansBuffered, At
<1> QED BY <1>1, <1>2, <1>3, <1>4, InitWants, InitMaps, PTL DEF Spec

-----------------------------------------------------------------------------
(* The plan of whichever file *)

\* A place is where a file begins and how big it is, and it fits.
LEMMA PlacesFit ==
    ASSUME NEW place \in Places
    PROVE  place[1] \in Nat /\ place[2] \in Nat /\ Fits(place[1], place[2])
<1>1. NumPieces * PieceLength \in Nat
  BY PlanAssumption
<1> QED BY <1>1 DEF Places

\* For every number and length of the pieces and whatever the buffers: wherever the
\* file begins and ends, all of it is fetched, and beyond it only its buffer.
THEOREM EveryPlaceIsFetched == Spec => []AlwaysFetches
<1>1. AlwaysFetches
  BY PlacesFit, FetchesEveryFile DEF AlwaysFetches
<1> QED BY <1>1, PTL

\* For the same: the buffer that /lsfile reports full holds the file's beginning and
\* its end.
THEOREM EveryPlaceIsBuffered == Spec => []AlwaysBuffers
<1>1. AlwaysBuffers
  BY PlacesFit, BuffersEveryFile DEF AlwaysBuffers
<1> QED BY <1>1, PTL
=============================================================================
