--------------------------- MODULE FileRemovalProofs ---------------------------
(* What removeFiles removes and what it leaves, in every tree of folders. *)
EXTENDS FileRemoval, Integers, FiniteSetTheorems, TLAPS

\* The folders still to be looked at, of those on the way up.
Pending == IF path \in Folders THEN {path} \cup Above[path] ELSE {}

\* The climb is on the way of the file that was removed last.
OnTheWay ==
    pc = "folders" =>
       /\ file \in listed \ present
       /\ path \in Above[file] \cup {Root, RootSeparator}

\* A folder of a removed file that is empty, and could be removed, is still ahead.
EmptyIsPending ==
    \A f \in listed \ present : \A d \in Above[f] \cap present :
        Children(d) = {} /\ d \notin refused => pc = "folders" /\ d \in Pending

\* What has not gone was refused, or has its turn to come.
ListedIsHandled == listed \cap present \subseteq refused \cup files

RemovalInv == TypeOK /\ OnTheWay /\ EmptyIsPending /\ ListedIsHandled

-----------------------------------------------------------------------------
\* From a file or a folder the climb goes to the folder it lies in.
LEMMA DirClimbs ==
    ASSUME NEW x \in Below
    PROVE  /\ Parent[x] = Root => Dir(x) \in {Root, RootSeparator} /\ Above[x] = {}
           /\ Parent[x] # Root => /\ Dir(x) = Parent[x] /\ Parent[x] \in Folders
                                  /\ Above[x] = {Parent[x]} \cup Above[Parent[x]]
<1>1. x # RootSeparator /\ x # Root /\ Parent[x] \in Folders \cup {Root}
  BY TreeAssumption
<1>2. Above[x] = IF Parent[x] = Root THEN {} ELSE {Parent[x]} \cup Above[Parent[x]]
  BY TreeAssumption
<1> QED BY <1>1, <1>2 DEF Dir

\* Neither form of the download path is a folder below it.
LEMMA RootIsNoFolder == Root \notin Below /\ RootSeparator \notin Below /\ Folders \subseteq Below
  BY TreeAssumption DEF Below

\* One more step of the climb leaves what was pending but for the folder itself.
LEMMA ClimbPending ==
    ASSUME TypeOK, path # Root, path' = Trimmed(Dir(path))
    PROVE  /\ path' \in Folders \cup {Root}
           /\ Pending \ {path} \subseteq Pending'
           /\ path \in Folders => Parent[path] \in Pending' \cup {Root}
           /\ path \in Folders /\ path' # Root => path' \in Above[path]
<1>1. CASE path \in Folders
  <2>1. path \in Below
    BY <1>1, RootIsNoFolder
  <2>2. CASE Parent[path] = Root
    BY <1>1, <2>1, <2>2, DirClimbs DEF Trimmed, Pending
  <2>3. CASE Parent[path] # Root
    BY <1>1, <2>1, <2>3, DirClimbs, RootIsNoFolder DEF Trimmed, Pending
  <2> QED BY <2>2, <2>3
<1>2. CASE path = RootSeparator
  BY <1>2, RootIsNoFolder DEF Dir, Trimmed, Pending
<1> QED BY <1>1, <1>2 DEF TypeOK

\* The initial states satisfy the invariant.
LEMMA RemovalInit == Init => RemovalInv
  BY DEF Init, RemovalInv, TypeOK, OnTheWay, EmptyIsPending, ListedIsHandled

\* Removing x can only have made the folder it lies in an empty one.
LEMMA NewlyEmpty ==
    ASSUME NEW x \in Below, present' = present \ {x}, NEW d \in Folders,
           Children(d) # {}, Children(d)' = {}
    PROVE  d = Parent[x]
  BY DEF Children

\* Every step keeps the invariant.
LEMMA RemovalStep == RemovalInv /\ [Next]_vars => RemovalInv'
<1> SUFFICES ASSUME RemovalInv, [Next]_vars PROVE RemovalInv'
  OBVIOUS
<1>t. TypeOK
  BY DEF RemovalInv
<1>f. \A f \in Files : f \in Below /\ Above[f] \subseteq Folders /\ f \notin Folders
  BY TreeAssumption DEF Below
<1>1. ASSUME NEW f \in files, pc = "files", files' = files \ {f}, file' = f,
             UNCHANGED <<driveRoot, listed>>,
             present' = present \ {f}, path' = Dir(f), pc' = "folders", UNCHANGED refused
      PROVE  RemovalInv'
  <2>1. f \in Files /\ f \in listed /\ f \in Below
    BY <1>1, <1>t, <1>f DEF TypeOK
  <2>2. path' \in Above[f] \cup {Root, RootSeparator} /\ Above[f] \subseteq Pending'
    BY <1>1, <2>1, DirClimbs, RootIsNoFolder DEF Pending
  <2>3. TypeOK'
    BY <1>1, <1>t, <1>f, <2>1, <2>2 DEF TypeOK
  <2>4. OnTheWay'
    BY <1>1, <2>1, <2>2 DEF OnTheWay
  <2>5. EmptyIsPending'
    <3> SUFFICES ASSUME NEW g \in listed \ present', NEW d \in Above[g] \cap present',
                        Children(d)' = {}, d \notin refused
                 PROVE  d \in Pending'
      BY <1>1 DEF EmptyIsPending
    <3>1. CASE g = f
      BY <2>2, <3>1
    <3>2. CASE g # f
      <4>1. g \in listed \ present /\ d \in Above[g] \cap present
        BY <1>1, <3>2
      <4>2. Children(d) # {}
        BY <1>1, <4>1 DEF RemovalInv, EmptyIsPending
      <4>3. d \in Folders
        BY <1>f, <1>t, <4>1 DEF TypeOK
      <4>4. d = Parent[f]
        BY <1>1, <2>1, <4>2, <4>3, NewlyEmpty
      <4>5. Parent[f] # Root
        BY <4>3, <4>4, RootIsNoFolder
      <4> QED BY <2>1, <2>2, <4>4, <4>5, DirClimbs
    <3> QED BY <3>1, <3>2
  <2>6. ListedIsHandled'
    BY <1>1 DEF RemovalInv, ListedIsHandled
  <2> QED BY <2>3, <2>4, <2>5, <2>6 DEF RemovalInv
<1>2. ASSUME NEW f \in files, pc = "files", files' = files \ {f}, file' = f,
             UNCHANGED <<driveRoot, listed>>,
             refused' = refused \cup {f}, UNCHANGED <<present, path, pc>>
      PROVE  RemovalInv'
  <2>1. f \in Files /\ f \in listed /\ f \in Below
    BY <1>2, <1>t, <1>f DEF TypeOK
  <2>2. TypeOK'
    BY <1>2, <1>t, <2>1 DEF TypeOK
  <2>3. OnTheWay' /\ ListedIsHandled'
    BY <1>2 DEF RemovalInv, OnTheWay, ListedIsHandled
  <2>4. EmptyIsPending'
    BY <1>2 DEF RemovalInv, EmptyIsPending, Children
  <2> QED BY <2>2, <2>3, <2>4 DEF RemovalInv
<1>3. ASSUME pc = "folders", Arrived, pc' = "files", UNCHANGED <<present, path, refused>>,
             UNCHANGED <<driveRoot, files, file, listed>>
      PROVE  RemovalInv'
  <2>1. Pending = {}
    BY <1>3, RootIsNoFolder DEF Arrived, Pending
  <2>2. EmptyIsPending'
    BY <1>3, <2>1 DEF RemovalInv, EmptyIsPending, Children
  <2> QED BY <1>3, <2>2 DEF RemovalInv, TypeOK, OnTheWay, ListedIsHandled
<1>4. ASSUME pc = "folders", ~Arrived, RemoveFolder, path' = Trimmed(Dir(path)), UNCHANGED pc,
             UNCHANGED <<driveRoot, files, file, listed>>
      PROVE  RemovalInv'
  <2>1. /\ path' \in Folders \cup {Root}
        /\ Pending \ {path} \subseteq Pending'
        /\ path \in Folders => Parent[path] \in Pending' \cup {Root}
        /\ path \in Folders /\ path' # Root => path' \in Above[path]
    BY <1>4, <1>t, ClimbPending DEF Arrived
  <2>2. present' \subseteq present /\ present \ present' \subseteq {path}
    BY <1>4 DEF RemoveFolder
  <2>3. refused \subseteq refused' /\ refused' \subseteq refused \cup (present \cap {path})
    BY <1>4 DEF RemoveFolder
  <2>4. file \in listed \ present /\ path \in Above[file] \cup {Root, RootSeparator}
    BY <1>4 DEF RemovalInv, OnTheWay
  <2>5. file \in Files /\ file \in Below
    BY <2>4, <1>t, <1>f DEF TypeOK
  <2>6. TypeOK'
    BY <1>4, <1>t, <2>1, <2>2, <2>3, RootIsNoFolder DEF TypeOK, Arrived
  <2>7. path' \in Above[file] \cup {Root}
    <3>1. CASE path \in Folders /\ path' # Root
      <4>1. path \in Above[file] /\ path \in Below
        BY <2>4, <3>1, RootIsNoFolder
      <4>2. path' = Parent[path]
        BY <1>4, <3>1, <4>1, DirClimbs, RootIsNoFolder DEF Trimmed
      <4> QED BY <2>5, <4>1, <4>2, TreeAssumption
    <3>2. CASE path \notin Folders
      BY <1>4, <1>t, <3>2 DEF TypeOK, Arrived, Dir, Trimmed
    <3> QED BY <3>1, <3>2
  <2>8. OnTheWay'
    BY <1>4, <2>2, <2>4, <2>7 DEF OnTheWay
  <2>9. EmptyIsPending'
    <3> SUFFICES ASSUME NEW g \in listed \ present', NEW d \in Above[g] \cap present',
                        Children(d)' = {}, d \notin refused'
                 PROVE  d \in Pending'
      BY <1>4 DEF EmptyIsPending
    <3>1. g \in Files /\ d \in Folders /\ d \in present
      BY <1>4, <1>t, <1>f, <2>2 DEF TypeOK
    <3>2. g \notin present
      <4>1. CASE path \in Folders
        BY <2>2, <3>1, <4>1, <1>f
      <4>2. CASE path \notin Folders
        BY <1>4, <1>t, <2>2, <3>1, <4>2, <1>f, RootIsNoFolder DEF TypeOK, Arrived
      <4> QED BY <4>1, <4>2
    <3>3. CASE Children(d) = {}
      <4>1. d \in Pending
        BY <1>4, <2>3, <3>1, <3>2, <3>3 DEF RemovalInv, EmptyIsPending
      <4>2. d # path
        BY <1>4, <3>1, <3>3 DEF RemoveFolder
      <4> QED BY <2>1, <4>1, <4>2
    <3>4. CASE Children(d) # {}
      <4>1. present' = present \ {path} /\ path \in present
        BY <1>4, <3>4 DEF RemoveFolder, Children
      <4>2. path \in Below /\ path \in Folders
        BY <1>4, <1>t, <4>1, RootIsNoFolder DEF TypeOK, Arrived
      <4>3. d = Parent[path]
        BY <3>1, <3>4, <4>1, <4>2, NewlyEmpty
      <4> QED BY <2>1, <3>1, <4>2, <4>3, RootIsNoFolder
    <3> QED BY <3>3, <3>4
  <2>10. ListedIsHandled'
    BY <1>4, <2>2, <2>3 DEF RemovalInv, ListedIsHandled
  <2> QED BY <2>6, <2>8, <2>9, <2>10 DEF RemovalInv
<1>5. CASE Return
  BY <1>5 DEF Return, RemovalInv, TypeOK, OnTheWay, EmptyIsPending, ListedIsHandled, Pending, Children
<1>6. ASSUME NEW o \in Others, Appear(o) PROVE RemovalInv'
  <2>1. o \in Below /\ o \notin Files
    BY TreeAssumption DEF Below
  <2>2. present' = present \cup {o} /\ UNCHANGED <<files, file, path, pc, listed, refused, driveRoot>>
    BY <1>6 DEF Appear
  <2>3. listed \ present' = listed \ present /\ o \notin Folders
    BY <2>1, <2>2, <1>t, TreeAssumption DEF TypeOK
  <2>4. EmptyIsPending'
    <3> SUFFICES ASSUME NEW g \in listed \ present, NEW d \in Above[g] \cap present',
                        Children(d)' = {}, d \notin refused
                 PROVE  pc = "folders" /\ d \in Pending
      BY <2>2, <2>3 DEF EmptyIsPending, Pending
    <3>1. d \in present /\ Children(d) = {}
      BY <2>2, <2>3, <1>t, <1>f DEF TypeOK, Children
    <3> QED BY <3>1 DEF RemovalInv, EmptyIsPending
  <2>5. TypeOK' /\ OnTheWay' /\ ListedIsHandled'
    BY <1>t, <2>1, <2>2, <2>3 DEF RemovalInv, TypeOK, OnTheWay, ListedIsHandled
  <2> QED BY <2>4, <2>5 DEF RemovalInv
<1>7. CASE UNCHANGED vars
  BY <1>7 DEF vars, RemovalInv, TypeOK, OnTheWay, EmptyIsPending, ListedIsHandled, Pending, Children
<1> QED BY <1>1, <1>2, <1>3, <1>4, <1>5, <1>6, <1>7 DEF Next, RemoveFiles, RemoveFile, Prune

\* The loops keep within the list, the folders and the download path.
THEOREM RemovalTypes == Spec => []TypeOK
  BY RemovalInit, RemovalStep, PTL DEF Spec, RemovalInv

\* Nothing disappears but listed files and the empty folders of such files, in any
\* tree, whatever fails and whatever somebody else puts there meanwhile.
THEOREM RemovesOnlyListed == Spec => OnlyListedDisappear
<1>1. RemovalInv /\ [Next]_vars =>
        [\A x \in present \ present' :
            \/ x \in listed
            \/ /\ Children(x) = {}
               /\ \E f \in listed \ present : x \in Above[f]]_vars
  <2> SUFFICES ASSUME RemovalInv, Next, NEW x \in present \ present'
               PROVE  \/ x \in listed
                      \/ /\ Children(x) = {}
                         /\ \E f \in listed \ present : x \in Above[f]
    OBVIOUS
  <2>1. CASE RemoveFile
    BY <2>1 DEF RemoveFile, RemovalInv, TypeOK
  <2>2. CASE Prune
    <3>1. pc = "folders" /\ x = path /\ Children(x) = {} /\ x \in Below
      BY <2>2 DEF Prune, RemoveFolder, Arrived, RemovalInv, TypeOK
    <3>2. file \in listed \ present /\ x \in Above[file]
      BY <3>1, RootIsNoFolder DEF RemovalInv, OnTheWay
    <3> QED BY <3>1, <3>2
  <2>3. CASE Return \/ \E o \in Others : Appear(o)
    BY <2>3 DEF Return, Appear
  <2> QED BY <2>1, <2>2, <2>3 DEF Next, RemoveFiles
<1> QED BY <1>1, RemovalInit, RemovalStep, PTL DEF Spec, OnlyListedDisappear

\* When removeFiles returns, no listed file and no empty folder of one is left that
\* could have been removed.
THEOREM LeavesTidy == Spec => []LeavesNoEmptyFolder
<1>1. RemovalInv /\ (pc = "done" => files = {}) => LeavesNoEmptyFolder
  BY DEF RemovalInv, EmptyIsPending, ListedIsHandled, LeavesNoEmptyFolder
<1>2. Init => (pc = "done" => files = {})
  BY DEF Init
<1>3. (pc = "done" => files = {}) /\ [Next]_vars => (pc = "done" => files = {})'
  BY DEF Next, RemoveFiles, RemoveFile, Prune, Return, Appear, vars
<1> QED BY <1>1, <1>2, <1>3, RemovalInit, RemovalStep, PTL DEF Spec
-----------------------------------------------------------------------------
(* Why the loops end, in numbers *)

\* The turns of the climb until path = savePath.
TurnsLeft == IF path = Root THEN 0 ELSE 1 + Cardinality(Pending)

\* A file begins a climb of no more turns than it has folders, and one for a path that
\* ends in a separator; a turn is one turn less; and no other step touches either.
Descent ==
    RemoveFiles =>
       \/ /\ pc = "files" /\ Cardinality(files') < Cardinality(files)
          /\ pc' = "folders" => TurnsLeft' <= 1 + Cardinality(Above[file'])
       \/ /\ pc = "folders" /\ files' = files
          /\ IF TurnsLeft = 0 THEN pc' = "files" ELSE pc' = pc /\ TurnsLeft' < TurnsLeft
       \/ pc = "files" /\ files = {} /\ pc' = "done"

\* There are only so many folders on the way.
LEMMA TurnsAreFinite ==
    ASSUME TypeOK
    PROVE  /\ IsFiniteSet(Pending) /\ Cardinality(Pending) \in Nat
           /\ TurnsLeft \in Nat
           /\ TurnsLeft = 0 <=> Arrived
<1>1. Pending \subseteq Folders
  BY TreeAssumption DEF Pending, Below
<1>2. IsFiniteSet(Pending) /\ Cardinality(Pending) \in Nat
  BY <1>1, TreeAssumption, FS_Subset, FS_CardinalityType
<1> QED BY <1>2 DEF TurnsLeft, Arrived

\* A folder is not on its own way up, so that each turn leaves fewer ahead.
LEMMA TurnDescends ==
    ASSUME TypeOK, TypeOK', ~Arrived, path' = Trimmed(Dir(path))
    PROVE  TurnsLeft' < TurnsLeft
<1>1. /\ path' \in Folders \cup {Root}
      /\ path \in Folders /\ path' # Root => path' \in Above[path]
  BY ClimbPending DEF Arrived
<1>2. CASE path' = Root
  BY <1>2, TurnsAreFinite DEF TurnsLeft, Arrived
<1>3. CASE path' # Root
  <2>1. path \in Folders /\ path' \in Folders /\ path \in Below /\ path \notin Above[path]
    <3>1. path \in Folders
      BY <1>1, <1>3, RootIsNoFolder DEF TypeOK, Arrived, Trimmed, Dir
    <3> QED BY <3>1, <1>1, <1>3, RootIsNoFolder, TreeAssumption
  <2>2. Pending' \subseteq Above[path]
    <3>1. Parent[path] # Root /\ path' = Parent[path]
      BY <1>3, <2>1, DirClimbs, RootIsNoFolder DEF Trimmed
    <3>2. Above[path] = {path'} \cup Above[path']
      BY <2>1, <3>1, DirClimbs
    <3> QED BY <3>2 DEF Pending
  <2>3. Pending' \subseteq Pending /\ path \in Pending \ Pending'
    BY <2>1, <2>2 DEF Pending
  <2>4. IsFiniteSet(Pending) /\ Pending' # Pending /\ Pending' \in SUBSET Pending
    BY <2>3, TurnsAreFinite
  <2>5. Cardinality(Pending') \in Nat /\ Cardinality(Pending) \in Nat
    BY <2>4, FS_Subset, FS_CardinalityType
  <2>6. Cardinality(Pending') <= Cardinality(Pending) /\ Cardinality(Pending) # Cardinality(Pending')
    BY <2>4, FS_Subset
  <2> QED BY <1>3, <2>5, <2>6 DEF TurnsLeft, Arrived
<1> QED BY <1>1, <1>2, <1>3

\* removeFiles goes through a finite list, and from each file up a finite way that
\* brings every turn of the loop nearer to the download path, in any tree, whatever
\* fails and whoever else puts files there (for path != savePath).
THEOREM RemovalDescends == Spec => [][Descent]_vars
<1>1. RemovalInv /\ RemovalInv' /\ [Next]_vars => [Descent]_vars
  <2> SUFFICES ASSUME RemovalInv, RemovalInv', Next, RemoveFiles PROVE Descent
    BY DEF Descent
  <2>t. TypeOK /\ TypeOK' /\ \A f \in Files : f \in Below
    BY DEF RemovalInv, Below
  <2>1. ASSUME NEW f \in files, pc = "files", files' = files \ {f}, file' = f,
               pc' = "folders" => path' = Dir(f)
        PROVE  Descent
    <3>1. IsFiniteSet(files) /\ f \in Below
      BY <2>t, TreeAssumption, FS_Subset DEF TypeOK
    <3>2. Cardinality(files') < Cardinality(files)
      <4>1. Cardinality(files) \in Nat
        BY <3>1, FS_CardinalityType
      <4>2. Cardinality(files \ {f}) = Cardinality(files) - 1
        BY <3>1, FS_RemoveElement
      <4> QED BY <2>1, <4>1, <4>2
    <3>3. ASSUME path' = Dir(f) PROVE TurnsLeft' <= 1 + Cardinality(Above[f])
      <4>1. IsFiniteSet(Above[f])
        BY <3>1, TreeAssumption, FS_Subset
      <4>2. Cardinality(Above[f]) \in Nat
        BY <4>1, FS_CardinalityType
      <4>3. Pending' \subseteq Above[f]
        BY <3>1, <3>3, DirClimbs, RootIsNoFolder DEF Pending
      <4>4. Cardinality(Pending') \in Nat /\ Cardinality(Pending') <= Cardinality(Above[f])
        BY <4>1, <4>3, FS_Subset, FS_CardinalityType
      <4> QED BY <4>2, <4>4 DEF TurnsLeft
    <3> QED BY <2>1, <3>2, <3>3 DEF Descent
  <2>2. CASE RemoveFile
    BY <2>1, <2>2 DEF RemoveFile
  <2>3. CASE Prune
    <3>1. CASE Arrived
      BY <2>3, <2>t, <3>1, TurnsAreFinite DEF Prune, Descent
    <3>2. CASE ~Arrived
      BY <2>3, <2>t, <3>2, TurnsAreFinite, TurnDescends DEF Prune, Descent
    <3> QED BY <3>1, <3>2
  <2>4. CASE Return
    BY <2>4 DEF Return, Descent
  <2> QED BY <2>2, <2>3, <2>4 DEF RemoveFiles
<1> QED BY <1>1, RemovalInit, RemovalStep, PTL DEF Spec
=============================================================================
