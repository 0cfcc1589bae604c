----------------------------- MODULE FileRemoval -----------------------------
(***************************************************************************)
(* removeFiles: the files that no option keeps are removed one by one, and *)
(* after each the folders on its way up to the download path, as far as    *)
(* they are empty by then.  The module Shutdown has this as one step.      *)
(*                                                                         *)
(* Folders here are those below the download path, which is Root.  If it   *)
(* is the root of a drive, filepath.Dir of what lies in it is not Root but *)
(* Root with a separator, which trimPathSeparator takes off.               *)
(***************************************************************************)
EXTENDS FiniteSets

CONSTANTS
    Files,         \* the files of the torrent
    Others,        \* files of somebody else
    Folders,
    Root, RootSeparator,
    Outside,       \* what the download path lies in
    Parent,        \* of a file or a folder
    Above          \* its folders on the way to the download path

Below == Files \cup Others \cup Folders

ASSUME TreeAssumption ==
    /\ IsFiniteSet(Files) /\ IsFiniteSet(Folders)
    /\ Files \cap Others = {} /\ Folders \cap (Files \cup Others) = {}
    /\ Root \notin Below
    /\ RootSeparator \notin Below \cup {Root}
    /\ Outside \notin Below \cup {Root, RootSeparator}
    /\ Parent[Root] = Outside
    /\ \A x \in Below : Parent[x] \in Folders \cup {Root}
    /\ Above \in [Below -> SUBSET Folders]
    /\ \A x \in Below :
         /\ Above[x] = IF Parent[x] = Root THEN {} ELSE {Parent[x]} \cup Above[Parent[x]]
         /\ x \notin Above[x]
         /\ \A d \in Above[x] : Parent[d] \in Above[x] \cup {Root}

VARIABLES
    driveRoot,     \* config.downloadPath is the root of a drive
    present,       \* the download path, and what there is below it
    files,         \* what is left of the list that filesToRemove has returned
    file, path,    \* of the loops
    pc,
    listed,        \* the whole list: history
    refused        \* what os.Remove has failed to remove though it could be: history

vars == <<driveRoot, present, files, file, path, pc, listed, refused>>

Children(d) == {x \in present : Parent[x] = d}

-----------------------------------------------------------------------------
(* path/filepath *)

Dir(x) ==
    LET up == IF x = RootSeparator THEN Root ELSE Parent[x]
    IN  IF up = Root /\ driveRoot THEN RootSeparator ELSE up

\* Mutant of Trimmed: the separator stays.
TrimmedNot(x) == x

\* trimPathSeparator
Trimmed(x) == IF x = RootSeparator THEN Root ELSE x

-----------------------------------------------------------------------------
\* Every file has its folders, and the list is of files that there are.
Init ==
    /\ driveRoot \in BOOLEAN
    /\ \E S \in SUBSET Below :
         /\ \A x \in S : Above[x] \subseteq S
         /\ present = S \cup {Root}
         /\ files \in SUBSET (S \cap Files)
    /\ listed = files
    /\ file = Root
    /\ path = Root
    /\ pc = "files"
    /\ refused = {}

\* os.Remove(file): its folders are looked at if it went.
RemoveFile ==
    /\ pc = "files"
    /\ \E f \in files :
         /\ files' = files \ {f}
         /\ file' = f
         /\ \/ /\ present' = present \ {f}
               /\ path' = Dir(f)
               /\ pc' = "folders"
               /\ UNCHANGED refused
            \/ /\ refused' = refused \cup {f}
               /\ UNCHANGED <<present, path, pc>>
    /\ UNCHANGED <<driveRoot, listed>>

\* Mutant of RemoveFolder: os.RemoveAll.
RemoveFolderTree ==
    /\ present' = {x \in present : x # path /\ (x \in Below => path \notin Above[x])}
    /\ UNCHANGED refused

\* os.Remove(path) removes an empty folder, or fails and nothing is said of it; what
\* is written as the root of a drive with its separator it never removes.
RemoveFolder ==
    \/ /\ path \in present /\ Children(path) = {}
       /\ \/ present' = present \ {path} /\ UNCHANGED refused
          \/ refused' = refused \cup {path} /\ UNCHANGED present
    \/ /\ path \notin present \/ Children(path) # {}
       /\ UNCHANGED <<present, refused>>

\* Mutant of Arrived: the loop ends only when the download path itself is done.
ArrivedLate == path = Outside

\* path = savePath
Arrived == path = Root

\* Mutant of Prune: only the folder of the file itself.
PruneOnce ==
    /\ pc = "folders"
    /\ IF Arrived
       THEN pc' = "files" /\ UNCHANGED <<present, path, refused>>
       ELSE RemoveFolder /\ path' = Root /\ UNCHANGED pc
    /\ UNCHANGED <<driveRoot, files, file, listed>>

\* for path != savePath
Prune ==
    /\ pc = "folders"
    /\ IF Arrived
       THEN pc' = "files" /\ UNCHANGED <<present, path, refused>>
       ELSE /\ RemoveFolder
            /\ path' = Trimmed(Dir(path))
            /\ UNCHANGED pc
    /\ UNCHANGED <<driveRoot, files, file, listed>>

Return ==
    /\ pc = "files"
    /\ files = {}
    /\ pc' = "done"
    /\ UNCHANGED <<driveRoot, present, files, file, path, listed, refused>>

\* Somebody else puts a file into a folder.
Appear(o) ==
    /\ o \notin present
    /\ Above[o] \subseteq present
    /\ present' = present \cup {o}
    /\ UNCHANGED <<driveRoot, files, file, path, pc, listed, refused>>

RemoveFiles == RemoveFile \/ Prune \/ Return

Next == RemoveFiles \/ \E o \in Others : Appear(o)

Spec == Init /\ [][Next]_vars /\ WF_vars(RemoveFiles)

-----------------------------------------------------------------------------
(* Properties *)

TypeOK ==
    /\ driveRoot \in BOOLEAN
    /\ present \subseteq Below \cup {Root}
    /\ files \subseteq listed /\ listed \subseteq Files
    /\ file \in listed \cup {Root}
    /\ path \in Folders \cup {Root, RootSeparator}
    /\ pc \in {"files", "folders", "done"}
    /\ refused \subseteq Below

\* What disappears is a file of the list, or an empty folder of such a file: never
\* a file of somebody else with its folders, never a folder that only happens to be
\* empty, never the download path (the loop over path).
OnlyListedDisappear ==
    [][\A x \in present \ present' :
          \/ x \in listed
          \/ /\ Children(x) = {}
             /\ \E f \in listed \ present : x \in Above[f]]_vars

\* "Remove empty folders as well": in the end every listed file is gone, and with it
\* every folder of it that is empty, but for what could not be removed.
LeavesNoEmptyFolder ==
    pc = "done" =>
       /\ listed \cap present \subseteq refused
       /\ \A f \in listed \ present : \A d \in Above[f] \cap present :
             Children(d) # {} \/ d \in refused

\* The climb reaches the download path, even where that is the root of a drive, and
\* shutdown() goes on.
RemovalEnds == <>(pc = "done")
=============================================================================
