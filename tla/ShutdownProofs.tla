---------------------------- MODULE ShutdownProofs ----------------------------
(* What a process leaves behind: a resume file that tells only of files that are *)
(* there, and of all of them; every file that an option keeps, and none that is  *)
(* to be deleted.  What the next process is told of is there, however the one    *)
(* before it ended.                                                              *)
EXTENDS Restarts, TLAPS

\* Only a process with a resume file saves, or will.
OnlyWithOption ==
    /\ resume # Absent => config.resumeFile
    /\ "save" \in Elements(jobs) => config.resumeFile
    /\ \A a \in Elements(alerts) : IsSaved(a) => config.resumeFile

\* A resume file requires -keep-files: until /stopanddelete comes nothing is
\* removed, and what was saved or is about to be is there.
NothingIsRemoved ==
    config.resumeFile /\ ~forceshutdelete =>
        /\ complete \subseteq onDisk
        /\ resume.data \subseteq onDisk
        /\ \A a \in Elements(alerts) : a.data \subseteq onDisk
        /\ "delete" \notin Elements(jobs)
        /\ toRemove = {}
        /\ pc \notin {"choose", "drop"}

\* When /stopanddelete has come the resume file went last, or would not go.
NoneAfterDelete ==
    pc = "exited" /\ forceshutdelete => resume = Absent \/ "unlink" \in failed

ResumeInv == TypeOK /\ OnlyWithOption /\ NothingIsRemoved /\ NoneAfterDelete

-----------------------------------------------------------------------------
(* Queues *)

\* What an Append adds to the elements of a queue.
LEMMA ElementsAppend ==
    ASSUME NEW S, NEW s \in Seq(S), NEW e
    PROVE  Elements(Append(s, e)) = Elements(s) \cup {e}
<1>1. /\ DOMAIN Append(s, e) = 1..(Len(s) + 1) /\ DOMAIN s = 1..Len(s)
      /\ Append(s, e)[Len(s) + 1] = e
      /\ \A i \in 1..Len(s) : Append(s, e)[i] = s[i]
  OBVIOUS
<1>2. Len(s) \in Nat
  OBVIOUS
<1>3. ASSUME NEW x \in Elements(Append(s, e)) PROVE x \in Elements(s) \cup {e}
  BY <1>1, <1>2, <1>3 DEF Elements
<1>4. ASSUME NEW x \in Elements(s) \cup {e} PROVE x \in Elements(Append(s, e))
  BY <1>1, <1>2, <1>4 DEF Elements
<1> QED BY <1>3, <1>4

\* The elements of a queue, of what it is without its head, and of an empty one.
LEMMA ElementsTail ==
    ASSUME NEW S, NEW s \in Seq(S), s # << >>
    PROVE  /\ Tail(s) \in Seq(S) /\ Head(s) \in S
           /\ Head(s) \in Elements(s)
           /\ Elements(Tail(s)) \subseteq Elements(s)
<1>1. /\ Tail(s) \in Seq(S) /\ Len(s) \in Nat \ {0} /\ DOMAIN s = 1..Len(s)
      /\ Len(Tail(s)) = Len(s) - 1 /\ DOMAIN Tail(s) = 1..Len(Tail(s))
      /\ Head(s) = s[1] /\ Head(s) \in S
      /\ \A i \in 1..Len(Tail(s)) : Tail(s)[i] = s[i + 1]
  OBVIOUS
<1>2. Head(s) \in Elements(s)
  BY <1>1 DEF Elements
<1>3. ASSUME NEW x \in Elements(Tail(s)) PROVE x \in Elements(s)
  <2>1. PICK i \in 1..Len(Tail(s)) : x = Tail(s)[i]
    BY <1>1 DEF Elements
  <2>2. x = s[i + 1] /\ i + 1 \in 1..Len(s)
    BY <1>1, <2>1
  <2> QED BY <1>1, <2>2 DEF Elements
<1> QED BY <1>1, <1>2, <1>3

\* Nothing waits in an empty queue.
LEMMA ElementsEmpty == Elements(<< >>) = {}
  BY DEF Elements

-----------------------------------------------------------------------------
(* Types *)

Jobs == {"save", "pause", "delete"}
Resumes == [state: {"absent", "whole"}, data: SUBSET Files]

\* What processAlert may leave: what there was, nothing, or what some alert tells.
LEMMA ProcessCases ==
    ASSUME Process(alerts)
    PROVE  \/ resume' \in {resume, Absent}
           \/ \E i \in DOMAIN alerts : IsSaved(alerts[i]) /\ resume' = Whole(alerts[i].data)
<1>1. CASE \E a \in Saved(alerts) : resume' = Whole(a.data)
  <2>1. PICK a \in Saved(alerts) : resume' = Whole(a.data)
    BY <1>1
  <2>2. a \in Elements(alerts) /\ IsSaved(a)
    BY <2>1 DEF Saved
  <2> QED BY <2>1, <2>2 DEF Elements
<1>2. CASE \E i \in DOMAIN alerts : IsSaved(alerts[i]) /\ resume' = Whole(alerts[i].data)
  BY <1>2
<1>3. CASE resume' \in {resume, Absent}
  BY <1>3
<1> QED BY <1>1, <1>2, <1>3 DEF Process

\* What processAlert makes of a batch of alerts.
LEMMA ProcessTypes ==
    ASSUME TypeOK, Process(alerts)
    PROVE  resume' \in Resumes /\ torrentInfo' \in BOOLEAN /\ failed' \subseteq {"write", "unlink"}
<1>0. resume \in Resumes /\ Absent \in Resumes
  BY DEF TypeOK, Resumes, Absent
<1>1. resume' \in Resumes
  <2>1. CASE resume' \in {resume, Absent}
    BY <1>0, <2>1
  <2>2. CASE \E i \in DOMAIN alerts : resume' = Whole(alerts[i].data)
    <3>1. PICK i \in DOMAIN alerts : resume' = Whole(alerts[i].data)
      BY <2>2
    <3>2. alerts[i] \in AlertSet
      BY <3>1 DEF TypeOK
    <3>3. alerts[i].data \in SUBSET Files
      BY <3>2 DEF AlertSet
    <3> QED BY <3>1, <3>3 DEF Whole, Resumes
  <2> QED BY <2>1, <2>2, ProcessCases
<1>2. torrentInfo' \in BOOLEAN
  <2>1. torrentInfo' = (torrentInfo \/ \E a \in Elements(alerts) : IsMetadata(a))
    BY DEF Process
  <2> QED BY <2>1, Zenon
<1>3. failed' \subseteq {"write", "unlink"}
  BY DEF Process, TypeOK
<1> QED BY <1>1, <1>2, <1>3

\* What libtorrent makes of the files when it is asked, or not, to delete them.
LEMMA DeleteTypes ==
    ASSUME TypeOK, NEW P, Delete(P)
    PROVE  /\ onDisk' \subseteq onDisk /\ refused' \subseteq Files
           /\ refused \subseteq refused' /\ refused' \subseteq refused \cup onDisk
           /\ metadata /\ "delete" \in P => onDisk' \subseteq refused'
           /\ "delete" \notin P => UNCHANGED <<onDisk, refused>>
  BY DEF Delete, Deletes, TypeOK

\* Every step keeps the variables in their types.
LEMMA TypeStep == TypeOK /\ [Next]_vars => TypeOK'
<1> SUFFICES ASSUME TypeOK, [Next]_vars PROVE TypeOK'
  OBVIOUS
<1> USE DEF ltVars, diskVars
<1>1. CASE ConsumeAlerts
  <2>1. resume' \in Resumes /\ torrentInfo' \in BOOLEAN /\ failed' \subseteq {"write", "unlink"}
    BY <1>1, ProcessTypes DEF ConsumeAlerts
  <2> QED BY <1>1, <2>1 DEF ConsumeAlerts, TypeOK, Resumes
<1>2. CASE SaveTick
  <2>1. jobs' \in Seq(Jobs)
    BY <1>2 DEF SaveTick, AskSave, TypeOK, Jobs
  <2>2. needSave' \in BOOLEAN
    BY <1>2 DEF SaveTick, AskSave
  <2> QED BY <1>2, <2>1, <2>2 DEF SaveTick, TypeOK, Jobs
<1>3. CASE BeginShutdown
  <2>1. jobs' \in Seq(Jobs) /\ paused' \subseteq {"session", "torrent"}
    BY <1>3 DEF BeginShutdown, AskPause, TypeOK, Jobs
  <2> QED BY <1>3, <2>1 DEF BeginShutdown, TypeOK, Jobs, Waits
<1>4. CASE WaitForAlert
  <2>1. resume' \in Resumes /\ torrentInfo' \in BOOLEAN /\ failed' \subseteq {"write", "unlink"}
    BY <1>4, ProcessTypes DEF WaitForAlert
  <2>2. pc' = pc \/ pc' = After[pc]
    BY <1>4 DEF WaitForAlert
  <2>3. pc' \in Waits \cup {"save", "remove", "removeFiles"}
    BY <1>4, <2>2 DEF WaitForAlert, Waits, After
  <2> QED BY <1>4, <2>1, <2>3 DEF WaitForAlert, TypeOK, Resumes
<1>5. CASE TimeOut
  <2>1. pc' \in {"save", "remove", "removeFiles"}
    BY <1>5 DEF TimeOut, Waits, After
  <2> QED BY <1>5, <2>1 DEF TimeOut, TypeOK
<1>6. CASE Save
  <2>1. pc' \in {"waitResume", "remove"}
    BY <1>6 DEF Save
  <2>2. CASE AskSave
    <3>1. jobs' \in Seq(Jobs)
      BY <2>2 DEF AskSave, TypeOK, Jobs
    <3>2. needSave' \in BOOLEAN
      BY <2>2 DEF AskSave
    <3> QED BY <1>6, <2>1, <3>1, <3>2 DEF Save, TypeOK, Jobs, Waits
  <2>3. CASE UNCHANGED <<jobs, needSave>>
    BY <1>6, <2>1, <2>3 DEF Save, TypeOK, Jobs, Waits
  <2> QED BY <1>6, <2>2, <2>3 DEF Save
<1>7. CASE RemoveTorrent
  <2>1. pc' \in {"choose", "waitDeleted", "close"} /\ inTorrent' \in BOOLEAN
    BY <1>7 DEF RemoveTorrent, TypeOK
  <2>2. jobs' = jobs \/ jobs' = Append(jobs, "delete")
    BY <1>7 DEF RemoveTorrent
  <2>3. jobs' \in Seq(Jobs)
    BY <2>2 DEF TypeOK, Jobs
  <2> QED BY <1>7, <2>1, <2>3 DEF RemoveTorrent, TypeOK, Jobs, Waits
<1>8. CASE FilesToRemove
  BY <1>8 DEF FilesToRemove, TypeOK
<1>9. CASE DropTorrent
  <2>1. pc' \in {"close", "waitDeleted"}
    BY <1>9 DEF DropTorrent
  <2> QED BY <1>9, <2>1 DEF DropTorrent, TypeOK, Waits
<1>10. CASE RemoveFiles
  BY <1>10 DEF RemoveFiles, TypeOK
<1>11. CASE CloseSession
  <2>1. onDisk' \subseteq Files /\ refused' \subseteq Files
    <3>1. Delete(Elements(jobs))
      BY <1>11 DEF CloseSession
    <3> QED BY <3>1, DeleteTypes DEF TypeOK
  <2> QED BY <1>11, <2>1 DEF CloseSession, TypeOK
<1>12. CASE Exit
  <2>1. resume' \in {resume, Absent} /\ failed' \subseteq failed \cup {"unlink"}
    BY <1>12 DEF Exit
  <2>2. resume \in Resumes /\ Absent \in Resumes
    BY DEF TypeOK, Absent, Resumes
  <2>3. resume' \in Resumes
    BY <2>1, <2>2
  <2> QED BY <1>12, <2>1, <2>3 DEF Exit, TypeOK, Resumes
<1>13. CASE StopAndDelete
  <2>1. late' \in BOOLEAN
    BY <1>13, Zenon DEF StopAndDelete
  <2> QED BY <1>13, <2>1 DEF StopAndDelete, TypeOK
<1>14. CASE Stop
  <2>1. jobs' \in Seq(Jobs) /\ paused' \subseteq {"session", "torrent"}
    BY <1>14 DEF Stop, AskPause, TypeOK, Jobs
  <2> QED BY <1>14, <2>1 DEF Stop, TypeOK, Jobs
<1>15. CASE Resume
  BY <1>15 DEF Resume, TypeOK
<1>21. CASE PauseTorrent
  <2>1. jobs' \in Seq(Jobs) /\ paused' \subseteq {"session", "torrent"}
    BY <1>21 DEF PauseTorrent, AskPause, TypeOK, Jobs
  <2> QED BY <1>21, <2>1 DEF PauseTorrent, TypeOK, Jobs
<1>22. CASE ResumeTorrent
  BY <1>22 DEF ResumeTorrent, TypeOK
<1>16. CASE DoJob
  <2>1. jobs' \in Seq(Jobs) /\ Head(jobs) \in Jobs
    BY <1>16, ElementsTail DEF DoJob, TypeOK, Jobs
  <2>2. Told(Head(jobs)) \in AlertSet
    BY <2>1 DEF Told, Alert, AlertSet, Jobs, TypeOK
  <2>3. alerts' \in Seq(AlertSet)
    BY <1>16, <2>2 DEF DoJob, TypeOK
  <2>4. onDisk' \subseteq Files /\ refused' \subseteq Files
    <3>1. Delete({Head(jobs)})
      BY <1>16 DEF DoJob
    <3> QED BY <3>1, DeleteTypes DEF TypeOK
  <2> QED BY <1>16, <2>1, <2>3, <2>4 DEF DoJob, TypeOK, Jobs
<1>17. CASE \E f \in Files : Progress(f)
  BY <1>17 DEF Progress, TypeOK
<1>18. CASE Checked
  BY <1>18 DEF Checked, TypeOK
<1>19. CASE Metadata
  <2>1. Alert("metadata_received_alert") \in AlertSet
    BY DEF Alert, AlertSet
  <2>2. alerts' \in Seq(AlertSet)
    BY <1>19, <2>1 DEF Metadata, TypeOK
  <2>3. metadata' \in BOOLEAN /\ needSave' \in BOOLEAN
    BY <1>19 DEF Metadata
  <2> QED BY <1>19, <2>2, <2>3 DEF Metadata, TypeOK
<1>20. CASE UNCHANGED vars
  BY <1>20 DEF vars, TypeOK
<1> QED BY <1>1, <1>2, <1>3, <1>4, <1>5, <1>6, <1>7, <1>8, <1>9, <1>10, <1>11, <1>12, <1>13,
           <1>14, <1>15, <1>16, <1>17, <1>18, <1>19, <1>20, <1>21, <1>22
        DEF Next, HandleSignals, HTTP, Libtorrent

\* The initial values have their types.
LEMMA InitTypes == Init => TypeOK
<1> SUFFICES ASSUME Init PROVE TypeOK
  OBVIOUS
<1>1. jobs \in Seq(Jobs) /\ alerts \in Seq(AlertSet)
  <2>1. << >> \in Seq(Jobs) /\ << >> \in Seq(AlertSet)
    OBVIOUS
  <2> QED BY <2>1 DEF Init
<1>2. resume \in Resumes
  BY DEF Init, Resumes, Absent, Whole
<1>3. /\ torrentInfo \in BOOLEAN /\ metadata \in BOOLEAN
      /\ inTorrent \in BOOLEAN
  BY DEF Init
<1>4. checking \in BOOLEAN /\ needSave \in BOOLEAN
  BY ShutdownAssumption, Zenon DEF Init, ShutdownAssumption
<1> QED BY <1>1, <1>2, <1>3, <1>4 DEF Init, TypeOK, Jobs, Resumes

\* The state of a stopping process keeps its types for ever.
THEOREM ShutdownTypes == Spec => []TypeOK
  BY InitTypes, TypeStep, PTL DEF Spec

-----------------------------------------------------------------------------
(* The resume file *)

\* What processAlert leaves in the resume file.
LEMMA ProcessSound ==
    ASSUME ResumeInv, Process(alerts)
    PROVE  /\ resume' # Absent => config.resumeFile
           /\ config.resumeFile /\ ~forceshutdelete => resume'.data \subseteq onDisk
<1>1. CASE resume' \in {resume, Absent}
  BY <1>1 DEF ResumeInv, OnlyWithOption, NothingIsRemoved, Absent
<1>2. CASE \E i \in DOMAIN alerts : IsSaved(alerts[i]) /\ resume' = Whole(alerts[i].data)
  <2>1. PICK i \in DOMAIN alerts : IsSaved(alerts[i]) /\ resume' = Whole(alerts[i].data)
    BY <1>2
  <2>2. alerts[i] \in Elements(alerts)
    BY <2>1 DEF Elements
  <2>3. config.resumeFile
    BY <2>1, <2>2 DEF ResumeInv, OnlyWithOption
  <2>4. ~forceshutdelete => alerts[i].data \subseteq onDisk
    BY <2>2, <2>3 DEF ResumeInv, NothingIsRemoved
  <2>5. resume'.data = alerts[i].data
    BY <2>1 DEF Whole
  <2> QED BY <2>3, <2>4, <2>5
<1> QED BY <1>1, <1>2, ProcessCases

\* An option set for a resume file is set for -keep-files: nothing is to be removed
\* unless /stopanddelete has come.
LEMMA KeepsFiles ==
    ASSUME TypeOK, config.resumeFile, ~forceshutdelete
    PROVE  ~RemovesAny
  BY DEF TypeOK, Options, RemovesAny

\* A step that lets the queues shrink, saves nothing and removes nothing, or does
\* so under forceshutdelete.
LEMMA Undisturbed ==
    ASSUME ResumeInv, UNCHANGED <<config, resume, failed>>, pc' # "exited" \/ UNCHANGED pc,
           forceshutdelete => forceshutdelete', UNCHANGED <<forceshutdelete>> \/ pc # "exited",
           Elements(alerts') \subseteq Elements(alerts),
           "save" \in Elements(jobs') => "save" \in Elements(jobs) \/ config.resumeFile,
           config.resumeFile /\ ~forceshutdelete =>
              /\ complete' \subseteq onDisk' /\ onDisk \subseteq onDisk'
              /\ "delete" \notin Elements(jobs') /\ toRemove' = {}
              /\ pc' \notin {"choose", "drop"}
    PROVE  OnlyWithOption' /\ NothingIsRemoved' /\ NoneAfterDelete'
<1>1. OnlyWithOption'
  BY DEF ResumeInv, OnlyWithOption, IsSaved
<1>2. NothingIsRemoved'
  BY DEF ResumeInv, NothingIsRemoved
<1>3. NoneAfterDelete'
  BY DEF ResumeInv, NoneAfterDelete
<1> QED BY <1>1, <1>2, <1>3

\* Every step keeps the resume file behind the files on disk.
LEMMA ResumeStep == ResumeInv /\ [Next]_vars => ResumeInv'
<1> SUFFICES ASSUME ResumeInv, [Next]_vars
             PROVE  OnlyWithOption' /\ NothingIsRemoved' /\ NoneAfterDelete'
  BY TypeStep DEF ResumeInv
<1> USE DEF ltVars, diskVars
<1>t. TypeOK
  BY DEF ResumeInv
<1>j. jobs \in Seq(Jobs) /\ alerts \in Seq(AlertSet)
  BY <1>t DEF TypeOK, Jobs
<1>n. config.resumeFile /\ ~forceshutdelete =>
        /\ complete \subseteq onDisk /\ "delete" \notin Elements(jobs)
        /\ toRemove = {} /\ pc \notin {"choose", "drop"}
  BY DEF ResumeInv, NothingIsRemoved
<1>a. ASSUME NEW j \in Jobs, jobs' = Append(jobs, j)
      PROVE  Elements(jobs') = Elements(jobs) \cup {j}
  BY <1>a, <1>j, ElementsAppend
<1>p. ASSUME Process(alerts), alerts' = << >>, pc' # "exited", pc' \notin {"choose", "drop"},
             UNCHANGED <<config, forceshutdelete, toRemove, jobs, onDisk, complete>>
      PROVE  OnlyWithOption' /\ NothingIsRemoved' /\ NoneAfterDelete'
  <2>1. /\ resume' # Absent => config.resumeFile
        /\ config.resumeFile /\ ~forceshutdelete => resume'.data \subseteq onDisk
    BY <1>p, ProcessSound
  <2>2. Elements(alerts') = {}
    BY <1>p, ElementsEmpty
  <2>3. OnlyWithOption'
    BY <1>p, <2>1, <2>2 DEF ResumeInv, OnlyWithOption
  <2>4. NothingIsRemoved'
    BY <1>p, <1>n, <2>1, <2>2 DEF NothingIsRemoved
  <2>5. NoneAfterDelete'
    BY <1>p DEF NoneAfterDelete
  <2> QED BY <2>3, <2>4, <2>5
<1>1. CASE ConsumeAlerts
  <2>1. pc' # "exited" /\ pc' \notin {"choose", "drop"}
    BY <1>1 DEF ConsumeAlerts
  <2> QED BY <1>1, <1>p, <2>1 DEF ConsumeAlerts
<1>2. CASE SaveTick
  <2>1. Elements(jobs') = Elements(jobs) \cup {"save"} /\ config.resumeFile
    BY <1>2, <1>a DEF SaveTick, AskSave, WantsSave, Jobs
  <2> QED BY <1>2, <1>n, <2>1, Undisturbed DEF SaveTick
<1>3. CASE BeginShutdown
  <2>1. Elements(jobs') \subseteq Elements(jobs) \cup {"pause"}
    BY <1>3, <1>a DEF BeginShutdown, AskPause, Jobs
  <2> QED BY <1>3, <1>n, <2>1, Undisturbed DEF BeginShutdown
<1>4. CASE WaitForAlert
  <2>1. pc' = pc \/ pc' = After[pc]
    BY <1>4 DEF WaitForAlert
  <2>2. pc' # "exited" /\ pc' \notin {"choose", "drop"}
    BY <1>4, <2>1 DEF WaitForAlert, Waits, After
  <2> QED BY <1>4, <1>p, <2>2 DEF WaitForAlert
<1>5. CASE TimeOut
  <2>1. pc' # "exited" /\ pc' \notin {"choose", "drop"} /\ pc # "exited"
    BY <1>5 DEF TimeOut, Waits, After
  <2> QED BY <1>5, <1>n, <2>1, Undisturbed DEF TimeOut
<1>6. CASE Save
  <2>1. Elements(jobs') \subseteq Elements(jobs) \cup {"save"}
    BY <1>6, <1>a DEF Save, AskSave, Jobs
  <2>2. "save" \in Elements(jobs') => "save" \in Elements(jobs) \/ config.resumeFile
    BY <1>6 DEF Save, WantsSave
  <2>3. pc' # "exited" /\ pc' \notin {"choose", "drop"}
    BY <1>6 DEF Save
  <2> QED BY <1>6, <1>n, <2>1, <2>2, <2>3, Undisturbed DEF Save
<1>7. CASE RemoveTorrent
  <2>1. config.resumeFile /\ ~forceshutdelete => ~RemovesAny
    BY <1>t, KeepsFiles
  <2>2. jobs' = jobs \/ (RemovesAll /\ jobs' = Append(jobs, "delete"))
    BY <1>7 DEF RemoveTorrent
  <2>3. Elements(jobs') \subseteq Elements(jobs) \cup {"delete"}
    BY <1>a, <2>2 DEF Jobs
  <2>4. config.resumeFile /\ ~forceshutdelete => UNCHANGED jobs /\ pc' = "close"
    BY <1>7, <2>1, <2>2 DEF RemoveTorrent, RemovesAll
  <2>5. pc' # "exited"
    BY <1>7 DEF RemoveTorrent
  <2> QED BY <1>7, <1>n, <2>3, <2>4, <2>5, Undisturbed DEF RemoveTorrent
<1>8. CASE FilesToRemove
  BY <1>8, <1>n, Undisturbed DEF FilesToRemove
<1>9. CASE DropTorrent
  <2>1. pc' # "exited" /\ pc = "drop"
    BY <1>9 DEF DropTorrent
  <2> QED BY <1>9, <1>n, <2>1, Undisturbed DEF DropTorrent
<1>10. CASE RemoveFiles
  <2>1. config.resumeFile /\ ~forceshutdelete => onDisk' = onDisk
    <3>1. config.resumeFile /\ ~forceshutdelete => toRemove = {}
      BY <1>n
    <3> QED BY <1>10, <3>1 DEF RemoveFiles
  <2> QED BY <1>10, <1>n, <2>1, Undisturbed DEF RemoveFiles
<1>11. CASE CloseSession
  <2>1. Elements(jobs') = {} /\ Elements(alerts') = {}
    BY <1>11, ElementsEmpty DEF CloseSession
  <2>2. config.resumeFile /\ ~forceshutdelete => onDisk' = onDisk
    <3>1. Delete(Elements(jobs))
      BY <1>11 DEF CloseSession
    <3> QED BY <1>t, <1>n, <3>1, DeleteTypes
  <2> QED BY <1>11, <1>n, <2>1, <2>2, Undisturbed DEF CloseSession
<1>12. CASE Exit
  <2>1. OnlyWithOption'
    BY <1>12 DEF Exit, ResumeInv, OnlyWithOption
  <2>2. NothingIsRemoved'
    BY <1>12 DEF Exit, ResumeInv, NothingIsRemoved
  <2>3. NoneAfterDelete'
    BY <1>12 DEF Exit, NoneAfterDelete
  <2> QED BY <2>1, <2>2, <2>3
<1>13. CASE StopAndDelete
  BY <1>13, <1>n, Undisturbed DEF StopAndDelete
<1>14. CASE Stop
  <2>1. Elements(jobs') \subseteq Elements(jobs) \cup {"pause"}
    BY <1>14, <1>a DEF Stop, AskPause, Jobs
  <2> QED BY <1>14, <1>n, <2>1, Undisturbed DEF Stop
<1>15. CASE Resume
  BY <1>15, <1>n, Undisturbed DEF Resume
<1>21. CASE PauseTorrent
  <2>1. Elements(jobs') \subseteq Elements(jobs) \cup {"pause"}
    BY <1>21, <1>a DEF PauseTorrent, AskPause, Jobs
  <2> QED BY <1>21, <1>n, <2>1, Undisturbed DEF PauseTorrent
<1>22. CASE ResumeTorrent
  BY <1>22, <1>n, Undisturbed DEF ResumeTorrent
<1>16. CASE DoJob
  <2> DEFINE a == Told(Head(jobs))
  <2>1. /\ Head(jobs) \in Jobs /\ Head(jobs) \in Elements(jobs)
        /\ Elements(jobs') \subseteq Elements(jobs)
    BY <1>16, <1>j, ElementsTail DEF DoJob
  <2>2. Elements(alerts') = Elements(alerts) \cup {a}
    BY <1>16, <1>j, ElementsAppend DEF DoJob
  <2>3. /\ IsSaved(a) => Head(jobs) = "save"
        /\ a.data = {} \/ a.data = complete
    BY <2>1 DEF Told, Alert, IsSaved, Jobs
  <2>4. UNCHANGED <<config, resume, pc, forceshutdelete, toRemove, complete, failed>>
    BY <1>16 DEF DoJob
  <2>5. config.resumeFile /\ ~forceshutdelete => onDisk' = onDisk
    <3>1. Delete({Head(jobs)})
      BY <1>16 DEF DoJob
    <3>2. config.resumeFile /\ ~forceshutdelete => "delete" \notin {Head(jobs)}
      BY <1>n, <2>1
    <3> QED BY <1>t, <3>1, <3>2, DeleteTypes
  <2> HIDE DEF a
  <2>6. OnlyWithOption'
    BY <2>1, <2>2, <2>3, <2>4 DEF ResumeInv, OnlyWithOption, IsSaved
  <2>7. NothingIsRemoved'
    BY <2>1, <2>2, <2>3, <2>4, <2>5 DEF ResumeInv, NothingIsRemoved
  <2>8. NoneAfterDelete'
    BY <2>4 DEF ResumeInv, NoneAfterDelete
  <2> QED BY <2>6, <2>7, <2>8
<1>17. CASE \E f \in Files : Progress(f)
  <2>1. PICK f \in Files : Progress(f)
    BY <1>17
  <2>2. onDisk \subseteq onDisk' /\ (complete \subseteq onDisk => complete' \subseteq onDisk')
    BY <2>1 DEF Progress
  <2> QED BY <2>1, <2>2, <1>n, Undisturbed DEF Progress
<1>18. CASE Checked
  BY <1>18, <1>n, Undisturbed DEF Checked
<1>19. CASE Metadata
  <2> DEFINE a == Alert("metadata_received_alert")
  <2>1. Elements(alerts') = Elements(alerts) \cup {a}
    BY <1>19, <1>j, ElementsAppend DEF Metadata
  <2>2. ~IsSaved(a) /\ a.data = {}
    BY DEF Alert, IsSaved
  <2>3. UNCHANGED <<config, resume, pc, forceshutdelete, toRemove, jobs, complete, onDisk, failed>>
    BY <1>19 DEF Metadata
  <2> HIDE DEF a
  <2>4. OnlyWithOption'
    BY <2>1, <2>2, <2>3 DEF ResumeInv, OnlyWithOption, IsSaved
  <2>5. NothingIsRemoved'
    BY <2>1, <2>2, <2>3 DEF ResumeInv, NothingIsRemoved
  <2>6. NoneAfterDelete'
    BY <2>3 DEF ResumeInv, NoneAfterDelete
  <2> QED BY <2>4, <2>5, <2>6
<1>20. CASE UNCHANGED vars
  BY <1>20, <1>n, Undisturbed DEF vars
<1> QED BY <1>1, <1>2, <1>3, <1>4, <1>5, <1>6, <1>7, <1>8, <1>9, <1>10, <1>11, <1>12, <1>13,
           <1>14, <1>15, <1>16, <1>17, <1>18, <1>19, <1>20, <1>21, <1>22
        DEF Next, HandleSignals, HTTP, Libtorrent

\* A process that starts with a resume file starts with the files it tells of.
LEMMA InitResume == Init => ResumeInv
<1> SUFFICES ASSUME Init PROVE ResumeInv
  OBVIOUS
<1>1. resume = Absent \/ (config.resumeFile /\ resume = Whole(complete))
  BY DEF Init
<1>2. Elements(alerts) = {} /\ Elements(jobs) = {}
  BY DEF Init, Elements
<1>3. resume.data \subseteq onDisk
  BY <1>1 DEF Init, Absent, Whole
<1>4. OnlyWithOption
  BY <1>1, <1>2 DEF OnlyWithOption
<1>5. NothingIsRemoved
  BY <1>2, <1>3 DEF Init, NothingIsRemoved
<1>6. NoneAfterDelete
  BY DEF Init, NoneAfterDelete
<1> QED BY <1>4, <1>5, <1>6, InitTypes DEF ResumeInv

\* However /stopanddelete, the periodic save, the timeouts and libtorrent's answers
\* come, and whatever the disk refuses: a resume file that is left behind tells only of
\* files that are, unless it was to be removed and could not be.
THEOREM ResumeVouches == Spec => []ResumeVouchesForDisk
<1>1. ResumeInv => ResumeVouchesForDisk
  BY DEF ResumeInv, OnlyWithOption, NothingIsRemoved, NoneAfterDelete, ResumeVouchesForDisk
<1> QED BY <1>1, InitResume, ResumeStep, PTL DEF Spec

-----------------------------------------------------------------------------
(* From one process to the next *)

\* As long as no process that was to delete has left the resume file, every process has
\* the invariant of one.
RestartsInv == ~interrupted => ResumeInv

\* What is left of the resume file tells only of files that are there, unless it was
\* to be removed.
LEMMA LeftSound ==
    ASSUME ResumeInv, LeftInPeace \/ LeftInWrite, forceshutdelete => resume' = Absent
    PROVE  /\ resume' # Absent => config.resumeFile
           /\ resume' \in Resumes
           /\ resume'.data \subseteq onDisk
<1>1. CASE resume' = Absent
  BY <1>1 DEF Absent, Resumes
<1>2. CASE LeftInPeace /\ resume # Absent
  <2>1. config.resumeFile /\ ~forceshutdelete
    BY <1>2 DEF ResumeInv, OnlyWithOption, LeftInPeace
  <2> QED BY <1>2, <2>1 DEF LeftInPeace, ResumeInv, NothingIsRemoved, TypeOK, Resumes
<1>3. CASE LeftInWrite /\ resume' # Absent
  <2>1. PICK last \in DOMAIN alerts : \E i \in 1..(last - 1) :
                IsSaved(alerts[i]) /\ resume' = Whole(alerts[i].data)
    BY <1>3 DEF LeftInWrite
  <2>2. PICK i \in 1..(last - 1) : IsSaved(alerts[i]) /\ resume' = Whole(alerts[i].data)
    BY <2>1
  <2>3. alerts \in Seq(AlertSet)
    BY DEF ResumeInv, TypeOK
  <2>4. i \in DOMAIN alerts
    BY <2>1, <2>2, <2>3
  <2>5. alerts[i] \in Elements(alerts) /\ alerts[i] \in AlertSet
    BY <2>3, <2>4 DEF Elements
  <2>7. config.resumeFile /\ ~forceshutdelete
    BY <1>3, <2>2, <2>5 DEF ResumeInv, OnlyWithOption
  <2>8. alerts[i].data \subseteq onDisk /\ alerts[i].data \in SUBSET Files
    BY <2>5, <2>7 DEF ResumeInv, NothingIsRemoved, AlertSet
  <2> QED BY <2>2, <2>7, <2>8 DEF Whole, Resumes
<1> QED BY <1>1, <1>2, <1>3 DEF LeftInPeace

\* A restart establishes the invariant anew.
LEMMA RestartSound ==
    ASSUME RestartsInv, Restart, ~interrupted'
    PROVE  ResumeInv' /\ resume'.data \subseteq onDisk'
<1>1. ResumeInv /\ (forceshutdelete => resume' = Absent)
  BY DEF RestartsInv, Restart
<1>2. /\ resume' # Absent => config.resumeFile
      /\ resume' \in Resumes
      /\ resume'.data \subseteq onDisk
  BY <1>1, LeftSound DEF Restart
<1>3. complete' \subseteq onDisk /\ complete' \subseteq Files
  BY <1>1, <1>2 DEF Restart, Start, Trusted, ResumeInv, TypeOK, Resumes
<1>4. jobs' = << >> /\ alerts' = << >> /\ Elements(jobs') = {} /\ Elements(alerts') = {}
  BY ElementsEmpty DEF Restart, Start
<1>5. TypeOK'
  <2>1. jobs' \in Seq(Jobs) /\ alerts' \in Seq(AlertSet)
    BY <1>4
  <2>2. torrentInfo' \in BOOLEAN /\ metadata' \in BOOLEAN
    BY Zenon DEF Restart, Start
  <2>3. checking' \in BOOLEAN
    BY ShutdownAssumption, Zenon DEF Restart, Start, ShutdownAssumption
  <2>4. needSave' \in BOOLEAN
    BY DEF Restart, Start
  <2> QED BY <1>1, <1>2, <1>3, <2>1, <2>2, <2>3, <2>4
          DEF Restart, Start, ResumeInv, TypeOK, Jobs, Resumes
<1>6. OnlyWithOption' /\ NothingIsRemoved' /\ NoneAfterDelete'
  BY <1>2, <1>3, <1>4 DEF Restart, Start, OnlyWithOption, NothingIsRemoved, NoneAfterDelete
<1> QED BY <1>2, <1>5, <1>6 DEF ResumeInv, Restart

\* Every step, of a process or between two, keeps the invariant.
LEMMA RestartsStep == RestartsInv /\ [RNext]_allVars => RestartsInv'
<1> SUFFICES ASSUME RestartsInv, [RNext]_allVars, ~interrupted' PROVE ResumeInv'
  BY DEF RestartsInv
<1>1. CASE Next /\ UNCHANGED <<lives, interrupted>>
  BY <1>1, ResumeStep DEF RestartsInv
<1>2. CASE Restart
  BY <1>2, RestartSound
<1>3. CASE UNCHANGED allVars
  BY <1>3, ResumeStep DEF RestartsInv, allVars
<1> QED BY <1>1, <1>2, <1>3 DEF RNext

\* A process is never told of a file that is not there, unless one before it was to
\* delete its files and has left the resume file, killed before it removed it or unable
\* to: for any files, handlers and number of processes.
THEOREM NewProcessTrustsOnlyDisk == RSpec => TrustsOnlyDisk
<1>1. RInit => RestartsInv
  BY InitResume DEF RInit, RestartsInv
<1>2. RestartsInv /\ [RNext]_allVars =>
        [lives' # lives /\ ~interrupted' => resume'.data \subseteq onDisk']_allVars
  <2> SUFFICES ASSUME RestartsInv, RNext, lives' # lives, ~interrupted'
               PROVE  resume'.data \subseteq onDisk'
    OBVIOUS
  <2>1. Restart
    BY DEF RNext
  <2> QED BY <2>1, RestartSound
<1> QED BY <1>1, <1>2, RestartsStep, PTL DEF RSpec, TrustsOnlyDisk
-----------------------------------------------------------------------------
(* What the options promise: what is to be deleted *)

\* /stopanddelete has come in time, or no option keeps a file and libtorrent is not
\* checking any.
KeepsNone == ~(config.keepFiles \/ config.keepComplete \/ config.keepIncomplete)
Doomed == (forceshutdelete /\ ~late) \/ (KeepsNone /\ ~MayCheck)

\* Files that are to be deleted are gone or would not go, unless libtorrent will yet
\* delete them or knows of none.
Gone == ~metadata \/ onDisk \subseteq refused
GoneOrGoing == Gone \/ "delete" \in Elements(jobs)

WipeInv ==
    /\ TypeOK
    /\ ~MayCheck => ~checking
    /\ NoneAfterDelete
    /\ Doomed => /\ pc \notin {"choose", "drop"}
                 /\ pc \in {"waitDeleted", "removeFiles", "close"} => ~inTorrent /\ GoneOrGoing
                 /\ pc \in {"unlink", "exited"} => ~inTorrent /\ Gone

\* What a queue holds besides its head is still there without it.
LEMMA ElementsHeadTail ==
    ASSUME NEW S, NEW s \in Seq(S), s # << >>
    PROVE  Elements(s) \subseteq {Head(s)} \cup Elements(Tail(s))
<1>1. /\ Len(s) \in Nat \ {0} /\ DOMAIN s = 1..Len(s)
      /\ Len(Tail(s)) = Len(s) - 1 /\ DOMAIN Tail(s) = 1..Len(Tail(s))
      /\ Head(s) = s[1]
      /\ \A i \in 1..Len(Tail(s)) : Tail(s)[i] = s[i + 1]
  OBVIOUS
<1> SUFFICES ASSUME NEW x \in Elements(s), x # Head(s) PROVE x \in Elements(Tail(s))
  OBVIOUS
<1>2. PICK i \in 1..Len(s) : x = s[i]
  BY <1>1 DEF Elements
<1>3. i - 1 \in 1..Len(Tail(s)) /\ Tail(s)[i - 1] = s[i]
  BY <1>1, <1>2
<1> QED BY <1>1, <1>2, <1>3 DEF Elements

\* Before the torrent is removed nothing is promised yet.
LEMMA NotYet ==
    ASSUME pc' \in Undecided,
           ~MayCheck => ~checking'
    PROVE  TypeOK' => WipeInv'
  BY DEF WipeInv, NoneAfterDelete, Undecided

\* A step after the torrent was removed that brings back no file keeps what is to be
\* deleted on its way.
LEMMA StillGoing ==
    ASSUME WipeInv, TypeOK', UNCHANGED <<config, forceshutdelete, late, inTorrent, metadata>>,
           ~MayCheck => ~checking', NoneAfterDelete',
           onDisk' \subseteq onDisk, refused \subseteq refused',
           GoneOrGoing => GoneOrGoing',
           \/ pc' = pc
           \/ pc = "waitDeleted" /\ pc' = "removeFiles"
           \/ pc = "removeFiles" /\ pc' = "close"
           \/ pc = "unlink" /\ pc' = "exited"
    PROVE  WipeInv'
<1>1. (Doomed' <=> Doomed) /\ (Gone => Gone')
  BY DEF Doomed, KeepsNone, Gone
<1> QED BY <1>1 DEF WipeInv

\* Every step keeps what is to be deleted on its way to be deleted.
LEMMA WipeStep == WipeInv /\ [Next]_vars => WipeInv'
<1> SUFFICES ASSUME WipeInv, [Next]_vars PROVE WipeInv'
  OBVIOUS
<1> USE DEF ltVars, diskVars
<1>t. TypeOK /\ TypeOK'
  BY TypeStep DEF WipeInv
<1>j. jobs \in Seq(Jobs)
  BY <1>t DEF TypeOK, Jobs
<1>c. (~MayCheck => ~checking) /\ NoneAfterDelete
  BY DEF WipeInv
<1>a. ASSUME NEW j \in Jobs, jobs' = Append(jobs, j)
      PROVE  Elements(jobs') = Elements(jobs) \cup {j}
  BY <1>a, <1>j, ElementsAppend
<1>1. CASE ConsumeAlerts
  BY <1>1, <1>t, <1>c, NotYet DEF ConsumeAlerts, Undecided
<1>2. CASE SaveTick
  BY <1>2, <1>t, <1>c, NotYet DEF SaveTick, Undecided
<1>3. CASE BeginShutdown
  BY <1>3, <1>t, <1>c, NotYet DEF BeginShutdown, Undecided
<1>w. ASSUME pc \in Waits, pc' = pc \/ pc' = After[pc],
             UNCHANGED <<config, forceshutdelete, jobs, ltVars, onDisk, refused, late>>
      PROVE  WipeInv'
  <2>1. CASE pc' \in {"waitPaused", "save", "waitResume", "remove"}
    BY <1>w, <1>t, <1>c, <2>1, NotYet DEF Undecided
  <2>2. CASE pc = "waitDeleted" /\ pc' \in {"waitDeleted", "removeFiles"}
    <3>1. NoneAfterDelete' /\ (GoneOrGoing => GoneOrGoing')
      BY <1>w, <2>2 DEF NoneAfterDelete, GoneOrGoing, Gone
    <3> QED BY <1>w, <1>t, <1>c, <2>2, <3>1, StillGoing
  <2> QED BY <1>w, <2>1, <2>2 DEF Waits, After
<1>4. CASE WaitForAlert
  BY <1>4, <1>w DEF WaitForAlert
<1>5. CASE TimeOut
  BY <1>5, <1>w DEF TimeOut
<1>6. CASE Save
  <2>1. pc' \in {"waitResume", "remove"} /\ UNCHANGED checking
    BY <1>6 DEF Save
  <2> QED BY <1>t, <1>c, <2>1, NotYet DEF Undecided
<1>7. CASE RemoveTorrent
  <2>1. UNCHANGED <<config, forceshutdelete, late, metadata, checking>> /\ pc' # "exited"
    BY <1>7 DEF RemoveTorrent
  <2>2. NoneAfterDelete' /\ pc' \notin {"unlink", "exited"}
    BY <1>7 DEF RemoveTorrent, NoneAfterDelete
  <2>3. Doomed' => RemovesAll
    BY <2>1, <1>c DEF Doomed, KeepsNone, RemovesAll, RemovesAny
  <2>4. RemovesAll => /\ pc' = "waitDeleted" /\ inTorrent' = FALSE
                      /\ jobs' = Append(jobs, "delete")
    BY <1>7 DEF RemoveTorrent, RemovesAll
  <2>5. RemovesAll => "delete" \in Elements(jobs')
    BY <2>4, <1>a DEF Jobs
  <2> QED BY <1>t, <1>c, <2>1, <2>2, <2>3, <2>4, <2>5 DEF WipeInv, GoneOrGoing
<1>8. CASE FilesToRemove
  <2>1. ~Doomed' /\ pc' # "exited"
    BY <1>8 DEF FilesToRemove, WipeInv, Doomed, KeepsNone
  <2> QED BY <1>8, <1>t, <1>c, <2>1 DEF FilesToRemove, WipeInv, NoneAfterDelete
<1>9. CASE DropTorrent
  <2>1. ~Doomed' /\ pc' # "exited"
    BY <1>9 DEF DropTorrent, WipeInv, Doomed, KeepsNone
  <2> QED BY <1>9, <1>t, <1>c, <2>1 DEF DropTorrent, WipeInv, NoneAfterDelete
<1>10. CASE RemoveFiles
  <2>1. /\ onDisk' \subseteq onDisk /\ pc = "removeFiles" /\ pc' = "close"
        /\ refused \subseteq refused'
        /\ UNCHANGED <<config, forceshutdelete, late, inTorrent, metadata, checking, jobs>>
    BY <1>10 DEF RemoveFiles
  <2>2. NoneAfterDelete' /\ (GoneOrGoing => GoneOrGoing')
    BY <2>1 DEF NoneAfterDelete, GoneOrGoing, Gone
  <2> QED BY <1>t, <1>c, <2>1, <2>2, StillGoing
<1>11. CASE CloseSession
  <2>1. UNCHANGED <<config, forceshutdelete, late, inTorrent, metadata, checking>>
    BY <1>11 DEF CloseSession
  <2>2. pc = "close" /\ pc' = "unlink"
    BY <1>11 DEF CloseSession
  <2>3. GoneOrGoing => Gone'
    <3>1. Delete(Elements(jobs))
      BY <1>11 DEF CloseSession
    <3> QED BY <1>t, <2>1, <3>1, DeleteTypes DEF GoneOrGoing, Gone
  <2>4. Doomed' => Doomed
    BY <2>1 DEF Doomed, KeepsNone
  <2> QED BY <1>t, <1>c, <2>1, <2>2, <2>3, <2>4 DEF WipeInv, NoneAfterDelete
<1>12. CASE Exit
  <2>1. /\ UNCHANGED <<config, forceshutdelete, jobs, ltVars, onDisk, refused, late>>
        /\ pc = "unlink" /\ pc' = "exited"
    BY <1>12 DEF Exit
  <2>2. NoneAfterDelete'
    BY <1>12 DEF Exit, NoneAfterDelete
  <2>3. GoneOrGoing => GoneOrGoing'
    BY <2>1 DEF GoneOrGoing, Gone
  <2> QED BY <1>t, <1>c, <2>1, <2>2, <2>3, StillGoing
<1>13. CASE StopAndDelete
  <2>1. UNCHANGED <<config, pc, jobs, ltVars, onDisk, refused>> /\ pc # "exited"
    BY <1>13 DEF StopAndDelete
  <2>2. CASE pc \in Undecided
    BY <1>t, <1>c, <2>1, <2>2, NotYet
  <2>3. CASE pc \notin Undecided
    <3>1. late' \/ (forceshutdelete /\ UNCHANGED late)
      BY <1>13, <1>t, <2>3 DEF StopAndDelete, TypeOK
    <3>2. Doomed' => Doomed
      BY <2>1, <3>1 DEF Doomed, KeepsNone
    <3> QED BY <1>t, <1>c, <2>1, <3>2 DEF WipeInv, NoneAfterDelete, GoneOrGoing, Gone
  <2> QED BY <2>2, <2>3
<1>14. CASE Stop
  <2>1. /\ UNCHANGED <<config, pc, forceshutdelete, inTorrent, metadata, checking, diskVars>>
        /\ pc # "exited"
    BY <1>14 DEF Stop, Serving
  <2>2. jobs' = jobs \/ jobs' = Append(jobs, "pause")
    BY <1>14 DEF Stop, AskPause
  <2>3. Elements(jobs) \subseteq Elements(jobs')
    BY <2>2, <1>a DEF Jobs
  <2>4. NoneAfterDelete' /\ (GoneOrGoing => GoneOrGoing')
    BY <2>1, <2>3 DEF NoneAfterDelete, GoneOrGoing, Gone
  <2> QED BY <1>t, <1>c, <2>1, <2>4, StillGoing
<1>15. CASE Resume
  <2>1. NoneAfterDelete' /\ (GoneOrGoing => GoneOrGoing')
    BY <1>15, <1>c DEF Resume, NoneAfterDelete, GoneOrGoing, Gone
  <2> QED BY <1>15, <1>t, <1>c, <2>1, StillGoing DEF Resume
<1>21. CASE PauseTorrent
  <2>1. /\ UNCHANGED <<config, pc, forceshutdelete, inTorrent, metadata, checking, diskVars>>
        /\ pc # "exited"
    BY <1>21 DEF PauseTorrent, Serving
  <2>2. jobs' = jobs \/ jobs' = Append(jobs, "pause")
    BY <1>21 DEF PauseTorrent, AskPause
  <2>3. Elements(jobs) \subseteq Elements(jobs')
    BY <2>2, <1>a DEF Jobs
  <2>4. NoneAfterDelete' /\ (GoneOrGoing => GoneOrGoing')
    BY <2>1, <2>3 DEF NoneAfterDelete, GoneOrGoing, Gone
  <2> QED BY <1>t, <1>c, <2>1, <2>4, StillGoing
<1>22. CASE ResumeTorrent
  <2>1. NoneAfterDelete' /\ (GoneOrGoing => GoneOrGoing')
    BY <1>22, <1>c DEF ResumeTorrent, NoneAfterDelete, GoneOrGoing, Gone
  <2> QED BY <1>22, <1>t, <1>c, <2>1, StillGoing DEF ResumeTorrent
<1>16. CASE DoJob
  <2>1. /\ UNCHANGED <<config, pc, forceshutdelete, late, resume, failed, inTorrent, metadata, checking>>
        /\ jobs # << >> /\ jobs' = Tail(jobs) /\ Delete({Head(jobs)})
    BY <1>16 DEF DoJob
  <2>2. /\ onDisk' \subseteq onDisk /\ refused \subseteq refused'
        /\ Head(jobs) = "delete" => Gone'
    BY <1>t, <2>1, DeleteTypes DEF Gone
  <2>3. Elements(jobs) \subseteq {Head(jobs)} \cup Elements(jobs')
    BY <2>1, <1>j, ElementsHeadTail
  <2>4. GoneOrGoing => GoneOrGoing'
    BY <2>1, <2>2, <2>3 DEF GoneOrGoing, Gone
  <2>5. NoneAfterDelete'
    BY <1>c, <2>1 DEF NoneAfterDelete
  <2> QED BY <1>t, <1>c, <2>1, <2>2, <2>4, <2>5, StillGoing
<1>17. CASE \E f \in Files : Progress(f)
  <2>1. PICK f \in Files : Progress(f)
    BY <1>17
  <2>2. /\ UNCHANGED <<config, pc, forceshutdelete, late, resume, failed, inTorrent, metadata, checking>>
        /\ inTorrent
    BY <2>1 DEF Progress, Active, Connected
  <2>3. Doomed' => Doomed
    BY <2>2 DEF Doomed, KeepsNone
  <2> QED BY <1>t, <1>c, <2>2, <2>3 DEF WipeInv, NoneAfterDelete
<1>18. CASE Checked
  <2>1. NoneAfterDelete' /\ (GoneOrGoing => GoneOrGoing')
    BY <1>18, <1>c DEF Checked, NoneAfterDelete, GoneOrGoing, Gone
  <2> QED BY <1>18, <1>t, <1>c, <2>1, StillGoing DEF Checked
<1>19. CASE Metadata
  <2>1. /\ UNCHANGED <<config, pc, forceshutdelete, late, resume, failed, inTorrent, checking>>
        /\ inTorrent
    BY <1>19 DEF Metadata, Connected
  <2>2. Doomed' => Doomed
    BY <2>1 DEF Doomed, KeepsNone
  <2> QED BY <1>t, <1>c, <2>1, <2>2 DEF WipeInv, NoneAfterDelete
<1>20. CASE UNCHANGED vars
  <2>1. NoneAfterDelete' /\ (GoneOrGoing => GoneOrGoing')
    BY <1>20, <1>c DEF vars, NoneAfterDelete, GoneOrGoing, Gone
  <2> QED BY <1>20, <1>t, <1>c, <2>1, StillGoing DEF vars
<1> QED BY <1>1, <1>2, <1>3, <1>4, <1>5, <1>6, <1>7, <1>8, <1>9, <1>10, <1>11, <1>12, <1>13,
           <1>14, <1>15, <1>16, <1>17, <1>18, <1>19, <1>20, <1>21, <1>22
        DEF Next, HandleSignals, HTTP, Libtorrent

\* A process begins with nothing promised, the first and those after it.
LEMMA WipeInit == Init => WipeInv
<1> SUFFICES ASSUME Init PROVE WipeInv
  OBVIOUS
<1>1. TypeOK
  BY InitTypes
<1>2. ~MayCheck => ~checking
  BY DEF Init
<1> QED BY <1>1, <1>2 DEF Init, WipeInv, NoneAfterDelete

\* The next process has its types, whatever is left of the resume file.
LEMMA RestartTypes == TypeOK /\ Restart => TypeOK'
<1> SUFFICES ASSUME TypeOK, Restart PROVE TypeOK'
  OBVIOUS
<1>1. resume' \in Resumes
  <2>1. CASE LeftInPeace
    BY <2>1 DEF LeftInPeace, TypeOK, Resumes
  <2>2. CASE resume' = Absent
    BY <2>2 DEF Absent, Resumes
  <2>3. CASE \E i \in DOMAIN alerts : resume' = Whole(alerts[i].data)
    <3>1. PICK i \in DOMAIN alerts : resume' = Whole(alerts[i].data)
      BY <2>3
    <3>2. alerts[i] \in AlertSet
      BY <3>1 DEF TypeOK
    <3> QED BY <3>1, <3>2 DEF AlertSet, Whole, Resumes
  <2>4. LeftInWrite => resume' = Absent \/ \E i \in DOMAIN alerts : resume' = Whole(alerts[i].data)
    <3> SUFFICES ASSUME LeftInWrite, resume' # Absent
                 PROVE  \E i \in DOMAIN alerts : resume' = Whole(alerts[i].data)
      OBVIOUS
    <3>1. PICK last \in DOMAIN alerts : \E i \in 1..(last - 1) : resume' = Whole(alerts[i].data)
      BY DEF LeftInWrite
    <3>2. PICK i \in 1..(last - 1) : resume' = Whole(alerts[i].data)
      BY <3>1
    <3>3. i \in DOMAIN alerts
      BY <3>1, <3>2 DEF TypeOK
    <3> QED BY <3>2, <3>3
  <2> QED BY <2>1, <2>2, <2>3, <2>4 DEF Restart
<1>2. jobs' \in Seq(Jobs) /\ alerts' \in Seq(AlertSet)
  BY DEF Restart, Start
<1>3. torrentInfo' \in BOOLEAN /\ metadata' \in BOOLEAN
  BY Zenon DEF Restart, Start
<1>4. checking' \in BOOLEAN
  BY ShutdownAssumption, Zenon DEF Restart, Start, ShutdownAssumption
<1>5. needSave' \in BOOLEAN
  BY DEF Restart, Start
<1>6. complete' \subseteq Files
  BY <1>1 DEF Restart, Start, TypeOK, Resumes
<1> QED BY <1>1, <1>2, <1>3, <1>4, <1>5, <1>6 DEF Restart, Start, TypeOK, Jobs, Resumes

\* Neither a step of a process nor the start of the next one breaks the promise.
LEMMA WipeRStep == WipeInv /\ [RNext]_allVars => WipeInv'
<1> SUFFICES ASSUME WipeInv, [RNext]_allVars PROVE WipeInv'
  OBVIOUS
<1>1. CASE Next /\ UNCHANGED <<lives, interrupted>>
  BY <1>1, WipeStep
<1>2. CASE Restart
  <2>1. TypeOK'
    BY <1>2, RestartTypes DEF WipeInv
  <2>2. pc' = "loop"
    BY <1>2 DEF Restart, Start
  <2>3. ~MayCheck => ~checking'
    BY <1>2, Zenon DEF Restart, Start
  <2> QED BY <2>1, <2>2, <2>3, NotYet DEF Undecided
<1>3. CASE UNCHANGED allVars
  BY <1>3, WipeStep DEF allVars
<1> QED BY <1>1, <1>2, <1>3 DEF RNext

\* Every process that has answered "torrent stopped and files deleted" before
\* removeTorrent decided, and has the metadata, leaves no file but those that could not be
\* removed; one that answered it at any time leaves no resume file, if that could be
\* removed: whatever the process has found and however slow libtorrent is.
THEOREM DeletesWhenAsked == RSpec => []WipedWhenAsked
<1>1. WipeInv => WipedWhenAsked
  BY DEF WipeInv, Doomed, Gone, NoneAfterDelete, WipedWhenAsked
<1> QED BY <1>1, WipeInit, WipeRStep, PTL DEF RSpec, RInit

\* Nothing is kept that no option asks to keep and that could be removed, unless
\* libtorrent was checking files.
THEOREM KeepsOnlyWhenAsked ==
    ASSUME ~MayCheck
    PROVE  RSpec => []RemovedUnlessKept
<1>1. WipeInv => RemovedUnlessKept
  BY DEF WipeInv, Doomed, KeepsNone, Gone, RemovedUnlessKept
<1> QED BY <1>1, WipeInit, WipeRStep, PTL DEF RSpec, RInit
-----------------------------------------------------------------------------
(* What the options promise: what is to be kept *)

\* What is decided stays decided, when libtorrent is in time and nobody resumes the
\* session or the torrent: once the wait for the pause is over nothing arrives any more.
Timely == ~Slow /\ "/resume" \notin Handlers /\ "/resumetorrent" \notin Handlers

IsPaused(a) == a.what = "torrent_paused_alert"
PauseAlertWaits == \E a \in Elements(alerts) : IsPaused(a)

\* The session is paused once: the job, then its alert, then neither.
PausedOnce ==
    /\ "pause" \in Elements(jobs) => paused # {}
    /\ PauseAlertWaits => paused # {} /\ "pause" \notin Elements(jobs)
    /\ \A i, j \in DOMAIN jobs : jobs[i] = "pause" /\ jobs[j] = "pause" => i = j
    /\ pc # "loop" => paused # {}
    /\ pc \notin {"loop", "waitPaused"} => "pause" \notin Elements(jobs)

\* Whatever is to be removed is what no option keeps, or /stopanddelete has come.
Justified ==
    /\ pc \in {"loop", "waitPaused"} => toRemove = {}
    /\ \A f \in toRemove : ~Keeps(f) \/ forceshutdelete
    /\ pc \in {"choose", "drop"} => ~config.keepFiles \/ forceshutdelete
    /\ "delete" \in Elements(jobs) => KeepsNone \/ forceshutdelete

KeepInv == TypeOK /\ PausedOnce /\ Justified

\* With the pause behind it nothing connects.
LEMMA NobodyConnects ==
    ASSUME KeepInv, pc \notin {"loop", "waitPaused"}
    PROVE  ~Connected
  BY DEF KeepInv, PausedOnce, Connected

\* A step that asks for no pause and whose alerts, if any, are old keeps PausedOnce.
LEMMA PauseKept ==
    ASSUME KeepInv, UNCHANGED paused,
           \/ UNCHANGED jobs
           \/ \E j \in Jobs \ {"pause"} : jobs' = Append(jobs, j)
           \/ jobs' = << >>,
           PauseAlertWaits' => PauseAlertWaits,
           pc' # "loop" => pc # "loop",
           pc' \notin {"loop", "waitPaused"} =>
              pc \notin {"loop", "waitPaused"} \/ "pause" \notin Elements(jobs)
    PROVE  PausedOnce'
<1>1. Elements(jobs') \subseteq Elements(jobs) \cup (Jobs \ {"pause"})
  <2>1. CASE \E j \in Jobs \ {"pause"} : jobs' = Append(jobs, j)
    <3>1. PICK j \in Jobs \ {"pause"} : jobs' = Append(jobs, j)
      BY <2>1
    <3>2. jobs \in Seq(Jobs)
      BY DEF KeepInv, TypeOK, Jobs
    <3>3. Elements(jobs') = Elements(jobs) \cup {j}
      BY <3>1, <3>2, ElementsAppend
    <3> QED BY <3>1, <3>3
  <2> QED BY <2>1, ElementsEmpty
<1>2. \A i, j \in DOMAIN jobs' : jobs'[i] = "pause" /\ jobs'[j] = "pause" => i = j
  <2>0. \A i, j \in DOMAIN jobs : jobs[i] = "pause" /\ jobs[j] = "pause" => i = j
    BY DEF KeepInv, PausedOnce
  <2>1. CASE UNCHANGED jobs
    BY <2>0, <2>1
  <2>2. CASE jobs' = << >>
    BY <2>2
  <2>3. CASE \E j \in Jobs \ {"pause"} : jobs' = Append(jobs, j)
    <3>1. PICK e \in Jobs \ {"pause"} : jobs' = Append(jobs, e)
      BY <2>3
    <3>2. jobs \in Seq(Jobs)
      BY DEF KeepInv, TypeOK, Jobs
    <3>3. /\ DOMAIN jobs' = 1..(Len(jobs) + 1) /\ DOMAIN jobs = 1..Len(jobs)
          /\ Len(jobs) \in Nat /\ jobs'[Len(jobs) + 1] = e
          /\ \A i \in 1..Len(jobs) : jobs'[i] = jobs[i]
      BY <3>1, <3>2
    <3>4. e # "pause"
      BY <3>1
    <3>5. \A i \in DOMAIN jobs' : jobs'[i] = "pause" => i \in DOMAIN jobs /\ jobs[i] = "pause"
      BY <3>3, <3>4
    <3> QED BY <2>0, <3>5
  <2> QED BY <2>1, <2>2, <2>3
<1> QED BY <1>1, <1>2 DEF KeepInv, PausedOnce

\* Pause() of a session or a torrent that is paused, or is not.
LEMMA PauseAsked ==
    ASSUME KeepInv, NEW what, AskPause(what), UNCHANGED alerts,
           pc' \in {"loop", "waitPaused"} \/ UNCHANGED pc
    PROVE  PausedOnce'
<1>0. jobs \in Seq(Jobs)
  BY DEF KeepInv, TypeOK, Jobs
<1>1. CASE paused # {}
  <2>1. UNCHANGED jobs /\ paused' # {}
    BY <1>1 DEF AskPause
  <2> QED BY <1>1, <2>1 DEF KeepInv, PausedOnce, PauseAlertWaits
<1>2. CASE paused = {}
  <2>1. "pause" \notin Elements(jobs) /\ ~PauseAlertWaits /\ pc = "loop"
    BY <1>2 DEF KeepInv, PausedOnce
  <2>2. jobs' = Append(jobs, "pause") /\ paused' # {}
    BY <1>2 DEF AskPause
  <2>3. /\ DOMAIN jobs' = 1..(Len(jobs) + 1) /\ DOMAIN jobs = 1..Len(jobs)
        /\ Len(jobs) \in Nat
        /\ \A i \in 1..Len(jobs) : jobs'[i] = jobs[i]
    BY <1>0, <2>2
  <2>4. \A i \in DOMAIN jobs' : jobs'[i] = "pause" => i = Len(jobs) + 1
    BY <2>1, <2>3 DEF Elements
  <2>5. ~PauseAlertWaits'
    BY <2>1 DEF PauseAlertWaits
  <2> QED BY <2>1, <2>2, <2>4, <2>5 DEF PausedOnce
<1> QED BY <1>1, <1>2

\* A step that adds to nothing that is to be removed.
LEMMA JustifiedKept ==
    ASSUME KeepInv, UNCHANGED <<config, complete, toRemove>>,
           forceshutdelete => forceshutdelete',
           "delete" \in Elements(jobs') => "delete" \in Elements(jobs),
           pc' \in {"loop", "waitPaused"} => pc \in {"loop", "waitPaused"},
           pc' \in {"choose", "drop"} => pc \in {"choose", "drop"}
    PROVE  Justified'
  BY DEF KeepInv, Justified, Keeps, KeepsNone

\* Every step keeps it justified.
LEMMA KeepStep ==
    ASSUME Timely, KeepInv, [Next]_vars
    PROVE  KeepInv'
<1> SUFFICES PausedOnce' /\ Justified'
  BY TypeStep DEF KeepInv
<1> USE DEF ltVars, diskVars
<1>t. TypeOK
  BY DEF KeepInv
<1>j. jobs \in Seq(Jobs) /\ alerts \in Seq(AlertSet)
  BY <1>t DEF TypeOK, Jobs
<1>a. ASSUME NEW j \in Jobs, jobs' = Append(jobs, j)
      PROVE  Elements(jobs') = Elements(jobs) \cup {j}
  BY <1>a, <1>j, ElementsAppend
<1>b. ASSUME UNCHANGED alerts \/ alerts' = << >>
      PROVE  PauseAlertWaits' => PauseAlertWaits
  BY <1>b, ElementsEmpty DEF PauseAlertWaits
<1>1. CASE ConsumeAlerts
  BY <1>1, <1>b, PauseKept, JustifiedKept DEF ConsumeAlerts
<1>2. CASE SaveTick
  <2>1. jobs' = Append(jobs, "save")
    BY <1>2 DEF SaveTick, AskSave
  <2>2. Elements(jobs') = Elements(jobs) \cup {"save"} /\ "save" \in Jobs \ {"pause"}
    BY <2>1, <1>a DEF Jobs
  <2> QED BY <1>2, <1>b, <2>1, <2>2, PauseKept, JustifiedKept DEF SaveTick
<1>3. CASE BeginShutdown
  <2>1. jobs' = jobs \/ jobs' = Append(jobs, "pause")
    BY <1>3 DEF BeginShutdown, AskPause
  <2>2. Elements(jobs') \subseteq Elements(jobs) \cup {"pause"}
    BY <2>1, <1>a DEF Jobs
  <2> QED BY <1>3, <2>2, PauseAsked, JustifiedKept DEF BeginShutdown
<1>4. CASE WaitForAlert
  <2>1. pc \in Waits /\ (pc' = pc \/ (pc' = After[pc] /\ \E a \in Elements(alerts) : a.what = Wanted[pc]))
    BY <1>4 DEF WaitForAlert
  <2>2. pc = "waitPaused" /\ pc' # pc => PauseAlertWaits
    BY <2>1 DEF Wanted, PauseAlertWaits, IsPaused
  <2>3. pc = "waitPaused" /\ pc' # pc => "pause" \notin Elements(jobs)
    BY <2>2 DEF KeepInv, PausedOnce
  <2>4. /\ pc # "loop" /\ pc' # "loop" /\ pc' \notin {"choose", "drop"}
        /\ pc' = "waitPaused" => pc = "waitPaused"
    BY <2>1 DEF Waits, After
  <2> QED BY <1>4, <1>b, <2>3, <2>4, PauseKept, JustifiedKept DEF WaitForAlert
<1>5. CASE TimeOut
  <2>1. pc \in Waits /\ pc' = After[pc] /\ ~Coming
    BY <1>5 DEF TimeOut, Timely
  <2>2. pc = "waitPaused" => "pause" \notin Elements(jobs)
    BY <2>1 DEF Coming
  <2>3. pc # "loop" /\ pc' \in {"save", "remove", "removeFiles"}
    BY <2>1 DEF Waits, After
  <2> QED BY <1>5, <1>b, <2>2, <2>3, PauseKept, JustifiedKept DEF TimeOut
<1>6. CASE Save
  <2>1. jobs' = jobs \/ jobs' = Append(jobs, "save")
    BY <1>6 DEF Save, AskSave
  <2>2. Elements(jobs') \subseteq Elements(jobs) \cup {"save"} /\ "save" \in Jobs \ {"pause"}
    BY <2>1, <1>a DEF Jobs
  <2>3. pc = "save" /\ pc' \in {"waitResume", "remove"}
    BY <1>6 DEF Save
  <2> QED BY <1>6, <1>b, <2>1, <2>2, <2>3, PauseKept, JustifiedKept DEF Save
<1>7. CASE RemoveTorrent
  <2>1. jobs' = jobs \/ (RemovesAll /\ jobs' = Append(jobs, "delete"))
    BY <1>7 DEF RemoveTorrent
  <2>2. Elements(jobs') = Elements(jobs) \/ (RemovesAll /\ Elements(jobs') = Elements(jobs) \cup {"delete"})
    BY <2>1, <1>a DEF Jobs
  <2>3. pc = "remove" /\ ((pc' = "choose" /\ RemovesAny) \/ pc' \in {"waitDeleted", "close"})
    BY <1>7 DEF RemoveTorrent
  <2>4. PausedOnce'
    <3>1. "delete" \in Jobs \ {"pause"}
      BY DEF Jobs
    <3> QED BY <1>7, <1>b, <2>1, <2>3, <3>1, PauseKept DEF RemoveTorrent
  <2>5. UNCHANGED <<config, complete, toRemove, forceshutdelete>>
    BY <1>7 DEF RemoveTorrent
  <2>6. RemovesAll => KeepsNone \/ forceshutdelete
    BY DEF RemovesAll, RemovesAny, KeepsNone
  <2>7. RemovesAny => ~config.keepFiles \/ forceshutdelete
    BY DEF RemovesAny
  <2>8. Justified'
    BY <2>2, <2>3, <2>5, <2>6, <2>7 DEF KeepInv, Justified, Keeps, KeepsNone
  <2> QED BY <2>4, <2>8
<1>8. CASE FilesToRemove
  <2>1. PausedOnce'
    BY <1>8, <1>b, PauseKept DEF FilesToRemove
  <2>2. /\ UNCHANGED <<config, complete, forceshutdelete, jobs>>
        /\ pc = "choose" /\ pc' = "drop"
        /\ \A f \in toRemove' : Unkept(f)
    BY <1>8 DEF FilesToRemove
  <2>3. ~config.keepFiles \/ forceshutdelete
    BY <2>2 DEF KeepInv, Justified
  <2>4. \A f \in toRemove' : ~Keeps(f) \/ forceshutdelete
    BY <2>2, <2>3 DEF Unkept, Keeps
  <2> QED BY <2>1, <2>2, <2>3, <2>4 DEF KeepInv, Justified, Keeps, KeepsNone
<1>9. CASE DropTorrent
  <2>1. pc = "drop" /\ pc' \in {"close", "waitDeleted"}
    BY <1>9 DEF DropTorrent
  <2> QED BY <1>9, <1>b, <2>1, PauseKept, JustifiedKept DEF DropTorrent
<1>10. CASE RemoveFiles
  BY <1>10, <1>b, PauseKept, JustifiedKept DEF RemoveFiles
<1>11. CASE CloseSession
  BY <1>11, <1>b, ElementsEmpty, PauseKept, JustifiedKept DEF CloseSession
<1>12. CASE Exit
  BY <1>12, <1>b, PauseKept, JustifiedKept DEF Exit
<1>13. CASE StopAndDelete
  BY <1>13, <1>b, PauseKept, JustifiedKept DEF StopAndDelete
<1>14. CASE Stop
  <2>1. jobs' = jobs \/ jobs' = Append(jobs, "pause")
    BY <1>14 DEF Stop, AskPause
  <2>2. Elements(jobs') \subseteq Elements(jobs) \cup {"pause"}
    BY <2>1, <1>a DEF Jobs
  <2> QED BY <1>14, <2>2, PauseAsked, JustifiedKept DEF Stop
<1>15. CASE Resume \/ ResumeTorrent
  BY <1>15 DEF Resume, ResumeTorrent, Timely
<1>21. CASE PauseTorrent
  <2>1. jobs' = jobs \/ jobs' = Append(jobs, "pause")
    BY <1>21 DEF PauseTorrent, AskPause
  <2>2. Elements(jobs') \subseteq Elements(jobs) \cup {"pause"}
    BY <2>1, <1>a DEF Jobs
  <2> QED BY <1>21, <2>2, PauseAsked, JustifiedKept DEF PauseTorrent
<1>16. CASE DoJob
  <2> DEFINE a == Told(Head(jobs))
  <2>1. /\ jobs # << >> /\ jobs' = Tail(jobs) /\ alerts' = Append(alerts, a)
        /\ UNCHANGED <<config, pc, forceshutdelete, toRemove, paused, complete>>
    BY <1>16 DEF DoJob
  <2>2. /\ Head(jobs) \in Jobs /\ Head(jobs) \in Elements(jobs)
        /\ Elements(jobs') \subseteq Elements(jobs)
    BY <2>1, <1>j, ElementsTail
  <2>3. Elements(alerts') = Elements(alerts) \cup {a}
    BY <1>j, <2>1, ElementsAppend
  <2>4. IsPaused(a) => Head(jobs) = "pause"
    BY <2>2 DEF Told, Alert, IsPaused, Jobs
  <2> HIDE DEF a
  <2>5. /\ Len(jobs) \in Nat \ {0} /\ DOMAIN jobs = 1..Len(jobs)
        /\ DOMAIN jobs' = 1..(Len(jobs) - 1) /\ Head(jobs) = jobs[1]
        /\ \A i \in 1..(Len(jobs) - 1) : jobs'[i] = jobs[i + 1]
    BY <1>j, <2>1
  <2>6. \A i, j \in DOMAIN jobs : jobs[i] = "pause" /\ jobs[j] = "pause" => i = j
    BY DEF KeepInv, PausedOnce
  <2>7. \A i, j \in DOMAIN jobs' : jobs'[i] = "pause" /\ jobs'[j] = "pause" => i = j
    BY <2>5, <2>6
  <2>8. Head(jobs) = "pause" => "pause" \notin Elements(jobs')
    BY <2>5, <2>6 DEF Elements
  <2>9. PauseAlertWaits' => PauseAlertWaits \/ Head(jobs) = "pause"
    BY <2>3, <2>4 DEF PauseAlertWaits
  <2>10. PausedOnce'
    BY <2>1, <2>2, <2>7, <2>8, <2>9 DEF KeepInv, PausedOnce
  <2>11. Justified'
    BY <2>1, <2>2, JustifiedKept
  <2> QED BY <2>10, <2>11
<1>17. CASE \E f \in Files : Progress(f)
  <2>1. PICK f \in Files : Progress(f)
    BY <1>17
  <2>2. /\ Connected
        /\ UNCHANGED <<config, pc, forceshutdelete, toRemove, jobs, alerts, paused>>
    BY <2>1 DEF Progress, Active
  <2>3. pc \in {"loop", "waitPaused"}
    BY <2>2, NobodyConnects
  <2>4. PausedOnce'
    BY <1>b, <2>2, PauseKept
  <2>5. Justified'
    BY <2>2, <2>3 DEF KeepInv, Justified, KeepsNone
  <2> QED BY <2>4, <2>5
<1>18. CASE Checked
  BY <1>18, <1>b, PauseKept, JustifiedKept DEF Checked
<1>19. CASE Metadata
  <2> DEFINE a == Alert("metadata_received_alert")
  <2>1. alerts' = Append(alerts, a)
    BY <1>19 DEF Metadata
  <2>2. Elements(alerts') = Elements(alerts) \cup {a} /\ ~IsPaused(a)
    BY <1>j, <2>1, ElementsAppend DEF Alert, IsPaused
  <2>3. PauseAlertWaits' => PauseAlertWaits
    BY <2>2 DEF PauseAlertWaits
  <2> QED BY <1>19, <2>3, PauseKept, JustifiedKept DEF Metadata
<1>20. CASE UNCHANGED vars
  BY <1>20, <1>b, PauseKept, JustifiedKept DEF vars
<1> QED BY <1>1, <1>2, <1>3, <1>4, <1>5, <1>6, <1>7, <1>8, <1>9, <1>10, <1>11, <1>12, <1>13,
           <1>14, <1>15, <1>16, <1>17, <1>18, <1>19, <1>20, <1>21
        DEF Next, HandleSignals, HTTP, Libtorrent

\* In a process that has just begun nothing is paused and nothing to be removed.
LEMMA KeepInit == Init => KeepInv
<1> SUFFICES ASSUME Init PROVE KeepInv
  OBVIOUS
<1>1. Elements(jobs) = {} /\ Elements(alerts) = {} /\ DOMAIN jobs = {}
  BY ElementsEmpty DEF Init
<1>2. PausedOnce
  BY <1>1 DEF Init, PausedOnce, PauseAlertWaits
<1>3. Justified
  BY <1>1 DEF Init, Justified
<1> QED BY <1>2, <1>3, InitTypes DEF KeepInv

\* Neither a step of a process nor the start of the next one removes what is kept.
LEMMA KeepRStep ==
    ASSUME Timely, KeepInv, [RNext]_allVars
    PROVE  KeepInv'
<1>1. CASE Next /\ UNCHANGED <<lives, interrupted>>
  BY <1>1, KeepStep
<1>2. CASE Restart
  <2>1. TypeOK'
    BY <1>2, RestartTypes DEF KeepInv
  <2>2. PausedOnce' /\ Justified'
    BY <1>2, ElementsEmpty DEF Restart, Start, PausedOnce, PauseAlertWaits, Justified
  <2> QED BY <2>1, <2>2 DEF KeepInv
<1>3. CASE UNCHANGED allVars
  BY <1>3, KeepStep DEF allVars
<1> QED BY <1>1, <1>2, <1>3 DEF RNext

\* Only what libtorrent deletes and what removeFiles does make files disappear, or try to.
LEMMA RemovesJustified ==
    ASSUME KeepInv, Next, NEW f \in (onDisk \ onDisk') \cup (refused' \ refused)
    PROVE  ~Keeps(f) \/ forceshutdelete
<1> USE DEF ltVars, diskVars
<1>1. CASE RemoveFiles
  BY <1>1 DEF RemoveFiles, KeepInv, Justified
<1>2. CASE CloseSession
  <2>1. Delete(Elements(jobs))
    BY <1>2 DEF CloseSession
  <2>2. "delete" \in Elements(jobs)
    BY <2>1, DeleteTypes DEF KeepInv
  <2> QED BY <2>2 DEF KeepInv, Justified, KeepsNone, Keeps
<1>3. CASE DoJob
  <2>1. Delete({Head(jobs)}) /\ jobs # << >>
    BY <1>3 DEF DoJob
  <2>2. Head(jobs) = "delete"
    BY <2>1, DeleteTypes DEF KeepInv
  <2>3. jobs \in Seq(Jobs)
    BY DEF KeepInv, TypeOK, Jobs
  <2>4. "delete" \in Elements(jobs)
    BY <2>1, <2>2, <2>3, ElementsTail
  <2> QED BY <2>4 DEF KeepInv, Justified, KeepsNone, Keeps
<1>4. CASE \E g \in Files : Progress(g)
  BY <1>4 DEF Progress
<1>5. CASE \/ ConsumeAlerts \/ SaveTick \/ BeginShutdown \/ WaitForAlert \/ TimeOut \/ Save
           \/ RemoveTorrent \/ FilesToRemove \/ DropTorrent \/ Exit
           \/ HTTP \/ Metadata \/ Checked
  BY <1>5 DEF ConsumeAlerts, SaveTick, BeginShutdown, WaitForAlert, TimeOut, Save, RemoveTorrent,
              FilesToRemove, DropTorrent, Exit, HTTP, StopAndDelete, Stop, Resume, PauseTorrent,
              ResumeTorrent, Metadata, Checked
<1> QED BY <1>1, <1>2, <1>3, <1>4, <1>5 DEF Next, HandleSignals, Libtorrent

\* No file disappears that an option keeps at that moment, in any process, as long as
\* libtorrent answers in time and nobody resumes what is paused: what filesToRemove saw
\* is still true when removeFiles removes it.
THEOREM KeepsWhatIsAsked ==
    ASSUME Timely
    PROVE  RSpec => RemovesOnlyUnkept
<1>1. KeepInv /\ [RNext]_allVars => [\A f \in onDisk \ onDisk' : ~Keeps(f) \/ forceshutdelete]_vars
  <2> SUFFICES ASSUME KeepInv, [RNext]_allVars, NEW f \in onDisk \ onDisk'
               PROVE  ~Keeps(f) \/ forceshutdelete
    OBVIOUS
  <2>1. CASE Next
    BY <2>1, RemovesJustified
  <2>2. CASE Restart
    BY <2>2 DEF Restart
  <2>3. CASE UNCHANGED allVars
    BY <2>3 DEF allVars, vars, diskVars
  <2> QED BY <2>1, <2>2, <2>3 DEF RNext
<1>2. KeepInv /\ [RNext]_allVars => KeepInv'
  BY KeepRStep
<1>3. RInit => KeepInv
  BY KeepInit DEF RInit
<1> QED BY <1>1, <1>2, <1>3, PTL DEF RSpec, RemovesOnlyUnkept
-----------------------------------------------------------------------------
(* What the resume file promises the next process *)

\* Nobody but shutdown() pauses anything either.
Alone == Timely /\ "/stop" \notin Handlers /\ "/pausetorrent" \notin Handlers

Keeping == config.resumeFile /\ ~forceshutdelete

\* The resume file tells of all there is, or could not be written.
IsFresh == resume = Whole(complete) \/ "write" \in failed

\* Once the alerts that wait are processed it does.
UpToDate ==
    \/ \E i \in DOMAIN alerts :
          /\ IsSaved(alerts[i]) /\ alerts[i].data = complete
          /\ \A j \in DOMAIN alerts : j > i => ~IsSaved(alerts[j])
    \/ (\A a \in Elements(alerts) : ~IsSaved(a)) /\ IsFresh

\* need_save_resume is clear only if all there is has been saved or is about to be.
Fresh == metadata /\ ~needSave => "save" \in Elements(jobs) \/ UpToDate

\* The pause comes after every save that was asked for before, and its alert after
\* theirs: when the wait is over libtorrent has nothing left to do or to tell.
PauseIsLast ==
    \/ jobs # << >> /\ jobs[Len(jobs)] = "pause"
    \/ jobs = << >> /\ PauseAlertWaits

SaveUnderWay ==
    \/ jobs = <<"save">> /\ alerts = << >>
    \/ jobs = << >> /\ alerts = <<[what |-> "save_resume_data_alert", data |-> complete]>>

SavedAtLast ==
    /\ pc \in {"loop", "waitPaused"} => Fresh
    /\ pc = "save" => /\ jobs = << >> /\ alerts = << >>
                      /\ metadata /\ ~needSave => IsFresh
    /\ pc = "waitResume" => (metadata => SaveUnderWay)
    /\ pc \in {"remove", "close", "unlink", "exited"} => (metadata => IsFresh)
    /\ pc \notin {"choose", "drop", "waitDeleted", "removeFiles"}

FreshInv ==
    /\ KeepInv
    /\ pc = "loop" => paused = {}
    /\ pc = "waitPaused" => PauseIsLast
    /\ Keeping => SavedAtLast

\* processAlert leaves the last of what was saved, if it can write it.
LEMMA ProcessFresh ==
    ASSUME TypeOK, Process(alerts), UpToDate, UNCHANGED complete
    PROVE  IsFresh'
<1>0. alerts \in Seq(AlertSet) /\ DOMAIN alerts \subseteq Nat
  BY DEF TypeOK
<1>1. CASE \A a \in Elements(alerts) : ~IsSaved(a)
  <2>1. \A i \in DOMAIN alerts : ~IsSaved(alerts[i])
    BY <1>1 DEF Elements
  <2>2. Saved(alerts) = {} /\ IsFresh
    BY <1>1, <2>1 DEF Saved, UpToDate
  <2>3. UNCHANGED <<resume, failed>>
    BY <2>1, <2>2 DEF Process
  <2> QED BY <2>2, <2>3 DEF IsFresh
<1>2. CASE \E i \in DOMAIN alerts : /\ IsSaved(alerts[i]) /\ alerts[i].data = complete
                                    /\ \A j \in DOMAIN alerts : j > i => ~IsSaved(alerts[j])
  <2>1. PICK i \in DOMAIN alerts : /\ IsSaved(alerts[i]) /\ alerts[i].data = complete
                                   /\ \A j \in DOMAIN alerts : j > i => ~IsSaved(alerts[j])
    BY <1>2
  <2>2. alerts[i] \in Elements(alerts)
    BY DEF Elements
  <2>3. alerts[i] \in Saved(alerts)
    BY <2>1, <2>2 DEF Saved
  <2>4. CASE "write" \in failed'
    BY <2>4 DEF IsFresh
  <2>5. CASE \E k \in DOMAIN alerts : /\ IsSaved(alerts[k]) /\ resume' = Whole(alerts[k].data)
                                     /\ \A j \in DOMAIN alerts : j > k => ~IsSaved(alerts[j])
    <3>1. PICK k \in DOMAIN alerts : /\ IsSaved(alerts[k]) /\ resume' = Whole(alerts[k].data)
                                     /\ \A j \in DOMAIN alerts : j > k => ~IsSaved(alerts[j])
      BY <2>5
    <3>2. i \in Nat /\ k \in Nat
      BY <1>0
    <3>3. i = k
      BY <2>1, <3>1, <3>2
    <3> QED BY <2>1, <3>1, <3>3 DEF IsFresh
  <2> QED BY <2>3, <2>4, <2>5 DEF Process
<1> QED BY <1>1, <1>2 DEF UpToDate

\* An alert that is no saved resume data changes nothing of it; one that is, of all
\* there is, brings it up to date.
LEMMA AlertAppended ==
    ASSUME TypeOK, NEW a \in AlertSet, alerts' = Append(alerts, a),
           UNCHANGED <<resume, failed, complete>>
    PROVE  /\ ~IsSaved(a) /\ UpToDate => UpToDate'
           /\ IsSaved(a) /\ a.data = complete => UpToDate'
<1>1. /\ DOMAIN alerts = 1..Len(alerts) /\ Len(alerts) \in Nat
      /\ DOMAIN alerts' = 1..(Len(alerts) + 1)
      /\ alerts'[Len(alerts) + 1] = a
      /\ \A i \in 1..Len(alerts) : alerts'[i] = alerts[i]
  BY DEF TypeOK
<1>2. Elements(alerts') = Elements(alerts) \cup {a}
  BY ElementsAppend DEF TypeOK
<1>3. ASSUME ~IsSaved(a), UpToDate PROVE UpToDate'
  <2>1. CASE \A e \in Elements(alerts) : ~IsSaved(e)
    <3>1. \A i \in DOMAIN alerts : ~IsSaved(alerts[i])
      BY <2>1 DEF Elements
    <3>2. IsFresh
      BY <1>3, <3>1 DEF UpToDate
    <3>3. \A e \in Elements(alerts') : ~IsSaved(e)
      BY <1>2, <1>3, <2>1
    <3> QED BY <3>2, <3>3 DEF UpToDate, IsFresh
  <2>2. CASE \E i \in DOMAIN alerts : /\ IsSaved(alerts[i]) /\ alerts[i].data = complete
                                      /\ \A j \in DOMAIN alerts : j > i => ~IsSaved(alerts[j])
    <3>1. PICK i \in DOMAIN alerts : /\ IsSaved(alerts[i]) /\ alerts[i].data = complete
                                     /\ \A j \in DOMAIN alerts : j > i => ~IsSaved(alerts[j])
      BY <2>2
    <3>2. i \in DOMAIN alerts' /\ IsSaved(alerts'[i]) /\ alerts'[i].data = complete'
      BY <1>1, <3>1
    <3>3. \A j \in DOMAIN alerts' : j > i => ~IsSaved(alerts'[j])
      BY <1>1, <1>3, <3>1
    <3> QED BY <3>2, <3>3 DEF UpToDate
  <2> QED BY <1>3, <2>1, <2>2 DEF UpToDate
<1>4. ASSUME IsSaved(a), a.data = complete PROVE UpToDate'
  <2>1. Len(alerts) + 1 \in DOMAIN alerts'
    BY <1>1
  <2>2. \A j \in DOMAIN alerts' : ~(j > Len(alerts) + 1)
    BY <1>1
  <2> QED BY <1>1, <1>4, <2>1, <2>2 DEF UpToDate
<1> QED BY <1>3, <1>4

\* A step that leaves the queues and the files alone, in one place of shutdown().
LEMMA FreshKept ==
    ASSUME FreshInv, KeepInv',
           UNCHANGED <<config, pc, paused, jobs, alerts, metadata, needSave, resume, failed, complete>>,
           forceshutdelete => forceshutdelete'
    PROVE  FreshInv'
<1>1. (Keeping' => Keeping) /\ (PauseIsLast => PauseIsLast')
  BY DEF Keeping, PauseIsLast, PauseAlertWaits
<1>2. (UpToDate => UpToDate') /\ (SaveUnderWay => SaveUnderWay')
  BY DEF UpToDate, SaveUnderWay, IsFresh
<1>3. SavedAtLast => SavedAtLast'
  BY <1>2 DEF SavedAtLast, Fresh, IsFresh
<1> QED BY <1>1, <1>3 DEF FreshInv

\* The session is closed, or shutdown() goes on, without a word to the resume file.
LEMMA FreshAtEnd ==
    ASSUME FreshInv, KeepInv',
           pc' \notin {"loop", "waitPaused"},
           UNCHANGED <<config, forceshutdelete, metadata, complete>>,
           Keeping => /\ pc \in {"remove", "close", "unlink", "exited"}
                      /\ pc' \in {"remove", "close", "unlink", "exited"}
                      /\ UNCHANGED <<resume, failed>>
    PROVE  FreshInv'
  BY DEF FreshInv, Keeping, SavedAtLast, IsFresh

\* Every step keeps the way to a fresh resume file.
LEMMA FreshStep ==
    ASSUME Alone, FreshInv, [Next]_vars
    PROVE  FreshInv'
<1> USE DEF ltVars, diskVars
<1>k. KeepInv /\ KeepInv' /\ TypeOK
  BY KeepStep DEF FreshInv, KeepInv, Alone
<1>j. jobs \in Seq(Jobs) /\ alerts \in Seq(AlertSet)
  BY <1>k DEF TypeOK, Jobs
<1>a. ASSUME NEW j \in Jobs, jobs' = Append(jobs, j)
      PROVE  Elements(jobs') = Elements(jobs) \cup {j}
  BY <1>a, <1>j, ElementsAppend
<1>p. ASSUME Process(alerts), alerts' = << >>,
             UNCHANGED <<jobs, metadata, needSave, complete>>, Fresh
      PROVE  Fresh'
  <2>1. CASE UpToDate
    <3>1. IsFresh'
      BY <1>k, <1>p, <2>1, ProcessFresh
    <3> QED BY <1>p, <3>1, ElementsEmpty DEF Fresh, UpToDate
  <2> QED BY <1>p, <2>1 DEF Fresh
<1>1. CASE ConsumeAlerts
  <2>1. /\ pc = "loop" /\ pc' = "loop" /\ Process(alerts) /\ alerts' = << >>
        /\ UNCHANGED <<config, forceshutdelete, jobs, ltVars, complete>>
    BY <1>1 DEF ConsumeAlerts
  <2> QED BY <1>k, <1>p, <2>1 DEF FreshInv, Keeping, SavedAtLast
<1>2. CASE SaveTick
  <2>1. pc = "loop" /\ pc' = "loop" /\ jobs' = Append(jobs, "save") /\ UNCHANGED paused
    BY <1>2 DEF SaveTick, AskSave
  <2>2. "save" \in Elements(jobs')
    BY <1>a, <2>1 DEF Jobs
  <2> QED BY <1>k, <2>1, <2>2 DEF FreshInv, SavedAtLast, Fresh
<1>3. CASE BeginShutdown
  <2>1. /\ pc = "loop" /\ pc' = "waitPaused" /\ jobs' = Append(jobs, "pause")
        /\ UNCHANGED <<config, forceshutdelete, resume, failed, alerts, metadata, needSave, complete>>
    BY <1>3 DEF BeginShutdown, AskPause, FreshInv
  <2>2. jobs' # << >> /\ jobs'[Len(jobs')] = "pause"
    BY <1>j, <2>1
  <2>3. Elements(jobs') = Elements(jobs) \cup {"pause"}
    BY <1>a, <2>1 DEF Jobs
  <2>4. Fresh => Fresh'
    BY <2>1, <2>3 DEF Fresh, UpToDate, IsFresh
  <2> QED BY <1>k, <2>1, <2>2, <2>4 DEF FreshInv, Keeping, SavedAtLast, PauseIsLast
<1>4. CASE WaitForAlert
  <2>0. /\ pc \in Waits /\ Process(alerts) /\ alerts' = << >>
        /\ pc' = (IF \E a \in Elements(alerts) : a.what = Wanted[pc] THEN After[pc] ELSE pc)
        /\ UNCHANGED <<config, forceshutdelete, jobs, ltVars, complete>>
    BY <1>4 DEF WaitForAlert
  <2>1. CASE pc = "waitPaused" /\ PauseAlertWaits
    <3>1. pc' = "save"
      BY <2>0, <2>1 DEF Wanted, After, PauseAlertWaits, IsPaused
    <3>2. jobs = << >>
      <4>1. "pause" \notin Elements(jobs)
        BY <1>k, <2>1 DEF KeepInv, PausedOnce
      <4>2. jobs = << >> \/ jobs[Len(jobs)] \in Elements(jobs)
        BY <1>j DEF Elements
      <4> QED BY <2>1, <4>1, <4>2 DEF FreshInv, PauseIsLast
    <3>3. Elements(jobs) = {}
      BY <3>2, ElementsEmpty
    <3>4. Keeping /\ metadata /\ ~needSave => IsFresh'
      BY <1>k, <2>0, <2>1, <3>3, ProcessFresh DEF FreshInv, SavedAtLast, Fresh
    <3> QED BY <1>k, <2>0, <3>1, <3>2, <3>4 DEF FreshInv, Keeping, SavedAtLast
  <2>2. CASE pc = "waitPaused" /\ ~PauseAlertWaits
    <3>1. pc' = pc
      BY <2>0, <2>2 DEF Wanted, PauseAlertWaits, IsPaused
    <3>2. PauseIsLast'
      BY <2>0, <2>2 DEF FreshInv, PauseIsLast
    <3>3. Keeping => Fresh
      BY <2>2 DEF FreshInv, SavedAtLast
    <3>4. Keeping => Fresh'
      BY <1>p, <2>0, <3>3
    <3> QED BY <1>k, <2>0, <2>2, <3>1, <3>2, <3>4 DEF FreshInv, Keeping, SavedAtLast
  <2>3. CASE pc = "waitResume"
    <3>1. pc' \in {"waitResume", "remove"}
      BY <2>0, <2>3 DEF After
    <3>2. CASE Keeping /\ metadata
      <4>1. alerts = <<[what |-> "save_resume_data_alert", data |-> complete]>>
        BY <1>4, <2>3, <3>2 DEF FreshInv, SavedAtLast, SaveUnderWay, WaitForAlert
      <4>2. UpToDate
        BY <4>1 DEF UpToDate, IsSaved
      <4>3. IsFresh'
        BY <1>k, <2>0, <4>2, ProcessFresh
      <4>4. alerts[1] \in Elements(alerts) /\ alerts[1].what = Wanted[pc]
        BY <2>3, <4>1 DEF Elements, Wanted
      <4>5. pc' = "remove"
        BY <2>0, <2>3, <4>4 DEF After
      <4> QED BY <1>k, <2>0, <4>3, <4>5 DEF FreshInv, Keeping, SavedAtLast
    <3> QED BY <1>k, <2>0, <3>1, <3>2 DEF FreshInv, Keeping, SavedAtLast
  <2>4. CASE pc = "waitDeleted"
    <3>1. ~Keeping /\ pc' \in {"waitDeleted", "removeFiles"}
      BY <2>0, <2>4 DEF FreshInv, SavedAtLast, After
    <3> QED BY <1>k, <2>0, <3>1 DEF FreshInv, Keeping
  <2> QED BY <2>0, <2>1, <2>2, <2>3, <2>4 DEF Waits
<1>5. CASE TimeOut
  <2>0. /\ pc \in Waits /\ pc' = After[pc] /\ ~Coming
        /\ UNCHANGED <<config, forceshutdelete, resume, failed, jobs, alerts, ltVars, complete>>
    BY <1>5 DEF TimeOut, Alone, Timely
  <2>1. pc # "waitPaused"
    <3>1. jobs = << >> \/ jobs[Len(jobs)] \in Elements(jobs)
      BY <1>j DEF Elements
    <3>2. pc = "waitPaused" => "pause" \in Elements(jobs) \/ PauseAlertWaits
      BY <3>1 DEF FreshInv, PauseIsLast
    <3> QED BY <2>0, <3>2 DEF Coming, PauseAlertWaits, IsPaused, Wanted
  <2>2. CASE pc = "waitResume"
    <3>1. pc' = "remove"
      BY <2>0, <2>2 DEF After
    <3>2. Keeping => ~metadata
      <4>1. ~SaveUnderWay
        <5>1. jobs = <<"save">> => "save" \in Elements(jobs)
          BY DEF Elements
        <5>2. ASSUME alerts = <<[what |-> "save_resume_data_alert", data |-> complete]>>
              PROVE  alerts[1] \in Elements(alerts) /\ alerts[1].what = "save_resume_data_alert"
          BY <5>2 DEF Elements
        <5> QED BY <2>0, <2>2, <5>1, <5>2 DEF Coming, Wanted, SaveUnderWay
      <4> QED BY <2>2, <4>1 DEF FreshInv, SavedAtLast
    <3> QED BY <1>k, <2>0, <3>1, <3>2 DEF FreshInv, Keeping, SavedAtLast
  <2>3. CASE pc = "waitDeleted"
    <3>1. ~Keeping /\ pc' = "removeFiles"
      BY <2>0, <2>3 DEF FreshInv, SavedAtLast, After
    <3> QED BY <1>k, <2>0, <3>1 DEF FreshInv, Keeping
  <2> QED BY <2>0, <2>1, <2>2, <2>3 DEF Waits
<1>6. CASE Save
  <2>0. /\ pc = "save" /\ pc' \in {"waitResume", "remove"}
        /\ UNCHANGED <<config, forceshutdelete, resume, failed, alerts, paused, metadata, complete>>
    BY <1>6 DEF Save
  <2>1. CASE WantsSave
    <3>1. pc' = "waitResume" /\ jobs' = Append(jobs, "save")
      BY <1>6, <2>1 DEF Save, AskSave
    <3>2. Keeping => jobs' = <<"save">> /\ alerts' = << >>
      BY <2>0, <3>1 DEF FreshInv, SavedAtLast
    <3> QED BY <1>k, <2>0, <3>1, <3>2 DEF FreshInv, Keeping, SavedAtLast, SaveUnderWay
  <2>2. CASE ~WantsSave
    <3>1. pc' = "remove"
      BY <1>6, <2>2 DEF Save
    <3>2. Keeping => ~needSave
      BY <2>2 DEF WantsSave, Keeping
    <3> QED BY <1>k, <2>0, <3>1, <3>2 DEF FreshInv, Keeping, SavedAtLast, IsFresh
  <2> QED BY <2>1, <2>2
<1>7. CASE RemoveTorrent
  <2>1. Keeping => ~RemovesAny
    BY <1>k, KeepsFiles DEF Keeping
  <2>2. /\ pc = "remove" /\ pc' \in {"choose", "waitDeleted", "close"}
        /\ Keeping => pc' = "close"
        /\ UNCHANGED <<config, forceshutdelete, resume, failed, metadata, complete>>
    BY <1>7, <2>1 DEF RemoveTorrent, RemovesAll
  <2> QED BY <1>k, <2>2, FreshAtEnd
<1>8. CASE FilesToRemove
  BY <1>8, <1>k, FreshAtEnd DEF FilesToRemove, FreshInv, SavedAtLast
<1>9. CASE DropTorrent
  <2>1. ~Keeping /\ pc' \in {"close", "waitDeleted"}
    BY <1>9 DEF DropTorrent, FreshInv, SavedAtLast
  <2> QED BY <1>9, <1>k, <2>1, FreshAtEnd DEF DropTorrent
<1>10. CASE RemoveFiles
  BY <1>10, <1>k, FreshAtEnd DEF RemoveFiles, FreshInv, SavedAtLast
<1>11. CASE CloseSession
  BY <1>11, <1>k, FreshAtEnd DEF CloseSession
<1>12. CASE Exit
  BY <1>12, <1>k, FreshAtEnd DEF Exit, Keeping
<1>13. CASE StopAndDelete
  BY <1>13, <1>k, FreshKept DEF StopAndDelete
<1>14. CASE Stop
  BY <1>14 DEF Stop, Alone
<1>15. CASE Resume \/ ResumeTorrent
  BY <1>15 DEF Resume, ResumeTorrent, Alone, Timely
<1>21. CASE PauseTorrent
  BY <1>21 DEF PauseTorrent, Alone
<1>16. CASE DoJob
  <2> DEFINE a == Told(Head(jobs))
  <2>0. /\ jobs # << >> /\ jobs' = Tail(jobs) /\ alerts' = Append(alerts, a)
        /\ UNCHANGED <<config, pc, forceshutdelete, resume, failed, paused, metadata, needSave, complete>>
    BY <1>16 DEF DoJob
  <2>1. Head(jobs) \in Jobs /\ Elements(jobs) \subseteq {Head(jobs)} \cup Elements(jobs')
    BY <2>0, <1>j, ElementsTail, ElementsHeadTail
  <2>2. /\ a \in AlertSet
        /\ IsSaved(a) => Head(jobs) = "save" /\ a.data = complete
        /\ Head(jobs) = "save" /\ metadata =>
              IsSaved(a) /\ a = [what |-> "save_resume_data_alert", data |-> complete]
        /\ Head(jobs) = "pause" => IsPaused(a)
    BY <2>1, <1>k DEF Told, Alert, AlertSet, IsSaved, IsPaused, Jobs, TypeOK
  <2> HIDE DEF a
  <2>3. pc \in {"loop", "waitPaused"} /\ Fresh => Fresh'
    <3> SUFFICES ASSUME Fresh, metadata', ~needSave' PROVE "save" \in Elements(jobs') \/ UpToDate'
      BY DEF Fresh
    <3>1. CASE Head(jobs) = "save"
      BY <1>k, <2>0, <2>2, <3>1, AlertAppended
    <3>2. CASE Head(jobs) # "save" /\ "save" \in Elements(jobs)
      BY <2>1, <3>2
    <3>3. CASE Head(jobs) # "save" /\ UpToDate
      BY <1>k, <2>0, <2>2, <3>3, AlertAppended
    <3> QED BY <2>0, <3>1, <3>2, <3>3 DEF Fresh
  <2>4. pc = "waitPaused" => PauseIsLast'
    <3> SUFFICES ASSUME pc = "waitPaused" PROVE PauseIsLast'
      OBVIOUS
    <3>1. jobs[Len(jobs)] = "pause" /\ Len(jobs) \in Nat \ {0}
      BY <1>j, <2>0 DEF FreshInv, PauseIsLast
    <3>2. CASE Len(jobs) = 1
      <4>1. jobs' = << >> /\ Head(jobs) = "pause"
        BY <1>j, <2>0, <3>1, <3>2
      <4>2. a \in Elements(alerts')
        BY <1>j, <2>0, <2>2, ElementsAppend
      <4> QED BY <2>2, <4>1, <4>2 DEF PauseIsLast, PauseAlertWaits
    <3>3. CASE Len(jobs) > 1
      <4> DEFINE n == Len(jobs)
      <4>1. n \in Nat /\ n > 1 /\ jobs[n] = "pause"
        BY <3>1, <3>3
      <4>2. /\ Len(Tail(jobs)) = n - 1
            /\ \A i \in 1..(n - 1) : Tail(jobs)[i] = jobs[i + 1]
        BY <1>j, <2>0
      <4> HIDE DEF n
      <4>3. n - 1 \in 1..(n - 1) /\ (n - 1) + 1 = n
        BY <4>1
      <4>4. Len(Tail(jobs)) = n - 1 /\ Tail(jobs)[n - 1] = jobs[n]
        BY <4>2, <4>3
      <4>5. Tail(jobs) # << >>
        <5>1. n - 1 # 0 /\ Len(<< >>) = 0
          BY <4>1
        <5> QED BY <4>4, <5>1
      <4> QED BY <2>0, <4>1, <4>4, <4>5 DEF PauseIsLast
    <3> QED BY <3>1, <3>2, <3>3
  <2>5. metadata /\ SaveUnderWay => SaveUnderWay'
    <3> SUFFICES ASSUME metadata, SaveUnderWay PROVE SaveUnderWay'
      OBVIOUS
    <3>1. jobs = <<"save">> /\ alerts = << >>
      BY <2>0 DEF SaveUnderWay
    <3>2. jobs' = << >> /\ Head(jobs) = "save" /\ alerts' = <<a>>
      BY <2>0, <3>1
    <3> QED BY <2>0, <2>2, <3>2 DEF SaveUnderWay
  <2>6. Keeping => pc # "save"
    BY <2>0 DEF FreshInv, SavedAtLast
  <2>7. Keeping => SavedAtLast'
    BY <2>0, <2>3, <2>5, <2>6 DEF FreshInv, SavedAtLast, IsFresh
  <2> QED BY <1>k, <2>0, <2>4, <2>7 DEF FreshInv, Keeping
<1>17. CASE \E f \in Files : Progress(f)
  <2>1. PICK f \in Files : Progress(f)
    BY <1>17
  <2>2. /\ Connected /\ needSave' = TRUE
        /\ UNCHANGED <<config, pc, forceshutdelete, jobs, alerts, paused>>
    BY <2>1 DEF Progress, Active
  <2>3. pc \in {"loop", "waitPaused"}
    BY <1>k, <2>2, NobodyConnects
  <2>4. PauseIsLast => PauseIsLast'
    BY <2>2 DEF PauseIsLast, PauseAlertWaits
  <2>5. Fresh'
    BY <2>2 DEF Fresh
  <2> QED BY <1>k, <2>2, <2>3, <2>4, <2>5 DEF FreshInv, SavedAtLast
<1>18. CASE Checked
  BY <1>18, <1>k, FreshKept DEF Checked
<1>19. CASE Metadata
  <2>1. /\ Connected /\ needSave' = TRUE
        /\ alerts' = Append(alerts, Alert("metadata_received_alert"))
        /\ UNCHANGED <<config, pc, forceshutdelete, jobs, paused>>
    BY <1>19 DEF Metadata
  <2>2. pc \in {"loop", "waitPaused"}
    BY <1>k, <2>1, NobodyConnects
  <2>3. Elements(alerts) \subseteq Elements(alerts')
    BY <1>j, <2>1, ElementsAppend DEF Alert, AlertSet
  <2>4. PauseIsLast => PauseIsLast'
    BY <2>1, <2>3 DEF PauseIsLast, PauseAlertWaits
  <2>5. Fresh'
    BY <2>1 DEF Fresh
  <2> QED BY <1>k, <2>1, <2>2, <2>4, <2>5 DEF FreshInv, SavedAtLast
<1>20. CASE UNCHANGED vars
  BY <1>20, <1>k, FreshKept DEF vars
<1> QED BY <1>1, <1>2, <1>3, <1>4, <1>5, <1>6, <1>7, <1>8, <1>9, <1>10, <1>11, <1>12, <1>13,
           <1>14, <1>15, <1>16, <1>17, <1>18, <1>19, <1>20, <1>21
        DEF Next, HandleSignals, HTTP, Libtorrent

\* A process begins with resume data of all there is, or needs to save.
LEMMA FreshInit == Init => FreshInv
<1> SUFFICES ASSUME Init PROVE FreshInv
  OBVIOUS
<1>1. ~needSave => resume = Whole(complete)
  BY DEF Init
<1>2. Elements(alerts) = {}
  BY ElementsEmpty DEF Init
<1>3. Fresh
  BY <1>1, <1>2 DEF Fresh, UpToDate, IsFresh
<1> QED BY <1>3, KeepInit DEF Init, FreshInv, SavedAtLast

\* The next process, too, has resume data of all there is, or needs to save.
LEMMA FreshRStep ==
    ASSUME Alone, FreshInv, [RNext]_allVars
    PROVE  FreshInv'
<1>1. CASE Next /\ UNCHANGED <<lives, interrupted>>
  BY <1>1, FreshStep
<1>2. CASE Restart
  <2>1. KeepInv'
    BY <1>2, KeepRStep DEF FreshInv, RNext, Alone
  <2>2. pc' = "loop" /\ paused' = {} /\ Elements(alerts') = {}
    BY <1>2, ElementsEmpty DEF Restart, Start
  <2>3. ~needSave' => Trusted
    BY <1>2 DEF Restart, Start
  <2>4. Trusted => resume' = Whole(complete')
    <3>1. resume' \in Resumes
      BY <2>1 DEF KeepInv, TypeOK, Resumes
    <3> QED BY <1>2, <3>1 DEF Restart, Start, Trusted, Resumes, Whole
  <2>5. Fresh'
    BY <2>2, <2>3, <2>4 DEF Fresh, UpToDate, IsFresh
  <2> QED BY <2>1, <2>2, <2>5 DEF FreshInv, SavedAtLast
<1>3. CASE UNCHANGED allVars
  BY <1>3, FreshStep DEF allVars
<1> QED BY <1>1, <1>2, <1>3 DEF RNext

\* Every process that ends by itself and deletes nothing leaves a resume file that tells
\* of all there is, with a periodic save under way or not, when libtorrent answers in
\* time and only shutdown() pauses the session.
THEOREM SavesAllThereIs ==
    ASSUME Alone
    PROVE  RSpec => []ResumeIsFresh
<1>1. FreshInv => ResumeIsFresh
  BY DEF FreshInv, Keeping, SavedAtLast, IsFresh, ResumeIsFresh
<1>2. FreshInv /\ [RNext]_allVars => FreshInv'
  BY FreshRStep
<1>3. RInit => FreshInv
  BY FreshInit DEF RInit
<1> QED BY <1>1, <1>2, <1>3, PTL DEF RSpec

-----------------------------------------------------------------------------
(* What one process after another leaves is as promised *)

\* What is recorded, or about to be, is true and wanted, and libtorrent is asked to
\* delete the files only at the end.
TrueInv ==
    /\ OnlyWithOption
    /\ \A a \in Elements(alerts) : IsSaved(a) => a.data \subseteq complete
    /\ "delete" \in Elements(jobs) => pc \in {"waitDeleted", "removeFiles", "close"}

\* A step that brings no alert but a true one, and no job out of its place.
LEMMA TrueKept ==
    ASSUME TrueInv, UNCHANGED config,
           resume' # Absent => config.resumeFile,
           "save" \in Elements(jobs') => "save" \in Elements(jobs) \/ config.resumeFile,
           \A a \in Elements(alerts') : IsSaved(a) =>
              a \in Elements(alerts) \/ (config.resumeFile /\ a.data \subseteq complete'),
           complete \subseteq complete',
           "delete" \in Elements(jobs') => pc' \in {"waitDeleted", "removeFiles", "close"}
    PROVE  TrueInv'
<1>1. OnlyWithOption'
  BY DEF TrueInv, OnlyWithOption, IsSaved
<1>2. \A a \in Elements(alerts') : IsSaved(a) => a.data \subseteq complete'
  BY DEF TrueInv
<1> QED BY <1>1, <1>2 DEF TrueInv, IsSaved

\* processAlert records what is done, if the option is set.
LEMMA ProcessRecords ==
    ASSUME TrueInv, Process(alerts)
    PROVE  /\ resume' # Absent => config.resumeFile
           /\ \/ UNCHANGED resume
              \/ /\ config.resumeFile
                 /\ resume' = Absent \/ \E S \in SUBSET complete : resume' = Whole(S)
           /\ \/ UNCHANGED <<resume, failed>>
              \/ /\ config.resumeFile
                 /\ \/ failed' = failed \cup {"write"}
                    \/ /\ \E S \in SUBSET complete : resume' = Whole(S)
                       /\ failed' = failed \ {"write"}
<1>0. ASSUME NEW i \in DOMAIN alerts, IsSaved(alerts[i])
      PROVE  config.resumeFile /\ alerts[i].data \subseteq complete
  <2>1. alerts[i] \in Elements(alerts)
    BY <1>0 DEF Elements
  <2> QED BY <1>0, <2>1 DEF TrueInv, OnlyWithOption
<1>1. CASE Saved(alerts) = {} /\ UNCHANGED <<resume, failed>>
  BY <1>1 DEF TrueInv, OnlyWithOption
<1>2. CASE Saved(alerts) # {} /\ failed' = failed \cup {"write"}
  <2>1. PICK a \in Elements(alerts) : IsSaved(a)
    BY <1>2 DEF Saved
  <2>2. config.resumeFile
    BY <2>1 DEF TrueInv, OnlyWithOption
  <2>3. \/ resume' \in {resume, Absent}
        \/ \E S \in SUBSET complete : resume' = Whole(S)
    BY <1>0, ProcessCases
  <2> QED BY <1>2, <2>2, <2>3
<1>3. CASE \E i \in DOMAIN alerts : /\ IsSaved(alerts[i]) /\ resume' = Whole(alerts[i].data)
                                    /\ failed' = failed \ {"write"}
  BY <1>0, <1>3
<1> QED BY <1>1, <1>2, <1>3 DEF Process

\* Every step keeps the records true.
LEMMA TrueStep ==
    ASSUME TypeOK, TrueInv, [Next]_vars
    PROVE  TrueInv'
<1> USE DEF ltVars, diskVars
<1>j. jobs \in Seq(Jobs) /\ alerts \in Seq(AlertSet)
  BY DEF TypeOK, Jobs
<1>a. ASSUME NEW j \in Jobs, jobs' = Append(jobs, j)
      PROVE  Elements(jobs') = Elements(jobs) \cup {j}
  BY <1>a, <1>j, ElementsAppend
<1>d. "delete" \in Elements(jobs) => pc \in {"waitDeleted", "removeFiles", "close"}
  BY DEF TrueInv
<1>o. resume # Absent => config.resumeFile
  BY DEF TrueInv, OnlyWithOption
<1>1. CASE ConsumeAlerts \/ WaitForAlert
  <2>1. /\ Process(alerts) /\ alerts' = << >> /\ UNCHANGED <<config, jobs, complete>>
        /\ pc' = pc \/ (pc \in Waits /\ pc' = After[pc])
    BY <1>1 DEF ConsumeAlerts, WaitForAlert
  <2>2. Elements(alerts') = {} /\ (resume' # Absent => config.resumeFile)
    BY <2>1, ElementsEmpty, ProcessRecords
  <2>3. "delete" \in Elements(jobs) => pc' \in {"waitDeleted", "removeFiles", "close"}
    BY <1>d, <2>1 DEF Waits, After
  <2> QED BY <2>1, <2>2, <2>3, TrueKept
<1>2. CASE SaveTick
  <2>1. Elements(jobs') = Elements(jobs) \cup {"save"} /\ config.resumeFile
    BY <1>2, <1>a DEF SaveTick, AskSave, WantsSave, Jobs
  <2> QED BY <1>2, <1>d, <1>o, <2>1, TrueKept DEF SaveTick
<1>3. CASE BeginShutdown
  <2>1. Elements(jobs') \subseteq Elements(jobs) \cup {"pause"}
    BY <1>3, <1>a DEF BeginShutdown, AskPause, Jobs
  <2> QED BY <1>3, <1>d, <1>o, <2>1, TrueKept DEF BeginShutdown
<1>4. CASE TimeOut
  <2>1. pc \in Waits /\ pc' = After[pc] /\ UNCHANGED <<config, resume, jobs, alerts, complete>>
    BY <1>4 DEF TimeOut
  <2>2. "delete" \in Elements(jobs) => pc' \in {"waitDeleted", "removeFiles", "close"}
    BY <1>d, <2>1 DEF Waits, After
  <2> QED BY <1>o, <2>1, <2>2, TrueKept
<1>5. CASE Save
  <2>1. "delete" \notin Elements(jobs) /\ UNCHANGED <<config, resume, alerts, complete>>
    BY <1>5, <1>d DEF Save
  <2>2. \/ UNCHANGED jobs
        \/ Elements(jobs') = Elements(jobs) \cup {"save"} /\ config.resumeFile
    BY <1>5, <1>a DEF Save, AskSave, WantsSave, Jobs
  <2> QED BY <1>o, <2>1, <2>2, TrueKept
<1>6. CASE RemoveTorrent
  <2>1. "delete" \notin Elements(jobs) /\ UNCHANGED <<config, resume, alerts, complete>>
    BY <1>6, <1>d DEF RemoveTorrent
  <2>2. \/ UNCHANGED jobs
        \/ Elements(jobs') = Elements(jobs) \cup {"delete"} /\ pc' = "waitDeleted"
    BY <1>6, <1>a DEF RemoveTorrent, RemovesAll, Jobs
  <2> QED BY <1>o, <2>1, <2>2, TrueKept
<1>7. CASE FilesToRemove
  BY <1>7, <1>d, <1>o, TrueKept DEF FilesToRemove
<1>8. CASE DropTorrent
  BY <1>8, <1>d, <1>o, TrueKept DEF DropTorrent
<1>9. CASE RemoveFiles
  BY <1>9, <1>d, <1>o, TrueKept DEF RemoveFiles
<1>10. CASE CloseSession
  BY <1>10, <1>o, ElementsEmpty, TrueKept DEF CloseSession
<1>11. CASE Exit
  BY <1>11, <1>d, <1>o, TrueKept DEF Exit
<1>12. CASE StopAndDelete
  BY <1>12, <1>d, <1>o, TrueKept DEF StopAndDelete
<1>13. CASE Stop
  <2>1. Elements(jobs') \subseteq Elements(jobs) \cup {"pause"}
    BY <1>13, <1>a DEF Stop, AskPause, Jobs
  <2> QED BY <1>13, <1>d, <1>o, <2>1, TrueKept DEF Stop
<1>14. CASE Resume \/ ResumeTorrent
  BY <1>14, <1>d, <1>o, TrueKept DEF Resume, ResumeTorrent
<1>20. CASE PauseTorrent
  <2>1. Elements(jobs') \subseteq Elements(jobs) \cup {"pause"}
    BY <1>20, <1>a DEF PauseTorrent, AskPause, Jobs
  <2> QED BY <1>20, <1>d, <1>o, <2>1, TrueKept DEF PauseTorrent
<1>15. CASE DoJob
  <2> DEFINE a == Told(Head(jobs))
  <2>0. /\ jobs # << >> /\ jobs' = Tail(jobs) /\ alerts' = Append(alerts, a)
        /\ UNCHANGED <<config, pc, resume, complete>>
    BY <1>15 DEF DoJob
  <2>1. /\ Head(jobs) \in Jobs /\ Head(jobs) \in Elements(jobs)
        /\ Elements(jobs') \subseteq Elements(jobs)
    BY <2>0, <1>j, ElementsTail
  <2>2. a \in AlertSet /\ (IsSaved(a) => Head(jobs) = "save" /\ a.data = complete)
    BY <2>1 DEF Told, Alert, AlertSet, IsSaved, Jobs, TypeOK
  <2>3. IsSaved(a) => config.resumeFile
    BY <2>1, <2>2 DEF TrueInv, OnlyWithOption
  <2> HIDE DEF a
  <2>4. Elements(alerts') = Elements(alerts) \cup {a}
    BY <1>j, <2>0, ElementsAppend
  <2> QED BY <1>d, <1>o, <2>0, <2>1, <2>2, <2>3, <2>4, TrueKept
<1>16. CASE Metadata
  <2>1. Elements(alerts') = Elements(alerts) \cup {Alert("metadata_received_alert")}
    BY <1>16, <1>j, ElementsAppend DEF Metadata
  <2>2. ~IsSaved(Alert("metadata_received_alert"))
    BY DEF IsSaved, Alert
  <2> QED BY <1>16, <1>d, <1>o, <2>1, <2>2, TrueKept DEF Metadata
<1>17. CASE \E f \in Files : Progress(f)
  BY <1>17, <1>d, <1>o, TrueKept DEF Progress
<1>18. CASE Checked
  BY <1>18, <1>d, <1>o, TrueKept DEF Checked
<1>19. CASE UNCHANGED vars
  BY <1>19, <1>d, <1>o, TrueKept DEF vars
<1> QED BY <1>1, <1>2, <1>3, <1>4, <1>5, <1>6, <1>7, <1>8, <1>9, <1>10, <1>11, <1>12, <1>13,
           <1>14, <1>15, <1>16, <1>17, <1>18, <1>19, <1>20
        DEF Next, HandleSignals, HTTP, Libtorrent

\* What a process that was killed leaves of the resume file is nothing, or true.
LEMMA LeftTrue ==
    ASSUME TypeOK, TrueInv, LeftInPeace \/ LeftInWrite
    PROVE  \/ UNCHANGED resume
           \/ /\ pc # "exited" /\ config.resumeFile
              /\ resume' = Absent \/ \E S \in SUBSET complete : resume' = Whole(S)
<1>1. CASE LeftInPeace
  BY <1>1 DEF LeftInPeace
<1>2. CASE LeftInWrite
  <2>1. PICK last \in DOMAIN alerts :
           /\ IsSaved(alerts[last])
           /\ \/ resume' = Absent
              \/ \E i \in 1..(last - 1) : IsSaved(alerts[i]) /\ resume' = Whole(alerts[i].data)
    BY <1>2 DEF LeftInWrite
  <2>2. config.resumeFile /\ pc # "exited"
    BY <1>2, <2>1 DEF LeftInWrite, Waits, TrueInv, OnlyWithOption, Elements
  <2>3. \A i \in DOMAIN alerts : IsSaved(alerts[i]) => alerts[i].data \in SUBSET complete
    BY DEF TrueInv, Elements
  <2>4. DOMAIN alerts = 1..Len(alerts) /\ Len(alerts) \in Nat
    BY DEF TypeOK
  <2>5. \A i \in 1..(last - 1) : i \in DOMAIN alerts
    BY <2>4
  <2> QED BY <2>1, <2>2, <2>3, <2>5
<1> QED BY <1>1, <1>2

\* The next process begins without alerts and jobs.
LEMMA TrueRStep ==
    ASSUME TypeOK, TrueInv, [RNext]_allVars
    PROVE  TrueInv'
<1>1. CASE Next /\ UNCHANGED <<lives, interrupted>>
  BY <1>1, TrueStep
<1>2. CASE Restart
  <2>1. UNCHANGED config /\ alerts' = << >> /\ jobs' = << >>
    BY <1>2 DEF Restart, Start
  <2>2. resume' # Absent => config.resumeFile
    BY <1>2, LeftTrue DEF Restart, TrueInv, OnlyWithOption
  <2>3. Elements(alerts') = {} /\ Elements(jobs') = {}
    BY <2>1, ElementsEmpty
  <2> QED BY <2>1, <2>2, <2>3 DEF TrueInv, OnlyWithOption
<1>3. CASE UNCHANGED allVars
  BY <1>3, TrueStep DEF allVars
<1> QED BY <1>1, <1>2, <1>3 DEF RNext

PromiseInv == WipeInv /\ FreshInv /\ TrueInv

\* A whole resume file is the one record, and none is none.
LEMMA RecordOf ==
    /\ resume = Absent => Recorded = {}
    /\ \A S : resume = Whole(S) => Recorded = {S}
    /\ UNCHANGED resume => UNCHANGED Recorded
BY DEF Recorded, Absent, Whole

\* The same of the record after a step.
LEMMA RecordAfter ==
    /\ resume' = Absent => Recorded' = {}
    /\ \A S : resume' = Whole(S) => Recorded' = {S}
BY DEF Recorded, Absent, Whole

\* What the alerts of a batch leave is a record as promised.
LEMMA BatchRecords ==
    ASSUME TrueInv, Process(alerts)
    PROVE  Promise!Recording
<1>1. \/ UNCHANGED resume
      \/ config.resumeFile /\ (resume' = Absent \/ \E S \in SUBSET complete : resume' = Whole(S))
  BY ProcessRecords
<1>2. CASE UNCHANGED <<resume, failed>>
  BY <1>2, RecordOf DEF Promise!Recording
<1>3. CASE config.resumeFile /\ failed' = failed \cup {"write"}
  <2>1. Recorded' \in {Recorded, {}} \cup {{S} : S \in SUBSET complete}
    BY <1>1, RecordOf, RecordAfter
  <2> QED BY <1>3, <2>1 DEF Promise!Recording
<1>4. CASE /\ config.resumeFile /\ failed' = failed \ {"write"}
           /\ \E S \in SUBSET complete : resume' = Whole(S)
  BY <1>4, RecordAfter DEF Promise!Recording
<1> QED BY <1>2, <1>3, <1>4, ProcessRecords

\* A step between points of one phase that touches neither files nor the resume file.
LEMMA NothingShows ==
    ASSUME UNCHANGED <<config, forceshutdelete, resume, metadata, diskVars>>,
           UNCHANGED Phase
    PROVE  UNCHANGED Promise!vars
BY RecordOf DEF Promise!vars, diskVars

\* The phases of the points of shutdown().
LEMMA Phases ==
    /\ pc \in {"loop", "waitPaused"} => Phase = "running"
    /\ pc \in {"save", "waitResume", "remove", "choose", "drop", "waitDeleted", "removeFiles",
               "close", "unlink"} => Phase = "ending"
    /\ pc = "exited" => Phase = "over"
BY DEF Phase

\* The same after a step.
LEMMA PhasesAfter ==
    /\ pc' \in {"loop", "waitPaused"} => Phase' = "running"
    /\ pc' \in {"save", "waitResume", "remove", "choose", "drop", "waitDeleted", "removeFiles",
                "close", "unlink"} => Phase' = "ending"
    /\ pc' = "exited" => Phase' = "over"
BY DEF Phase

\* A step of a process is one that Leftovers promises, or does not show.
LEMMA ProcessPromised ==
    ASSUME Alone, ~MayCheck, PromiseInv, Next
    PROVE  [Promise!Next]_(Promise!vars)
<1> USE DEF ltVars, diskVars
<1>i. KeepInv /\ TypeOK /\ WipeInv /\ FreshInv /\ TrueInv
  BY DEF PromiseInv, FreshInv, KeepInv
<1>1. CASE ConsumeAlerts
  <2>1. /\ pc = "loop" /\ pc' = "loop" /\ Process(alerts)
        /\ UNCHANGED <<config, forceshutdelete, metadata, onDisk, complete, refused, late>>
    BY <1>1 DEF ConsumeAlerts
  <2>2. Promise!Record
    BY <1>i, <2>1, Phases, PhasesAfter, BatchRecords DEF Promise!Record
  <2> QED BY <2>2 DEF Promise!Next
<1>2. CASE SaveTick
  <2>1. UNCHANGED <<pc, config, forceshutdelete, resume, metadata, diskVars>>
    BY <1>2 DEF SaveTick
  <2> QED BY <2>1, NothingShows DEF Phase
<1>3. CASE BeginShutdown
  <2>1. /\ pc = "loop" /\ pc' = "waitPaused"
        /\ UNCHANGED <<config, forceshutdelete, resume, metadata, diskVars>>
    BY <1>3 DEF BeginShutdown
  <2> QED BY <2>1, Phases, PhasesAfter, NothingShows
<1>4. CASE WaitForAlert
  <2>1. /\ pc \in Waits /\ pc' \in {pc, After[pc]} /\ Process(alerts)
        /\ UNCHANGED <<config, forceshutdelete, metadata, onDisk, complete, refused, late>>
    BY <1>4 DEF WaitForAlert
  <2>2. CASE Phase' = Phase
    <3>1. Promise!Record
      BY <1>i, <2>1, <2>2, Phases, BatchRecords DEF Promise!Record, Waits
    <3> QED BY <3>1 DEF Promise!Next
  <2>3. CASE Phase' # Phase
    <3>1. Phase = "running" /\ Phase' = "ending"
      BY <2>1, <2>3, Phases, PhasesAfter DEF Waits, After
    <3>2. Promise!Stop
      BY <1>i, <2>1, <3>1, BatchRecords DEF Promise!Stop
    <3> QED BY <3>2 DEF Promise!Next
  <2> QED BY <2>2, <2>3
<1>5. CASE TimeOut
  <2>1. /\ pc \in Waits /\ pc' = After[pc]
        /\ UNCHANGED <<config, forceshutdelete, resume, metadata, diskVars>>
    BY <1>5 DEF TimeOut
  <2>2. CASE pc = "waitPaused"
    <3>1. Phase = "running" /\ Phase' = "ending"
      BY <2>1, <2>2, Phases, PhasesAfter DEF After
    <3>2. Promise!Stop
      BY <2>1, <3>1, RecordOf DEF Promise!Stop, Promise!Recording
    <3> QED BY <3>2 DEF Promise!Next
  <2>3. CASE pc # "waitPaused"
    <3>1. Phase = "ending" /\ Phase' = "ending"
      BY <2>1, <2>3, Phases, PhasesAfter DEF Waits, After
    <3> QED BY <2>1, <3>1, NothingShows
  <2> QED BY <2>2, <2>3
<1>6. CASE Save \/ RemoveTorrent \/ FilesToRemove \/ DropTorrent
  <2>1. /\ pc \in {"save", "remove", "choose", "drop"}
        /\ pc' \in {"waitResume", "remove", "choose", "waitDeleted", "close", "drop"}
        /\ UNCHANGED <<config, forceshutdelete, resume, metadata, diskVars>>
    BY <1>6 DEF Save, RemoveTorrent, FilesToRemove, DropTorrent
  <2>2. Phase = "ending" /\ Phase' = "ending"
    BY <2>1, Phases, PhasesAfter
  <2> QED BY <2>1, <2>2, NothingShows
<1>7. ASSUME Phase = "ending", Phase' = "ending", onDisk' \subseteq onDisk,
             refused \subseteq refused', refused' \subseteq refused \cup onDisk,
             UNCHANGED <<config, forceshutdelete, resume, metadata, complete, failed, late>>
      PROVE  [Promise!Next]_(Promise!vars)
  <2> DEFINE S == onDisk \ onDisk'
             T == refused' \ refused
  <2>1. /\ S \in SUBSET onDisk /\ onDisk' = onDisk \ S
        /\ T \in SUBSET onDisk /\ refused' = refused \cup T
    BY <1>7
  <2>2. \A f \in S \cup T : forceshutdelete \/ ~Promise!Kept(f)
    BY <1>i, RemovesJustified DEF Promise!Kept, Keeps
  <2>3. UNCHANGED Recorded
    BY <1>7, RecordOf
  <2> HIDE DEF S, T
  <2>4. Promise!Remove(S, T)
    BY <1>7, <2>1, <2>2, <2>3 DEF Promise!Remove
  <2> QED BY <2>1, <2>4 DEF Promise!Next
<1>8. CASE RemoveFiles \/ CloseSession
  <2>1. /\ pc \in {"removeFiles", "close"} /\ pc' \in {"close", "unlink"}
        /\ UNCHANGED <<config, forceshutdelete, resume, metadata, complete, failed, late>>
    BY <1>8 DEF RemoveFiles, CloseSession
  <2>2. /\ onDisk' \subseteq onDisk /\ refused \subseteq refused'
        /\ refused' \subseteq refused \cup onDisk
    <3>1. CASE RemoveFiles
      BY <3>1 DEF RemoveFiles
    <3>2. CASE Delete(Elements(jobs))
      BY <1>i, <3>2, DeleteTypes
    <3> QED BY <1>8, <3>1, <3>2 DEF CloseSession
  <2>3. Phase = "ending" /\ Phase' = "ending"
    BY <2>1, Phases, PhasesAfter
  <2> QED BY <1>7, <2>1, <2>2, <2>3
<1>9. CASE DoJob
  <2>1. /\ jobs # << >> /\ Delete({Head(jobs)})
        /\ UNCHANGED <<pc, config, forceshutdelete, resume, metadata, complete, failed, late>>
    BY <1>9 DEF DoJob
  <2>2. UNCHANGED Phase
    BY <2>1 DEF Phase
  <2>3. CASE Head(jobs) # "delete"
    <3>1. UNCHANGED <<onDisk, refused>>
      BY <1>i, <2>1, <2>3, DeleteTypes
    <3> QED BY <2>1, <2>2, <3>1, NothingShows
  <2>4. CASE Head(jobs) = "delete"
    <3>1. /\ onDisk' \subseteq onDisk /\ refused \subseteq refused'
          /\ refused' \subseteq refused \cup onDisk
      BY <1>i, <2>1, DeleteTypes
    <3>2. "delete" \in Elements(jobs)
      <4>1. jobs \in Seq(Jobs)
        BY <1>i DEF TypeOK, Jobs
      <4> QED BY <2>1, <2>4, <4>1, ElementsTail
    <3>3. Phase = "ending"
      BY <1>i, <3>2, Phases DEF TrueInv
    <3> QED BY <1>7, <2>1, <2>2, <3>1, <3>3
  <2> QED BY <2>3, <2>4
<1>10. CASE Exit
  <2>1. /\ pc = "unlink" /\ pc' = "exited"
        /\ UNCHANGED <<config, forceshutdelete, metadata, onDisk, complete, refused, late>>
        /\ \/ ~forceshutdelete /\ UNCHANGED <<resume, failed>>
           \/ forceshutdelete /\ resume' = Absent /\ UNCHANGED failed
           \/ forceshutdelete /\ UNCHANGED resume /\ failed' = failed \cup {"unlink"}
    BY <1>10 DEF Exit
  <2>2. metadata /\ ((forceshutdelete /\ ~late) \/ Promise!KeepsNothing) => onDisk \subseteq refused
    BY <1>i, <2>1 DEF WipeInv, Doomed, KeepsNone, Gone, Promise!KeepsNothing
  <2>3. metadata /\ ~forceshutdelete /\ config.resumeFile /\ "write" \notin failed =>
           Recorded = {complete}
    <3>1. metadata /\ ~forceshutdelete /\ config.resumeFile /\ "write" \notin failed =>
             resume = Whole(complete)
      BY <1>i, <2>1 DEF FreshInv, Keeping, SavedAtLast, IsFresh
    <3> QED BY <3>1, RecordOf
  <2>4. Promise!Erasing
    BY <2>1, RecordOf, RecordAfter DEF Promise!Erasing
  <2>5. Phase = "ending" /\ Phase' = "over"
    BY <2>1, Phases, PhasesAfter
  <2>6. Promise!Finish
    BY <2>1, <2>2, <2>3, <2>4, <2>5 DEF Promise!Finish
  <2> QED BY <2>6 DEF Promise!Next
<1>11. CASE StopAndDelete
  <2>1. /\ pc # "exited" /\ forceshutdelete' = TRUE
        /\ late' = (late \/ (~forceshutdelete /\ pc \notin Undecided))
        /\ UNCHANGED <<pc, config, resume, metadata, onDisk, complete, refused, failed>>
    BY <1>11 DEF StopAndDelete
  <2>2. UNCHANGED Phase /\ UNCHANGED Recorded /\ Phase # "over"
    BY <2>1, RecordOf DEF Phase
  <2>3. late' \in {late, late \/ (Phase = "ending" /\ ~forceshutdelete)}
    <3>1. CASE pc \in Undecided
      BY <1>i, <2>1, <3>1 DEF TypeOK
    <3>2. CASE pc \notin Undecided
      <4>1. Phase = "ending"
        BY <2>1, <3>2 DEF Phase, Undecided
      <4> QED BY <2>1, <3>2, <4>1, Zenon
    <3> QED BY <3>1, <3>2
  <2>4. Promise!Order
    BY <2>1, <2>2, <2>3 DEF Promise!Order
  <2> QED BY <2>4 DEF Promise!Next
<1>12. CASE Stop \/ Resume \/ PauseTorrent \/ ResumeTorrent
  BY <1>12 DEF Stop, Resume, PauseTorrent, ResumeTorrent, Alone, Timely
<1>13. CASE Metadata
  <2>1. /\ Connected /\ metadata' = TRUE
        /\ UNCHANGED <<pc, config, forceshutdelete, resume, diskVars>>
    BY <1>13 DEF Metadata
  <2>2. pc \in {"loop", "waitPaused"}
    BY <1>i, <2>1, NobodyConnects
  <2>3. Promise!Learn
    BY <2>1, <2>2, Phases, PhasesAfter, RecordOf DEF Promise!Learn
  <2> QED BY <2>3 DEF Promise!Next
<1>14. ASSUME NEW f \in Files, Progress(f)
       PROVE  [Promise!Next]_(Promise!vars)
  <2>1. /\ Connected /\ metadata
        /\ \/ onDisk' = onDisk \cup {f} /\ UNCHANGED complete
           \/ f \in onDisk /\ complete' = complete \cup {f} /\ UNCHANGED onDisk
        /\ UNCHANGED <<pc, config, forceshutdelete, resume, metadata, refused, failed, late>>
    BY <1>14 DEF Progress, Active
  <2>2. pc \in {"loop", "waitPaused"}
    BY <1>i, <2>1, NobodyConnects
  <2>3. Promise!Fetch(f)
    BY <2>1, <2>2, Phases, PhasesAfter, RecordOf DEF Promise!Fetch
  <2> QED BY <2>3 DEF Promise!Next
<1>15. CASE Checked
  <2>1. UNCHANGED <<pc, config, forceshutdelete, resume, metadata, diskVars>>
    BY <1>15 DEF Checked
  <2> QED BY <2>1, NothingShows DEF Phase
<1> QED BY <1>1, <1>2, <1>3, <1>4, <1>5, <1>6, <1>8, <1>9, <1>10, <1>11, <1>12, <1>13, <1>14,
           <1>15
        DEF Next, HandleSignals, HTTP, Libtorrent

\* The next process begins as promised, whatever became of the one before.
LEMMA RestartPromised ==
    ASSUME PromiseInv, Restart
    PROVE  Promise!Again
<1>1. TypeOK /\ TypeOK' /\ TrueInv
  BY RestartTypes DEF PromiseInv, WipeInv
<1>2. UNCHANGED <<config, onDisk>> /\ Start /\ (LeftInPeace \/ LeftInWrite)
  BY DEF Restart
<1>3. Promise!Interrupted
  <2>1. CASE UNCHANGED resume
    BY <2>1, RecordOf DEF Promise!Interrupted
  <2>2. CASE /\ pc # "exited" /\ config.resumeFile
             /\ resume' = Absent \/ \E S \in SUBSET complete : resume' = Whole(S)
    <3>1. Phase # "over"
      BY <2>2 DEF Phase
    <3> QED BY <2>2, <3>1, RecordAfter DEF Promise!Interrupted
  <2> QED BY <1>1, <1>2, <2>1, <2>2, LeftTrue
<1>4. Promise!Begin
  <2>1. /\ Phase' = "running" /\ forceshutdelete' = FALSE /\ metadata' \in BOOLEAN
        /\ complete' = (IF Trusted THEN resume'.data ELSE complete \cap onDisk)
        /\ refused' = {} /\ failed' = {} /\ late' = FALSE
    BY <1>2, PhasesAfter DEF Start
  <2>2. Recorded' = IF resume'.state = "whole" THEN {resume'.data} ELSE {}
    BY DEF Recorded
  <2>3. \/ \E S \in Recorded' : S \subseteq onDisk /\ complete' = S
        \/ (\A S \in Recorded' : ~(S \subseteq onDisk)) /\ complete' = complete \cap onDisk
    BY <2>1, <2>2 DEF Trusted
  <2> QED BY <1>2, <2>1, <2>3 DEF Promise!Begin
<1> QED BY <1>3, <1>4 DEF Promise!Again

\* What one process after another leaves behind is what Leftovers promises, each killed
\* at any moment or ended by itself, and whatever the disk refuses it: as long as
\* libtorrent answers in time, no handler meddles with the pause of shutdown(), and it
\* does not begin while files are checked.
THEOREM PromiseIsKept ==
    ASSUME Alone, ~MayCheck
    PROVE  RSpec => LeavesAsPromised
<1>1. RInit => Promise!Init
  <2> SUFFICES ASSUME RInit PROVE Promise!Init
    OBVIOUS
  <2>1. /\ Init /\ Phase = "running"
        /\ resume \in {Absent} \cup (IF config.resumeFile THEN {Whole(complete)} ELSE {})
    BY Phases DEF RInit, Init
  <2>2. Recorded \in {{}} \cup (IF config.resumeFile THEN {{complete}} ELSE {})
    BY <2>1, RecordOf
  <2> QED BY <2>1, <2>2 DEF Init, Promise!Init
<1>2. RInit => PromiseInv
  <2>1. Init => TrueInv
    BY ElementsEmpty DEF Init, TrueInv, OnlyWithOption
  <2> QED BY <2>1, WipeInit, FreshInit DEF RInit, PromiseInv
<1>3. PromiseInv /\ [RNext]_allVars => PromiseInv'
  BY WipeRStep, FreshRStep, TrueRStep DEF PromiseInv, WipeInv
<1>4. PromiseInv /\ [RNext]_allVars => [Promise!Next]_(Promise!vars)
  <2> SUFFICES ASSUME PromiseInv, [RNext]_allVars PROVE [Promise!Next]_(Promise!vars)
    OBVIOUS
  <2>1. CASE UNCHANGED allVars
    <3>1. UNCHANGED <<pc, config, forceshutdelete, resume, metadata, diskVars>>
      BY <2>1 DEF allVars, vars, ltVars, diskVars
    <3> QED BY <3>1, NothingShows DEF Phase
  <2>2. CASE Restart
    BY <2>2, RestartPromised DEF Promise!Next
  <2> QED BY <2>1, <2>2, ProcessPromised DEF RNext
<1> QED BY <1>1, <1>2, <1>3, <1>4, PTL DEF RSpec, LeavesAsPromised, Promise!Spec
=============================================================================
