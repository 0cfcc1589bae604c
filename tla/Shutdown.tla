------------------------------ MODULE Shutdown ------------------------------
(***************************************************************************)
(* What a stopping process leaves on disk.  The goroutine of handleSignals *)
(* consumes libtorrent's alerts and saves resume data until it is told to  *)
(* stop; then shutdown() pauses the session, saves, removes the torrent    *)
(* and what the options do not keep, and exits, waiting for an alert at    *)
(* most so long at each step.  The HTTP handlers still run meanwhile.      *)
(*                                                                         *)
(* Completed files stand for the progress that resume data records.        *)
(* libtorrent does what it is asked asynchronously and in order, and tells *)
(* by alerts.  Who may ask the process to stop is the module Lifecycle.    *)
(*                                                                         *)
(* Removing a file, writing the resume file and removing it may each fail: *)
(* torrent2http logs it and goes on, and so does everything here.          *)
(* ioutil.WriteFile truncates a file before it writes it.  A resume file   *)
(* that was not written to its end is no complete bencoded dictionary:     *)
(* libtorrent refuses it, as if there were none, and the next save writes  *)
(* over it.  A torn resume file is therefore Absent here.                  *)
(***************************************************************************)
EXTENDS Integers, Sequences, FiniteSets

CONSTANTS
    Files,          \* the files of the torrent
    Handlers,       \* the handlers used: a subset of AllHandlers
    MayCheck,       \* whether the process may stop while libtorrent checks files
    Slow,           \* whether libtorrent may be slower than the time allowed to it
    MaxJobs,        \* bound on the jobs libtorrent is asked for at a time
    MaxAlerts       \* bound on the alerts waiting to be popped

AllHandlers == {"/stopanddelete", "/stop", "/resume", "/pausetorrent", "/resumetorrent"}

ASSUME ShutdownAssumption ==
    /\ IsFiniteSet(Files)
    /\ Handlers \subseteq AllHandlers
    /\ MayCheck \in BOOLEAN /\ Slow \in BOOLEAN
    /\ MaxJobs \in Nat \ {0} /\ MaxAlerts \in Nat \ {0}

\* Mutant of Options: parseFlags does not ask for -keep-files.
OptionsUnruled ==
    [keepFiles: BOOLEAN, keepComplete: BOOLEAN, keepIncomplete: BOOLEAN, resumeFile: BOOLEAN]

\* What parseFlags lets through: a resume file only along with -keep-files.
Options == {c \in [keepFiles: BOOLEAN, keepComplete: BOOLEAN,
                   keepIncomplete: BOOLEAN, resumeFile: BOOLEAN] :
              c.resumeFile => c.keepFiles}

VARIABLES
    config,            \* the options of this process
    pc,                \* control point of handleSignals and then of shutdown()
    forceshutdelete,
    torrentInfo,       \* TRUE once onMetadataReceived has run
    toRemove,          \* what filesToRemove has returned
    resume,            \* the resume file
    jobs,              \* what libtorrent has been asked to do and has not done
    alerts,            \* what it has to tell
    paused,            \* what has been paused: the session, the torrent, or both
    inTorrent,         \* the session still has the torrent
    metadata,          \* libtorrent has the metadata and so knows the files
    checking,          \* the torrent's state is checking or queued for checking
    needSave,          \* need_save_resume of the torrent's status
    onDisk,            \* files of the torrent that exist
    complete,          \* files that have all their bytes
    refused,           \* history: files that were to be removed and could not be
    failed,            \* history: "write" if the last writing of the resume file
                       \* failed, "unlink" if its removal did
    late               \* history: /stopanddelete came after removeTorrent had decided

diskVars == <<onDisk, complete, refused, failed, late>>
ltVars   == <<paused, inTorrent, metadata, checking, needSave>>
vars == <<config, pc, forceshutdelete, torrentInfo, toRemove, resume, jobs,
          alerts, ltVars, diskVars>>

Elements(s) == {s[i] : i \in DOMAIN s}

Absent == [state |-> "absent", data |-> {}]
Whole(d) == [state |-> "whole", data |-> d]

Alert(what) == [what |-> what, data |-> {}]
Waits == {"waitPaused", "waitResume", "waitDeleted"}
Wanted == [waitPaused  |-> "torrent_paused_alert",
           waitResume  |-> "save_resume_data_alert",
           waitDeleted |-> "torrent_deleted_alert"]

-----------------------------------------------------------------------------
(* A process that has just started: the metadata is there, or is to come; a   *)
(* resume file tells of what there is.                                        *)
Init ==
    /\ config \in Options
    /\ pc = "loop"
    /\ forceshutdelete = FALSE
    /\ torrentInfo \in BOOLEAN
    /\ toRemove = {}
    /\ jobs = << >>
    /\ alerts = << >>
    /\ paused = {}
    /\ inTorrent = TRUE
    /\ metadata = torrentInfo
    /\ checking \in {FALSE, MayCheck}
    /\ onDisk \in SUBSET Files
    /\ complete \in SUBSET onDisk
    /\ resume \in {Absent} \cup (IF config.resumeFile THEN {Whole(complete)} ELSE {})
    /\ needSave \in {TRUE, resume = Absent}
    /\ refused = {}
    /\ failed = {}
    /\ late = FALSE

-----------------------------------------------------------------------------
(* Alerts *)

IsSaved(a) == a.what = "save_resume_data_alert"
IsMetadata(a) == a.what = "metadata_received_alert"

Saved(batch) == {a \in Elements(batch) : IsSaved(a)}

\* Mutant of Process: a resume file that is not written to its end, and not refused.
ProcessTorn(batch) ==
    /\ \/ Saved(batch) = {} /\ UNCHANGED resume
       \/ \E a \in Saved(batch) : resume' = [state |-> "torn", data |-> a.data]
    /\ UNCHANGED failed
    /\ torrentInfo' = (torrentInfo \/ \E a \in Elements(batch) : IsMetadata(a))

\* processAlert of each in turn: save_resume_data_alert writes the resume file, so
\* the last one stays, or, if that cannot be written, what was there before, or an
\* earlier one, or nothing; metadata_received_alert makes torrentInfo known.
Process(batch) ==
    /\ \/ /\ Saved(batch) = {}
          /\ UNCHANGED <<resume, failed>>
       \/ \E i \in DOMAIN batch :
             /\ IsSaved(batch[i])
             /\ \A j \in DOMAIN batch : j > i => ~IsSaved(batch[j])
             /\ resume' = Whole(batch[i].data)
             /\ failed' = failed \ {"write"}
       \/ /\ Saved(batch) # {}
          /\ resume' \in {resume, Absent} \cup {Whole(a.data) : a \in Saved(batch)}
          /\ failed' = failed \cup {"write"}
    /\ torrentInfo' = (torrentInfo \/ \E a \in Elements(batch) : IsMetadata(a))

\* consumeAlerts, every half second
ConsumeAlerts ==
    /\ pc = "loop"
    /\ alerts # << >>
    /\ Process(alerts)
    /\ alerts' = << >>
    /\ UNCHANGED <<config, pc, forceshutdelete, toRemove, jobs, ltVars, onDisk, complete,
                   refused, late>>

After == [waitPaused |-> "save", waitResume |-> "remove", waitDeleted |-> "removeFiles"]

\* waitForAlert pops and processes all there is, and returns if the alert it
\* waits for is among them.  saveResumeData processes its own once more.
WaitForAlert ==
    /\ pc \in Waits
    /\ alerts # << >>
    /\ Process(alerts)
    /\ alerts' = << >>
    /\ pc' = IF \E a \in Elements(alerts) : a.what = Wanted[pc] THEN After[pc] ELSE pc
    /\ UNCHANGED <<config, forceshutdelete, toRemove, jobs, ltVars, onDisk, complete,
                   refused, late>>

\* The alert a wait is for is on its way.
Coming ==
    \/ \E a \in Elements(alerts) : a.what = Wanted[pc]
    \/ pc = "waitPaused" /\ "pause" \in Elements(jobs)
    \/ pc = "waitResume" /\ "save" \in Elements(jobs)
    \/ pc = "waitDeleted" /\ "delete" \in Elements(jobs)

\* Mutant of TimeOut: the wait begins again.
TimeOutAndWait ==
    /\ pc \in Waits
    /\ Slow \/ ~Coming
    /\ UNCHANGED vars

\* The time allowed has passed: nil is returned, and what is waiting stays there.
TimeOut ==
    /\ pc \in Waits
    /\ Slow \/ ~Coming
    /\ pc' = After[pc]
    /\ UNCHANGED <<config, forceshutdelete, torrentInfo, toRemove, resume, jobs,
                   alerts, ltVars, diskVars>>

-----------------------------------------------------------------------------
(* saveResumeData *)

\* forceshutdelete is looked at first, then need_save_resume and the option.
WantsSave == ~forceshutdelete /\ needSave /\ config.resumeFile

AskSave == jobs' = Append(jobs, "save") /\ needSave' = FALSE

\* case <-saveResumeDataTicker: saveResumeData(true)
SaveTick ==
    /\ pc = "loop"
    /\ WantsSave
    /\ Len(jobs) < MaxJobs
    /\ AskSave
    /\ UNCHANGED <<config, pc, forceshutdelete, torrentInfo, toRemove, resume, alerts,
                   paused, inTorrent, metadata, checking, diskVars>>

-----------------------------------------------------------------------------
(* shutdown *)

\* Pause() of the session or the torrent: libtorrent stops the torrent, if it is not
\* paused already, and tells when it has stopped.
AskPause(what) ==
    /\ IF paused = {} THEN jobs' = Append(jobs, "pause") ELSE UNCHANGED jobs
    /\ paused' = paused \cup {what}

\* Mutant of BeginShutdown: session.Pause() is not called.
BeginShutdownUnpaused ==
    /\ pc = "loop"
    /\ pc' = "waitPaused"
    /\ UNCHANGED <<config, forceshutdelete, torrentInfo, toRemove, resume, jobs, alerts,
                   ltVars, diskVars>>

BeginShutdown ==
    /\ pc = "loop"
    /\ AskPause("session")
    /\ pc' = "waitPaused"
    /\ UNCHANGED <<config, forceshutdelete, torrentInfo, toRemove, resume, alerts,
                   inTorrent, metadata, checking, needSave, diskVars>>

\* Mutant of Save: saveResumeData(true) where shutdown() calls saveResumeData(false).
SaveUnawaited ==
    /\ pc = "save"
    /\ IF WantsSave THEN AskSave ELSE UNCHANGED <<jobs, needSave>>
    /\ pc' = "remove"
    /\ UNCHANGED <<config, forceshutdelete, torrentInfo, toRemove, resume, alerts,
                   paused, inTorrent, metadata, checking, diskVars>>

\* saveResumeData(false), and saveSessionState, whose file nothing here reads
Save ==
    /\ pc = "save"
    /\ IF WantsSave
       THEN AskSave /\ pc' = "waitResume"
       ELSE UNCHANGED <<jobs, needSave>> /\ pc' = "remove"
    /\ UNCHANGED <<config, forceshutdelete, torrentInfo, toRemove, resume, alerts,
                   paused, inTorrent, metadata, checking, diskVars>>

\* Mutant of RemovesAny: the options alone decide.
RemovesAnyByOption == ~checking /\ ~config.keepFiles

\* Mutant of RemovesAny: the negation of -keep-files is lost.
RemovesAnyWhenKept == (~checking /\ config.keepFiles) \/ forceshutdelete

\* What removeTorrent decides: to delete nothing, everything, or some files.
RemovesAny == (~checking /\ ~config.keepFiles) \/ forceshutdelete
RemovesAll == RemovesAny /\ ((~config.keepComplete /\ ~config.keepIncomplete) \/ forceshutdelete)

\* removeTorrent.  session.RemoveTorrent takes the torrent out of the session and,
\* if it is to delete the files, does so later.
RemoveTorrent ==
    /\ pc = "remove"
    /\ IF RemovesAny /\ ~RemovesAll
       THEN pc' = "choose" /\ UNCHANGED <<jobs, inTorrent>>
       ELSE /\ inTorrent' = FALSE
            /\ jobs' = IF RemovesAll THEN Append(jobs, "delete") ELSE jobs
            /\ pc' = IF RemovesAll THEN "waitDeleted" ELSE "close"
    /\ UNCHANGED <<config, forceshutdelete, torrentInfo, toRemove, resume, alerts,
                   paused, metadata, checking, needSave, diskVars>>

\* Mutant of Unkept: the two options are confused.
UnkeptSwapped(f) ==
    \/ /\ ~config.keepComplete \/ f \in complete
       /\ ~config.keepIncomplete \/ f \notin complete
    \/ forceshutdelete

\* filesToRemove: the files on disk that neither option keeps
Unkept(f) ==
    \/ /\ ~config.keepComplete \/ f \notin complete
       /\ ~config.keepIncomplete \/ f \in complete
    \/ forceshutdelete

FilesToRemove ==
    /\ pc = "choose"
    /\ toRemove' = IF torrentInfo THEN {f \in onDisk : Unkept(f)} ELSE {}
    /\ pc' = "drop"
    /\ UNCHANGED <<config, forceshutdelete, torrentInfo, resume, jobs, alerts, ltVars, diskVars>>

\* session.RemoveTorrent(torrentHandle, 0): no alert will tell of deleted files.
DropTorrent ==
    /\ pc = "drop"
    /\ inTorrent' = FALSE
    /\ pc' = IF toRemove = {} THEN "close" ELSE "waitDeleted"
    /\ UNCHANGED <<config, forceshutdelete, torrentInfo, toRemove, resume, jobs, alerts,
                   paused, metadata, checking, needSave, diskVars>>

\* removeFiles: a file that cannot be removed is passed over.
RemoveFiles ==
    /\ pc = "removeFiles"
    /\ \E S \in SUBSET (toRemove \cap onDisk) :
         /\ onDisk' = onDisk \ (toRemove \ S)
         /\ refused' = refused \cup S
    /\ pc' = "close"
    /\ UNCHANGED <<config, forceshutdelete, torrentInfo, toRemove, resume, jobs, alerts,
                   ltVars, complete, failed, late>>

\* libtorrent deletes the files it knows of, but for those that it cannot delete.
Deletes(pending) == "delete" \in pending /\ metadata
Delete(pending) ==
    IF Deletes(pending)
    THEN onDisk' \in SUBSET onDisk /\ refused' = refused \cup onDisk'
    ELSE UNCHANGED <<onDisk, refused>>

\* DeleteSession returns when libtorrent has done what it was asked to; the alerts
\* are gone with it.
CloseSession ==
    /\ pc = "close"
    /\ pc' = "unlink"
    /\ Delete(Elements(jobs))
    /\ jobs' = << >>
    /\ alerts' = << >>
    /\ UNCHANGED <<config, forceshutdelete, torrentInfo, toRemove, resume, ltVars, complete,
                   failed, late>>

\* Mutant of Exit: the resume file stays when the files went.
ExitKeepingResume ==
    /\ pc = "unlink"
    /\ pc' = "exited"
    /\ UNCHANGED <<config, forceshutdelete, torrentInfo, toRemove, resume, jobs, alerts,
                   ltVars, diskVars>>

\* if forceshutdelete, the resume file is removed, if that can be; then os.Exit(0).
Exit ==
    /\ pc = "unlink"
    /\ \/ ~forceshutdelete /\ UNCHANGED <<resume, failed>>
       \/ forceshutdelete /\ resume' = Absent /\ UNCHANGED failed
       \/ forceshutdelete /\ UNCHANGED resume /\ failed' = failed \cup {"unlink"}
    /\ pc' = "exited"
    /\ UNCHANGED <<config, forceshutdelete, torrentInfo, toRemove, jobs, alerts, ltVars,
                   onDisk, complete, refused, late>>

HandleSignals ==
    \/ ConsumeAlerts
    \/ SaveTick
    \/ BeginShutdown
    \/ WaitForAlert
    \/ TimeOut
    \/ Save
    \/ RemoveTorrent
    \/ FilesToRemove
    \/ DropTorrent
    \/ RemoveFiles
    \/ CloseSession
    \/ Exit

-----------------------------------------------------------------------------
(* HTTP handlers *)

Serving == pc \notin {"unlink", "exited"}    \* they use the session until it is deleted

\* Up to here an order to delete is not too late: removeTorrent has not looked at it.
Undecided == {"loop", "waitPaused", "save", "waitResume", "remove"}

\* /stopanddelete answers and sets forceshutdelete; its send is in Lifecycle.
StopAndDelete ==
    /\ "/stopanddelete" \in Handlers
    /\ pc # "exited"
    /\ forceshutdelete' = TRUE
    /\ late' = (late \/ (~forceshutdelete /\ pc \notin Undecided))
    /\ UNCHANGED <<config, pc, torrentInfo, toRemove, resume, jobs, alerts, ltVars,
                   onDisk, complete, refused, failed>>

\* /stop
Stop ==
    /\ "/stop" \in Handlers
    /\ Serving
    /\ Len(jobs) < MaxJobs
    /\ AskPause("session")
    /\ UNCHANGED <<config, pc, forceshutdelete, torrentInfo, toRemove, resume, alerts,
                   inTorrent, metadata, checking, needSave, diskVars>>

\* /resume
Resume ==
    /\ "/resume" \in Handlers
    /\ Serving
    /\ paused' = paused \ {"session"}
    /\ UNCHANGED <<config, pc, forceshutdelete, torrentInfo, toRemove, resume, jobs, alerts,
                   inTorrent, metadata, checking, needSave, diskVars>>

\* /pausetorrent, while the handle is valid
PauseTorrent ==
    /\ "/pausetorrent" \in Handlers
    /\ Serving
    /\ inTorrent
    /\ Len(jobs) < MaxJobs
    /\ AskPause("torrent")
    /\ UNCHANGED <<config, pc, forceshutdelete, torrentInfo, toRemove, resume, alerts,
                   inTorrent, metadata, checking, needSave, diskVars>>

\* /resumetorrent
ResumeTorrent ==
    /\ "/resumetorrent" \in Handlers
    /\ Serving
    /\ inTorrent
    /\ paused' = paused \ {"torrent"}
    /\ UNCHANGED <<config, pc, forceshutdelete, torrentInfo, toRemove, resume, jobs, alerts,
                   inTorrent, metadata, checking, needSave, diskVars>>

HTTP == StopAndDelete \/ Stop \/ Resume \/ PauseTorrent \/ ResumeTorrent

-----------------------------------------------------------------------------
(* libtorrent *)

\* What the oldest job makes libtorrent tell, once it is done.
Told(job) ==
    CASE job = "save"   -> IF metadata
                           THEN [what |-> "save_resume_data_alert", data |-> complete]
                           ELSE Alert("save_resume_data_failed_alert")
      [] job = "pause"  -> Alert("torrent_paused_alert")
      [] job = "delete" -> IF Deletes({job}) /\ onDisk' # {}
                           THEN Alert("torrent_delete_failed_alert")
                           ELSE Alert("torrent_deleted_alert")

DoJob ==
    /\ jobs # << >>
    /\ Len(alerts) < MaxAlerts
    /\ jobs' = Tail(jobs)
    /\ Delete({Head(jobs)})
    /\ alerts' = Append(alerts, Told(Head(jobs)))
    /\ UNCHANGED <<config, pc, forceshutdelete, torrentInfo, toRemove, resume, ltVars, complete,
                   failed, late>>

\* Peers still send while the torrent is being paused: first the metadata, and
\* then pieces, but none while files are checked.
Connected == inTorrent /\ (paused = {} \/ "pause" \in Elements(jobs))
Active    == Connected /\ metadata /\ ~checking

Metadata ==
    /\ Connected
    /\ ~metadata
    /\ Len(alerts) < MaxAlerts
    /\ metadata' = TRUE
    /\ alerts' = Append(alerts, Alert("metadata_received_alert"))
    /\ needSave' = TRUE
    /\ UNCHANGED <<config, pc, forceshutdelete, torrentInfo, toRemove, resume, jobs,
                   paused, inTorrent, checking, diskVars>>

Progress(f) ==
    /\ Active
    /\ \/ f \notin onDisk /\ onDisk' = onDisk \cup {f} /\ UNCHANGED complete
       \/ f \in onDisk \ complete /\ complete' = complete \cup {f} /\ UNCHANGED onDisk
    /\ needSave' = TRUE
    /\ UNCHANGED <<config, pc, forceshutdelete, torrentInfo, toRemove, resume, jobs, alerts,
                   paused, inTorrent, metadata, checking, refused, failed, late>>

Checked ==
    /\ checking
    /\ checking' = FALSE
    /\ UNCHANGED <<config, pc, forceshutdelete, torrentInfo, toRemove, resume, jobs, alerts,
                   paused, inTorrent, metadata, needSave, diskVars>>

Libtorrent == DoJob \/ Metadata \/ (\E f \in Files : Progress(f)) \/ Checked

-----------------------------------------------------------------------------
Next == HandleSignals \/ HTTP \/ Libtorrent

\* The goroutine of handleSignals goes on once it is stopping: a wait ends when
\* its alert has come or its time has passed.  Nothing else is assumed.
Stopping == pc \notin {"loop", "exited"}
Fairness == WF_vars(Stopping /\ HandleSignals) /\ WF_vars(DoJob) /\ WF_vars(TimeOut)

Spec == Init /\ [][Next]_vars /\ Fairness

-----------------------------------------------------------------------------
(* Properties *)

AlertSet == [what: {"torrent_paused_alert", "save_resume_data_alert", "torrent_deleted_alert",
                    "save_resume_data_failed_alert", "metadata_received_alert",
                    "torrent_delete_failed_alert"},
             data: SUBSET Files]

TypeOK ==
    /\ config \in Options
    /\ pc \in {"loop", "save", "remove", "choose", "drop", "removeFiles", "close",
               "unlink", "exited"} \cup Waits
    /\ forceshutdelete \in BOOLEAN /\ torrentInfo \in BOOLEAN
    /\ toRemove \subseteq Files
    /\ resume \in [state: {"absent", "whole"}, data: SUBSET Files]
    /\ jobs \in Seq({"save", "pause", "delete"})
    /\ alerts \in Seq(AlertSet)
    /\ paused \subseteq {"session", "torrent"}
    /\ inTorrent \in BOOLEAN /\ metadata \in BOOLEAN
    /\ checking \in BOOLEAN /\ needSave \in BOOLEAN
    /\ complete \subseteq Files
    /\ onDisk \subseteq Files /\ refused \subseteq Files
    /\ failed \subseteq {"write", "unlink"} /\ late \in BOOLEAN

\* -keep-files, -keep-complete and -keep-incomplete keep what they name: a file
\* disappears only if no option wanted it at that moment, or /stopanddelete did
\* not (removeTorrent, filesToRemove, removeFiles).
Keeps(f) ==
    \/ config.keepFiles
    \/ config.keepComplete /\ f \in complete
    \/ config.keepIncomplete /\ f \notin complete
RemovesOnlyUnkept ==
    [][\A f \in onDisk \ onDisk' : ~Keeps(f) \/ forceshutdelete]_vars

\* "torrent stopped and files deleted": a process that has answered this before
\* removeTorrent decided leaves no file of the torrent but what it could not remove,
\* whatever save was under way; and however late the answer came, no resume file, if
\* that could be removed.  Without the metadata nobody knows which files an earlier
\* process has left, and they stay.
WipedWhenAsked ==
    pc = "exited" /\ forceshutdelete =>
       /\ metadata /\ ~late => onDisk \subseteq refused
       /\ resume = Absent \/ "unlink" \in failed

\* A resume file that is left behind never vouches for a file that was removed,
\* whenever /stopanddelete and the periodic save come, unless it was to be removed
\* itself and could not be: that is what the rule of parseFlags about -resume-file
\* and -keep-files is for.
ResumeVouchesForDisk ==
    pc = "exited" /\ resume # Absent /\ "unlink" \notin failed => resume.data \subseteq onDisk

\* A process that exits without deleting leaves a resume file that tells of all
\* there is, even when a periodic save was under way as it began to stop, unless the
\* last that was to be written could not be.
ResumeIsFresh ==
    pc = "exited" /\ config.resumeFile /\ ~forceshutdelete /\ metadata /\ "write" \notin failed =>
       resume = Whole(complete)

\* "Downloaded files will be removed unless one of --keep-files,
\* --keep-complete-files or --keep-incomplete-files is set" (README, /shutdown), but
\* for those that cannot be removed.
RemovedUnlessKept ==
    pc = "exited" /\ metadata /\ ~(config.keepFiles \/ config.keepComplete \/ config.keepIncomplete) =>
       onDisk \subseteq refused

\* A process that has begun to stop exits, however slow libtorrent is and whatever
\* alerts never come.
ShutdownExits == Stopping ~> (pc = "exited")
=============================================================================
