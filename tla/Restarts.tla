------------------------------ MODULE Restarts ------------------------------
(***************************************************************************)
(* One process of torrent2http after another, over the same files: each    *)
(* ends by itself, as in the module Shutdown, or is killed at any moment,  *)
(* the next is started with the same options and is told of what is there  *)
(* by the resume file only (buildTorrentParams).                           *)
(***************************************************************************)
EXTENDS Shutdown

CONSTANT MaxLives     \* bound on the processes started

ASSUME RestartsAssumption == MaxLives \in Nat \ {0}

VARIABLES
    lives,          \* the processes started so far
    interrupted     \* history: a process that was to delete its files has left the
                    \* resume file: it was killed, or could not remove it

allVars == <<vars, lives, interrupted>>

-----------------------------------------------------------------------------
(* What the end of a process leaves of the resume file *)

\* Killed between two steps, or ended by itself.
LeftInPeace == resume' = resume

\* Killed in processSaveResumeDataAlert, for some alert of a batch, as consumeAlerts
\* or waitForAlert processes it: torn, or as an earlier alert of the batch has it.
LeftInWrite ==
    /\ pc \in {"loop"} \cup Waits
    /\ \E last \in DOMAIN alerts :
         /\ IsSaved(alerts[last])
         /\ \/ resume' = Absent
            \/ \E i \in 1..(last - 1) : IsSaved(alerts[i]) /\ resume' = Whole(alerts[i].data)

-----------------------------------------------------------------------------
(* What the next process is told *)

\* libtorrent takes the resume data for true if the files it tells of are there.
\* If not, or without it, it looks at what is on disk.
Trusted == resume'.state = "whole" /\ resume'.data \subseteq onDisk

\* The resume file is read whenever it exists; parseFlags lets the option through
\* along with -keep-files only.  Everything in memory is as in Init.
Start ==
    /\ pc' = "loop"
    /\ forceshutdelete' = FALSE
    /\ torrentInfo' \in BOOLEAN
    /\ toRemove' = {}
    /\ jobs' = << >>
    /\ alerts' = << >>
    /\ paused' = {}
    /\ inTorrent' = TRUE
    /\ metadata' = torrentInfo'
    /\ checking' \in {FALSE, MayCheck}
    /\ complete' = IF Trusted THEN resume'.data ELSE complete \cap onDisk
    /\ needSave' \in {TRUE, ~Trusted}
    /\ refused' = {}
    /\ failed' = {}
    /\ late' = FALSE

\* The process ends, by os.Exit or killed, and another is started.
Restart ==
    /\ lives < MaxLives
    /\ lives' = lives + 1
    /\ LeftInPeace \/ LeftInWrite
    /\ interrupted' = (interrupted \/ (forceshutdelete /\ resume' # Absent))
    /\ Start
    /\ UNCHANGED <<config, onDisk>>

-----------------------------------------------------------------------------
RInit == Init /\ lives = 1 /\ interrupted = FALSE

RNext == (Next /\ UNCHANGED <<lives, interrupted>>) \/ Restart

RSpec == RInit /\ [][RNext]_allVars

-----------------------------------------------------------------------------
(* Properties *)

\* A process is never told of a file that is not there, however the one before it
\* ended and whatever it was writing: the resume file vouches for what it may vouch
\* for at every moment, not only at os.Exit.  The exception is a process that was to
\* delete everything and has left the resume file: shutdown() deletes the files first
\* and the resume file last, may be killed in between, and may fail to remove it.
TrustsOnlyDisk ==
    [][lives' # lives /\ ~interrupted' => resume'.data \subseteq onDisk']_allVars

\* Whatever its alerts, jobs and waits, one process after another leaves the files and
\* the resume file as the module Leftovers promises: shutdown() fetches nothing once
\* the session is paused, deletes only what no option keeps, and exits with a resume
\* file that is true and complete, or has been refused by the disk; being killed costs
\* the resume file at most.
Phase ==
    IF pc \in {"loop", "waitPaused"} THEN "running"
    ELSE IF pc = "exited" THEN "over" ELSE "ending"
Recorded == IF resume.state = "whole" THEN {resume.data} ELSE {}

Promise == INSTANCE Leftovers
    WITH keep <- config, phase <- Phase, order <- forceshutdelete, known <- metadata,
         there <- onDisk, done <- complete, record <- Recorded, stuck <- refused

LeavesAsPromised == Promise!Spec
=============================================================================
