------------------------------ MODULE Leftovers ------------------------------
(***************************************************************************)
(* What torrent2http promises about the files it leaves, to whoever starts *)
(* it again: it fetches only while it runs, deletes only as it stops and   *)
(* only what nobody has asked to keep, what it records of its progress is  *)
(* true, and when it has ended by itself the files, the record and the     *)
(* options agree, but for what the disk has refused it.  Being killed may  *)
(* cost the record, never a file.                                          *)
(***************************************************************************)
EXTENDS Integers

CONSTANTS
    Files,
    Options     \* [keepFiles, keepComplete, keepIncomplete, resumeFile]

VARIABLES
    keep,       \* the options
    phase,      \* of a process: "running", "ending" or "over"
    order,      \* the files are to be deleted, whatever the options
    late,       \* the order was given while the process was ending
    known,      \* the process knows which files there are
    there,      \* the files that exist
    done,       \* those that have all their bytes
    stuck,      \* files that could not be deleted
    record,     \* none, or the one set of files recorded as done
    failed      \* "write" if the last recording failed, "unlink" if erasing it did

vars == <<keep, phase, order, late, known, there, done, stuck, record, failed>>

Init ==
    /\ keep \in Options
    /\ phase = "running"
    /\ order = FALSE /\ late = FALSE
    /\ known \in BOOLEAN
    /\ there \in SUBSET Files
    /\ done \in SUBSET there
    /\ stuck = {}
    /\ record \in {{}} \cup (IF keep.resumeFile THEN {{done}} ELSE {})
    /\ failed = {}

Kept(f) ==
    \/ keep.keepFiles
    \/ keep.keepComplete /\ f \in done
    \/ keep.keepIncomplete /\ f \notin done

KeepsNothing == ~(keep.keepFiles \/ keep.keepComplete \/ keep.keepIncomplete)

-----------------------------------------------------------------------------
(* A process that runs *)

Learn ==
    /\ phase = "running"
    /\ known' = TRUE
    /\ UNCHANGED <<keep, phase, order, late, there, done, stuck, record, failed>>

Fetch(f) ==
    /\ phase = "running"
    /\ known
    /\ \/ there' = there \cup {f} /\ UNCHANGED done
       \/ f \in there /\ done' = done \cup {f} /\ UNCHANGED there
    /\ UNCHANGED <<keep, phase, order, late, known, stuck, record, failed>>

\* An order may come too late once the process is ending.
Order ==
    /\ phase # "over"
    /\ order' = TRUE
    /\ late' \in {late, late \/ (phase = "ending" /\ ~order)}
    /\ UNCHANGED <<keep, phase, known, there, done, stuck, record, failed>>

\* Nothing is recorded that is not done, and nothing at all without the option.  A
\* recording that fails leaves what there was, nothing, or an earlier one.
Recording ==
    \/ UNCHANGED <<record, failed>>
    \/ /\ keep.resumeFile
       /\ \E S \in SUBSET done : record' = {S}
       /\ failed' = failed \ {"write"}
    \/ /\ keep.resumeFile
       /\ record' \in {record, {}} \cup {{S} : S \in SUBSET done}
       /\ failed' = failed \cup {"write"}

Record ==
    /\ phase # "over"
    /\ Recording
    /\ UNCHANGED <<keep, phase, order, late, known, there, done, stuck>>

-----------------------------------------------------------------------------
(* A process that ends *)

Stop ==
    /\ phase = "running"
    /\ phase' = "ending"
    /\ Recording
    /\ UNCHANGED <<keep, order, late, known, there, done, stuck>>

\* The files of S go; those of T should, and cannot.
Remove(S, T) ==
    /\ phase = "ending"
    /\ \A f \in S \cup T : order \/ ~Kept(f)
    /\ there' = there \ S
    /\ stuck' = stuck \cup T
    /\ UNCHANGED <<keep, phase, order, late, known, done, record, failed>>

\* If files are to be deleted, the record is erased last of all.
Erasing ==
    \/ ~order /\ UNCHANGED <<record, failed>>
    \/ order /\ record' = {} /\ UNCHANGED failed
    \/ order /\ UNCHANGED record /\ failed' = failed \cup {"unlink"}

\* By then what nobody keeps is gone, and what is kept is recorded.
Finish ==
    /\ phase = "ending"
    /\ known /\ ((order /\ ~late) \/ KeepsNothing) => there \subseteq stuck
    /\ known /\ ~order /\ keep.resumeFile /\ "write" \notin failed => record = {done}
    /\ phase' = "over"
    /\ Erasing
    /\ UNCHANGED <<keep, order, late, known, there, done, stuck>>

-----------------------------------------------------------------------------
(* The next process, after one that has ended or was killed at any moment *)

Interrupted ==
    \/ UNCHANGED record
    \/ /\ phase # "over"
       /\ keep.resumeFile
       /\ record' = {} \/ \E S \in SUBSET done : record' = {S}

\* The record is believed if the files it names are there.
Begin ==
    /\ phase' = "running"
    /\ order' = FALSE /\ late' = FALSE
    /\ known' \in BOOLEAN
    /\ stuck' = {} /\ failed' = {}
    /\ \/ \E S \in record' : S \subseteq there /\ done' = S
       \/ (\A S \in record' : ~(S \subseteq there)) /\ done' = done \cap there
    /\ UNCHANGED <<keep, there>>

Again == Interrupted /\ Begin

-----------------------------------------------------------------------------
Next ==
    \/ Learn \/ (\E f \in Files : Fetch(f)) \/ Order \/ Record
    \/ Stop \/ (\E S, T \in SUBSET there : Remove(S, T)) \/ Finish
    \/ Again

Spec == Init /\ [][Next]_vars
=============================================================================
