# A verification of torrent2http

torrent2http is one Go process around a libtorrent session.  It downloads one
torrent, serves its files over HTTP while they are being downloaded, and, when
told to stop, deletes or keeps what it downloaded.  The modules here model what
it decides and in which order, `src/torrent2http.go`, `src/torrentfs.go`,
`src/bitfield.go` and the rules of `src/config.go`; TLC checks them on small
instances and TLAPS proves the central safety properties for all.

Contents: 1 inventory, 2 modules and their correspondence to the code, 3 runs
and bounds, 4 fairness and assumptions about the outside, 5 disagreements
between the code and what is said of it, 6 what is proved, 7 what is not
modelled, 8 what could come next.

## 1. Inventory

| Component | State | Operations | Modules |
|---|---|---|---|
| Stop machinery | `forceShutdown`, `connTrackChannel`, `activeConnections`, the loop of `handleSignals` | signals, `/shutdown`, `/stopanddelete`, idle timer, `-exit-on-finish`, death of the parent | `Lifecycle` |
| Streaming of `/files/` | one `TorrentFile` per request: position, copy of the bitfield, its age, closed | `Open`, `Read`, `Seek`, `Close`, `waitForPiece`, `updatePieces` | `TorrentStream`, `RangeServer` |
| Shutdown and resume data | `forceshutdelete`, the resume file, the files on disk, libtorrent's alerts | `shutdown`, `saveResumeData`, `removeTorrent`, `filesToRemove`, `waitForAlert`, `consumeAlerts`; `/stopanddelete`, `/stop`, `/resume`, `/pausetorrent`, `/resumetorrent`; `buildTorrentParams` of the next process | `Shutdown`, `Restarts`, `Leftovers` |
| Removal of files | the list, the tree below the download path | `removeFiles`, `trimPathSeparator` | `FileRemoval` |
| Piece priorities of a file | none (a calculation) | `prioritizepieces` | `PiecePlan` |
| File selection and buffering | `fileEntryIdx`, `bufferPiecesProgress` and its lock, libtorrent's priorities | `onMetadataReceived`, `chooseFile`, `/priority`, `/get/`, `/lsfile`, `piecesProgress` | `Buffering` |
| Bitfield | a byte slice | `GetBit`, `SetBit`, the slice of `updatePieces` | `Bitfield` |
| Settings, session, trackers | `packSettings`, libtorrent's settings and trackers | `startSession`, `startServices`, `addTorrent`, `comandHandler` | `Session` |
| Event flag | a channel under a mutex | `Set`, `Clear`, `IsSet`, `Wait` (used by nothing) | not modelled |
| Status and list handlers | none | `/status`, `/ls`, `/peers`, `/trackers` | not modelled |
| Platform and build files | none | file flags, defaults, version, makefiles | not modelled |

How they interact.  `main` builds the session, adds the torrent, starts
`handleSignals` as a goroutine and then the HTTP server, which runs each request
in a goroutine of its own.  The requests meet `handleSignals`, and each other, in
five places: the channel `forceShutdown`; the unprotected variables
`forceshutdelete` and `fileEntryIdx`; the map `bufferPiecesProgress`, whose mutex
does not cover the assignment of a new map; the one `packSettings`, which `main`
makes and every `/command` changes; and libtorrent itself, whose piece priorities
are the one variable that every stream, `/priority`, `/get/` and the arrival of the
metadata all write.  libtorrent answers by alerts that only `handleSignals` pops.
Two processes, one after the other, meet in the resume file and in what is on disk.

What is hard here:

- **Ordering and deadlock.** `handleSignals` is a sender and the only receiver
  of a channel of capacity one.
- **Interleaving.** A `Seek` of one request changes the priorities that another
  request's `waitForPiece` looks at; `prioritizepieces` reads `fileEntryIdx`
  twice, replaces the map, and only then takes the lock; one `/command` applies
  what another has half set.
- **Staleness.** A bitfield half a second old; a decision which files to remove
  that is carried out seconds later; a buffer at 1.0 that is never taken back.
- **Timeouts.** Every wait of `shutdown` may end without its alert.
- **Crashes.** The resume file is truncated before it is written; the files go
  before the resume file does.
- **Boundaries.** Pieces, files, slices and ranges that begin and end together;
  the bit after the last piece; a tier that is a byte.
- **Partial failure.** A handler that panics between its +1 and its -1; a file or
  a folder that cannot be removed; a resume file that cannot be written or removed.

Each is listed under "hazards" in `PROJECT.json` at its line, with the properties
that watch it or the reason why none does.

## 2. Modules and the code

Names of variables and actions are those of the code where it has them.  Line
by line correspondence is in `PROJECT.json`, "map".  Each `X` has an `MCX` with
the values of its instances, and an `XProofs` with its theorems; `Shutdown` and
`Restarts` share `ShutdownProofs`, and `PiecePlan` and `Bitfield` are calculations:
the first is checked through `Buffering`, the second only proved about.

### Lifecycle

One control point for `main`, one for `handleSignals`, one for each request, one
for `inactiveAutoShutdown`.  A channel is `"nil"`, `"empty"` or `"full"`
(`forceShutdown` has capacity one), or a bounded sequence (`connTrackChannel`,
each increment tagged with its sender so that the properties can speak of it).
A blocking send is an action guarded by room in the channel; a send on a nil
channel is the point `"stuck"`.  `Tick` is the 500 ms case of the select: its
timer is created as the select begins, so it is taken only when neither other
case is ready; with several ready channels either may be taken.  `IdleTimeout`
needs `forceShutdown` made, because the timeout is a second or longer and
`handleSignals` was started before it.  `shutdown()` is the single point
`"shutdown"`; `Shutdown` opens it up.  The third case of the select,
`saveResumeDataTicker`, is in `Shutdown`, where it matters.

`asked` is a history variable: how often anyone has decided to stop the process.

### TorrentStream and RangeServer

A request is a record: its place in `Read`, `Seek` or `waitForPiece`, its byte
position, what is left of the slice, its copy of the bitfield and whether that
copy is younger than half a second.  `net/http`'s `serveContent` appears through
the calls it makes: an optional sniff of at most 512 bytes and a seek back, a
seek for a range, reads until the range is done, `Close`.  `HasPiece` returns a
set of possible answers: one bit beyond the bitfield is whatever memory holds
(`torrentfs.go:130`).  `Seek` gives libtorrent a vector for ALL pieces, which is
how two requests disturb each other.  `Prioritize` stands for `/priority` and `/get/`
used at the same time: it makes the priorities one of `OthersVectors`.  `setBy` is a
history variable: whose vector libtorrent was given last.

`RangeServer` is the abstract specification: a response is the range asked for,
in order, and no byte leaves before its piece is there.  `ServesRanges` says that
`TorrentStream` implements it under the mapping `Response`.

### Bitfield

`GetBit` and `SetBit` on a sequence of bytes, `Packed` as libtorrent lays out the
pieces it has, and `Slice`, the piece of memory that `updatePieces` makes a slice
of: it is sized for one bit more than there is, so that it may end one byte
behind libtorrent's (`behind`).  It justifies the sets of pieces of `TorrentStream`
and its one unknown bit.

### Shutdown

The goroutine of `handleSignals` from its loop to `os.Exit`, step by step through
`shutdown()`: pause and wait, save and wait, remove and wait, remove the files that no
option keeps, close the session, unlink the resume file.  Between any two steps
libtorrent does its jobs, in order, and queues its alerts, receives the metadata or more
of the files, and handlers may set `forceshutdelete`, or pause or resume the session or
the torrent (`paused`).  Before the metadata nobody knows the files: a save fails, and a
deletion deletes nothing.  `TimeOut` ends a wait; with `Slow` FALSE it does so only when
the alert is not on its way, with `Slow` TRUE at any time.  The resume file holds the
set of files that were complete when libtorrent made it; of several alerts in one batch
the last stays.  `Options` are the combinations that `parseFlags` accepts.

The disk may refuse everything: `Process` has the `WriteFile` that fails, after which
the old resume file is there, or none, or that of an earlier alert of the batch;
`RemoveFiles` and `Delete` (libtorrent's own deletion, which then tells of a failure)
leave files behind; and `Exit` may leave the resume file.  All of these go on, as the
code does.  Three history variables tell the properties of it: `refused` has the files
that were to go and could not, `failed` has `"write"` when the last writing of the
resume file failed and `"unlink"` when its removal did, and `late` is TRUE when
`/stopanddelete` was only answered after `removeTorrent` had looked (`Undecided`).

### Restarts

Extends `Shutdown` by `Restart`: the process has exited or is killed between any
two steps, and the next is started with the same options on the same disk.  What
it leaves of the resume file is what was there (`LeftInPeace`), or, if it is
killed in `processSaveResumeDataAlert`, a torn file or what an earlier alert of
the same batch has had written (`LeftInWrite`).  A torn file is no bencoded
dictionary and is refused: it is `Absent`.  `Start` is `Init` with what the resume
file tells, which libtorrent believes when the files are there.  `interrupted` is
a history variable: some process that was to delete its files has left the resume
file, because it was killed before it could remove it or because it could not.

### Leftovers

The abstract specification of what processes leave on disk, for whoever starts the next
one.  A process runs, ends and is over.  While it runs it may fetch (`Fetch`), once it
knows the files; while it ends it may delete what nobody keeps (`Remove`); until it is
over it may record only what is done (`Record`).  It is over (`Finish`) only with the
files gone that had to go and could (`stuck`), and a record that is the whole truth, or
none after an order to delete, unless the disk refused it (`failed`); an order that
comes while the process is ending may be `late`.  Killed at any moment (`Again`), it
costs at most the record.  There are no alerts, jobs, waits or torn files in it.
`LeavesAsPromised` says that `Restarts` implements it, under `Promise`: a process runs
until its wait for the pause is over and is over when it has exited, the record is a
whole resume file, and `order` is `forceshutdelete`.

### FileRemoval

`removeFiles` opened up: one action for `os.Remove` of a file, one for each turn
of the loop that climbs through its folders (`Prune`).  The tree is given by
`Parent`.  `Dir` and `Trimmed` do what `filepath.Dir` and `trimPathSeparator` do at
the download path: if that is the root of a drive, the directory of what lies in
it has a separator at its end that the root itself has lost.  The download path is
among what is `present`, so that a climb that goes too far shows.  `os.Remove` may
refuse any file or folder, and somebody else may put a file anywhere meanwhile.
`listed` and `refused` are history variables.

### PiecePlan

`prioritizepieces` as operators.  Each loop of the function continues from where
the one before has stopped; `HeadStop`, `MiddleStop` and `TailStop` are `curPiece`
after them.  The share of the file given by `-buffer` is any function from the
span of the file to a number of pieces: that covers every value and every
rounding of the floating-point product.  What it leaves out is a negative
`-buffer`.

### Buffering

Extends `PiecePlan` with the goroutines that run it.  Every read and write of
`fileEntryIdx`, of the map and of the lock is a step of its own, and so is each turn of
the loop over the pieces of a small file and of the loop of `/get/` over the files,
where a call of `FilePriority` computes all piece priorities anew. A value of the map is
TRUE for 1.0 and FALSE for less: `/lsfile` reports a full buffer exactly when all are at
1.0.  The loop that sets every file to priority 4 is one step: only libtorrent reads
what it writes.  A piece of `Corruptible` may fail its hash check as often as it is
fetched; `corrupt` is the history of those that did.  `lastEntryIdx` and deadlines are
left out: the first is only compared with zero, which it never is below; the second
orders pieces that are wanted anyway.

### Session

`main` from `startSession` to `addTorrent`, then up to three interleaved requests
for `/command`.  A settings pack is a function from the names that were set in it,
because libtorrent leaves the others as they are; `Over` is both what `SetInt` and
`SetBool` do to a pack and what `ApplySettings` does to a session.  A handler works
on the shared pack pair by pair (`Call`, `SetSetting`, `PassOver`), then copies it
(`ApplySettings`) and posts the copy to libtorrent's thread (`Post`), which applies
packs in order (`ApplyPack`).  Inserting a name while another goroutine is in the
pack is undefined: `Corrupt` ends the process, and a `SetSetting` during a copy is
in it or not.  `executed` (of each mode, what each name was last answered to be set to,
also where libtorrent ignores it), `raced` (requests that overlapped) and `last` are
history variables.  The ports that `startSession` picks and `startServices` maps are
left out.

## 3. Runs

All runs use pieces of two bytes, so that every coincidence of a boundary with
another occurs; the code does not depend on the length of a piece except through
division.  `CHECK_DEADLOCK FALSE` is set where the process may stop or every
client may be done.

| Run | Shows | Bounds |
|---|---|---|
| `lifecycle` | the idle counter is exact in every order; the timer overlooks no request it was told of; the loop wedges only after two decisions; any one decision, alone, stops the process; a torrent that is finished and a process that is idle do decide; any number of handlers stop it as long as the loop does not send to itself | 2 requests, a channel of 1 (10 in the code), the smallest at which a sender queues up while another waits to leave; one signal; every source of a decision |
| `stream_served` | no byte is served before its piece is verified; `RangeServer` is implemented | 2 requests, 2 files that share a piece, the second ending with the last piece; slice of 4 bytes, so it spans up to three pieces |
| `stream_ends` | every request ends and closes its file, with its bytes or an error, unless the torrent stays paused; no request is cut short by its own seeks | the same files; requests for the end of the second that sniff and seek; `/get/` of the first, which leaves the last piece unwanted, as often as it likes |
| `shutdown_policy` | for every combination of options, over three processes each of which may be killed: files go or stay as promised, the resume file is fresh, and no process is told of a file that is not there; one process after another implements `Leftovers` | 2 files, 2 jobs, 2 alerts, 3 processes; `/stopanddelete` at any time, every refusal of the disk; no other handler, no timeout that comes too early, no checking |
| `shutdown_any_race` | with every race of handlers, checking and timeouts and every refusal of the disk, a resume file left behind tells only of files left behind, unless it was to be removed and could not be, and a process that has begun to stop exits | 1 file, all five handlers, 2 jobs, 2 alerts |
| `file_removal` | only listed files and their emptied folders disappear, all of those do, and the climb ends | 3 files at two depths, a folder and a file of somebody else, both forms of download path, every failure |
| `buffer_orderly` | for clients that ask one thing at a time: the selected file is fetched, and the buffer of a file that is not small is reported full only when all of it was fetched; for each place and size of a file in the torrent, the plan fetches all of it, nothing beyond the buffer, and the buffer holds both ends | 5 pieces, one of which may prove corrupt, a big and a small file, 2 setters that use `/priority` with 7, 0 and 9999 or `/get/` of a file and of none, 1 watcher |
| `buffer_racing` | with everything concurrent and corrupt pieces: no two goroutines are in the map, and every request is answered, because the lock is always given back | 2 pieces, one small and one big file, 1 setter, 1 watcher |
| `session` | no service runs unasked, a `/command` that is alone leaves every setting that libtorrent has as it was last answered, the trackers keep their order | 3 requests with 5 queries, among them a name that libtorrent does not know and one of another kind, 3 configurations, 2 services, a byte of 4 values so that tiers wrap |

The counters that are capped are `MaxSignals` (1), `MaxJobs` (2), `MaxAlerts` (2),
`MaxLives` (3) and the sets of requests: a request is made once, a watcher polls
for ever.  One signal suffices to have a second decision besides a request's; two
jobs are a periodic save and what `shutdown` asks for; two alerts make a wait find
another alert before its own, and a batch in which the first of two saves is
written and the second torn; a third process is told by the second of what the
first has left.

The other three runs are expected to fail; section 5 is about them.

Conditions that a reader should know:

- `ResumeIsFresh` is checked with `/stopanddelete` but without `/stop` and
  `/pausetorrent`.  A `torrent_paused_alert` left over from those can end the first wait
  at once; with a periodic save under way `need_save_resume` is then already clear and
  the final save may be skipped.  It leaves out a process whose last `WriteFile` failed.
- `RemovesOnlyUnkept` excludes `/resume` and `/resumetorrent` during the shutdown and
  libtorrent's being slower than the timeouts: a file that is judged incomplete may be
  complete when it is removed.
- `WipedWhenAsked` and `RemovedUnlessKept` except files that could not be removed.
  The first asks of an order that came after `removeTorrent` had looked only that the
  resume file goes.
- `LeavesAsPromised` is checked under the conditions of `ResumeIsFresh`, but with every
  refusal of the disk and with processes killed at every step, also while they delete:
  what the next one then makes of a resume file that tells of files that are gone is
  part of `Leftovers` (`Begin`).
- `TrustsOnlyDisk` excludes what comes after a process that was to delete and has left
  the resume file.  The files go first and the resume file last, so that such a process,
  killed in between or unable to remove it, leaves a resume file that tells of files
  that are gone.  `ResumeVouchesForDisk` excludes the second case for the same reason.
- `FullMeansBuffered` is checked for orderly clients; small files and hash checks that
  fail occur, but it claims nothing of the buffer of a small file, which is reported
  with the buffer of the file before, nor that a corrupt piece is still there, because
  one whose blocks were there stays counted (`torrent2http.go:1435`).  Without orderly
  clients `/lsfile` may name one file and report the buffer of another.
- `LoneCommandSettles` speaks of the moments after a request that overlapped with no
  other, and of the settings that libtorrent has.  After two that did overlap, a setting
  may have been answered as executed and not be in force, until the next lone one posts
  the whole pack again.  A name that libtorrent does not know, or of another kind, is
  answered as executed and holds nowhere; the property then asks that it is in no other
  setting's way.
- `EveryRequestEnds` has the premise that `/priority` and `/get/` do not go on for ever,
  besides that the torrent runs: a request whose priority is taken away ends with an
  error, but not if it is always given back before the tick.
- `OwnSeekKeepsWait` says whose fault a failed wait may be, and not that there is
  none: that is `FailedWaitMeansClosed`, which does not hold.
- `OneDecisionStops` excludes handlers that found `forceShutdown` nil: the HTTP
  server can serve before `handleSignals` has made the channel.

Every property of a passing run has a mutant: an operator next to the definition
it mutates, marked "Mutant of", that a plausible slip would turn the definition
into.  With it the property fails in the same run.

## 4. Fairness, and what is assumed of the outside

- **Goroutines.** Weak fairness for each: the Go scheduler starves none.  In
  `Buffering` the lock has strong fairness: `sync.RWMutex` lets a writer that waits
  go before later ones for good.
- **Clients.** Nothing: no request need be made, and a stream need not end.
- **libtorrent.** In `TorrentStream`: it eventually gets a piece that stays wanted
  while it runs, and leaves the states in which it checks resume data.  In
  `Shutdown`: jobs are done in order and eventually, but a wait may always time
  out first where `Slow` is TRUE.  It ignores a setting whose name it does not know
  or whose kind is another, applies packs in the order in which they were posted,
  and starts its services by default.
- **The resume file.** A torn one is refused; a whole one is believed if the files
  it tells of are there, otherwise they are checked.
- **The clock.** Timeouts pass; the bitfield grows old.
- **The disk.** `os.Remove`, `ioutil.WriteFile` and libtorrent's deletion may fail on
  anything.  Others add files while `removeFiles` runs, but remove none of the torrent's.
- A set bit of the bitfield is taken to mean that the bytes of that piece are on
  disk, as the code takes it.  Pieces, once verified, stay verified.
- When `SetPieceDeadline` is called on a piece of priority zero, libtorrent may or
  may not lift the priority: versions differ, both are allowed.

## 5. Where the code and what is said of it disagree

Three are runs that TLC ends with a counterexample, and findings in `PROJECT.json`
that quote the words:

| Run | What happens |
|---|---|
| `lifecycle_shutdown_and_signal` | `/shutdown` fills the channel; before the loop takes it, a signal is taken and the loop sends to itself for ever |
| `stream_two_seekers` | a second request's `Seek` zeroes the priority the first waits on: "file was closed" on an open file |
| `buffer_two_requests` | two `/priority` at once: the selected file is not the fetched one |

The others were met while modelling; the models contain them and the
properties state the condition that leaves them out:

| Where | What happens | The condition |
|---|---|---|
| `torrent2http.go:1469` | finished and orphaned in one tick: the loop sends twice and waits for itself | `FinishedStops`: nobody else decides |
| `torrent2http.go:784` | `/priority` before the metadata panics, its -1 is never sent, `-max-idle` never fires | `IdleStops`: no handler has panicked |
| `torrent2http.go:704` | `/stopanddelete` after `removeTorrent` has looked is answered and not done | `late` in `WipedWhenAsked` |
| `torrent2http.go:703` | while libtorrent checks files, nothing is deleted, whatever README.md:211 says | `MayCheck` FALSE |
| `torrent2http.go:706` | a process stopped before the metadata has come leaves the files of an earlier one, whatever the options | `metadata` in `WipedWhenAsked` and `RemovedUnlessKept` |
| `torrent2http.go:716` | `/resume` or `/resumetorrent` lets a file be completed after it was judged incomplete; `-keep-complete` does not save it | neither in `shutdown_policy` |
| `torrent2http.go:765` | killed during `/stopanddelete`: the files are gone, the resume file is not | `interrupted` in `TrustsOnlyDisk` |
| `torrent2http.go:769` | the resume file cannot be removed: it is logged, and the next process is told of files that are gone | `"unlink"` in `ResumeVouchesForDisk` and `WipedWhenAsked`, `interrupted` in `TrustsOnlyDisk` |
| `torrent2http.go:890` | the resume file cannot be written: it is logged, `need_save_resume` is clear, and it stays old or truncated until there is more progress | `"write"` in `ResumeIsFresh` |
| `torrent2http.go:605` | a `/command` for a name that libtorrent does not know or of another kind is answered "executed" (610 too) | `LoneCommandSettles`: settings that libtorrent has, of the kind answered |
| `torrent2http.go:1435` | a piece whose blocks were all there counts as buffered also after its hash check has failed | `FullMeansBuffered`: what proved corrupt |
| `torrent2http.go:556` | a file of ten megabytes or less makes no map of its own: `/lsfile` reports the buffer of another file | `FullMeansBuffered`: files that are not small |
| `torrent2http.go:1361` | `endPiece` is the piece after the last when the file ends the torrent: the vector has one entry too many, and the buffer a piece that can never be there, so `/lsfile` never reports it full | none asked |
| `torrent2http.go:550` | `priority=0` gives the file's pieces priority 7 | `SelectedIsWanted`: priority above zero |
| `torrent2http.go:535` | the error of the index is overwritten by that of the priority: `/priority` with an index that is no number selects file 0 | the model asks for files that exist |
| `torrent2http.go:345` | `/get/` answers 404 to every number, where README.md:169 says "Downloads/starts streaming file with specified number"; a number of no file sets every file to priority 0 | none asked |
| `torrent2http.go:602` | the loop of `/command` stops before its last pair: a lone pair is answered with 200 and never applied | `LoneCommandSettles`: what was answered as executed |
| `torrent2http.go:586` | two `/command` at once change one pack without a lock; the older copy may be posted last | `LoneCommandSettles`: a request that was alone |
| `torrent2http.go:1300` | beyond 256 trackers the tiers wrap round, and early trackers share the tiers of late ones | `TiersInOrder`: no more than a byte has values |
| `torrent2http.go:1246` | `-file-index` of a file below 80 MB is ignored, though config.go:65 says it starts "immediately" | none asked |

Besides, read and not a matter of behaviour over time: an `-encryption` other than
0, 1 or 2 leaves both policies and the level at zero; `-enable-utp` and
`-enable-tcp` (config.go:99-100) are parsed and used nowhere; `-tuned-storage` does
nothing, because `IsMemoryStorage` (torrent2http.go:1443) is always true.

## 6. What is proved

All theorems are checked by TLAPS for every value of the constants that the named
assumptions allow: any number of requests, files, pieces, processes, any capacity, any
tree of folders.

- **LifecycleProofs.** `TypeCorrect`. `OneDecision`: the loop wedges only after two
  decisions. `OneDecisionNeverWedges` is not inductive; `DecisionInv` adds that a full
  channel, or any goroutine that is about to send, comes from a decision, and that two
  such places are two decisions. `CounterIsExact`: `CountInv` adds that the increments
  in the channel are distinct, that each has its cause in the state of its request, and
  that a request's +1 is ahead of its -1; the counter then changes with the set
  `Counted` by exactly one member per receive. `IdleOverlooksNone` follows from it: a
  counter of zero means an empty set.
- **TorrentStreamProofs.** `StreamTypes`; `OnlyVerifiedServed`; `ImplementsRangeServer`.
  The invariant `StreamInv` says that a copied bitfield holds only verified pieces, that
  the piece a reader is about to read is verified when it is at `"ready"`, and that
  position and rest of the slice stay inside the range. The bit after the last piece is
  harmless because no byte of a file lies there. `OwnSeekKeeps`: a wait on an open file
  fails only when somebody else was the last to say what is wanted. `WantedInv` says
  that as long as a request's own vector is the one libtorrent was given last, whatever
  it may yet read is wanted: its `Seek`s and sniffs only narrow what is behind it. It
  assumes nothing of the vectors that the torrent starts with or that others set.
- **BitfieldProofs.** `GetAfterSet`: `SetBit` sets its bit and no other, and nothing
  outside the slice. `SliceHoldsPieces`: `GetBit` of a piece is whether libtorrent has
  it, and of an index behind the last it can be true only if the number of pieces is a
  multiple of eight and the byte behind libtorrent's is looked at.
- **ShutdownProofs.** About one process: `ShutdownTypes` and `ResumeVouches`.
  `ResumeInv` says that resume data, in the file, in an alert or in a job, exists only
  with the option, hence with `-keep-files`; without `/stopanddelete` no file is then
  removed; with it the resume file goes last, or `"unlink"` tells that it did not.
  `NewProcessTrustsOnlyDisk` carries `ResumeInv` over a restart: whatever a killed
  process leaves of the file it was writing, absent or from an earlier alert, was
  covered by it. About any number of processes:
  - `DeletesWhenAsked`, without any assumption, and `KeepsOnlyWhenAsked`, if libtorrent
    is not checking: in `WipeInv` a process that is `Doomed` has, from `removeTorrent`
    on, no torrent that could bring files back, and its files are gone, refused, or
    their deletion is among the jobs, however early the wait for it gives up.
  - `KeepsWhatIsAsked`, if libtorrent is in time and nobody resumes session or torrent
    (`Timely`): in `KeepInv` the session is paused once, so that a paused alert means
    the job is done and nothing arrives any more; what is to be removed was unkept when
    it was looked at, and so it still is.
  - `SavesAllThereIs`, if besides only `shutdown` pauses, with neither `/stop` nor
    `/pausetorrent` (`Alone`): in `FreshInv` the job of the pause is the last in its
    queue, so that after its alert no older save is under way whose alert the next wait
    could take for its own; and `need_save_resume` is clear only if everything is saved,
    about to be, or its writing has failed (`IsFresh`).
  - `PromiseIsKept`, if `Alone` and libtorrent is not checking: `Restarts` implements
    `Leftovers`, for any number of processes killed at any step. `PromiseInv` is
    `WipeInv` and `FreshInv`, which allow `Finish`, with `TrueInv`: what an alert
    carries is complete, and libtorrent deletes only at the end, which allow every
    `Record` and `Remove`.
- **FileRemovalProofs.** `RemovalTypes`, `RemovesOnlyListed`, `LeavesTidy`.
  `RemovalInv`: the climb is always on the way of the file removed last, and an empty
  folder of a removed file that could be removed is still ahead of it.
  `RemovalDescends` is what `RemovalEnds` rests on, without the fairness: each file
  shortens the list and begins a climb of at most one turn more than it has folders, and
  each turn brings `path` nearer to the download path, in either form of it; the one
  turn is for the separator.
- **PiecePlanProofs.** `FetchesEveryFile` and `BuffersEveryFile`, for every layout,
  every `-buffer` and every length of a piece, from monotonicity of division.
- **BufferingProofs.** `OneInTheMap`: `LockInv`, whoever is in the map holds the lock.
  `BufferingTypes`: `TypeInv`; that `Biggest` is a file at all needs a least
  counterexample, as the largest of finitely many. `EveryPlaceIsFetched` and
  `EveryPlaceIsBuffered`: the theorems of `PiecePlanProofs`, at every place and size
  that a file may have in the torrent of the module. For orderly clients
  `SelectedFileIsFetched`: `WantInv`, at most one goroutine is at work, what it has read
  is of the file that is selected, and of that file's pieces those it has passed are
  wanted. `FullBufferIsThere`: `FullInv`, the map is empty, or that of the selected
  file's buffer if this is not a small file, or as far as the planner at work has come
  with it, and it is TRUE only for pieces that were fetched: those that are not there
  any more have proved corrupt.
- **SessionProofs.** `TrackersKeepOrder` from `StartInv`, what `main` has set up stays.
  `NoServiceUnasked`: `AskInv`, no pack, copied, posted or applied, switches on a
  service that was not asked for. `LoneCommandIsKept`: `LoneInv`, the shared pack
  always agrees with what was answered, for each name and its kind, the copy of a
  request that is alone is the pack, and so the newest pack that libtorrent has or will
  have agrees as well. `KindsAreKept`: `KindInv`, no setting has a value of another kind
  than its own, in the shared pack, a copy, a posted pack or libtorrent, whatever a
  `/command` says and also after requests that overlapped; `RestTypes` has the other
  variables.

Only model-checked: liveness (`OneDecisionStops`, `AcceptedStopsUnlessLoopSends`,
`FinishedStops`, `IdleStops`, `EveryRequestEnds`, `ShutdownExits`, `EveryoneIsAnswered`,
`RemovalEnds`), which TLAPS cannot do under fairness. Every invariant and every action
property that a run checks is proved, except the three that are expected to fail. What
a recursively defined function computes is out of reach too, so the models define none:
`Above`, the folders of a file, is a constant with an assumption that TLC evaluates.

## 7. What is not modelled

- The answers of `/status`, `/ls`, `/peers` and `/trackers`: they read libtorrent and
  format JSON, and change nothing.
- `event.go`: nothing in the program makes an `Event`.
- The settings of `startSession` that are constants or copies of an option, one to one;
  proxy, user agent and IP filter; the state file that `saveSessionState` writes, which
  no code reads.
- The ports: `startSession` picks two for libtorrent to listen on, `startServices` has them
  mapped; that a port cannot be bound, or mapped, is libtorrent's business, and the
  program looks at neither outcome.
- The text of names, paths and URIs, except what `removeFiles` does with the download
  path.
- `/priority` with an index of no file: libtorrent does not define what it does with it.
- Deadlines (`torrentfs.go:170` computes negative ones): they order pieces that the
  priorities want anyway.
- Memory: the `defer` inside the loop of `handleSignals` is a hazard that is listed only.
- Platform and build files.

`Lifecycle` and `Shutdown` are not composed: the first knows of the second that it
ends, which `ShutdownExits` shows, and the second of the first that it may be told
to stop at any time, which allows more than the first does.

## 8. What could come next

1. The seeks of streams and `Buffering`'s requests over one vector of priorities: at
present `TorrentStream` has the others as `OthersVectors` and `Buffering` has no
streams, so that a client that streams one file while it selects another is seen    from
either side only. 2. An abstract specification of the selection of files, of which
`SelectedFileIsFetched`    and `FullBufferIsThere` would be consequences for orderly
clients, with `Buffering` as its    refinement.
