------------------------------ MODULE Lifecycle ------------------------------
(***************************************************************************)
(* How a torrent2http process decides to stop.  Four kinds of goroutine    *)
(* meet on the channel forceShutdown: the loop of handleSignals (its only  *)
(* receiver, and also one of its senders), the HTTP handlers of /shutdown  *)
(* and /stopanddelete, and inactiveAutoShutdown, which counts the requests *)
(* in service through connTrackChannel.                                    *)
(*                                                                         *)
(* shutdown() itself is one control point here; what it does between its   *)
(* first call and os.Exit is the module Shutdown.                          *)
(***************************************************************************)
EXTENDS Integers, Sequences, FiniteSets

CONSTANTS
    Requests,      \* HTTP requests, each made at most once
    Routes,        \* the routes the clients use, a subset of AllRoutes
    ExitOnFinish,  \* -exit-on-finish
    IdleEnabled,   \* -max-idle is positive
    ConnCap,       \* capacity of connTrackChannel, 10 in the code
    MaxSignals,    \* bound: how many SIGINT or SIGTERM the process is sent
    ParentMayDie   \* whether the process may be adopted by process 1

\* "/status" stands for every handler that only answers, "/priority" for the
\* handlers that dereference torrentInfo before they know it is there, and
\* "/files" for those that last as long as a download.
AllRoutes == {"/shutdown", "/stopanddelete", "/status", "/priority", "/files"}
StopRoutes == {"/shutdown", "/stopanddelete"}

ASSUME LifecycleAssumption ==
    /\ IsFiniteSet(Requests)
    /\ Routes \subseteq AllRoutes
    /\ ExitOnFinish \in BOOLEAN
    /\ IdleEnabled \in BOOLEAN
    /\ ConnCap \in Nat \ {0}
    /\ MaxSignals \in Nat
    /\ ParentMayDie \in BOOLEAN

VARIABLES
    proc,               \* "up", "exited" (os.Exit), "fatal" (log.Fatal), "killed"
    main,               \* control point of main
    hs,                 \* control point of handleSignals
    forceShutdown,      \* "nil", or a channel of capacity one: "empty", "full"
    signalChan,         \* "nil" before signal.Notify, then "empty" or "full"
    signals,            \* how many signals have been sent
    torrentInfo,        \* TRUE once the metadata is there
    finished,           \* libtorrent reports finished or seeding
    orphaned,           \* os.Getppid() = 1
    req,                \* control point of each request's goroutine
    route,              \* the route of each request
    connTrack,          \* connTrackChannel, each increment with its sender
    idle,               \* control point of inactiveAutoShutdown
    activeConnections,  \* its counter
    asked               \* history: 0, 1, or 2 for "two or more" decisions to stop

loopVars == <<hs, signalChan, torrentInfo>>
envVars  == <<signals, finished, orphaned>>
reqVars  == <<req, route>>
idleVars == <<idle, activeConnections>>
vars == <<proc, main, loopVars, forceShutdown, envVars, reqVars, connTrack,
          idleVars, asked>>

Up == proc = "up"

\* The points at which handleSignals is sending to the channel it receives from.
LoopSends == {"sendSignal", "sendFinish", "sendOrphan"}

\* The points of a request that the counter must count.
InService == {"serve", "send", "stuck", "leave", "panicked"}

Elements(s) == {s[i] : i \in DOMAIN s}

\* asked never needs to tell more than "none", "one" and "several" apart.
Ask == asked' = IF asked = 0 THEN 1 ELSE 2

-----------------------------------------------------------------------------
Init ==
    /\ proc = "up"
    /\ main = "boot"
    /\ hs = "none"
    /\ forceShutdown = "nil"
    /\ signalChan = "nil"
    /\ signals = 0
    /\ torrentInfo \in BOOLEAN    \* addTorrent may already have the metadata
    /\ finished = FALSE
    /\ orphaned \in {FALSE, ParentMayDie}
    /\ req = [r \in Requests |-> "new"]
    /\ route = [r \in Requests |-> "/status"]
    /\ connTrack = << >>
    /\ idle = "off"
    /\ activeConnections = 0
    /\ asked = 0

-----------------------------------------------------------------------------
(* main *)

\* go handleSignals()
SpawnSignals ==
    /\ Up
    /\ main = "boot"
    /\ main' = "http"
    /\ hs' = "start"
    /\ UNCHANGED <<proc, signalChan, torrentInfo, forceShutdown, envVars,
                   reqVars, connTrack, idleVars, asked>>

\* startHTTP, up to the call of ListenAndServe
StartHTTP ==
    /\ Up
    /\ main = "http"
    /\ main' = "listen"
    /\ idle' = IF IdleEnabled THEN "select" ELSE "off"
    /\ UNCHANGED <<proc, loopVars, forceShutdown, envVars, reqVars, connTrack,
                   activeConnections, asked>>

\* ListenAndServe binds the address, or fails and log.Fatal ends the process.
Listen ==
    /\ Up
    /\ main = "listen"
    /\ \/ main' = "serving" /\ UNCHANGED proc
       \/ main' = "failed" /\ proc' = "fatal"
    /\ UNCHANGED <<loopVars, forceShutdown, envVars, reqVars, connTrack,
                   idleVars, asked>>

Main == SpawnSignals \/ StartHTTP \/ Listen

-----------------------------------------------------------------------------
(* handleSignals *)

\* make(chan bool, 1), and signal.Notify
MakeChannels ==
    /\ Up
    /\ hs = "start"
    /\ hs' = "select"
    /\ forceShutdown' = "empty"
    /\ signalChan' = "empty"
    /\ UNCHANGED <<proc, main, torrentInfo, envVars, reqVars, connTrack,
                   idleVars, asked>>

\* Mutant of TakeShutdown: the value is received and nothing done about it.
TakeShutdownIgnored ==
    /\ Up
    /\ hs = "select"
    /\ forceShutdown = "full"
    /\ forceShutdown' = "empty"
    /\ UNCHANGED <<proc, main, hs, signalChan, torrentInfo, envVars, reqVars,
                   connTrack, idleVars, asked>>

\* case <-forceShutdown: shutdown() begins
TakeShutdown ==
    /\ Up
    /\ hs = "select"
    /\ forceShutdown = "full"
    /\ forceShutdown' = "empty"
    /\ hs' = "shutdown"
    /\ UNCHANGED <<proc, main, signalChan, torrentInfo, envVars, reqVars,
                   connTrack, idleVars, asked>>

\* case <-signalChan: the loop is about to send to forceShutdown.  A select
\* with several ready cases takes any of them, so forceShutdown may be full.
TakeSignal ==
    /\ Up
    /\ hs = "select"
    /\ signalChan = "full"
    /\ signalChan' = "empty"
    /\ hs' = "sendSignal"
    /\ Ask
    /\ UNCHANGED <<proc, main, torrentInfo, forceShutdown, envVars, reqVars,
                   connTrack, idleVars>>

\* Mutant of Tick: -exit-on-finish is not looked at.
TickPastFinish ==
    /\ Up
    /\ hs = "select"
    /\ forceShutdown # "full"
    /\ signalChan # "full"
    /\ torrentInfo' \in {torrentInfo, TRUE}
    /\ hs' = "ppid"
    /\ UNCHANGED <<proc, main, signalChan, forceShutdown, envVars, reqVars,
                   connTrack, idleVars, asked>>

\* case <-time.After(500ms): consumeAlerts, which may deliver the metadata,
\* then the status.  The timer is made as the select begins, so a channel that
\* is ready by then is taken before it.
Tick ==
    /\ Up
    /\ hs = "select"
    /\ forceShutdown # "full"
    /\ signalChan # "full"
    /\ torrentInfo' \in {torrentInfo, TRUE}
    /\ IF ExitOnFinish /\ finished
       THEN hs' = "sendFinish" /\ Ask
       ELSE hs' = "ppid" /\ UNCHANGED asked
    /\ UNCHANGED <<proc, main, signalChan, forceShutdown, envVars, reqVars,
                   connTrack, idleVars>>

\* if os.Getppid() == 1, the second test of the same case
CheckParent ==
    /\ Up
    /\ hs = "ppid"
    /\ IF orphaned
       THEN hs' = "sendOrphan" /\ Ask
       ELSE hs' = "select" /\ UNCHANGED asked
    /\ UNCHANGED <<proc, main, signalChan, torrentInfo, forceShutdown, envVars,
                   reqVars, connTrack, idleVars>>

\* Mutant of LoopSend: the loop sends once more before it receives.
LoopSendTwice ==
    /\ Up
    /\ hs \in LoopSends
    /\ forceShutdown = "empty"
    /\ forceShutdown' = "full"
    /\ UNCHANGED <<proc, main, hs, signalChan, torrentInfo, envVars, reqVars, connTrack,
                   idleVars, asked>>

\* forceShutdown <- true, by the loop: it waits while the channel is full.
LoopSend ==
    /\ Up
    /\ hs \in LoopSends
    /\ forceShutdown = "empty"
    /\ forceShutdown' = "full"
    /\ hs' = IF hs = "sendFinish" THEN "ppid" ELSE "select"
    /\ UNCHANGED <<proc, main, signalChan, torrentInfo, envVars, reqVars,
                   connTrack, idleVars, asked>>

\* shutdown() reaches os.Exit(0).
Exit ==
    /\ Up
    /\ hs = "shutdown"
    /\ proc' = "exited"
    /\ UNCHANGED <<main, loopVars, forceShutdown, envVars, reqVars, connTrack,
                   idleVars, asked>>

HandleSignals ==
    \/ MakeChannels
    \/ TakeShutdown
    \/ TakeSignal
    \/ Tick
    \/ CheckParent
    \/ LoopSend
    \/ Exit

-----------------------------------------------------------------------------
(* The goroutine of one HTTP request *)

Arrive(r, k) ==
    /\ Up
    /\ main = "serving"
    /\ req[r] = "new"
    /\ route' = [route EXCEPT ![r] = k]
    /\ req' = [req EXCEPT ![r] = IF IdleEnabled THEN "enter" ELSE "serve"]
    /\ UNCHANGED <<proc, main, loopVars, forceShutdown, envVars, connTrack,
                   idleVars, asked>>

\* Mutant of CountIn: a channel that never blocks its senders.
CountInUnbounded(r) ==
    /\ Up
    /\ req[r] = "enter"
    /\ connTrack' = Append(connTrack, <<r, 1>>)
    /\ req' = [req EXCEPT ![r] = "serve"]
    /\ UNCHANGED <<proc, main, loopVars, forceShutdown, envVars, route,
                   idleVars, asked>>

\* connTrackChannel <- 1
CountIn(r) ==
    /\ Up
    /\ req[r] = "enter"
    /\ Len(connTrack) < ConnCap
    /\ connTrack' = Append(connTrack, <<r, 1>>)
    /\ req' = [req EXCEPT ![r] = "serve"]
    /\ UNCHANGED <<proc, main, loopVars, forceShutdown, envVars, route,
                   idleVars, asked>>

AfterHandler == IF IdleEnabled THEN "leave" ELSE "done"

\* A handler that only answers returns; /priority panics while torrentInfo is
\* nil, and net/http recovers: the rest of connectionCounterHandler is skipped.
Answer(r) ==
    /\ Up
    /\ req[r] = "serve"
    /\ route[r] \in {"/status", "/priority"}
    /\ req' = [req EXCEPT ![r] = IF route[r] = "/priority" /\ ~torrentInfo
                                 THEN "panicked"
                                 ELSE AfterHandler]
    /\ UNCHANGED <<proc, main, loopVars, forceShutdown, envVars, route,
                   connTrack, idleVars, asked>>

\* A stream ends when its data is there or its client leaves.
EndStream(r) ==
    /\ Up
    /\ req[r] = "serve"
    /\ route[r] = "/files"
    /\ req' = [req EXCEPT ![r] = AfterHandler]
    /\ UNCHANGED <<proc, main, loopVars, forceShutdown, envVars, route,
                   connTrack, idleVars, asked>>

\* /shutdown and /stopanddelete write their answer and are about to send.  A
\* send on a nil channel never returns.
AskToStop(r) ==
    /\ Up
    /\ req[r] = "serve"
    /\ route[r] \in StopRoutes
    /\ req' = [req EXCEPT ![r] = IF forceShutdown = "nil" THEN "stuck" ELSE "send"]
    /\ Ask
    /\ UNCHANGED <<proc, main, loopVars, forceShutdown, envVars, route,
                   connTrack, idleVars>>

\* forceShutdown <- true, by the handler
RequestSend(r) ==
    /\ Up
    /\ req[r] = "send"
    /\ forceShutdown = "empty"
    /\ forceShutdown' = "full"
    /\ req' = [req EXCEPT ![r] = AfterHandler]
    /\ UNCHANGED <<proc, main, loopVars, envVars, route, connTrack, idleVars,
                   asked>>

\* Mutant of CountOut: the second send of connectionCounterHandler is missing.
CountOutUnsent(r) ==
    /\ Up
    /\ req[r] = "leave"
    /\ req' = [req EXCEPT ![r] = "done"]
    /\ UNCHANGED <<proc, main, loopVars, forceShutdown, envVars, route, connTrack,
                   idleVars, asked>>

\* connTrackChannel <- -1
CountOut(r) ==
    /\ Up
    /\ req[r] = "leave"
    /\ Len(connTrack) < ConnCap
    /\ connTrack' = Append(connTrack, <<r, -1>>)
    /\ req' = [req EXCEPT ![r] = "done"]
    /\ UNCHANGED <<proc, main, loopVars, forceShutdown, envVars, route,
                   idleVars, asked>>

Request(r) ==
    \/ \E k \in Routes : Arrive(r, k)
    \/ CountIn(r)
    \/ Answer(r)
    \/ EndStream(r)
    \/ AskToStop(r)
    \/ RequestSend(r)
    \/ CountOut(r)

-----------------------------------------------------------------------------
(* inactiveAutoShutdown *)

\* Both branches of the loop receive the increments one by one.
IdleReceive ==
    /\ Up
    /\ idle = "select"
    /\ connTrack # << >>
    /\ activeConnections' = activeConnections + Head(connTrack)[2]
    /\ connTrack' = Tail(connTrack)
    /\ UNCHANGED <<proc, main, loopVars, forceShutdown, envVars, reqVars, idle,
                   asked>>

\* Mutant of IdleTimeout: the timer runs whatever the counter.
IdleTimeoutAlways ==
    /\ Up
    /\ idle = "select"
    /\ forceShutdown # "nil"
    /\ idle' = "send"
    /\ Ask
    /\ UNCHANGED <<proc, main, loopVars, forceShutdown, envVars, reqVars,
                   connTrack, activeConnections>>

\* case <-time.After(idleTimeout).  An increment may already be in the channel.
\* The timeout is a second or more, and handleSignals was started before: it has
\* made forceShutdown.
IdleTimeout ==
    /\ Up
    /\ idle = "select"
    /\ activeConnections = 0
    /\ forceShutdown # "nil"
    /\ idle' = "send"
    /\ Ask
    /\ UNCHANGED <<proc, main, loopVars, forceShutdown, envVars, reqVars,
                   connTrack, activeConnections>>

\* forceShutdown <- true, by inactiveAutoShutdown, which then goes on
IdleSend ==
    /\ Up
    /\ idle = "send"
    /\ forceShutdown = "empty"
    /\ forceShutdown' = "full"
    /\ idle' = "select"
    /\ UNCHANGED <<proc, main, loopVars, envVars, reqVars, connTrack,
                   activeConnections, asked>>

Idle == IdleReceive \/ IdleTimeout \/ IdleSend

-----------------------------------------------------------------------------
(* The world outside *)

\* Before signal.Notify a signal has its default action.  Notify drops a signal
\* that finds signalChan full.
Interrupt ==
    /\ Up
    /\ signals < MaxSignals
    /\ signals' = signals + 1
    /\ IF signalChan = "nil"
       THEN proc' = "killed" /\ UNCHANGED signalChan
       ELSE signalChan' = "full" /\ UNCHANGED proc
    /\ UNCHANGED <<main, hs, torrentInfo, forceShutdown, finished, orphaned,
                   reqVars, connTrack, idleVars, asked>>

\* The torrent finishes, or a changed priority makes it download again.
TorrentState ==
    /\ Up
    /\ finished' = ~finished
    /\ UNCHANGED <<proc, main, loopVars, forceShutdown, signals, orphaned,
                   reqVars, connTrack, idleVars, asked>>

ParentDies ==
    /\ Up
    /\ ParentMayDie
    /\ ~orphaned
    /\ orphaned' = TRUE
    /\ UNCHANGED <<proc, main, loopVars, forceShutdown, signals, finished,
                   reqVars, connTrack, idleVars, asked>>

World == Interrupt \/ TorrentState \/ ParentDies

-----------------------------------------------------------------------------
Next ==
    \/ Main
    \/ HandleSignals
    \/ \E r \in Requests : Request(r)
    \/ Idle
    \/ World

\* Every goroutine that can run does: the Go scheduler starves none.  Nothing
\* is assumed of the clients, of the end of a stream, or of the outside world.
Fairness ==
    /\ WF_vars(Main)
    /\ WF_vars(HandleSignals)
    /\ WF_vars(Idle)
    /\ \A r \in Requests :
         /\ WF_vars(CountIn(r) \/ Answer(r) \/ AskToStop(r))
         /\ WF_vars(RequestSend(r) \/ CountOut(r))

Spec == Init /\ [][Next]_vars /\ Fairness

-----------------------------------------------------------------------------
(* Properties *)

TypeOK ==
    /\ proc \in {"up", "exited", "fatal", "killed"}
    /\ main \in {"boot", "http", "listen", "serving", "failed"}
    /\ hs \in {"none", "start", "select", "ppid", "shutdown"} \cup LoopSends
    /\ forceShutdown \in {"nil", "empty", "full"}
    /\ signalChan \in {"nil", "empty", "full"}
    /\ signals \in Nat
    /\ torrentInfo \in BOOLEAN /\ finished \in BOOLEAN /\ orphaned \in BOOLEAN
    /\ req \in [Requests -> {"new", "enter", "done"} \cup InService]
    /\ route \in [Requests -> AllRoutes]
    /\ connTrack \in Seq(Requests \X {1, -1})
    /\ Len(connTrack) <= ConnCap
    /\ idle \in {"off", "select", "send"}
    /\ activeConnections \in Int
    /\ asked \in 0..2

\* The requests whose +1 inactiveAutoShutdown has received and whose -1 it has
\* not.
Counted ==
    {r \in Requests :
        /\ req[r] \in InService \cup {"done"}
        /\ <<r, 1>> \notin Elements(connTrack)
        /\ req[r] = "done" => <<r, -1>> \in Elements(connTrack)}

\* The counter of inactiveAutoShutdown is exact: whatever the order in which
\* requests come, go and are counted, it is the number of requests counted in
\* and not yet out (connectionCounterHandler, inactiveAutoShutdown).
CounterExact == IdleEnabled => activeConnections = Cardinality(Counted)

\* The idle timer never overlooks a request it has been told of: when it fires,
\* the +1 of every request still in service is waiting in connTrackChannel
\* (the select of inactiveAutoShutdown).
IdleOverlooksNoCountedRequest ==
    [][(idle = "select" /\ idle' = "send") =>
          \A r \in Requests :
             req[r] \in InService => <<r, 1>> \in Elements(connTrack)]_vars

\* The loop waits on the channel that only it empties: it can never go on.
LoopWedged == hs \in LoopSends /\ forceShutdown = "full"

\* One decision to stop cannot wedge the loop of handleSignals: that takes a
\* second one, from whatever source, before the first is received.
OneDecisionNeverWedges == LoopWedged => asked = 2

\* No sender found forceShutdown nil.
NoneStuck == \A r \in Requests : req[r] # "stuck"

\* If just one goroutine ever decides that the process must stop, and finds the
\* channel made, the process stops: whichever of /shutdown, a signal, the end of
\* the download, the death of the parent and the idle timer it was.
OneDecisionStops ==
    [](asked <= 1 /\ NoneStuck) => ((asked = 1) ~> ~Up)

\* A request to stop whose handler has gone past its send ends the process: the
\* README says of /shutdown that it "Gracefully shuts down torrent2http".
Accepted(r) == route[r] \in StopRoutes /\ req[r] \in {"leave", "done"}
AcceptedShutdownStops == \A r \in Requests : Accepted(r) ~> ~Up

\* The same, as long as handleSignals itself does not send: any number of handlers
\* and the idle timer may, in any order.
AcceptedStopsUnlessLoopSends == [](hs \notin LoopSends) => AcceptedShutdownStops

\* -exit-on-finish, "Exit when download finished": a torrent that finishes for
\* good ends the process, when nobody else wants to stop it too.
FinishedStops ==
    (ExitOnFinish /\ [](asked <= 1) /\ <>[]finished) => <>(~Up)

\* -max-idle, "Automatically shutdown if no connection are active after a
\* timeout": once no request is being handled for good, the process ends, when
\* nobody else wants to stop it too and no handler has panicked.
Quiet == \A r \in Requests : req[r] \in {"new", "done"}
IdleStops ==
    (IdleEnabled /\ [](asked <= 1) /\ <>[](main = "serving" /\ Quiet)) => <>(~Up)
=============================================================================
