--------------------------- MODULE LifecycleProofs ---------------------------
(***************************************************************************)
(* Theorems about Lifecycle, for any finite set of requests, any routes,   *)
(* any capacity of connTrackChannel and any number of signals.             *)
(***************************************************************************)
EXTENDS Lifecycle, FiniteSetTheorems, TLAPS

-----------------------------------------------------------------------------
(* Channels as sequences *)

\* What a send adds to the elements of a channel.
LEMMA AppendElements ==
    ASSUME NEW S, NEW s \in Seq(S), NEW e \in S
    PROVE  Elements(Append(s, e)) = Elements(s) \cup {e}
<1>1. DOMAIN s = 1..Len(s) /\ DOMAIN Append(s, e) = 1..(Len(s) + 1)
  OBVIOUS
<1>2. /\ \A i \in 1..Len(s) : Append(s, e)[i] = s[i]
      /\ Append(s, e)[Len(s) + 1] = e
  OBVIOUS
<1>3. Len(s) \in Nat /\ 1..(Len(s) + 1) = 1..Len(s) \cup {Len(s) + 1}
  OBVIOUS
<1> QED BY <1>1, <1>2, <1>3 DEF Elements

\* What a receive takes from the elements of a channel that holds nothing twice.
LEMMA TailElements ==
    ASSUME NEW S, NEW s \in Seq(S), s # << >>,
           \A i, j \in DOMAIN s : s[i] = s[j] => i = j
    PROVE  Elements(Tail(s)) = Elements(s) \ {Head(s)}
<1>1. /\ Len(s) \in Nat \ {0}
      /\ DOMAIN s = 1..Len(s)
      /\ DOMAIN Tail(s) = 1..(Len(s) - 1)
      /\ Head(s) = s[1]
      /\ \A i \in 1..(Len(s) - 1) : Tail(s)[i] = s[i + 1]
  OBVIOUS
<1>2. ASSUME NEW x \in Elements(Tail(s)) PROVE x \in Elements(s) \ {Head(s)}
  <2>1. PICK i \in 1..(Len(s) - 1) : x = s[i + 1]
    BY <1>1 DEF Elements
  <2>2. i + 1 \in DOMAIN s /\ 1 \in DOMAIN s /\ i + 1 # 1
    BY <1>1
  <2> QED BY <1>1, <2>1, <2>2 DEF Elements
<1>3. ASSUME NEW x \in Elements(s) \ {Head(s)} PROVE x \in Elements(Tail(s))
  <2>1. PICK i \in DOMAIN s : x = s[i]
    BY DEF Elements
  <2>2. i # 1 /\ i - 1 \in 1..(Len(s) - 1) /\ (i - 1) + 1 = i
    BY <1>1, <1>3, <2>1
  <2>3. Tail(s)[i - 1] = x
    BY <1>1, <2>1, <2>2
  <2> QED BY <1>1, <2>2, <2>3 DEF Elements
<1> QED BY <1>2, <1>3

-----------------------------------------------------------------------------
(* Types *)

\* Every step keeps the variables in their types.
LEMMA TypeStep == TypeOK /\ [Next]_vars => TypeOK'
<1> SUFFICES ASSUME TypeOK, [Next]_vars PROVE TypeOK'
  OBVIOUS
<1> USE LifecycleAssumption
<1>1. CASE Main
  BY <1>1 DEF TypeOK, Main, SpawnSignals, StartHTTP, Listen, loopVars, envVars,
     reqVars, idleVars
<1>2. CASE HandleSignals
  <2> USE DEF TypeOK, LoopSends, envVars, reqVars, idleVars
  <2>1. CASE MakeChannels
    BY <2>1 DEF MakeChannels
  <2>2. CASE TakeShutdown
    BY <2>2 DEF TakeShutdown
  <2>3. CASE TakeSignal
    BY <2>3 DEF TakeSignal, Ask
  <2>4. CASE Tick
    <3>1. torrentInfo' \in BOOLEAN
      BY <2>4, Zenon DEF Tick
    <3>2. asked' \in 0..2 /\ hs' \in {"sendFinish", "ppid"}
      BY <2>4 DEF Tick, Ask
    <3> QED BY <2>4, <3>1, <3>2 DEF Tick
  <2>5. CASE CheckParent
    BY <2>5 DEF CheckParent, Ask
  <2>6. CASE LoopSend
    BY <2>6 DEF LoopSend
  <2>7. CASE Exit
    BY <2>7 DEF Exit, loopVars
  <2> QED BY <1>2, <2>1, <2>2, <2>3, <2>4, <2>5, <2>6, <2>7 DEF HandleSignals
<1>3. ASSUME NEW r \in Requests, Request(r) PROVE TypeOK'
  <2> USE DEF TypeOK, InService, loopVars, envVars, reqVars, idleVars
  <2>1. ASSUME NEW k \in Routes, Arrive(r, k) PROVE TypeOK'
    BY <2>1 DEF Arrive
  <2>2. CASE CountIn(r) \/ CountOut(r)
    <3>1. \A e \in Requests \X {1, -1} :
             Len(connTrack) < ConnCap =>
                /\ Append(connTrack, e) \in Seq(Requests \X {1, -1})
                /\ Len(Append(connTrack, e)) <= ConnCap
      OBVIOUS
    <3>2. <<r, 1>> \in Requests \X {1, -1} /\ <<r, -1>> \in Requests \X {1, -1}
      OBVIOUS
    <3>3. connTrack' \in Seq(Requests \X {1, -1}) /\ Len(connTrack') <= ConnCap
      BY <2>2, <3>1, <3>2 DEF CountIn, CountOut
    <3>4. req' \in [Requests -> {"new", "enter", "done"} \cup InService]
      BY <2>2 DEF CountIn, CountOut
    <3>5. UNCHANGED <<proc, main, loopVars, forceShutdown, envVars, route,
                     idleVars, asked>>
      BY <2>2 DEF CountIn, CountOut
    <3> QED BY <3>3, <3>4, <3>5
  <2>3. CASE Answer(r) \/ EndStream(r)
    <3>1. PICK c \in {"panicked", "leave", "done"} : req' = [req EXCEPT ![r] = c]
      BY <2>3, Zenon DEF Answer, EndStream, AfterHandler
    <3> QED BY <2>3, <3>1 DEF Answer, EndStream
  <2>4. CASE AskToStop(r)
    BY <2>4 DEF AskToStop, Ask
  <2>5. CASE RequestSend(r)
    BY <2>5 DEF RequestSend, AfterHandler
  <2> QED BY <1>3, <2>1, <2>2, <2>3, <2>4, <2>5 DEF Request
<1>4. CASE Idle
  <2>1. CASE IdleReceive
    <3>1. /\ Head(connTrack) \in Requests \X {1, -1}
          /\ Tail(connTrack) \in Seq(Requests \X {1, -1})
          /\ Len(Tail(connTrack)) <= ConnCap
      BY <2>1 DEF IdleReceive, TypeOK
    <3>2. Head(connTrack)[2] \in {1, -1}
      BY <3>1
    <3>3. activeConnections' \in Int
      BY <2>1, <3>2 DEF IdleReceive, TypeOK
    <3> QED BY <2>1, <3>1, <3>3 DEF IdleReceive, TypeOK, loopVars, envVars, reqVars
  <2>2. CASE IdleTimeout \/ IdleSend
    BY <2>2 DEF IdleTimeout, IdleSend, Ask, TypeOK, loopVars, envVars, reqVars
  <2> QED BY <1>4, <2>1, <2>2 DEF Idle
<1>5. CASE World
  <2>1. finished' \in BOOLEAN /\ orphaned' \in BOOLEAN /\ torrentInfo' \in BOOLEAN
    BY <1>5, Zenon DEF TypeOK, World, Interrupt, TorrentState, ParentDies, loopVars
  <2> QED BY <1>5, <2>1 DEF TypeOK, World, Interrupt, TorrentState, ParentDies,
             loopVars, reqVars, idleVars
<1>6. CASE UNCHANGED vars
  BY <1>6 DEF TypeOK, vars, loopVars, envVars, reqVars, idleVars
<1> QED BY <1>1, <1>2, <1>3, <1>4, <1>5, <1>6 DEF Next

\* The initial values have their types.
LEMMA InitTypeOK == Init => TypeOK
<1> SUFFICES ASSUME Init PROVE TypeOK
  OBVIOUS
<1>1. torrentInfo \in BOOLEAN /\ finished \in BOOLEAN /\ orphaned \in BOOLEAN
  BY LifecycleAssumption, Zenon DEF Init
<1>2. /\ connTrack \in Seq(Requests \X {1, -1}) /\ Len(connTrack) <= ConnCap
      /\ activeConnections \in Int /\ signals \in Nat /\ asked \in 0..2
  BY LifecycleAssumption DEF Init
<1> QED BY <1>1, <1>2 DEF Init, TypeOK, AllRoutes, LoopSends

\* The variables of the process's stop machinery keep their types for ever.
THEOREM TypeCorrect == Spec => []TypeOK
  BY InitTypeOK, TypeStep, PTL DEF Spec

-----------------------------------------------------------------------------
(* One decision to stop cannot wedge handleSignals *)

\* No value is in forceShutdown, and no goroutine is about to send one.
NonePending ==
    /\ forceShutdown # "full"
    /\ hs \notin LoopSends
    /\ idle # "send"
    /\ \A r \in Requests : req[r] # "send"

\* At most one value is in forceShutdown or about to be sent to it.
OnePending ==
    /\ forceShutdown = "full" => hs \notin LoopSends /\ idle # "send"
    /\ hs \in LoopSends => idle # "send"
    /\ \A r \in Requests :
          req[r] = "send" => /\ forceShutdown # "full"
                             /\ hs \notin LoopSends
                             /\ idle # "send"
    /\ \A r, q \in Requests : req[r] = "send" /\ req[q] = "send" => r = q

\* Every pending value has its decision.
DecisionInv ==
    /\ TypeOK
    /\ asked = 0 => NonePending
    /\ asked <= 1 => OnePending

\* Every step keeps the decisions ahead of the values they send.
LEMMA DecisionStep == DecisionInv /\ [Next]_vars => DecisionInv'
<1> SUFFICES ASSUME DecisionInv, [Next]_vars PROVE DecisionInv'
  OBVIOUS
<1>0. TypeOK /\ TypeOK'
  BY TypeStep DEF DecisionInv
<1> USE DEF NonePending, OnePending, DecisionInv
<1>1. CASE Main
  BY <1>0, <1>1 DEF Main, SpawnSignals, StartHTTP, Listen, LoopSends, loopVars,
     reqVars, idleVars
<1>2. CASE HandleSignals
  <2> USE <1>0 DEF LoopSends, reqVars, idleVars
  <2>1. CASE MakeChannels
    BY <2>1 DEF MakeChannels
  <2>2. CASE TakeShutdown
    BY <2>2 DEF TakeShutdown
  <2>3. CASE TakeSignal
    BY <2>3 DEF TakeSignal, Ask, TypeOK
  <2>4. CASE Tick
    BY <2>4 DEF Tick, Ask, TypeOK
  <2>5. CASE CheckParent
    BY <2>5 DEF CheckParent, Ask, TypeOK
  <2>6. CASE LoopSend
    BY <2>6 DEF LoopSend
  <2>7. CASE Exit
    BY <2>7 DEF Exit, loopVars
  <2> QED BY <1>2, <2>1, <2>2, <2>3, <2>4, <2>5, <2>6, <2>7 DEF HandleSignals
<1>3. ASSUME NEW r \in Requests, Request(r) PROVE DecisionInv'
  <2> USE <1>0 DEF LoopSends, loopVars, idleVars
  <2>0. req \in [Requests -> {"new", "enter", "done"} \cup InService] /\ asked \in 0..2
    BY DEF TypeOK
  <2>1. ASSUME NEW k \in Routes, Arrive(r, k) PROVE DecisionInv'
    BY <2>0, <2>1 DEF Arrive
  <2>2. CASE CountIn(r) \/ CountOut(r) \/ Answer(r) \/ EndStream(r)
    <3>1. PICK c \in {"serve", "panicked", "leave", "done"} : req' = [req EXCEPT ![r] = c]
      BY <2>2, Zenon DEF CountIn, CountOut, Answer, EndStream, AfterHandler
    <3>2. UNCHANGED <<forceShutdown, hs, idle, asked>>
      BY <2>2 DEF CountIn, CountOut, Answer, EndStream
    <3> QED BY <2>0, <3>1, <3>2
  <2>3. CASE AskToStop(r)
    <3>1. PICK c \in {"stuck", "send"} : req' = [req EXCEPT ![r] = c]
      BY <2>3, Zenon DEF AskToStop
    <3> QED BY <2>0, <2>3, <3>1 DEF AskToStop, Ask
  <2>4. CASE RequestSend(r)
    <3>1. PICK c \in {"leave", "done"} : req' = [req EXCEPT ![r] = c]
      BY <2>4, Zenon DEF RequestSend, AfterHandler
    <3> QED BY <2>0, <2>4, <3>1 DEF RequestSend
  <2> QED BY <1>3, <2>1, <2>2, <2>3, <2>4 DEF Request
<1>4. CASE Idle
  BY <1>0, <1>4 DEF Idle, IdleReceive, IdleTimeout, IdleSend, Ask, TypeOK, LoopSends,
     loopVars, reqVars
<1>5. CASE World
  BY <1>0, <1>5 DEF World, Interrupt, TorrentState, ParentDies, LoopSends,
     loopVars, reqVars, idleVars
<1>6. CASE UNCHANGED vars
  BY <1>0, <1>6 DEF vars, loopVars, reqVars, idleVars
<1> QED BY <1>1, <1>2, <1>3, <1>4, <1>5, <1>6 DEF Next

\* Whatever the requests, signals, timers and parents, the loop of handleSignals
\* blocks on its own channel only after two decisions to stop.
THEOREM OneDecision == Spec => []OneDecisionNeverWedges
<1>1. ASSUME Init PROVE DecisionInv
  <2>1. TypeOK
    BY <1>1, InitTypeOK
  <2> QED BY <1>1, <2>1 DEF Init, DecisionInv, NonePending, OnePending, LoopSends
<1>2. DecisionInv => OneDecisionNeverWedges
  BY DEF DecisionInv, OnePending, OneDecisionNeverWedges, LoopWedged, TypeOK
<1> QED BY <1>1, <1>2, DecisionStep, PTL DEF Spec

-----------------------------------------------------------------------------
(* The counter of requests in service is exact *)

\* connTrackChannel holds at most one increment of each sign from each request,
\* and its +1 before its -1.
QueueOrder ==
    \A i, j \in DOMAIN connTrack :
        i < j /\ connTrack[i][1] = connTrack[j][1] =>
           connTrack[i][2] = 1 /\ connTrack[j][2] = -1

\* An increment in the channel was sent by a request that has gone so far.
QueueCause ==
    \A r \in Requests :
        /\ <<r, 1>> \in Elements(connTrack) => req[r] \in InService \cup {"done"}
        /\ <<r, -1>> \in Elements(connTrack) => req[r] = "done"
        /\ req[r] = "done" /\ <<r, 1>> \in Elements(connTrack) =>
              <<r, -1>> \in Elements(connTrack)

CountInv ==
    /\ TypeOK
    /\ idle # "off" => IdleEnabled
    /\ IdleEnabled => QueueOrder /\ QueueCause /\ CounterExact

\* A step that leaves the channel and the counter alone, and moves no request in
\* or out of service, leaves the count right.
LEMMA CountUndisturbed ==
    ASSUME CountInv, TypeOK',
           UNCHANGED <<connTrack, activeConnections>>,
           idle' # "off" => IdleEnabled,
           IdleEnabled =>
              \A r \in Requests :
                 /\ req'[r] \in InService \cup {"done"} <=> req[r] \in InService \cup {"done"}
                 /\ req'[r] = "done" <=> req[r] = "done"
    PROVE  CountInv'
<1> SUFFICES ASSUME IdleEnabled PROVE (QueueOrder /\ QueueCause /\ CounterExact)'
  BY DEF CountInv
<1>1. QueueOrder'
  BY DEF CountInv, QueueOrder
<1>2. Elements(connTrack)' = Elements(connTrack)
  BY DEF Elements
<1>3. QueueCause'
  BY <1>2 DEF CountInv, QueueCause
<1>4. Counted' = Counted
  BY <1>2 DEF Counted
<1> QED BY <1>1, <1>3, <1>4 DEF CountInv, CounterExact

\* The counter after a +1, or a -1, was received.
LEMMA CountReceived ==
    ASSUME TypeOK, TypeOK', IdleEnabled, QueueOrder, QueueCause, CounterExact,
           IdleReceive
    PROVE  (QueueOrder /\ QueueCause /\ CounterExact)'
<1> DEFINE e == Head(connTrack)
           E == Elements(connTrack)
<1>1. /\ connTrack \in Seq(Requests \X {1, -1}) /\ connTrack # << >>
      /\ connTrack' = Tail(connTrack)
      /\ activeConnections' = activeConnections + e[2]
      /\ req' = req
  BY DEF IdleReceive, TypeOK, reqVars
<1>2. /\ Len(connTrack) \in Nat \ {0}
      /\ DOMAIN connTrack = 1..Len(connTrack)
      /\ DOMAIN connTrack' = 1..(Len(connTrack) - 1)
      /\ e = connTrack[1]
      /\ \A i \in DOMAIN connTrack' : connTrack'[i] = connTrack[i + 1]
      /\ e \in Requests \X {1, -1}
  BY <1>1
<1>3. PICK r \in Requests, d \in {1, -1} : e = <<r, d>>
  BY <1>2
<1>4. QueueOrder'
  BY <1>2 DEF QueueOrder
<1>5. \A i, j \in DOMAIN connTrack : connTrack[i] = connTrack[j] => i = j
  <2> SUFFICES ASSUME NEW i \in DOMAIN connTrack, NEW j \in DOMAIN connTrack,
                      connTrack[i] = connTrack[j], i < j
               PROVE  FALSE
    BY <1>2
  <2> QED BY DEF QueueOrder
<1>6. Elements(connTrack)' = E \ {e}
  BY <1>1, <1>5, TailElements
<1>7. e \in E
  BY <1>2 DEF Elements
<1>8. d = 1 => \A q \in Requests : <<q, 1>> \in E /\ q = r => <<q, 1>> = e
  BY <1>3
<1>9. d = -1 => <<r, 1>> \notin E
  <2> SUFFICES ASSUME d = -1, NEW i \in DOMAIN connTrack, connTrack[i] = <<r, 1>>
               PROVE  FALSE
    BY DEF Elements
  <2>1. connTrack[1] = <<r, -1>> /\ i # 1
    BY <1>2, <1>3
  <2>2. 1 < i /\ connTrack[1][1] = connTrack[i][1] /\ connTrack[i][2] # -1
    BY <1>2, <2>1
  <2> QED BY <1>2, <2>2 DEF QueueOrder
<1>10. QueueCause'
  <2>1. \A q \in Requests, c \in {1, -1} :
           <<q, c>> \in Elements(connTrack)' <=> <<q, c>> \in E /\ ~(q = r /\ c = d)
    BY <1>3, <1>6
  <2> QED BY <1>1, <1>3, <1>7, <1>9, <2>1 DEF QueueCause
<1>11. Counted \subseteq Requests /\ IsFiniteSet(Counted)
  BY LifecycleAssumption, FS_Subset DEF Counted
<1>12. CASE d = 1
  <2>1. r \notin Counted
    BY <1>3, <1>7, <1>12 DEF Counted
  <2>2. Counted' = Counted \cup {r}
    BY <1>1, <1>3, <1>6, <1>7, <1>12 DEF Counted, QueueCause
  <2>3. Cardinality(Counted') = Cardinality(Counted) + 1
    BY <1>11, <2>1, <2>2, FS_AddElement
  <2> QED BY <1>1, <1>3, <1>4, <1>10, <1>12, <2>3 DEF CounterExact
<1>13. CASE d = -1
  <2>1. r \in Counted
    BY <1>3, <1>7, <1>9, <1>13 DEF Counted, QueueCause
  <2>2. Counted' = Counted \ {r}
    BY <1>1, <1>3, <1>6, <1>7, <1>9, <1>13 DEF Counted, QueueCause
  <2>3. Cardinality(Counted') = Cardinality(Counted) - 1
    BY <1>11, <2>1, <2>2, FS_RemoveElement
  <2>4. activeConnections' = activeConnections - 1 /\ activeConnections \in Int
    BY <1>1, <1>3, <1>13 DEF TypeOK
  <2> QED BY <1>4, <1>10, <2>3, <2>4 DEF CounterExact
<1> QED BY <1>12, <1>13

\* A request that sends its +1 is not counted before inactiveAutoShutdown has
\* received it, and one that sends its -1 still is.
LEMMA CountSent ==
    ASSUME TypeOK, TypeOK', QueueOrder, QueueCause, CounterExact, IdleEnabled,
           NEW r \in Requests, CountIn(r) \/ CountOut(r)
    PROVE  (QueueOrder /\ QueueCause /\ CounterExact)'
<1> DEFINE d == IF req[r] = "enter" THEN 1 ELSE -1
           E == Elements(connTrack)
<1>1. /\ connTrack \in Seq(Requests \X {1, -1})
      /\ req \in [Requests -> {"new", "enter", "done"} \cup InService]
      /\ activeConnections' = activeConnections
      /\ req' = [req EXCEPT ![r] = IF req[r] = "enter" THEN "serve" ELSE "done"]
      /\ req[r] \in {"enter", "leave"}
      /\ connTrack' = Append(connTrack, <<r, d>>)
  <2>1. /\ connTrack \in Seq(Requests \X {1, -1})
        /\ req \in [Requests -> {"new", "enter", "done"} \cup InService]
    BY DEF TypeOK
  <2> QED BY <2>1 DEF CountIn, CountOut, idleVars
<1>2. <<r, d>> \in Requests \X {1, -1}
  OBVIOUS
<1>3. Elements(connTrack)' = E \cup {<<r, d>>}
  BY <1>1, <1>2, AppendElements
<1>4. <<r, -1>> \notin E /\ (d = 1 => <<r, 1>> \notin E)
  BY <1>1 DEF QueueCause, InService
<1>5. QueueOrder'
  <2>1. /\ Len(connTrack) \in Nat
        /\ DOMAIN connTrack = 1..Len(connTrack)
        /\ DOMAIN connTrack' = 1..(Len(connTrack) + 1)
        /\ \A i \in DOMAIN connTrack : /\ connTrack'[i] = connTrack[i]
                                       /\ connTrack[i] \in Requests \X {1, -1}
        /\ connTrack'[Len(connTrack) + 1] = <<r, d>>
    BY <1>1, <1>2
  <2>2. ASSUME NEW i \in DOMAIN connTrack, connTrack[i][1] = r
        PROVE  connTrack[i] = <<r, 1>> /\ d = -1
    <3>1. connTrack[i] \in E /\ connTrack[i] \in {<<r, 1>>, <<r, -1>>}
      BY <2>1, <2>2 DEF Elements
    <3> QED BY <1>4, <3>1
  <2>3. SUFFICES ASSUME NEW i \in DOMAIN connTrack', NEW j \in DOMAIN connTrack',
                        i < j, connTrack'[i][1] = connTrack'[j][1]
                 PROVE  connTrack'[i][2] = 1 /\ connTrack'[j][2] = -1
    BY DEF QueueOrder
  <2>4. CASE j \in DOMAIN connTrack
    BY <2>1, <2>3, <2>4 DEF QueueOrder
  <2>5. CASE j = Len(connTrack) + 1
    <3>1. i \in DOMAIN connTrack /\ connTrack[i][1] = r
      BY <2>1, <2>3, <2>5
    <3> QED BY <2>1, <2>2, <2>5, <3>1
  <2> QED BY <2>1, <2>4, <2>5
<1>6. \A q \in Requests, c \in {1, -1} :
         <<q, c>> \in Elements(connTrack)' <=> <<q, c>> \in E \/ (q = r /\ c = d)
  BY <1>3
<1>7. \A q \in Requests \ {r} :
         /\ req'[q] = req[q]
         /\ <<q, 1>> \in Elements(connTrack)' <=> <<q, 1>> \in E
         /\ <<q, -1>> \in Elements(connTrack)' <=> <<q, -1>> \in E
  BY <1>1, <1>6
<1>8. CASE req[r] = "enter"
  <2>1. /\ req'[r] = "serve"
        /\ <<r, 1>> \in Elements(connTrack)' /\ <<r, -1>> \notin Elements(connTrack)'
    BY <1>1, <1>4, <1>6, <1>8
  <2>2. QueueCause'
    BY <1>7, <2>1 DEF QueueCause, InService
  <2>3. Counted' = Counted
    BY <1>7, <1>8, <2>1 DEF Counted, InService
  <2> QED BY <1>1, <1>5, <2>2, <2>3 DEF CounterExact
<1>9. CASE req[r] = "leave"
  <2>1. /\ req'[r] = "done"
        /\ <<r, 1>> \in Elements(connTrack)' <=> <<r, 1>> \in E
        /\ <<r, -1>> \in Elements(connTrack)'
    <3>1. d = -1 /\ req'[r] = "done"
      BY <1>1, <1>9
    <3> QED BY <1>6, <3>1
  <2>2. QueueCause'
    BY <1>7, <2>1 DEF QueueCause
  <2>3. Counted' = Counted
    BY <1>7, <1>9, <2>1 DEF Counted, InService
  <2> QED BY <1>1, <1>5, <2>2, <2>3 DEF CounterExact
<1> QED BY <1>1, <1>8, <1>9

\* Every step keeps the count of requests in service right.
LEMMA CountStep == CountInv /\ [Next]_vars => CountInv'
<1> SUFFICES ASSUME CountInv, [Next]_vars PROVE CountInv'
  OBVIOUS
<1>0. TypeOK /\ TypeOK' /\ req \in [Requests -> {"new", "enter", "done"} \cup InService]
  BY TypeStep DEF CountInv, TypeOK
<1>1. CASE Main
  BY <1>0, <1>1, CountUndisturbed DEF CountInv, Main, SpawnSignals, StartHTTP, Listen,
     reqVars, idleVars
<1>2. CASE HandleSignals
  BY <1>0, <1>2, CountUndisturbed DEF CountInv, HandleSignals, MakeChannels, TakeShutdown,
     TakeSignal, Tick, CheckParent, LoopSend, Exit, reqVars, idleVars
<1>3. ASSUME NEW r \in Requests, Request(r) PROVE CountInv'
  <2>1. ASSUME NEW k \in Routes, Arrive(r, k) PROVE CountInv'
    <3>1. /\ UNCHANGED <<connTrack, idle, activeConnections>>
          /\ req[r] = "new" /\ (IdleEnabled => req' = [req EXCEPT ![r] = "enter"])
      BY <2>1 DEF Arrive, idleVars
    <3> QED BY <1>0, <3>1, CountUndisturbed DEF CountInv, InService
  <2>2. CASE CountIn(r) \/ CountOut(r)
    <3>1. UNCHANGED idle
      BY <2>2 DEF CountIn, CountOut, idleVars
    <3> QED BY <1>0, <2>2, <3>1, CountSent DEF CountInv
  <2>3. CASE Answer(r) \/ EndStream(r) \/ AskToStop(r) \/ RequestSend(r)
    <3>1. req[r] \in InService /\ UNCHANGED <<connTrack, idle, activeConnections>>
      BY <2>3 DEF Answer, EndStream, AskToStop, RequestSend, idleVars, InService
    <3>2. PICK c : /\ req' = [req EXCEPT ![r] = c]
                   /\ IdleEnabled => c \in {"panicked", "leave", "stuck", "send"}
      BY <2>3, Zenon DEF Answer, EndStream, AskToStop, RequestSend, AfterHandler
    <3> QED BY <1>0, <3>1, <3>2, CountUndisturbed DEF CountInv, InService
  <2> QED BY <1>3, <2>1, <2>2, <2>3 DEF Request
<1>4. CASE Idle
  <2>1. idle # "off" /\ IdleEnabled
    BY <1>4 DEF Idle, IdleReceive, IdleTimeout, IdleSend, CountInv
  <2>2. CASE IdleReceive
    BY <1>0, <2>1, <2>2, CountReceived DEF CountInv
  <2>3. CASE IdleTimeout \/ IdleSend
    BY <1>0, <2>1, <2>3, CountUndisturbed DEF CountInv, IdleTimeout, IdleSend, reqVars
  <2> QED BY <1>4, <2>2, <2>3 DEF Idle
<1>5. CASE World
  BY <1>0, <1>5, CountUndisturbed DEF CountInv, World, Interrupt, TorrentState, ParentDies,
     reqVars, idleVars
<1>6. CASE UNCHANGED vars
  BY <1>0, <1>6, CountUndisturbed DEF CountInv, vars, reqVars, idleVars
<1> QED BY <1>1, <1>2, <1>3, <1>4, <1>5, <1>6 DEF Next

\* The count is right to begin with: nobody was counted.
LEMMA InitCount == Init => CountInv
<1> SUFFICES ASSUME Init PROVE CountInv
  OBVIOUS
<1>1. TypeOK /\ DOMAIN connTrack = {}
  <2>1. connTrack = << >>
    BY DEF Init
  <2>2. DOMAIN connTrack = 1..0
    BY <2>1
  <2> QED BY <2>2, InitTypeOK
<1>2. Elements(connTrack) = {}
  BY <1>1 DEF Elements
<1>3. Counted = {}
  BY DEF Init, Counted, InService
<1>4. Cardinality(Counted) = 0
  BY <1>3, FS_EmptySet
<1> QED BY <1>1, <1>4, <1>2 DEF Init, CountInv, QueueOrder, QueueCause, CounterExact

\* The counter of inactiveAutoShutdown is exact in every behaviour: neither the
\* order in which requests come and go nor a full channel can put it wrong.
THEOREM CounterIsExact == Spec => []CounterExact
<1>1. CountInv => CounterExact
  BY DEF CountInv, CounterExact
<1> QED BY <1>1, InitCount, CountStep, PTL DEF Spec

\* When the idle timer fires, the +1 of every request in service is still waiting
\* to be received: no request it was told of is overlooked.
THEOREM IdleOverlooksNone == Spec => IdleOverlooksNoCountedRequest
<1> DEFINE A == (idle = "select" /\ idle' = "send") =>
                   \A r \in Requests :
                      req[r] \in InService => <<r, 1>> \in Elements(connTrack)
<1>1. CountInv /\ [Next]_vars => [A]_vars
  <2> SUFFICES ASSUME CountInv, Next, idle = "select", idle' = "send",
                      NEW r \in Requests, req[r] \in InService,
                      <<r, 1>> \notin Elements(connTrack)
               PROVE  FALSE
    OBVIOUS
  <2>1. activeConnections = 0 /\ IdleEnabled
    <3>1. IdleTimeout
      BY DEF Next, Main, SpawnSignals, StartHTTP, Listen, HandleSignals, MakeChannels,
         TakeShutdown, TakeSignal, Tick, CheckParent, LoopSend, Exit, Request, Arrive,
         CountIn, Answer, EndStream, AskToStop, RequestSend, CountOut, Idle, IdleReceive,
         IdleSend, World, Interrupt, TorrentState, ParentDies, idleVars
    <3> QED BY <3>1 DEF IdleTimeout, CountInv
  <2>2. r \in Counted
    BY DEF Counted, InService
  <2>3. Counted \subseteq Requests /\ IsFiniteSet(Counted)
    BY LifecycleAssumption, FS_Subset DEF Counted
  <2>4. Cardinality(Counted) # 0
    BY <2>2, <2>3, FS_EmptySet
  <2> QED BY <2>1, <2>4 DEF CountInv, CounterExact
<1> QED BY <1>1, InitCount, CountStep, PTL DEF Spec, IdleOverlooksNoCountedRequest
=============================================================================
