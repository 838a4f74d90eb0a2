---------------------------- MODULE ServerProofs ----------------------------
(***************************************************************************)
(* Safety of the server's shutdown for every number of Close calls and of  *)
(* websocket requests.                                                     *)
(***************************************************************************)
EXTENDS ServerInvariant, TLAPS

\* The goroutines are told apart.
LEMMA Roles ==
    /\ \A c \in Closers : c # "run" /\ c # "loop" /\ c # "none" /\ c \notin Handlers
    /\ \A h \in Handlers : h # "run" /\ h # "loop" /\ h # "none" /\ h \notin Closers
  BY RolesDistinct

\* A new server satisfies the invariant.
LEMMA InitIndInv == Init => IndInv
  <1> SUFFICES ASSUME Init PROVE IndInv
    OBVIOUS
  <1> USE RolesDistinct DEF Init
  <1>1. done \in BOOLEAN /\ published \in BOOLEAN /\ snapshot \in BOOLEAN /\ wg \in BOOLEAN
    BY Zenon
  <1>2. TypeOK
    BY <1>1 DEF TypeOK, Procs, RunSteps, LoopSteps, CloseSteps, Steps, MaxDelay
  <1>3. LockExact /\ BodyExact /\ LoopCounted
    BY DEF LockExact, BodyExact, LoopCounted, Procs
  <1>4. NoLateStart /\ ListenerOwned
    BY DEF NoLateStart, ListenerOwned, LockPassed, Procs
  <1> QED
    BY <1>2, <1>3, <1>4 DEF IndInv

\* The accept loop's delay stays within its cap.
LEMMA DelayCapped == ASSUME delay \in 0 .. MaxDelay PROVE NextDelay \in 0 .. MaxDelay
  BY DEF NextDelay, MinDelay, MaxDelay


\* Every step preserves the types.
LEMMA StepTyped == ASSUME IndInv, [Next]_vars PROVE TypeOK'
  <1> USE Roles, KindsKnown
  <1> USE DEF IndInv, TypeOK, Procs, RunSteps, LoopSteps, CloseSteps, Steps,
      Goto, netVars, stopVars
  <1>1. CASE RunNext
    <2>1. CASE RunListen
      BY <2>1 DEF RunListen
    <2>2. CASE RunOpen
      BY <2>2 DEF RunOpen
    <2>3. CASE RunOpenFails
      BY <2>3 DEF RunOpenFails
    <2>4. CASE PublishTest
      BY <2>4 DEF PublishTest
    <2>5. CASE PublishRefused
      BY <2>5 DEF PublishRefused
    <2>6. CASE PublishSet
      BY <2>6 DEF PublishSet
    <2>7. CASE StartTest
      BY <2>7 DEF StartTest
    <2>8. CASE StartRefused
      BY <2>8 DEF StartRefused
    <2>9. CASE StartAdd
      BY <2>9 DEF StartAdd
    <2> HIDE DEF IndInv, TypeOK
    <2> QED
      BY <1>1, <2>1, <2>2, <2>3, <2>4, <2>5, <2>6, <2>7, <2>8, <2>9 DEF RunNext
  <1>2. CASE LoopNext
    <2>1. CASE AcceptCheck
      BY <2>1 DEF AcceptCheck
    <2>2. CASE Backoff
      BY <2>2 DEF Backoff
    <2>3. CASE AcceptClosed
      <3>1. wg' \in BOOLEAN
        BY <2>3, Zenon DEF AcceptClosed, LoopEnds
      <3> QED
        BY <2>3, <3>1 DEF AcceptClosed, LoopEnds
    <2>4. CASE AcceptFails
      BY <2>4, DelayCapped DEF AcceptFails
    <2>5. CASE AcceptReturns
      BY <2>5 DEF AcceptReturns
    <2>6. CASE AcceptCallback
      <3>1. delay' \in 0 .. MaxDelay
        BY <2>6, DelayCapped DEF AcceptCallback, MaxDelay
      <3> QED
        BY <2>6, <3>1 DEF AcceptCallback
    <2>7. CASE UDPSession
      <3>1. wg' \in BOOLEAN
        BY <2>7, Zenon DEF UDPSession, LoopEnds
      <3> QED
        BY <2>7, <3>1 DEF UDPSession, LoopEnds
    <2>8. CASE WSHandler
      BY <2>8 DEF WSHandler
    <2>9. CASE WSServeReturns
      <3>1. wg' \in BOOLEAN
        BY <2>9, Zenon DEF WSServeReturns, LoopEnds
      <3> QED
        BY <2>9, <3>1 DEF WSServeReturns, LoopEnds
    <2> HIDE DEF IndInv, TypeOK
    <2> QED
      BY <1>2, <2>1, <2>2, <2>3, <2>4, <2>5, <2>6, <2>7, <2>8, <2>9 DEF LoopNext
  <1>3. CASE \E h \in Handlers : WSRequest(h) \/ WSRequestEnds(h)
    <2>1. ASSUME NEW h \in Handlers, WSRequest(h) PROVE TypeOK'
      BY <2>1 DEF WSRequest
    <2>2. ASSUME NEW h \in Handlers, WSRequestEnds(h) PROVE TypeOK'
      BY <2>2 DEF WSRequestEnds
    <2> HIDE DEF IndInv, TypeOK
    <2> QED
      BY <1>3, <2>1, <2>2
  <1>4. CASE \E c \in Closers : StopCheck(c) \/ CloseNext(c)
    <2>1. ASSUME NEW c \in Closers, StopCheck(c) PROVE TypeOK'
      BY <2>1 DEF StopCheck
    <2>2. ASSUME NEW c \in Closers, StopOnce(c) PROVE TypeOK'
      BY <2>2 DEF StopOnce
    <2>3. ASSUME NEW c \in Closers, StopOnceRan(c) PROVE TypeOK'
      BY <2>3 DEF StopOnceRan
    <2>4. ASSUME NEW c \in Closers, StopLock(c) PROVE TypeOK'
      BY <2>4 DEF StopLock
    <2>5. ASSUME NEW c \in Closers, StopShutdown(c) PROVE TypeOK'
      <3>1. snapshot' \in BOOLEAN
        BY <2>5, Zenon DEF StopShutdown
      <3> QED
        BY <2>5, <3>1 DEF StopShutdown
    <2>6. ASSUME NEW c \in Closers, StopClose(c) PROVE TypeOK'
      BY <2>6 DEF StopClose
    <2>7. ASSUME NEW c \in Closers, CloseReturns(c) PROVE TypeOK'
      BY <2>7 DEF CloseReturns
    <2> HIDE DEF IndInv, TypeOK
    <2> QED
      BY <1>4, <2>1, <2>2, <2>3, <2>4, <2>5, <2>6, <2>7 DEF CloseNext
  <1>5. CASE UNCHANGED vars
    BY <1>5 DEF vars
  <1> HIDE DEF IndInv, TypeOK
  <1> QED
    BY <1>1, <1>2, <1>3, <1>4, <1>5 DEF Next

\* Every step keeps s.lock with who is in its critical section.
LEMMA StepLock == ASSUME IndInv, [Next]_vars PROVE LockExact'
  <1> USE Roles, KindsKnown
  <1> USE DEF IndInv, TypeOK, LockExact, Procs, Goto, netVars, stopVars
  <1>1. CASE RunNext
    <2>1. CASE RunListen
      BY <2>1 DEF RunListen
    <2>2. CASE RunOpen
      BY <2>2 DEF RunOpen
    <2>3. CASE RunOpenFails
      BY <2>3 DEF RunOpenFails
    <2>4. CASE PublishTest
      BY <2>4 DEF PublishTest
    <2>5. CASE PublishRefused
      BY <2>5 DEF PublishRefused
    <2>6. CASE PublishSet
      BY <2>6 DEF PublishSet
    <2>7. CASE StartTest
      BY <2>7 DEF StartTest
    <2>8. CASE StartRefused
      BY <2>8 DEF StartRefused
    <2>9. CASE StartAdd
      BY <2>9 DEF StartAdd
    <2> HIDE DEF IndInv, LockExact
    <2> QED
      BY <1>1, <2>1, <2>2, <2>3, <2>4, <2>5, <2>6, <2>7, <2>8, <2>9 DEF RunNext
  <1>2. CASE LoopNext
    <2>1. CASE AcceptCheck
      BY <2>1 DEF AcceptCheck
    <2>2. CASE Backoff
      BY <2>2 DEF Backoff
    <2>3. CASE AcceptClosed
      BY <2>3 DEF AcceptClosed, LoopEnds
    <2>4. CASE AcceptFails
      BY <2>4, DelayCapped DEF AcceptFails
    <2>5. CASE AcceptReturns
      BY <2>5 DEF AcceptReturns
    <2>6. CASE AcceptCallback
      BY <2>6, DelayCapped DEF AcceptCallback
    <2>7. CASE UDPSession
      BY <2>7 DEF UDPSession, LoopEnds
    <2>8. CASE WSHandler
      BY <2>8 DEF WSHandler
    <2>9. CASE WSServeReturns
      BY <2>9 DEF WSServeReturns, LoopEnds
    <2> HIDE DEF IndInv, LockExact
    <2> QED
      BY <1>2, <2>1, <2>2, <2>3, <2>4, <2>5, <2>6, <2>7, <2>8, <2>9 DEF LoopNext
  <1>3. CASE \E h \in Handlers : WSRequest(h) \/ WSRequestEnds(h)
    <2>1. ASSUME NEW h \in Handlers, WSRequest(h) PROVE LockExact'
      BY <2>1 DEF WSRequest
    <2>2. ASSUME NEW h \in Handlers, WSRequestEnds(h) PROVE LockExact'
      BY <2>2 DEF WSRequestEnds
    <2> HIDE DEF IndInv, LockExact
    <2> QED
      BY <1>3, <2>1, <2>2
  <1>4. CASE \E c \in Closers : StopCheck(c) \/ CloseNext(c)
    <2>1. ASSUME NEW c \in Closers, StopCheck(c) PROVE LockExact'
      BY <2>1 DEF StopCheck
    <2>2. ASSUME NEW c \in Closers, StopOnce(c) PROVE LockExact'
      BY <2>2 DEF StopOnce
    <2>3. ASSUME NEW c \in Closers, StopOnceRan(c) PROVE LockExact'
      BY <2>3 DEF StopOnceRan
    <2>4. ASSUME NEW c \in Closers, StopLock(c) PROVE LockExact'
      BY <2>4 DEF StopLock
    <2>5. ASSUME NEW c \in Closers, StopShutdown(c) PROVE LockExact'
      BY <2>5 DEF StopShutdown
    <2>6. ASSUME NEW c \in Closers, StopClose(c) PROVE LockExact'
      BY <2>6 DEF StopClose
    <2>7. ASSUME NEW c \in Closers, CloseReturns(c) PROVE LockExact'
      BY <2>7 DEF CloseReturns
    <2> HIDE DEF IndInv, LockExact
    <2> QED
      BY <1>4, <2>1, <2>2, <2>3, <2>4, <2>5, <2>6, <2>7 DEF CloseNext
  <1>5. CASE UNCHANGED vars
    BY <1>5 DEF vars
  <1> HIDE DEF IndInv, LockExact
  <1> QED
    BY <1>1, <1>2, <1>3, <1>4, <1>5 DEF Next

\* Every step leaves the body of stop() to one Close.
LEMMA StepBody == ASSUME IndInv, [Next]_vars PROVE BodyExact'
  <1> USE Roles, KindsKnown
  <1> USE DEF IndInv, TypeOK, BodyExact, Procs, Goto, netVars, stopVars
  <1>1. CASE RunNext
    <2>1. CASE RunListen
      BY <2>1 DEF RunListen
    <2>2. CASE RunOpen
      BY <2>2 DEF RunOpen
    <2>3. CASE RunOpenFails
      BY <2>3 DEF RunOpenFails
    <2>4. CASE PublishTest
      BY <2>4 DEF PublishTest
    <2>5. CASE PublishRefused
      BY <2>5 DEF PublishRefused
    <2>6. CASE PublishSet
      BY <2>6 DEF PublishSet
    <2>7. CASE StartTest
      BY <2>7 DEF StartTest
    <2>8. CASE StartRefused
      BY <2>8 DEF StartRefused
    <2>9. CASE StartAdd
      BY <2>9 DEF StartAdd
    <2> HIDE DEF IndInv, BodyExact
    <2> QED
      BY <1>1, <2>1, <2>2, <2>3, <2>4, <2>5, <2>6, <2>7, <2>8, <2>9 DEF RunNext
  <1>2. CASE LoopNext
    <2>1. CASE AcceptCheck
      BY <2>1 DEF AcceptCheck
    <2>2. CASE Backoff
      BY <2>2 DEF Backoff
    <2>3. CASE AcceptClosed
      BY <2>3 DEF AcceptClosed, LoopEnds
    <2>4. CASE AcceptFails
      BY <2>4, DelayCapped DEF AcceptFails
    <2>5. CASE AcceptReturns
      BY <2>5 DEF AcceptReturns
    <2>6. CASE AcceptCallback
      BY <2>6, DelayCapped DEF AcceptCallback
    <2>7. CASE UDPSession
      BY <2>7 DEF UDPSession, LoopEnds
    <2>8. CASE WSHandler
      BY <2>8 DEF WSHandler
    <2>9. CASE WSServeReturns
      BY <2>9 DEF WSServeReturns, LoopEnds
    <2> HIDE DEF IndInv, BodyExact
    <2> QED
      BY <1>2, <2>1, <2>2, <2>3, <2>4, <2>5, <2>6, <2>7, <2>8, <2>9 DEF LoopNext
  <1>3. CASE \E h \in Handlers : WSRequest(h) \/ WSRequestEnds(h)
    <2>1. ASSUME NEW h \in Handlers, WSRequest(h) PROVE BodyExact'
      BY <2>1 DEF WSRequest
    <2>2. ASSUME NEW h \in Handlers, WSRequestEnds(h) PROVE BodyExact'
      BY <2>2 DEF WSRequestEnds
    <2> HIDE DEF IndInv, BodyExact
    <2> QED
      BY <1>3, <2>1, <2>2
  <1>4. CASE \E c \in Closers : StopCheck(c) \/ CloseNext(c)
    <2>1. ASSUME NEW c \in Closers, StopCheck(c) PROVE BodyExact'
      BY <2>1 DEF StopCheck
    <2>2. ASSUME NEW c \in Closers, StopOnce(c) PROVE BodyExact'
      BY <2>2 DEF StopOnce
    <2>3. ASSUME NEW c \in Closers, StopOnceRan(c) PROVE BodyExact'
      BY <2>3 DEF StopOnceRan
    <2>4. ASSUME NEW c \in Closers, StopLock(c) PROVE BodyExact'
      BY <2>4 DEF StopLock
    <2>5. ASSUME NEW c \in Closers, StopShutdown(c) PROVE BodyExact'
      BY <2>5 DEF StopShutdown
    <2>6. ASSUME NEW c \in Closers, StopClose(c) PROVE BodyExact'
      BY <2>6 DEF StopClose
    <2>7. ASSUME NEW c \in Closers, CloseReturns(c) PROVE BodyExact'
      BY <2>7 DEF CloseReturns
    <2> HIDE DEF IndInv, BodyExact
    <2> QED
      BY <1>4, <2>1, <2>2, <2>3, <2>4, <2>5, <2>6, <2>7 DEF CloseNext
  <1>5. CASE UNCHANGED vars
    BY <1>5 DEF vars
  <1> HIDE DEF IndInv, BodyExact
  <1> QED
    BY <1>1, <1>2, <1>3, <1>4, <1>5 DEF Next

\* Every step keeps s.wg equal to the running event loop.
LEMMA StepCounted == ASSUME IndInv, [Next]_vars PROVE LoopCounted'
  <1> USE Roles, KindsKnown
  <1> USE DEF IndInv, TypeOK, LoopCounted, Procs, Goto, netVars, stopVars
  <1>1. CASE RunNext
    <2>1. CASE RunListen
      BY <2>1 DEF RunListen
    <2>2. CASE RunOpen
      BY <2>2 DEF RunOpen
    <2>3. CASE RunOpenFails
      BY <2>3 DEF RunOpenFails
    <2>4. CASE PublishTest
      BY <2>4 DEF PublishTest
    <2>5. CASE PublishRefused
      BY <2>5 DEF PublishRefused
    <2>6. CASE PublishSet
      BY <2>6 DEF PublishSet
    <2>7. CASE StartTest
      BY <2>7 DEF StartTest
    <2>8. CASE StartRefused
      BY <2>8 DEF StartRefused
    <2>9. CASE StartAdd
      BY <2>9 DEF StartAdd
    <2> HIDE DEF IndInv, LoopCounted
    <2> QED
      BY <1>1, <2>1, <2>2, <2>3, <2>4, <2>5, <2>6, <2>7, <2>8, <2>9 DEF RunNext
  <1>2. CASE LoopNext
    <2>1. CASE AcceptCheck
      BY <2>1 DEF AcceptCheck
    <2>2. CASE Backoff
      BY <2>2 DEF Backoff
    <2>3. CASE AcceptClosed
      BY <2>3 DEF AcceptClosed, LoopEnds
    <2>4. CASE AcceptFails
      BY <2>4, DelayCapped DEF AcceptFails
    <2>5. CASE AcceptReturns
      BY <2>5 DEF AcceptReturns
    <2>6. CASE AcceptCallback
      BY <2>6, DelayCapped DEF AcceptCallback
    <2>7. CASE UDPSession
      BY <2>7 DEF UDPSession, LoopEnds
    <2>8. CASE WSHandler
      BY <2>8 DEF WSHandler
    <2>9. CASE WSServeReturns
      BY <2>9 DEF WSServeReturns, LoopEnds
    <2> HIDE DEF IndInv, LoopCounted
    <2> QED
      BY <1>2, <2>1, <2>2, <2>3, <2>4, <2>5, <2>6, <2>7, <2>8, <2>9 DEF LoopNext
  <1>3. CASE \E h \in Handlers : WSRequest(h) \/ WSRequestEnds(h)
    <2>1. ASSUME NEW h \in Handlers, WSRequest(h) PROVE LoopCounted'
      BY <2>1 DEF WSRequest
    <2>2. ASSUME NEW h \in Handlers, WSRequestEnds(h) PROVE LoopCounted'
      BY <2>2 DEF WSRequestEnds
    <2> HIDE DEF IndInv, LoopCounted
    <2> QED
      BY <1>3, <2>1, <2>2
  <1>4. CASE \E c \in Closers : StopCheck(c) \/ CloseNext(c)
    <2>1. ASSUME NEW c \in Closers, StopCheck(c) PROVE LoopCounted'
      BY <2>1 DEF StopCheck
    <2>2. ASSUME NEW c \in Closers, StopOnce(c) PROVE LoopCounted'
      BY <2>2 DEF StopOnce
    <2>3. ASSUME NEW c \in Closers, StopOnceRan(c) PROVE LoopCounted'
      BY <2>3 DEF StopOnceRan
    <2>4. ASSUME NEW c \in Closers, StopLock(c) PROVE LoopCounted'
      BY <2>4 DEF StopLock
    <2>5. ASSUME NEW c \in Closers, StopShutdown(c) PROVE LoopCounted'
      BY <2>5 DEF StopShutdown
    <2>6. ASSUME NEW c \in Closers, StopClose(c) PROVE LoopCounted'
      BY <2>6 DEF StopClose
    <2>7. ASSUME NEW c \in Closers, CloseReturns(c) PROVE LoopCounted'
      BY <2>7 DEF CloseReturns
    <2> HIDE DEF IndInv, LoopCounted
    <2> QED
      BY <1>4, <2>1, <2>2, <2>3, <2>4, <2>5, <2>6, <2>7 DEF CloseNext
  <1>5. CASE UNCHANGED vars
    BY <1>5 DEF vars
  <1> HIDE DEF IndInv, LoopCounted
  <1> QED
    BY <1>1, <1>2, <1>3, <1>4, <1>5 DEF Next

\* No step registers an event loop behind stop()'s back.
LEMMA StepNoLateStart == ASSUME IndInv, [Next]_vars PROVE NoLateStart'
  <1> USE Roles, KindsKnown
  <1> USE DEF IndInv, TypeOK, LockExact, BodyExact, LoopCounted, LockPassed, NoLateStart,
      Procs, Goto, netVars, stopVars
  <1>1. CASE RunNext
    <2>1. CASE RunListen
      BY <2>1 DEF RunListen
    <2>2. CASE RunOpen
      BY <2>2 DEF RunOpen
    <2>3. CASE RunOpenFails
      BY <2>3 DEF RunOpenFails
    <2>4. CASE PublishTest
      BY <2>4 DEF PublishTest
    <2>5. CASE PublishRefused
      BY <2>5 DEF PublishRefused
    <2>6. CASE PublishSet
      BY <2>6 DEF PublishSet
    <2>7. CASE StartTest
      BY <2>7 DEF StartTest
    <2>8. CASE StartRefused
      BY <2>8 DEF StartRefused
    <2>9. CASE StartAdd
      BY <2>9 DEF StartAdd
    <2> HIDE DEF IndInv, NoLateStart
    <2> QED
      BY <1>1, <2>1, <2>2, <2>3, <2>4, <2>5, <2>6, <2>7, <2>8, <2>9 DEF RunNext
  <1>2. CASE LoopNext
    <2>1. CASE AcceptCheck
      BY <2>1 DEF AcceptCheck
    <2>2. CASE Backoff
      BY <2>2 DEF Backoff
    <2>3. CASE AcceptClosed
      BY <2>3 DEF AcceptClosed, LoopEnds
    <2>4. CASE AcceptFails
      BY <2>4, DelayCapped DEF AcceptFails
    <2>5. CASE AcceptReturns
      BY <2>5 DEF AcceptReturns
    <2>6. CASE AcceptCallback
      BY <2>6, DelayCapped DEF AcceptCallback
    <2>7. CASE UDPSession
      BY <2>7 DEF UDPSession, LoopEnds
    <2>8. CASE WSHandler
      BY <2>8 DEF WSHandler
    <2>9. CASE WSServeReturns
      BY <2>9 DEF WSServeReturns, LoopEnds
    <2> HIDE DEF IndInv, NoLateStart
    <2> QED
      BY <1>2, <2>1, <2>2, <2>3, <2>4, <2>5, <2>6, <2>7, <2>8, <2>9 DEF LoopNext
  <1>3. CASE \E h \in Handlers : WSRequest(h) \/ WSRequestEnds(h)
    <2>1. ASSUME NEW h \in Handlers, WSRequest(h) PROVE NoLateStart'
      BY <2>1 DEF WSRequest
    <2>2. ASSUME NEW h \in Handlers, WSRequestEnds(h) PROVE NoLateStart'
      BY <2>2 DEF WSRequestEnds
    <2> HIDE DEF IndInv, NoLateStart
    <2> QED
      BY <1>3, <2>1, <2>2
  <1>4. CASE \E c \in Closers : StopCheck(c) \/ CloseNext(c)
    <2>1. ASSUME NEW c \in Closers, StopCheck(c) PROVE NoLateStart'
      BY <2>1 DEF StopCheck
    <2>2. ASSUME NEW c \in Closers, StopOnce(c) PROVE NoLateStart'
      BY <2>2 DEF StopOnce
    <2>3. ASSUME NEW c \in Closers, StopOnceRan(c) PROVE NoLateStart'
      BY <2>3 DEF StopOnceRan
    <2>4. ASSUME NEW c \in Closers, StopLock(c) PROVE NoLateStart'
      BY <2>4 DEF StopLock
    <2>5. ASSUME NEW c \in Closers, StopShutdown(c) PROVE NoLateStart'
      BY <2>5 DEF StopShutdown
    <2>6. ASSUME NEW c \in Closers, StopClose(c) PROVE NoLateStart'
      BY <2>6 DEF StopClose
    <2>7. ASSUME NEW c \in Closers, CloseReturns(c) PROVE NoLateStart'
      BY <2>7 DEF CloseReturns
    <2> HIDE DEF IndInv, NoLateStart
    <2> QED
      BY <1>4, <2>1, <2>2, <2>3, <2>4, <2>5, <2>6, <2>7 DEF CloseNext
  <1>5. CASE UNCHANGED vars
    BY <1>5 DEF vars
  <1> HIDE DEF IndInv, NoLateStart
  <1> QED
    BY <1>1, <1>2, <1>3, <1>4, <1>5 DEF Next

\* Every step leaves the listener with RunEventLoop or with stop().
LEMMA StepListener == ASSUME IndInv, [Next]_vars PROVE ListenerOwned'
  <1> USE Roles, KindsKnown
  <1> USE DEF IndInv, TypeOK, LockExact, BodyExact, LoopCounted, LockPassed, NoLateStart,
      ListenerOwned,
      Procs, Goto, netVars, stopVars
  <1>1. CASE RunNext
    <2>1. CASE RunListen
      BY <2>1 DEF RunListen
    <2>2. CASE RunOpen
      BY <2>2 DEF RunOpen
    <2>3. CASE RunOpenFails
      BY <2>3 DEF RunOpenFails
    <2>4. CASE PublishTest
      BY <2>4 DEF PublishTest
    <2>5. CASE PublishRefused
      BY <2>5 DEF PublishRefused
    <2>6. CASE PublishSet
      BY <2>6 DEF PublishSet
    <2>7. CASE StartTest
      BY <2>7 DEF StartTest
    <2>8. CASE StartRefused
      BY <2>8 DEF StartRefused
    <2>9. CASE StartAdd
      BY <2>9 DEF StartAdd
    <2> HIDE DEF IndInv, ListenerOwned
    <2> QED
      BY <1>1, <2>1, <2>2, <2>3, <2>4, <2>5, <2>6, <2>7, <2>8, <2>9 DEF RunNext
  <1>2. CASE LoopNext
    <2>1. CASE AcceptCheck
      BY <2>1 DEF AcceptCheck
    <2>2. CASE Backoff
      BY <2>2 DEF Backoff
    <2>3. CASE AcceptClosed
      BY <2>3 DEF AcceptClosed, LoopEnds
    <2>4. CASE AcceptFails
      BY <2>4, DelayCapped DEF AcceptFails
    <2>5. CASE AcceptReturns
      BY <2>5 DEF AcceptReturns
    <2>6. CASE AcceptCallback
      BY <2>6, DelayCapped DEF AcceptCallback
    <2>7. CASE UDPSession
      BY <2>7 DEF UDPSession, LoopEnds
    <2>8. CASE WSHandler
      BY <2>8 DEF WSHandler
    <2>9. CASE WSServeReturns
      BY <2>9 DEF WSServeReturns, LoopEnds
    <2> HIDE DEF IndInv, ListenerOwned
    <2> QED
      BY <1>2, <2>1, <2>2, <2>3, <2>4, <2>5, <2>6, <2>7, <2>8, <2>9 DEF LoopNext
  <1>3. CASE \E h \in Handlers : WSRequest(h) \/ WSRequestEnds(h)
    <2>1. ASSUME NEW h \in Handlers, WSRequest(h) PROVE ListenerOwned'
      BY <2>1 DEF WSRequest
    <2>2. ASSUME NEW h \in Handlers, WSRequestEnds(h) PROVE ListenerOwned'
      BY <2>2 DEF WSRequestEnds
    <2> HIDE DEF IndInv, ListenerOwned
    <2> QED
      BY <1>3, <2>1, <2>2
  <1>4. CASE \E c \in Closers : StopCheck(c) \/ CloseNext(c)
    <2>1. ASSUME NEW c \in Closers, StopCheck(c) PROVE ListenerOwned'
      BY <2>1 DEF StopCheck
    <2>2. ASSUME NEW c \in Closers, StopOnce(c) PROVE ListenerOwned'
      BY <2>2 DEF StopOnce
    <2>3. ASSUME NEW c \in Closers, StopOnceRan(c) PROVE ListenerOwned'
      BY <2>3 DEF StopOnceRan
    <2>4. ASSUME NEW c \in Closers, StopLock(c) PROVE ListenerOwned'
      BY <2>4 DEF StopLock
    <2>5. ASSUME NEW c \in Closers, StopShutdown(c) PROVE ListenerOwned'
      BY <2>5 DEF StopShutdown
    <2>6. ASSUME NEW c \in Closers, StopClose(c) PROVE ListenerOwned'
      BY <2>6 DEF StopClose
    <2>7. ASSUME NEW c \in Closers, CloseReturns(c) PROVE ListenerOwned'
      BY <2>7 DEF CloseReturns
    <2> HIDE DEF IndInv, ListenerOwned
    <2> QED
      BY <1>4, <2>1, <2>2, <2>3, <2>4, <2>5, <2>6, <2>7 DEF CloseNext
  <1>5. CASE UNCHANGED vars
    BY <1>5 DEF vars
  <1> HIDE DEF IndInv, ListenerOwned
  <1> QED
    BY <1>1, <1>2, <1>3, <1>4, <1>5 DEF Next

\* The invariant holds in every reachable state of the server.
THEOREM ServerInductive == Spec => []IndInv
  <1>1. IndInv /\ [Next]_vars => IndInv'
    BY StepTyped, StepLock, StepBody, StepCounted, StepNoLateStart, StepListener DEF IndInv
  <1> QED
    BY <1>1, InitIndInv, PTL DEF Spec

\* Type correctness, the cap of the accept loop's back-off included.
THEOREM ServerTyped == Spec => []TypeOK
  <1>1. IndInv => TypeOK
    BY DEF IndInv
  <1> QED
    BY <1>1, ServerInductive, PTL

\* A listener opened by RunEventLoop is closed once stop() has run its body and
\* RunEventLoop has returned.
THEOREM ServerListenerNotLeaked == Spec => []ListenerNotLeaked
  <1>1. IndInv => ListenerNotLeaked
    BY DEF IndInv, ListenerOwned, ListenerNotLeaked
  <1> QED
    BY <1>1, ServerInductive, PTL

\* The Close that runs stop()'s body returns after the event loop, for good.
THEOREM ServerFirstCloseWaits == Spec => []FirstCloseWaits
  <1>1. IndInv => FirstCloseWaits
    BY Roles
    DEF IndInv, TypeOK, CloseSteps, BodyExact, LoopCounted, LockPassed, NoLateStart,
        LoopActive, FirstCloseWaits
  <1> QED
    BY <1>1, ServerInductive, PTL
=============================================================================
