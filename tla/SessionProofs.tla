--------------------------- MODULE SessionProofs ----------------------------
(***************************************************************************)
(* IndInv is an invariant of Session, for any sets of closers, tasks,      *)
(* writers and resets and any number of resets, and the properties of      *)
(* Session follow from it.                                                 *)
(***************************************************************************)
EXTENDS SessionTypesProofs, SessionOrderProofs, SessionStopProofs

-----------------------------------------------------------------------------
(* Every action keeps the counters paired with the code they surround, and    *)
(* those of a replaced generation at rest.                                    *)

\* Add and Done of grWG, callbackDepth and packetLock stay paired with the
\* code they surround.
LEMMA CountersPreserved == ASSUME IndInv, Next PROVE CountersExact'
  <1> USE ParametersTyped, Roles, IndInvFacts
  <1> USE DEF IndInv, TypeOK, LifeTyped, Facts, CountersExact, InlineExact, RunActive,
     ReaderActive, ReaderClosing, CallbackSteps, WorkerOrdered, Goroutines, Tasks, Callers,
     StopCallers, lifeVars, connVars, timerVars, countVars, resetVars, outVars
  <1>1. CASE OnceBody
    <2>1. ASSUME NEW g \in Gen, OnceHeartbeat(g)
          PROVE  CountersExact'
      BY <2>1 DEF OnceHeartbeat, LockFree
    <2>2. ASSUME NEW g \in Gen, OnceStopTimer(g)
          PROVE  CountersExact'
      BY <2>2 DEF OnceStopTimer
    <2>3. ASSUME NEW g \in Gen, OnceCloseLifecycle(g)
          PROVE  CountersExact'
      BY <2>3 DEF OnceCloseLifecycle
    <2>4. ASSUME NEW g \in Gen, OnceCallbacks(g)
          PROVE  CountersExact'
      BY <2>4 DEF OnceCallbacks, Goto, OnceOrdered
    <2>5. ASSUME NEW g \in Gen, OnceReconnect(g)
          PROVE  CountersExact'
      BY <2>5 DEF OnceReconnect, LockFree
    <2> HIDE DEF IndInv, CountersExact
    <2> QED
      BY <1>1, <2>1, <2>2, <2>3, <2>4, <2>5 DEF OnceBody
  <1>2. CASE \E p \in StopCallers : StopNext(p)
    <2>1. ASSUME NEW p \in StopCallers, OnceClose(p)
          PROVE  CountersExact'
      BY <2>1 DEF OnceClose
    <2>2. ASSUME NEW p \in StopCallers, StopReturn(p)
          PROVE  CountersExact'
      BY <2>2 DEF StopReturn, Goto, AfterStop
    <2> HIDE DEF IndInv, CountersExact
    <2> QED
      BY <1>2, <2>1, <2>2 DEF StopNext
  <1>3. CASE \/ CloseCallbacksBegin \/ CloseCallbacksReturn \/ CloseConn
             \/ \E p \in Closers : Close(p)
    <2>1. CASE CloseCallbacksBegin
      BY <2>1 DEF CloseCallbacksBegin, Goto
    <2>2. CASE CloseCallbacksReturn
      BY <2>2 DEF CloseCallbacksReturn, Goto, MayReturn, Release
    <2>3. CASE CloseConn
      BY <2>3 DEF CloseConn, Goto, Release
    <2>4. ASSUME NEW p \in Closers, Close(p)
          PROVE  CountersExact'
      BY <2>4 DEF Close, Goto, CallStop
    <2> HIDE DEF IndInv, CountersExact
    <2> QED
      BY <1>3, <2>1, <2>2, <2>3, <2>4
  <1>4. CASE RunNext
    <2>1. CASE RunBegin
      <3>1. CASE resetRun
        <4>1. pc' = [pc EXCEPT !["run"] = "refused"] /\ grWG' = grWG /\ inCallback' = inCallback
          BY <2>1, <3>1 DEF RunBegin, Goto
        <4> QED
          BY <2>1, <4>1 DEF RunBegin
      <3>2. CASE ~resetRun /\ ~(conn /\ fields)
        <4>1. pc' = [pc EXCEPT !["run"] = "panicked"] /\ grWG' = grWG /\ inCallback' = inCallback
          BY <2>1, <3>2 DEF RunBegin, Goto
        <4> QED
          BY <2>1, <4>1 DEF RunBegin
      <3>3. CASE ~resetRun /\ conn /\ fields
        <4>1. /\ pc' = [pc EXCEPT !["run"] = "onopen"]
              /\ grWG' = grWG \cup {"run"} /\ inCallback' = inCallback \cup {"run"}
          BY <2>1, <3>3 DEF RunBegin, Goto
        <4> QED
          BY <2>1, <4>1 DEF RunBegin
      <3> QED
        BY <3>1, <3>2, <3>3
    <2>2. CASE RunOpened
      BY <2>2 DEF RunOpened, Goto, MayReturn
    <2>3. CASE RunOpenFailed
      BY <2>3 DEF RunOpenFailed, Goto, MayReturn, CallStop
    <2>4. CASE RunGC
      BY <2>4, GCDetaches DEF RunGC, PcTyped
    <2>5. CASE RunTest
      BY <2>5 DEF RunTest, Goto, LockFree
    <2>6. CASE RunInstall
      BY <2>6 DEF RunInstall, Goto
    <2>7. CASE RunSpawn
      BY <2>7 DEF RunSpawn
    <2>8. CASE RunInstallFails
      BY <2>8 DEF RunInstallFails, Goto
    <2> HIDE DEF IndInv, CountersExact
    <2> QED
      BY <1>4, <2>1, <2>2, <2>3, <2>4, <2>5, <2>6, <2>7, <2>8 DEF RunNext
  <1>5. CASE ReaderNext
    <2>1. CASE ReaderCheck
      BY <2>1 DEF ReaderCheck, Goto, CallStop
    <2>2. CASE ReaderTimeout
      BY <2>2 DEF ReaderTimeout, Goto
    <2>3. CASE ReaderFails
      BY <2>3 DEF ReaderFails, Goto, CallStop
    <2>4. CASE ReaderEOF
      BY <2>4 DEF ReaderEOF, Goto, CallStop
    <2>5. CASE ReaderData
      BY <2>5 DEF ReaderData, Goto
    <2>6. CASE ReaderDecoded
      BY <2>6 DEF ReaderDecoded, Goto, CallStop, MayReturn
    <2>7. CASE ReaderInlineDone
      BY <2>7 DEF ReaderInlineDone, Goto
    <2>8. CASE ReaderCallback
      BY <2>8 DEF ReaderCallback, Goto
    <2>9. CASE ReaderCallbackReturn
      BY <2>9 DEF ReaderCallbackReturn, Goto, MayReturn
    <2>10. CASE ReaderGC
      BY <2>10, GCDetaches DEF ReaderGC, PcTyped
    <2> HIDE DEF IndInv, CountersExact
    <2> QED
      BY <1>5, <2>1, <2>2, <2>3, <2>4, <2>5, <2>6, <2>7, <2>8, <2>9, <2>10 DEF ReaderNext
  <1>6. CASE \/ \E t \in CronTasks : Tick(t) \/ CronNext(t)
             \/ \E t \in MsgTasks : MsgNext(t)
    <2>1. ASSUME NEW t \in CronTasks, Tick(t)
          PROVE  CountersExact'
      BY <2>1 DEF Tick, Goto
    <2>2. ASSUME NEW t \in CronTasks \cup MsgTasks, TaskAcquire(t)
          PROVE  CountersExact'
      BY <2>2 DEF TaskAcquire, Goto, Acquire
    <2>3. ASSUME NEW t \in CronTasks, CronBegin(t)
          PROVE  CountersExact'
      BY <2>3 DEF CronBegin, Goto, Release
    <2>4. ASSUME NEW t \in CronTasks, CronReturn(t)
          PROVE  CountersExact'
      BY <2>4 DEF CronReturn, Goto, Release, MayReturn
    <2>5. ASSUME NEW t \in CronTasks, CronPanic(t)
          PROVE  CountersExact'
      BY <2>5 DEF CronPanic, Goto, MayReturn
    <2>6. ASSUME NEW t \in CronTasks, CronRawClose(t)
          PROVE  CountersExact'
      BY <2>6 DEF CronRawClose, Goto, Release
    <2>7. ASSUME NEW t \in MsgTasks, MsgBegin(t)
          PROVE  CountersExact'
      BY <2>7 DEF MsgBegin, Goto, Release
    <2>8. ASSUME NEW t \in MsgTasks, MsgReturn(t)
          PROVE  CountersExact'
      BY <2>8 DEF MsgReturn, Goto, Release, MayReturn
    <2>9. ASSUME NEW t \in MsgTasks, MsgPanic(t)
          PROVE  CountersExact'
      BY <2>9 DEF MsgPanic, Release, MayReturn
    <2> HIDE DEF IndInv, CountersExact
    <2> QED
      BY <1>6, <2>1, <2>2, <2>3, <2>4, <2>5, <2>6, <2>7, <2>8, <2>9 DEF CronNext, MsgNext
  <1>7. CASE \/ \E w \in Writers : WriteCheck(w) \/ WriteNext(w)
             \/ \E w \in RawWriters : WriteCheck(w) \/ RawNext(w)
    <2>1. ASSUME NEW w \in Writers \cup RawWriters, WriteCheck(w)
          PROVE  CountersExact'
      BY <2>1 DEF WriteCheck, Goto
    <2>2. ASSUME NEW w \in Writers, WriteSnapshot(w)
          PROVE  CountersExact'
      BY <2>2 DEF WriteSnapshot, Goto
    <2>3. ASSUME NEW w \in Writers, WriteAcquire(w)
          PROVE  CountersExact'
      BY <2>3 DEF WriteAcquire, Goto, Acquire
    <2>4. ASSUME NEW w \in Writers, WriteEncoded(w)
          PROVE  CountersExact'
      BY <2>4 DEF WriteEncoded, Goto, Release, MayReturn
    <2>5. ASSUME NEW w \in Writers, WriteLock(w)
          PROVE  CountersExact'
      BY <2>5 DEF WriteLock, Goto, Release
    <2>6. ASSUME NEW w \in Writers, WriteSent(w)
          PROVE  CountersExact'
      BY <2>6 DEF WriteSent, Goto, Release
    <2>7. ASSUME NEW w \in RawWriters, RawLock(w)
          PROVE  CountersExact'
      BY <2>7 DEF RawLock, Goto
    <2>8. ASSUME NEW w \in RawWriters, RawSent(w)
          PROVE  CountersExact'
      BY <2>8 DEF RawSent, Goto
    <2>9. ASSUME NEW w \in RawWriters, RawSnapshot(w)
          PROVE  CountersExact'
      BY <2>9 DEF RawSnapshot, Goto
    <2>10. ASSUME NEW w \in RawWriters, RawLockBatch(w)
          PROVE  CountersExact'
      BY <2>10 DEF RawLockBatch, Goto
    <2> HIDE DEF IndInv, CountersExact
    <2> QED
      BY <1>7, <2>1, <2>2, <2>3, <2>4, <2>5, <2>6, <2>7, <2>8, <2>9, <2>10 DEF WriteNext, RawNext
  <1>8. CASE \E r \in Resetters :
                \/ \E h \in inCallback \cup {"none"} :
                      Reset(r, h) \/ TryReset(r, h) \/ CallResetAsync(r, h)
                \/ ResetAsync(r) \/ AwaitResult(r)
    <2>1. ASSUME NEW r \in Resetters, NEW h \in inCallback \cup {"none"}, Reset(r, h)
          PROVE  CountersExact'
      BY <2>1 DEF Reset, Goto
    <2>2. ASSUME NEW r \in Resetters, NEW h \in inCallback \cup {"none"}, TryReset(r, h)
          PROVE  CountersExact'
      BY <2>2 DEF TryReset, Goto
    <2>3. ASSUME NEW r \in Resetters, NEW h \in inCallback \cup {"none"}, CallResetAsync(r, h)
          PROVE  CountersExact'
      BY <2>3 DEF CallResetAsync, Goto
    <2>4. ASSUME NEW r \in Resetters, ResetAsync(r)
          PROVE  CountersExact'
      BY <2>4 DEF ResetAsync, Goto
    <2>5. ASSUME NEW r \in Resetters, AwaitResult(r)
          PROVE  CountersExact'
      BY <2>5 DEF AwaitResult, Goto
    <2> HIDE DEF IndInv, CountersExact
    <2> QED
      BY <1>8, <2>1, <2>2, <2>3, <2>4, <2>5
  <1>9. CASE WorkerNext
    <2>1. CASE WorkerRawClose
      BY <2>1 DEF WorkerRawClose, Goto
    <2>2. CASE WorkerStopHeartbeat
      BY <2>2 DEF WorkerStopHeartbeat, Goto
    <2>3. CASE WorkerWaitGr
      BY <2>3 DEF WorkerWaitGr, Goto
    <2>4. CASE WorkerGC
      <3>1. /\ GC("worker", "waitlc") /\ pc["worker"] = "gc"
            /\ UNCHANGED <<grWG, inCallback, packetLock>>
        BY <2>4 DEF WorkerGC
      <3>2. CASE conn
        <4>1. pc' = [[pc EXCEPT !["closeconn"] = "closing"] EXCEPT !["worker"] = "waitlc"]
          BY <3>1, <3>2, GCDetaches, Zenon
        <4> QED
          BY <3>1, <4>1 DEF PcTyped
      <3>3. CASE ~conn
        <4>1. pc' = [pc EXCEPT !["worker"] = "waitlc"]
          BY <3>1, <3>3, GCDetaches, Zenon
        <4> QED
          BY <3>1, <4>1 DEF PcTyped
      <3> QED
        BY <3>2, <3>3
    <2>5. CASE WorkerWaitLifecycle
      BY <2>5 DEF WorkerWaitLifecycle, Goto
    <2>6. CASE WorkerClear
      BY <2>6 DEF WorkerClear, Goto
    <2>7. CASE WorkerDeliver
      BY <2>7 DEF WorkerDeliver, Goto
    <2> HIDE DEF IndInv, CountersExact
    <2> QED
      BY <1>9, <2>1, <2>2, <2>3, <2>4, <2>5, <2>6, <2>7 DEF WorkerNext
  <1> HIDE DEF IndInv, CountersExact
  <1> QED
    BY <1>1, <1>2, <1>3, <1>4, <1>5, <1>6, <1>7, <1>8, <1>9 DEF Next

\* A replaced lifecycle stays closed and empty, a future one untouched.
LEMMA GenerationsPreserved == ASSUME IndInv, Next PROVE GenerationsOrdered'
  <1> USE ParametersTyped, Roles, IndInvFacts
  <1> USE DEF IndInv, TypeOK, LifeTyped, Facts, GenerationsOrdered, Gen, RunActive,
     ReaderActive, ReaderClosing, Goroutines, Tasks, Callers, StopCallers, lifeVars, connVars,
     timerVars, countVars, resetVars, outVars
  <1>1. CASE OnceBody
    <2>1. ASSUME NEW g \in Gen, OnceHeartbeat(g)
          PROVE  GenerationsOrdered'
      BY <2>1 DEF OnceHeartbeat, LockFree
    <2>2. ASSUME NEW g \in Gen, OnceStopTimer(g)
          PROVE  GenerationsOrdered'
      BY <2>2 DEF OnceStopTimer
    <2>3. ASSUME NEW g \in Gen, OnceCloseLifecycle(g)
          PROVE  GenerationsOrdered'
      BY <2>3 DEF OnceCloseLifecycle
    <2>4. ASSUME NEW g \in Gen, OnceCallbacks(g)
          PROVE  GenerationsOrdered'
      BY <2>4 DEF OnceCallbacks, Goto
    <2>5. ASSUME NEW g \in Gen, OnceReconnect(g)
          PROVE  GenerationsOrdered'
      BY <2>5 DEF OnceReconnect, LockFree
    <2> HIDE DEF IndInv, GenerationsOrdered
    <2> QED
      BY <1>1, <2>1, <2>2, <2>3, <2>4, <2>5 DEF OnceBody
  <1>2. CASE \E p \in StopCallers : StopNext(p)
    <2>1. ASSUME NEW p \in StopCallers, OnceClose(p)
          PROVE  GenerationsOrdered'
      BY <2>1 DEF OnceClose
    <2>2. ASSUME NEW p \in StopCallers, StopReturn(p)
          PROVE  GenerationsOrdered'
      BY <2>2 DEF StopReturn, Goto, AfterStop
    <2> HIDE DEF IndInv, GenerationsOrdered
    <2> QED
      BY <1>2, <2>1, <2>2 DEF StopNext
  <1>3. CASE \/ CloseCallbacksBegin \/ CloseCallbacksReturn \/ CloseConn
             \/ \E p \in Closers : Close(p)
    <2>1. CASE CloseCallbacksBegin
      BY <2>1 DEF CloseCallbacksBegin, Goto
    <2>2. CASE CloseCallbacksReturn
      BY <2>2 DEF CloseCallbacksReturn, Goto, MayReturn, Release
    <2>3. CASE CloseConn
      BY <2>3 DEF CloseConn, Goto, Release
    <2>4. ASSUME NEW p \in Closers, Close(p)
          PROVE  GenerationsOrdered'
      BY <2>4 DEF Close, Goto, CallStop
    <2> HIDE DEF IndInv, GenerationsOrdered
    <2> QED
      BY <1>3, <2>1, <2>2, <2>3, <2>4
  <1>4. CASE RunNext
    <2>1. CASE RunBegin
      BY <2>1 DEF RunBegin, Goto
    <2>2. CASE RunOpened
      BY <2>2 DEF RunOpened, Goto, MayReturn
    <2>3. CASE RunOpenFailed
      BY <2>3 DEF RunOpenFailed, Goto, MayReturn, CallStop
    <2>4. CASE RunGC
      BY <2>4, GCDetaches DEF RunGC
    <2>5. CASE RunTest
      BY <2>5 DEF RunTest, Goto, LockFree
    <2>6. CASE RunInstall
      BY <2>6 DEF RunInstall, Goto
    <2>7. CASE RunSpawn
      BY <2>7 DEF RunSpawn
    <2>8. CASE RunInstallFails
      BY <2>8 DEF RunInstallFails, Goto
    <2> HIDE DEF IndInv, GenerationsOrdered
    <2> QED
      BY <1>4, <2>1, <2>2, <2>3, <2>4, <2>5, <2>6, <2>7, <2>8 DEF RunNext
  <1>5. CASE ReaderNext
    <2>1. CASE ReaderCheck
      BY <2>1 DEF ReaderCheck, Goto, CallStop
    <2>2. CASE ReaderTimeout
      BY <2>2 DEF ReaderTimeout, Goto
    <2>3. CASE ReaderFails
      BY <2>3 DEF ReaderFails, Goto, CallStop
    <2>4. CASE ReaderEOF
      BY <2>4 DEF ReaderEOF, Goto, CallStop
    <2>5. CASE ReaderData
      BY <2>5 DEF ReaderData, Goto
    <2>6. CASE ReaderDecoded
      BY <2>6 DEF ReaderDecoded, Goto, CallStop, MayReturn
    <2>7. CASE ReaderInlineDone
      BY <2>7 DEF ReaderInlineDone, Goto
    <2>8. CASE ReaderCallback
      BY <2>8 DEF ReaderCallback, Goto
    <2>9. CASE ReaderCallbackReturn
      BY <2>9 DEF ReaderCallbackReturn, Goto, MayReturn
    <2>10. CASE ReaderGC
      BY <2>10, GCDetaches DEF ReaderGC
    <2> HIDE DEF IndInv, GenerationsOrdered
    <2> QED
      BY <1>5, <2>1, <2>2, <2>3, <2>4, <2>5, <2>6, <2>7, <2>8, <2>9, <2>10 DEF ReaderNext
  <1>6. CASE \/ \E t \in CronTasks : Tick(t) \/ CronNext(t)
             \/ \E t \in MsgTasks : MsgNext(t)
    <2>1. ASSUME NEW t \in CronTasks, Tick(t)
          PROVE  GenerationsOrdered'
      BY <2>1 DEF Tick, Goto
    <2>2. ASSUME NEW t \in CronTasks \cup MsgTasks, TaskAcquire(t)
          PROVE  GenerationsOrdered'
      BY <2>2 DEF TaskAcquire, Goto, Acquire
    <2>3. ASSUME NEW t \in CronTasks, CronBegin(t)
          PROVE  GenerationsOrdered'
      BY <2>3 DEF CronBegin, Goto, Release
    <2>4. ASSUME NEW t \in CronTasks, CronReturn(t)
          PROVE  GenerationsOrdered'
      BY <2>4 DEF CronReturn, Goto, Release, MayReturn
    <2>5. ASSUME NEW t \in CronTasks, CronPanic(t)
          PROVE  GenerationsOrdered'
      BY <2>5 DEF CronPanic, Goto, MayReturn
    <2>6. ASSUME NEW t \in CronTasks, CronRawClose(t)
          PROVE  GenerationsOrdered'
      BY <2>6 DEF CronRawClose, Goto, Release
    <2>7. ASSUME NEW t \in MsgTasks, MsgBegin(t)
          PROVE  GenerationsOrdered'
      BY <2>7 DEF MsgBegin, Goto, Release
    <2>8. ASSUME NEW t \in MsgTasks, MsgReturn(t)
          PROVE  GenerationsOrdered'
      BY <2>8 DEF MsgReturn, Goto, Release, MayReturn
    <2>9. ASSUME NEW t \in MsgTasks, MsgPanic(t)
          PROVE  GenerationsOrdered'
      BY <2>9 DEF MsgPanic, Release, MayReturn
    <2> HIDE DEF IndInv, GenerationsOrdered
    <2> QED
      BY <1>6, <2>1, <2>2, <2>3, <2>4, <2>5, <2>6, <2>7, <2>8, <2>9 DEF CronNext, MsgNext
  <1>7. CASE \/ \E w \in Writers : WriteCheck(w) \/ WriteNext(w)
             \/ \E w \in RawWriters : WriteCheck(w) \/ RawNext(w)
    <2>1. ASSUME NEW w \in Writers \cup RawWriters, WriteCheck(w)
          PROVE  GenerationsOrdered'
      BY <2>1 DEF WriteCheck, Goto
    <2>2. ASSUME NEW w \in Writers, WriteSnapshot(w)
          PROVE  GenerationsOrdered'
      BY <2>2 DEF WriteSnapshot, Goto
    <2>3. ASSUME NEW w \in Writers, WriteAcquire(w)
          PROVE  GenerationsOrdered'
      BY <2>3 DEF WriteAcquire, Goto, Acquire
    <2>4. ASSUME NEW w \in Writers, WriteEncoded(w)
          PROVE  GenerationsOrdered'
      BY <2>4 DEF WriteEncoded, Goto, Release, MayReturn
    <2>5. ASSUME NEW w \in Writers, WriteLock(w)
          PROVE  GenerationsOrdered'
      BY <2>5 DEF WriteLock, Goto, Release
    <2>6. ASSUME NEW w \in Writers, WriteSent(w)
          PROVE  GenerationsOrdered'
      BY <2>6 DEF WriteSent, Goto, Release
    <2>7. ASSUME NEW w \in RawWriters, RawLock(w)
          PROVE  GenerationsOrdered'
      BY <2>7 DEF RawLock, Goto
    <2>8. ASSUME NEW w \in RawWriters, RawSent(w)
          PROVE  GenerationsOrdered'
      BY <2>8 DEF RawSent, Goto
    <2>9. ASSUME NEW w \in RawWriters, RawSnapshot(w)
          PROVE  GenerationsOrdered'
      BY <2>9 DEF RawSnapshot, Goto
    <2>10. ASSUME NEW w \in RawWriters, RawLockBatch(w)
          PROVE  GenerationsOrdered'
      BY <2>10 DEF RawLockBatch, Goto
    <2> HIDE DEF IndInv, GenerationsOrdered
    <2> QED
      BY <1>7, <2>1, <2>2, <2>3, <2>4, <2>5, <2>6, <2>7, <2>8, <2>9, <2>10 DEF WriteNext, RawNext
  <1>8. CASE \E r \in Resetters :
                \/ \E h \in inCallback \cup {"none"} :
                      Reset(r, h) \/ TryReset(r, h) \/ CallResetAsync(r, h)
                \/ ResetAsync(r) \/ AwaitResult(r)
    <2>1. ASSUME NEW r \in Resetters, NEW h \in inCallback \cup {"none"}, Reset(r, h)
          PROVE  GenerationsOrdered'
      BY <2>1 DEF Reset, Goto
    <2>2. ASSUME NEW r \in Resetters, NEW h \in inCallback \cup {"none"}, TryReset(r, h)
          PROVE  GenerationsOrdered'
      BY <2>2 DEF TryReset, Goto
    <2>3. ASSUME NEW r \in Resetters, NEW h \in inCallback \cup {"none"}, CallResetAsync(r, h)
          PROVE  GenerationsOrdered'
      BY <2>3 DEF CallResetAsync, Goto
    <2>4. ASSUME NEW r \in Resetters, ResetAsync(r)
          PROVE  GenerationsOrdered'
      BY <2>4 DEF ResetAsync, Goto
    <2>5. ASSUME NEW r \in Resetters, AwaitResult(r)
          PROVE  GenerationsOrdered'
      BY <2>5 DEF AwaitResult, Goto
    <2> HIDE DEF IndInv, GenerationsOrdered
    <2> QED
      BY <1>8, <2>1, <2>2, <2>3, <2>4, <2>5
  <1>9. CASE WorkerNext
    <2>1. CASE WorkerRawClose
      BY <2>1 DEF WorkerRawClose, Goto
    <2>2. CASE WorkerStopHeartbeat
      BY <2>2 DEF WorkerStopHeartbeat, Goto
    <2>3. CASE WorkerWaitGr
      BY <2>3 DEF WorkerWaitGr, Goto
    <2>4. CASE WorkerGC
      <3>1. /\ gen' = gen /\ once' = once /\ done' = done /\ lcClosed' = lcClosed
            /\ pgen' = pgen \/ pgen' = [pgen EXCEPT !["closeconn"] = gen]
            /\ lcWG' = lcWG \/ lcWG' = [lcWG EXCEPT ![gen] = @ \cup {"closeconn"}]
            /\ \A q \in Procs \ {"worker", "closeconn"} : pc'[q] = pc[q]
        BY <2>4, GCFrame, Zenon DEF WorkerGC
      <3> QED
        BY <3>1
    <2>5. CASE WorkerWaitLifecycle
      BY <2>5 DEF WorkerWaitLifecycle, Goto
    <2>6. CASE WorkerClear
      BY <2>6 DEF WorkerClear, Goto, WorkerOrdered, OnceOrdered
    <2>7. CASE WorkerDeliver
      BY <2>7 DEF WorkerDeliver, Goto
    <2> HIDE DEF IndInv, GenerationsOrdered
    <2> QED
      BY <1>9, <2>1, <2>2, <2>3, <2>4, <2>5, <2>6, <2>7 DEF WorkerNext
  <1> HIDE DEF IndInv, GenerationsOrdered
  <1> QED
    BY <1>1, <1>2, <1>3, <1>4, <1>5, <1>6, <1>7, <1>8, <1>9 DEF Next

-----------------------------------------------------------------------------
(* The invariant, and what follows from it. *)

\* Only the step that clears the fields replaces the generation.
LEMMA OnlyClearAdvances == Next => gen' = gen \/ WorkerClear
  <1> SUFFICES ASSUME Next PROVE gen' = gen \/ WorkerClear
    OBVIOUS
  <1> USE DEF lifeVars
  <1>0. \A p, l : GC(p, l) => gen' = gen
    BY DEF GC
  <1>1. CASE OnceBody \/ \E p \in StopCallers : StopNext(p)
    BY <1>1 DEF OnceBody, OnceHeartbeat, OnceStopTimer, OnceCloseLifecycle, OnceCallbacks,
       OnceReconnect, StopNext, OnceClose, StopReturn
  <1>2. CASE \/ CloseCallbacksBegin \/ CloseCallbacksReturn \/ CloseConn
             \/ \E p \in Closers : Close(p)
    BY <1>2 DEF CloseCallbacksBegin, CloseCallbacksReturn, CloseConn, Close
  <1>3. CASE RunNext
    BY <1>0, <1>3 DEF RunNext, RunBegin, RunOpened, RunOpenFailed, RunGC, RunTest,
       RunInstall, RunInstallFails, RunSpawn
  <1>4. CASE ReaderNext
    BY <1>0, <1>4 DEF ReaderNext, ReaderCheck, ReaderTimeout, ReaderFails, ReaderEOF, ReaderData,
       ReaderDecoded, ReaderInlineDone, ReaderCallback, ReaderCallbackReturn, ReaderGC
  <1>5. CASE \E t \in CronTasks : Tick(t) \/ CronNext(t)
    BY <1>5 DEF Tick, CronNext, TaskAcquire, CronBegin, CronReturn, CronPanic, CronRawClose
  <1>6. CASE \E t \in MsgTasks : MsgNext(t)
    BY <1>6 DEF MsgNext, TaskAcquire, MsgBegin, MsgReturn, MsgPanic
  <1>7. CASE \E w \in Writers : WriteCheck(w) \/ WriteNext(w)
    BY <1>7 DEF WriteCheck, WriteNext, WriteSnapshot, WriteAcquire, WriteEncoded, WriteLock, WriteSent
  <1>8. CASE \E w \in RawWriters : WriteCheck(w) \/ RawNext(w)
    BY <1>8 DEF WriteCheck, RawNext, RawLock, RawSnapshot, RawLockBatch, RawSent
  <1>9. CASE \E r \in Resetters :
                \/ \E h \in inCallback \cup {"none"} :
                      Reset(r, h) \/ TryReset(r, h) \/ CallResetAsync(r, h)
                \/ ResetAsync(r) \/ AwaitResult(r)
    BY <1>9 DEF Reset, TryReset, CallResetAsync, ResetAsync, AwaitResult
  <1>10. CASE WorkerNext
    <2>1. CASE WorkerRawClose
      BY <2>1, Zenon DEF WorkerRawClose
    <2>2. CASE WorkerStopHeartbeat
      BY <2>2, Zenon DEF WorkerStopHeartbeat
    <2>3. CASE WorkerWaitGr \/ WorkerGC \/ WorkerWaitLifecycle
      BY <1>0, <2>3 DEF WorkerWaitGr, WorkerGC, WorkerWaitLifecycle
    <2>4. CASE WorkerDeliver
      BY <2>4 DEF WorkerDeliver
    <2> QED
      BY <1>10, <2>1, <2>2, <2>3, <2>4 DEF WorkerNext
  <1> QED
    BY <1>1, <1>2, <1>3, <1>4, <1>5, <1>6, <1>7, <1>8, <1>9, <1>10 DEF Next

\* Only a writer that finds a connection, with packetLock held, begins to send.
LEMMA OnlyLocksSend ==
    ASSUME pc \in [Procs -> Steps], Next, NEW q \in Procs, pc'[q] = "send"
    PROVE  pc[q] = "send" \/ conn
  <1> USE DEF Goto, CallStop
  <1>0. ASSUME NEW p, NEW l, GC(p, l), l # "send" PROVE pc[q] = "send"
    BY <1>0 DEF GC
  <1>1. CASE OnceBody
    BY <1>1 DEF OnceBody, OnceHeartbeat, OnceStopTimer, OnceCloseLifecycle, OnceCallbacks,
       OnceReconnect
  <1>2. CASE \E p \in StopCallers : StopNext(p)
    BY <1>2 DEF StopNext, OnceClose, StopReturn, AfterStop
  <1>3. CASE \/ CloseCallbacksBegin \/ CloseCallbacksReturn \/ CloseConn
             \/ \E p \in Closers : Close(p)
    BY <1>3 DEF CloseCallbacksBegin, CloseCallbacksReturn, CloseConn, Close
  <1>4. CASE RunNext
    <2>1. CASE RunGC
      BY <1>0, <2>1 DEF RunGC
    <2> QED
      BY <1>4, <2>1 DEF RunNext, RunBegin, RunOpened, RunOpenFailed, RunTest, RunInstall,
         RunInstallFails, RunSpawn
  <1>5. CASE ReaderNext
    <2>1. CASE ReaderGC
      BY <1>0, <2>1 DEF ReaderGC
    <2>2. CASE ReaderDecoded
      BY <2>2 DEF ReaderDecoded
    <2> QED
      BY <1>5, <2>1, <2>2 DEF ReaderNext, ReaderCheck, ReaderTimeout, ReaderFails, ReaderEOF,
         ReaderData, ReaderInlineDone, ReaderCallback, ReaderCallbackReturn
  <1>6. CASE \E t \in CronTasks : Tick(t) \/ CronNext(t)
    BY <1>6 DEF Tick, CronNext, TaskAcquire, CronBegin, CronReturn, CronPanic, CronRawClose
  <1>7. CASE \E t \in MsgTasks : MsgNext(t)
    BY <1>7 DEF MsgNext, TaskAcquire, MsgBegin, MsgReturn, MsgPanic
  <1>8. CASE \E w \in Writers : WriteCheck(w) \/ WriteNext(w)
    BY <1>8 DEF WriteCheck, WriteNext, WriteSnapshot, WriteAcquire, WriteEncoded, WriteLock, WriteSent
  <1>9. CASE \E w \in RawWriters : WriteCheck(w) \/ RawNext(w)
    BY <1>9 DEF WriteCheck, RawNext, RawLock, RawSnapshot, RawLockBatch, RawSent
  <1>10. CASE \E r \in Resetters :
                \/ \E h \in inCallback \cup {"none"} :
                      Reset(r, h) \/ TryReset(r, h) \/ CallResetAsync(r, h)
                \/ ResetAsync(r) \/ AwaitResult(r)
    BY <1>10 DEF Reset, TryReset, CallResetAsync, ResetAsync, AwaitResult
  <1>11. CASE WorkerNext
    <2>1. CASE WorkerGC
      BY <1>0, <2>1 DEF WorkerGC
    <2> QED
      BY <1>11, <2>1 DEF WorkerNext, WorkerRawClose, WorkerStopHeartbeat, WorkerWaitGr,
         WorkerWaitLifecycle, WorkerClear, WorkerDeliver
  <1> HIDE DEF Goto, CallStop
  <1> QED
    BY <1>1, <1>2, <1>3, <1>4, <1>5, <1>6, <1>7, <1>8, <1>9, <1>10, <1>11 DEF Next

\* A reset takes packetLock before it replaces the generation, so only a batch
\* can be sending afterwards.
LEMMA SendsPreserved == ASSUME IndInv, Next PROVE SendsOrdered'
  <1> SUFFICES ASSUME NEW q \in Procs, pc'[q] = "send" PROVE gen' = 0
    BY DEF SendsOrdered
  <1>1. pc[q] = "send" \/ conn
    BY OnlyLocksSend DEF IndInv, TypeOK, PcTyped
  <1>2. gen = 0
    BY <1>1 DEF IndInv, SendsOrdered, ConnOwned
  <1>3. CASE WorkerClear
    <2>1. pc'[q] = pc[q] /\ packetLock = {} /\ ~conn
      BY <1>3 DEF WorkerClear, Goto, IndInv, TypeOK, PcTyped, ConnOwned, WorkerOrdered
    <2> QED
      BY <1>1, <2>1 DEF IndInv, CountersExact
  <1> QED
    BY <1>2, <1>3, OnlyClearAdvances

\* Only a request and its delivery change a result channel.
LEMMA OnlyRequestsAnswer == Next => result' = result \/ (\E r \in Resetters : ResetAsync(r)) \/ WorkerDeliver
  <1> SUFFICES ASSUME Next PROVE result' = result \/ (\E r \in Resetters : ResetAsync(r)) \/ WorkerDeliver
    OBVIOUS
  <1> USE DEF resetVars
  <1>1. CASE OnceBody \/ \E p \in StopCallers : StopNext(p)
    BY <1>1 DEF OnceBody, OnceHeartbeat, OnceStopTimer, OnceCloseLifecycle, OnceCallbacks,
       OnceReconnect, StopNext, OnceClose, StopReturn
  <1>2. CASE \/ CloseCallbacksBegin \/ CloseCallbacksReturn \/ CloseConn
             \/ \E p \in Closers : Close(p)
    BY <1>2 DEF CloseCallbacksBegin, CloseCallbacksReturn, CloseConn, Close
  <1>3. CASE RunNext
    BY <1>3 DEF RunNext, RunBegin, RunOpened, RunOpenFailed, RunGC, RunTest,
       RunInstall, RunInstallFails, RunSpawn
  <1>4. CASE ReaderNext
    BY <1>4 DEF ReaderNext, ReaderCheck, ReaderTimeout, ReaderFails, ReaderEOF, ReaderData,
       ReaderDecoded, ReaderInlineDone, ReaderCallback, ReaderCallbackReturn, ReaderGC
  <1>5. CASE \E t \in CronTasks : Tick(t) \/ CronNext(t)
    BY <1>5 DEF Tick, CronNext, TaskAcquire, CronBegin, CronReturn, CronPanic, CronRawClose
  <1>6. CASE \E t \in MsgTasks : MsgNext(t)
    BY <1>6 DEF MsgNext, TaskAcquire, MsgBegin, MsgReturn, MsgPanic
  <1>7. CASE \E w \in Writers : WriteCheck(w) \/ WriteNext(w)
    BY <1>7 DEF WriteCheck, WriteNext, WriteSnapshot, WriteAcquire, WriteEncoded, WriteLock, WriteSent
  <1>8. CASE \E w \in RawWriters : WriteCheck(w) \/ RawNext(w)
    BY <1>8 DEF WriteCheck, RawNext, RawLock, RawSnapshot, RawLockBatch, RawSent
  <1>9. CASE \E r \in Resetters :
                \/ \E h \in inCallback \cup {"none"} :
                      Reset(r, h) \/ TryReset(r, h) \/ CallResetAsync(r, h)
                \/ ResetAsync(r) \/ AwaitResult(r)
    BY <1>9 DEF Reset, TryReset, CallResetAsync, AwaitResult
  <1>10. CASE WorkerNext
    <2>1. CASE WorkerRawClose
      BY <2>1, Zenon DEF WorkerRawClose
    <2>2. CASE WorkerStopHeartbeat
      BY <2>2, Zenon DEF WorkerStopHeartbeat
    <2>3. CASE WorkerWaitGr \/ WorkerGC \/ WorkerWaitLifecycle
      BY <2>3 DEF WorkerWaitGr, WorkerGC, WorkerWaitLifecycle
    <2>4. CASE WorkerClear
      BY <2>4 DEF WorkerClear
    <2> QED
      BY <1>10, <2>1, <2>2, <2>3, <2>4 DEF WorkerNext
  <1> QED
    BY <1>1, <1>2, <1>3, <1>4, <1>5, <1>6, <1>7, <1>8, <1>9, <1>10 DEF Next

\* A stuttering step keeps it.
LEMMA StutterKeeps == ASSUME IndInv, UNCHANGED vars PROVE IndInv'
  <1> USE DEF vars, lifeVars, connVars, timerVars, countVars, resetVars, outVars
  <1>1. TypeOK'
    BY DEF IndInv, TypeOK, PcTyped, LifeTyped, FieldsTyped
  <1>2. CountersExact' /\ InlineExact'
    BY DEF IndInv, CountersExact, InlineExact
  <1>3. LifecyclesExact'
    BY DEF IndInv, LifecyclesExact, Holding
  <1>4. CapturesOrdered' /\ GenerationsOrdered'
    BY DEF IndInv, CapturesOrdered, GenerationsOrdered
  <1>5. OnceOrdered' /\ TimerOrdered'
    BY DEF IndInv, OnceOrdered, TimerOrdered
  <1>6. ConnOwned' /\ SendsOrdered' /\ WorkerOrdered' /\ RequestsOrdered'
    BY DEF IndInv, ConnOwned, SendsOrdered, WorkerOrdered, RequestsOrdered
  <1> QED
    BY <1>1, <1>2, <1>3, <1>4, <1>5, <1>6 DEF IndInv

\* The fields are replaced only in a quiet session.
LEMMA ClearIsQuiet ==
    ASSUME IndInv, WorkerClear PROVE grWG = {} /\ inCallback = {} /\ packetLock = {}
  <1> USE Roles, ParametersTyped DEF IndInv
  <1>1. grWG = {} /\ packetLock = {} /\ lcWG[gen] = {}
    BY DEF WorkerClear, WorkerOrdered
  <1>2. ASSUME NEW p \in Procs, Holding(p) PROVE FALSE
    <2>1. pgen[p] = gen /\ gen \in Gen
      BY <1>2, IndInvFacts DEF TypeOK, LifeTyped, Facts
    <2> QED
      BY <1>1, <1>2, <2>1 DEF LifecyclesExact
  <1>3. pc["run"] \notin RunActive /\ pc["reader"] \notin ReaderActive
    BY <1>1, IndInvFacts DEF Facts
  <1>4. ASSUME NEW p \in inCallback PROVE FALSE
    <2>1. p \in Procs /\ pc[p] \in CallbackSteps
      BY DEF TypeOK, LifeTyped, CountersExact
    <2>2. CASE p \in Goroutines
      BY <1>2, <1>3, <2>1, <2>2 DEF Goroutines, TypeOK, PcTyped, Holding, RunActive, ReaderActive,
         ReaderClosing, CallbackSteps, RunSteps, ReaderSteps, WorkerSteps, ClosecbSteps
    <2>3. CASE p \in Tasks
      BY <1>2, <2>1, <2>3 DEF Tasks, TypeOK, PcTyped, Holding, CallbackSteps, CronSteps, MsgSteps,
         WriterSteps
    <2>4. CASE p \in Callers
      BY <2>1, <2>4 DEF Callers, TypeOK, PcTyped, CallbackSteps, RawSteps, ResetSteps
    <2> QED
      BY <2>1, <2>2, <2>3, <2>4 DEF Procs
  <1> QED
    BY <1>1, <1>4

\* Only close callbacks run in a session that was reset.
LEMMA CallbacksImplied == IndInv => CallbacksKeepFields
  <1> SUFFICES ASSUME IndInv, ~fields, NEW p \in inCallback PROVE p = "closecb"
    BY DEF CallbacksKeepFields
  <1> USE Roles, ParametersTyped DEF IndInv
  <1>1. gen # 0
    BY DEF ConnOwned
  <1>2. p \in Procs /\ pc[p] \in CallbackSteps
    BY DEF TypeOK, LifeTyped, CountersExact
  <1>3. pc["run"] \notin RunActive /\ pc["reader"] \notin ReaderActive
    BY <1>1, IndInvFacts DEF Facts
  <1>4. CASE p \in Goroutines
    BY <1>2, <1>3, <1>4 DEF Goroutines, TypeOK, PcTyped, RunActive, ReaderActive, ReaderClosing,
       CallbackSteps, RunSteps, ReaderSteps, WorkerSteps
  <1>5. CASE p \in Tasks
    BY <1>1, <1>2, <1>5, IndInvFacts DEF Facts, Tasks, TypeOK, PcTyped, CallbackSteps, CronSteps,
       MsgSteps, WriterSteps
  <1>6. CASE p \in Callers
    BY <1>2, <1>6 DEF Callers, TypeOK, PcTyped, CallbackSteps, RawSteps, ResetSteps
  <1> QED
    BY <1>2, <1>4, <1>5, <1>6 DEF Procs

\* Every step of the program keeps the invariant.
LEMMA NextKeeps == ASSUME IndInv, Next PROVE IndInv'
  <1>1. TypeOK'
    BY PcTypedPreserved, LifeTypedPreserved, FieldsTypedPreserved DEF TypeOK
  <1>2. CountersExact' /\ LifecyclesExact' /\ InlineExact'
    BY CountersPreserved, LifecyclesPreserved, InlinePreserved
  <1>3. CapturesOrdered' /\ GenerationsOrdered' /\ OnceOrdered' /\ TimerOrdered'
    BY CapturesPreserved, GenerationsPreserved, OncePreserved, TimerPreserved
  <1>4. ConnOwned' /\ SendsOrdered' /\ WorkerOrdered' /\ RequestsOrdered'
    BY ConnPreserved, SendsPreserved, WorkerPreserved, RequestsPreserved
  <1> QED
    BY <1>1, <1>2, <1>3, <1>4 DEF IndInv

\* The inductive invariant of the session: what every counter, flag and
\* captured generation says of the goroutines, in every reachable state.
THEOREM SessionInductive == Spec => []IndInv
  <1>1. IndInv /\ [Next]_vars => IndInv'
    BY NextKeeps, StutterKeeps
  <1> QED
    BY InitIndInv, <1>1, PTL DEF Spec

\* Type correctness of the session.
THEOREM SessionTyped == Spec => []TypeOK
  <1>1. IndInv => TypeOK
    BY DEF IndInv
  <1> QED
    BY SessionInductive, <1>1, PTL

\* No work is ever registered in a lifecycle that a reset has replaced.
THEOREM SessionNoStaleWork == Spec => []NoStaleWork
  <1>1. IndInv => NoStaleWork
    BY DEF IndInv, GenerationsOrdered, NoStaleWork
  <1> QED
    BY SessionInductive, <1>1, PTL

\* reset() never clears the fields under a running user callback.
THEOREM SessionCallbacksKeepFields == Spec => []CallbacksKeepFields
  BY SessionInductive, CallbacksImplied, PTL

\* A nil result of a reset request means that the connection is closed, the
\* timer stopped, the goroutines of the old generation gone, and that only a
\* batch which had read the old connection can still be sending.
THEOREM SessionSuccessMeansFinished == Spec => []SuccessMeansFinished
  <1>1. IndInv => SuccessMeansFinished
    <2> SUFFICES ASSUME IndInv, NEW r \in Resetters, result[r] = "ok"
                 PROVE  /\ gen > 0 /\ ~fields /\ ~conn /\ transport = "closed"
                        /\ ~timer /\ ~wheel /\ grWG = {}
                        /\ \A p \in packetLock : pc[p] = "sendbatch"
      BY DEF SuccessMeansFinished
    <2>1. gen > 0
      BY DEF IndInv, WorkerOrdered
    <2>2. \A p \in packetLock : pc[p] = "sendbatch"
      BY <2>1 DEF IndInv, TypeOK, LifeTyped, CountersExact, SendsOrdered
    <2> QED
      BY <2>1, <2>2 DEF IndInv, ConnOwned
  <1> QED
    BY SessionInductive, <1>1, PTL

\* #129: a close that races run() leaves no heartbeat timer on the wheel.
THEOREM SessionNoLeakedTimer == Spec => []NoLeakedTimer
  <1>1. IndInv => NoLeakedTimer
    BY DEF IndInv, TimerOrdered, NoLeakedTimer
  <1> QED
    BY SessionInductive, <1>1, PTL

\* #129: gc() never clears attrs before the stop() body has read them.
THEOREM SessionReconnectNotLost == Spec => []ReconnectNotLost
  <1>1. IndInv => ReconnectNotLost
    BY DEF IndInv, OnceOrdered, ReconnectNotLost
  <1> QED
    BY SessionInductive, <1>1, PTL

\* The step of reset() that replaces the fields finds the session quiet.
THEOREM SessionClearsOnlyWhenQuiet == Spec => ClearsOnlyWhenQuiet
  <1>1. IndInv /\ [Next]_vars =>
          [gen' # gen => grWG = {} /\ inCallback = {} /\ packetLock = {}]_vars
    BY OnlyClearAdvances, ClearIsQuiet DEF vars
  <1> QED
    BY SessionInductive, <1>1, PTL DEF Spec, ClearsOnlyWhenQuiet

\* A delivered result is final.
THEOREM SessionResultsAreFinal == Spec => ResultsAreFinal
  <1>1. ASSUME IndInv, Next
        PROVE  \A r \in Resetters : result[r] \in {"ok", "failed"} => result'[r] = result[r]
    <2> USE DEF IndInv, TypeOK, FieldsTyped
    <2>1. CASE result' = result
      BY <1>1, <2>1
    <2>2. ASSUME NEW s \in Resetters, ResetAsync(s)
          PROVE  \A r \in Resetters : result[r] \in {"ok", "failed"} => result'[r] = result[r]
      <3>1. /\ pc[s] \in {"sync", "async"}
            /\ result' = [result EXCEPT ![s] = "pending"]
        BY <1>1, <2>2, ResetAsyncStep
      <3>2. result[s] = "none"
        BY <1>1, <3>1 DEF RequestsOrdered
      <3> QED
        BY <1>1, <3>1, <3>2
    <2>3. CASE WorkerDeliver
      BY <1>1, <2>3 DEF WorkerDeliver
    <2> QED
      BY <1>1, <2>1, <2>2, <2>3, OnlyRequestsAnswer
  <1>2. IndInv /\ [Next]_vars =>
          [\A r \in Resetters : result[r] \in {"ok", "failed"} => result'[r] = result[r]]_vars
    BY <1>1
  <1> QED
    BY SessionInductive, <1>2, PTL DEF Spec, ResultsAreFinal
=============================================================================
