------------------------- MODULE SessionOrderProofs -------------------------
(***************************************************************************)
(* Every action of Session keeps the lifecycles exact and the captured     *)
(* generations in order.                                                   *)
(***************************************************************************)
EXTENDS SessionLemmas

\* acquire, addClosingTask and release stay paired in every generation.
LEMMA LifecyclesPreserved == ASSUME IndInv, Next PROVE LifecyclesExact'
  <1> USE ParametersTyped, Roles, IndInvFacts
  <1> USE DEF IndInv, TypeOK, LifeTyped, Facts, LifecyclesExact, Holding, OnceOrdered,
     Goroutines, Tasks, Callers, StopCallers, lifeVars, connVars, timerVars, countVars,
     resetVars, outVars
  <1>1. CASE OnceBody
    <2>1. ASSUME NEW g \in Gen, OnceHeartbeat(g)
          PROVE  LifecyclesExact'
      BY <2>1 DEF OnceHeartbeat, LockFree
    <2>2. ASSUME NEW g \in Gen, OnceStopTimer(g)
          PROVE  LifecyclesExact'
      BY <2>2 DEF OnceStopTimer
    <2>3. ASSUME NEW g \in Gen, OnceCloseLifecycle(g)
          PROVE  LifecyclesExact'
      BY <2>3 DEF OnceCloseLifecycle
    <2>4. ASSUME NEW g \in Gen, OnceCallbacks(g)
          PROVE  LifecyclesExact'
      BY <2>4 DEF OnceCallbacks, Goto
    <2>5. ASSUME NEW g \in Gen, OnceReconnect(g)
          PROVE  LifecyclesExact'
      BY <2>5 DEF OnceReconnect, LockFree
    <2> HIDE DEF IndInv, LifecyclesExact
    <2> QED
      BY <1>1, <2>1, <2>2, <2>3, <2>4, <2>5 DEF OnceBody
  <1>2. CASE \E p \in StopCallers : StopNext(p)
    <2>1. ASSUME NEW p \in StopCallers, OnceClose(p)
          PROVE  LifecyclesExact'
      BY <2>1 DEF OnceClose
    <2>2. ASSUME NEW p \in StopCallers, StopReturn(p)
          PROVE  LifecyclesExact'
      BY <2>2 DEF StopReturn, Goto, AfterStop
    <2> HIDE DEF IndInv, LifecyclesExact
    <2> QED
      BY <1>2, <2>1, <2>2 DEF StopNext
  <1>3. CASE \/ CloseCallbacksBegin \/ CloseCallbacksReturn \/ CloseConn
             \/ \E p \in Closers : Close(p)
    <2>1. CASE CloseCallbacksBegin
      BY <2>1 DEF CloseCallbacksBegin, Goto
    <2>2. CASE CloseCallbacksReturn
      BY <2>2 DEF CloseCallbacksReturn, Goto, MayReturn, Release
    <2>3. CASE CloseConn
      BY <2>3 DEF CloseConn, Goto, Release
    <2>4. ASSUME NEW p \in Closers, Close(p)
          PROVE  LifecyclesExact'
      BY <2>4 DEF Close, Goto, CallStop
    <2> HIDE DEF IndInv, LifecyclesExact
    <2> QED
      BY <1>3, <2>1, <2>2, <2>3, <2>4
  <1>4. CASE RunNext
    <2>1. CASE RunBegin
      BY <2>1 DEF RunBegin, Goto
    <2>2. CASE RunOpened
      BY <2>2 DEF RunOpened, Goto, MayReturn
    <2>3. CASE RunOpenFailed
      BY <2>3 DEF RunOpenFailed, Goto, MayReturn, CallStop
    <2>4. CASE RunGC
      BY <2>4 DEF RunGC, Goto, GC, LockFree
    <2>5. CASE RunTest
      BY <2>5 DEF RunTest, Goto, LockFree
    <2>6. CASE RunInstall
      BY <2>6 DEF RunInstall, Goto
    <2>7. CASE RunSpawn
      BY <2>7 DEF RunSpawn
    <2>8. CASE RunInstallFails
      BY <2>8 DEF RunInstallFails, Goto
    <2> HIDE DEF IndInv, LifecyclesExact
    <2> QED
      BY <1>4, <2>1, <2>2, <2>3, <2>4, <2>5, <2>6, <2>7, <2>8 DEF RunNext
  <1>5. CASE ReaderNext
    <2>1. CASE ReaderCheck
      BY <2>1 DEF ReaderCheck, Goto, CallStop
    <2>2. CASE ReaderTimeout
      BY <2>2 DEF ReaderTimeout, Goto
    <2>3. CASE ReaderFails
      BY <2>3 DEF ReaderFails, Goto, CallStop
    <2>4. CASE ReaderEOF
      BY <2>4 DEF ReaderEOF, Goto, CallStop
    <2>5. CASE ReaderData
      BY <2>5 DEF ReaderData, Goto
    <2>6. CASE ReaderDecoded
      BY <2>6 DEF ReaderDecoded, Goto, CallStop, MayReturn
    <2>7. CASE ReaderInlineDone
      BY <2>7 DEF ReaderInlineDone, Goto
    <2>8. CASE ReaderCallback
      BY <2>8 DEF ReaderCallback, Goto
    <2>9. CASE ReaderCallbackReturn
      BY <2>9 DEF ReaderCallbackReturn, Goto, MayReturn
    <2>10. CASE ReaderGC
      BY <2>10 DEF ReaderGC, Goto, GC, LockFree
    <2> HIDE DEF IndInv, LifecyclesExact
    <2> QED
      BY <1>5, <2>1, <2>2, <2>3, <2>4, <2>5, <2>6, <2>7, <2>8, <2>9, <2>10 DEF ReaderNext
  <1>6. CASE \/ \E t \in CronTasks : Tick(t) \/ CronNext(t)
             \/ \E t \in MsgTasks : MsgNext(t)
    <2>1. ASSUME NEW t \in CronTasks, Tick(t)
          PROVE  LifecyclesExact'
      BY <2>1 DEF Tick, Goto
    <2>2. ASSUME NEW t \in CronTasks \cup MsgTasks, TaskAcquire(t)
          PROVE  LifecyclesExact'
      BY <2>2 DEF TaskAcquire, Goto, Acquire
    <2>3. ASSUME NEW t \in CronTasks, CronBegin(t)
          PROVE  LifecyclesExact'
      BY <2>3 DEF CronBegin, Goto, Release
    <2>4. ASSUME NEW t \in CronTasks, CronReturn(t)
          PROVE  LifecyclesExact'
      BY <2>4 DEF CronReturn, Goto, Release, MayReturn
    <2>5. ASSUME NEW t \in CronTasks, CronPanic(t)
          PROVE  LifecyclesExact'
      BY <2>5 DEF CronPanic, Goto, MayReturn
    <2>6. ASSUME NEW t \in CronTasks, CronRawClose(t)
          PROVE  LifecyclesExact'
      BY <2>6 DEF CronRawClose, Goto, Release
    <2>7. ASSUME NEW t \in MsgTasks, MsgBegin(t)
          PROVE  LifecyclesExact'
      BY <2>7 DEF MsgBegin, Goto, Release
    <2>8. ASSUME NEW t \in MsgTasks, MsgReturn(t)
          PROVE  LifecyclesExact'
      BY <2>8 DEF MsgReturn, Goto, Release, MayReturn
    <2>9. ASSUME NEW t \in MsgTasks, MsgPanic(t)
          PROVE  LifecyclesExact'
      BY <2>9 DEF MsgPanic, Release, MayReturn
    <2> HIDE DEF IndInv, LifecyclesExact
    <2> QED
      BY <1>6, <2>1, <2>2, <2>3, <2>4, <2>5, <2>6, <2>7, <2>8, <2>9 DEF CronNext, MsgNext
  <1>7. CASE \/ \E w \in Writers : WriteCheck(w) \/ WriteNext(w)
             \/ \E w \in RawWriters : WriteCheck(w) \/ RawNext(w)
    <2>1. ASSUME NEW w \in Writers \cup RawWriters, WriteCheck(w)
          PROVE  LifecyclesExact'
      BY <2>1 DEF WriteCheck, Goto
    <2>2. ASSUME NEW w \in Writers, WriteSnapshot(w)
          PROVE  LifecyclesExact'
      BY <2>2 DEF WriteSnapshot, Goto
    <2>3. ASSUME NEW w \in Writers, WriteAcquire(w)
          PROVE  LifecyclesExact'
      BY <2>3 DEF WriteAcquire, Goto, Acquire
    <2>4. ASSUME NEW w \in Writers, WriteEncoded(w)
          PROVE  LifecyclesExact'
      BY <2>4 DEF WriteEncoded, Goto, Release, MayReturn
    <2>5. ASSUME NEW w \in Writers, WriteLock(w)
          PROVE  LifecyclesExact'
      BY <2>5 DEF WriteLock, Goto, Release
    <2>6. ASSUME NEW w \in Writers, WriteSent(w)
          PROVE  LifecyclesExact'
      BY <2>6 DEF WriteSent, Goto, Release
    <2>7. ASSUME NEW w \in RawWriters, RawLock(w)
          PROVE  LifecyclesExact'
      BY <2>7 DEF RawLock, Goto
    <2>8. ASSUME NEW w \in RawWriters, RawSent(w)
          PROVE  LifecyclesExact'
      BY <2>8 DEF RawSent, Goto
    <2>9. ASSUME NEW w \in RawWriters, RawSnapshot(w)
          PROVE  LifecyclesExact'
      BY <2>9 DEF RawSnapshot, Goto
    <2>10. ASSUME NEW w \in RawWriters, RawLockBatch(w)
          PROVE  LifecyclesExact'
      BY <2>10 DEF RawLockBatch, Goto
    <2> HIDE DEF IndInv, LifecyclesExact
    <2> QED
      BY <1>7, <2>1, <2>2, <2>3, <2>4, <2>5, <2>6, <2>7, <2>8, <2>9, <2>10 DEF WriteNext, RawNext
  <1>8. CASE \E r \in Resetters :
                \/ \E h \in inCallback \cup {"none"} :
                      Reset(r, h) \/ TryReset(r, h) \/ CallResetAsync(r, h)
                \/ ResetAsync(r) \/ AwaitResult(r)
    <2>1. ASSUME NEW r \in Resetters, NEW h \in inCallback \cup {"none"}, Reset(r, h)
          PROVE  LifecyclesExact'
      BY <2>1 DEF Reset, Goto
    <2>2. ASSUME NEW r \in Resetters, NEW h \in inCallback \cup {"none"}, TryReset(r, h)
          PROVE  LifecyclesExact'
      BY <2>2 DEF TryReset, Goto
    <2>3. ASSUME NEW r \in Resetters, NEW h \in inCallback \cup {"none"}, CallResetAsync(r, h)
          PROVE  LifecyclesExact'
      BY <2>3 DEF CallResetAsync, Goto
    <2>4. ASSUME NEW r \in Resetters, ResetAsync(r)
          PROVE  LifecyclesExact'
      BY <2>4 DEF ResetAsync, Goto
    <2>5. ASSUME NEW r \in Resetters, AwaitResult(r)
          PROVE  LifecyclesExact'
      BY <2>5 DEF AwaitResult, Goto
    <2> HIDE DEF IndInv, LifecyclesExact
    <2> QED
      BY <1>8, <2>1, <2>2, <2>3, <2>4, <2>5
  <1>9. CASE WorkerNext
    <2>1. CASE WorkerRawClose
      BY <2>1 DEF WorkerRawClose, Goto
    <2>2. CASE WorkerStopHeartbeat
      BY <2>2 DEF WorkerStopHeartbeat, Goto
    <2>3. CASE WorkerWaitGr
      BY <2>3 DEF WorkerWaitGr, Goto
    <2>4. CASE WorkerGC
      BY <2>4 DEF WorkerGC, Goto, GC, LockFree
    <2>5. CASE WorkerWaitLifecycle
      BY <2>5 DEF WorkerWaitLifecycle, Goto
    <2>6. CASE WorkerClear
      BY <2>6 DEF WorkerClear, Goto
    <2>7. CASE WorkerDeliver
      BY <2>7 DEF WorkerDeliver, Goto
    <2> HIDE DEF IndInv, LifecyclesExact
    <2> QED
      BY <1>9, <2>1, <2>2, <2>3, <2>4, <2>5, <2>6, <2>7 DEF WorkerNext
  <1> HIDE DEF IndInv, LifecyclesExact
  <1> QED
    BY <1>1, <1>2, <1>3, <1>4, <1>5, <1>6, <1>7, <1>8, <1>9 DEF Next

\* Without a task pool addTask runs OnMessage before the next read.
LEMMA InlinePreserved == ASSUME IndInv, Next PROVE InlineExact'
  <1> USE ParametersTyped, Roles, IndInvFacts
  <1> USE DEF IndInv, TypeOK, LifeTyped, Facts, InlineExact, Goroutines, Tasks, Callers,
     StopCallers, lifeVars, connVars, timerVars, countVars, resetVars, outVars
  <1>1. CASE OnceBody
    <2>1. ASSUME NEW g \in Gen, OnceHeartbeat(g)
          PROVE  InlineExact'
      BY <2>1 DEF OnceHeartbeat, LockFree
    <2>2. ASSUME NEW g \in Gen, OnceStopTimer(g)
          PROVE  InlineExact'
      BY <2>2 DEF OnceStopTimer
    <2>3. ASSUME NEW g \in Gen, OnceCloseLifecycle(g)
          PROVE  InlineExact'
      BY <2>3 DEF OnceCloseLifecycle
    <2>4. ASSUME NEW g \in Gen, OnceCallbacks(g)
          PROVE  InlineExact'
      BY <2>4 DEF OnceCallbacks, Goto
    <2>5. ASSUME NEW g \in Gen, OnceReconnect(g)
          PROVE  InlineExact'
      BY <2>5 DEF OnceReconnect, LockFree
    <2> HIDE DEF IndInv, InlineExact
    <2> QED
      BY <1>1, <2>1, <2>2, <2>3, <2>4, <2>5 DEF OnceBody
  <1>2. CASE \E p \in StopCallers : StopNext(p)
    <2>1. ASSUME NEW p \in StopCallers, OnceClose(p)
          PROVE  InlineExact'
      BY <2>1 DEF OnceClose
    <2>2. ASSUME NEW p \in StopCallers, StopReturn(p)
          PROVE  InlineExact'
      BY <2>2 DEF StopReturn, Goto, AfterStop
    <2> HIDE DEF IndInv, InlineExact
    <2> QED
      BY <1>2, <2>1, <2>2 DEF StopNext
  <1>3. CASE \/ CloseCallbacksBegin \/ CloseCallbacksReturn \/ CloseConn
             \/ \E p \in Closers : Close(p)
    <2>1. CASE CloseCallbacksBegin
      BY <2>1 DEF CloseCallbacksBegin, Goto
    <2>2. CASE CloseCallbacksReturn
      BY <2>2 DEF CloseCallbacksReturn, Goto, MayReturn, Release
    <2>3. CASE CloseConn
      BY <2>3 DEF CloseConn, Goto, Release
    <2>4. ASSUME NEW p \in Closers, Close(p)
          PROVE  InlineExact'
      BY <2>4 DEF Close, Goto, CallStop
    <2> HIDE DEF IndInv, InlineExact
    <2> QED
      BY <1>3, <2>1, <2>2, <2>3, <2>4
  <1>4. CASE RunNext
    <2>1. CASE RunBegin
      BY <2>1 DEF RunBegin, Goto
    <2>2. CASE RunOpened
      BY <2>2 DEF RunOpened, Goto, MayReturn
    <2>3. CASE RunOpenFailed
      BY <2>3 DEF RunOpenFailed, Goto, MayReturn, CallStop
    <2>4. CASE RunGC
      BY <2>4 DEF RunGC, Goto, GC, LockFree
    <2>5. CASE RunTest
      BY <2>5 DEF RunTest, Goto, LockFree
    <2>6. CASE RunInstall
      BY <2>6 DEF RunInstall, Goto
    <2>7. CASE RunSpawn
      BY <2>7 DEF RunSpawn
    <2>8. CASE RunInstallFails
      BY <2>8 DEF RunInstallFails, Goto
    <2> HIDE DEF IndInv, InlineExact
    <2> QED
      BY <1>4, <2>1, <2>2, <2>3, <2>4, <2>5, <2>6, <2>7, <2>8 DEF RunNext
  <1>5. CASE ReaderNext
    <2>1. CASE ReaderCheck
      BY <2>1 DEF ReaderCheck, Goto, CallStop
    <2>2. CASE ReaderTimeout
      BY <2>2 DEF ReaderTimeout, Goto
    <2>3. CASE ReaderFails
      BY <2>3 DEF ReaderFails, Goto, CallStop
    <2>4. CASE ReaderEOF
      BY <2>4 DEF ReaderEOF, Goto, CallStop
    <2>5. CASE ReaderData
      BY <2>5 DEF ReaderData, Goto
    <2>6. CASE ReaderDecoded
      BY <2>6 DEF ReaderDecoded, Goto, CallStop, MayReturn
    <2>7. CASE ReaderInlineDone
      BY <2>7 DEF ReaderInlineDone, Goto
    <2>8. CASE ReaderCallback
      BY <2>8 DEF ReaderCallback, Goto
    <2>9. CASE ReaderCallbackReturn
      BY <2>9 DEF ReaderCallbackReturn, Goto, MayReturn
    <2>10. CASE ReaderGC
      BY <2>10 DEF ReaderGC, Goto, GC, LockFree
    <2> HIDE DEF IndInv, InlineExact
    <2> QED
      BY <1>5, <2>1, <2>2, <2>3, <2>4, <2>5, <2>6, <2>7, <2>8, <2>9, <2>10 DEF ReaderNext
  <1>6. CASE \/ \E t \in CronTasks : Tick(t) \/ CronNext(t)
             \/ \E t \in MsgTasks : MsgNext(t)
    <2>1. ASSUME NEW t \in CronTasks, Tick(t)
          PROVE  InlineExact'
      BY <2>1 DEF Tick, Goto
    <2>2. ASSUME NEW t \in CronTasks \cup MsgTasks, TaskAcquire(t)
          PROVE  InlineExact'
      BY <2>2 DEF TaskAcquire, Goto, Acquire
    <2>3. ASSUME NEW t \in CronTasks, CronBegin(t)
          PROVE  InlineExact'
      BY <2>3 DEF CronBegin, Goto, Release
    <2>4. ASSUME NEW t \in CronTasks, CronReturn(t)
          PROVE  InlineExact'
      BY <2>4 DEF CronReturn, Goto, Release, MayReturn
    <2>5. ASSUME NEW t \in CronTasks, CronPanic(t)
          PROVE  InlineExact'
      BY <2>5 DEF CronPanic, Goto, MayReturn
    <2>6. ASSUME NEW t \in CronTasks, CronRawClose(t)
          PROVE  InlineExact'
      BY <2>6 DEF CronRawClose, Goto, Release
    <2>7. ASSUME NEW t \in MsgTasks, MsgBegin(t)
          PROVE  InlineExact'
      BY <2>7 DEF MsgBegin, Goto, Release
    <2>8. ASSUME NEW t \in MsgTasks, MsgReturn(t)
          PROVE  InlineExact'
      BY <2>8 DEF MsgReturn, Goto, Release, MayReturn
    <2>9. ASSUME NEW t \in MsgTasks, MsgPanic(t)
          PROVE  InlineExact'
      BY <2>9 DEF MsgPanic, Release, MayReturn
    <2> HIDE DEF IndInv, InlineExact
    <2> QED
      BY <1>6, <2>1, <2>2, <2>3, <2>4, <2>5, <2>6, <2>7, <2>8, <2>9 DEF CronNext, MsgNext
  <1>7. CASE \/ \E w \in Writers : WriteCheck(w) \/ WriteNext(w)
             \/ \E w \in RawWriters : WriteCheck(w) \/ RawNext(w)
    <2>1. ASSUME NEW w \in Writers \cup RawWriters, WriteCheck(w)
          PROVE  InlineExact'
      BY <2>1 DEF WriteCheck, Goto
    <2>2. ASSUME NEW w \in Writers, WriteSnapshot(w)
          PROVE  InlineExact'
      BY <2>2 DEF WriteSnapshot, Goto
    <2>3. ASSUME NEW w \in Writers, WriteAcquire(w)
          PROVE  InlineExact'
      BY <2>3 DEF WriteAcquire, Goto, Acquire
    <2>4. ASSUME NEW w \in Writers, WriteEncoded(w)
          PROVE  InlineExact'
      BY <2>4 DEF WriteEncoded, Goto, Release, MayReturn
    <2>5. ASSUME NEW w \in Writers, WriteLock(w)
          PROVE  InlineExact'
      BY <2>5 DEF WriteLock, Goto, Release
    <2>6. ASSUME NEW w \in Writers, WriteSent(w)
          PROVE  InlineExact'
      BY <2>6 DEF WriteSent, Goto, Release
    <2>7. ASSUME NEW w \in RawWriters, RawLock(w)
          PROVE  InlineExact'
      BY <2>7 DEF RawLock, Goto
    <2>8. ASSUME NEW w \in RawWriters, RawSent(w)
          PROVE  InlineExact'
      BY <2>8 DEF RawSent, Goto
    <2>9. ASSUME NEW w \in RawWriters, RawSnapshot(w)
          PROVE  InlineExact'
      BY <2>9 DEF RawSnapshot, Goto
    <2>10. ASSUME NEW w \in RawWriters, RawLockBatch(w)
          PROVE  InlineExact'
      BY <2>10 DEF RawLockBatch, Goto
    <2> HIDE DEF IndInv, InlineExact
    <2> QED
      BY <1>7, <2>1, <2>2, <2>3, <2>4, <2>5, <2>6, <2>7, <2>8, <2>9, <2>10 DEF WriteNext, RawNext
  <1>8. CASE \E r \in Resetters :
                \/ \E h \in inCallback \cup {"none"} :
                      Reset(r, h) \/ TryReset(r, h) \/ CallResetAsync(r, h)
                \/ ResetAsync(r) \/ AwaitResult(r)
    <2>1. ASSUME NEW r \in Resetters, NEW h \in inCallback \cup {"none"}, Reset(r, h)
          PROVE  InlineExact'
      BY <2>1 DEF Reset, Goto
    <2>2. ASSUME NEW r \in Resetters, NEW h \in inCallback \cup {"none"}, TryReset(r, h)
          PROVE  InlineExact'
      BY <2>2 DEF TryReset, Goto
    <2>3. ASSUME NEW r \in Resetters, NEW h \in inCallback \cup {"none"}, CallResetAsync(r, h)
          PROVE  InlineExact'
      BY <2>3 DEF CallResetAsync, Goto
    <2>4. ASSUME NEW r \in Resetters, ResetAsync(r)
          PROVE  InlineExact'
      BY <2>4 DEF ResetAsync, Goto
    <2>5. ASSUME NEW r \in Resetters, AwaitResult(r)
          PROVE  InlineExact'
      BY <2>5 DEF AwaitResult, Goto
    <2> HIDE DEF IndInv, InlineExact
    <2> QED
      BY <1>8, <2>1, <2>2, <2>3, <2>4, <2>5
  <1>9. CASE WorkerNext
    <2>1. CASE WorkerRawClose
      BY <2>1 DEF WorkerRawClose, Goto
    <2>2. CASE WorkerStopHeartbeat
      BY <2>2 DEF WorkerStopHeartbeat, Goto
    <2>3. CASE WorkerWaitGr
      BY <2>3 DEF WorkerWaitGr, Goto
    <2>4. CASE WorkerGC
      BY <2>4 DEF WorkerGC, Goto, GC, LockFree
    <2>5. CASE WorkerWaitLifecycle
      BY <2>5 DEF WorkerWaitLifecycle, Goto
    <2>6. CASE WorkerClear
      BY <2>6 DEF WorkerClear, Goto
    <2>7. CASE WorkerDeliver
      BY <2>7 DEF WorkerDeliver, Goto
    <2> HIDE DEF IndInv, InlineExact
    <2> QED
      BY <1>9, <2>1, <2>2, <2>3, <2>4, <2>5, <2>6, <2>7 DEF WorkerNext
  <1> HIDE DEF IndInv, InlineExact
  <1> QED
    BY <1>1, <1>2, <1>3, <1>4, <1>5, <1>6, <1>7, <1>8, <1>9 DEF Next

\* A captured once or lifecycle is never newer than the current one.
LEMMA CapturesPreserved == ASSUME IndInv, Next PROVE CapturesOrdered'
  <1> USE ParametersTyped, Roles, IndInvFacts
  <1> USE DEF IndInv, TypeOK, LifeTyped, Facts, CapturesOrdered, Gen, RunActive, ReaderActive,
     ReaderClosing, Goroutines, Tasks, Callers, StopCallers, lifeVars, connVars, timerVars,
     countVars, resetVars, outVars
  <1>1. CASE OnceBody
    <2>1. ASSUME NEW g \in Gen, OnceHeartbeat(g)
          PROVE  CapturesOrdered'
      BY <2>1 DEF OnceHeartbeat, LockFree
    <2>2. ASSUME NEW g \in Gen, OnceStopTimer(g)
          PROVE  CapturesOrdered'
      BY <2>2 DEF OnceStopTimer
    <2>3. ASSUME NEW g \in Gen, OnceCloseLifecycle(g)
          PROVE  CapturesOrdered'
      BY <2>3 DEF OnceCloseLifecycle
    <2>4. ASSUME NEW g \in Gen, OnceCallbacks(g)
          PROVE  CapturesOrdered'
      BY <2>4 DEF OnceCallbacks, Goto
    <2>5. ASSUME NEW g \in Gen, OnceReconnect(g)
          PROVE  CapturesOrdered'
      BY <2>5 DEF OnceReconnect, LockFree
    <2> HIDE DEF IndInv, CapturesOrdered
    <2> QED
      BY <1>1, <2>1, <2>2, <2>3, <2>4, <2>5 DEF OnceBody
  <1>2. CASE \E p \in StopCallers : StopNext(p)
    <2>1. ASSUME NEW p \in StopCallers, OnceClose(p)
          PROVE  CapturesOrdered'
      BY <2>1 DEF OnceClose
    <2>2. ASSUME NEW p \in StopCallers, StopReturn(p)
          PROVE  CapturesOrdered'
      BY <2>2 DEF StopReturn, Goto, AfterStop
    <2> HIDE DEF IndInv, CapturesOrdered
    <2> QED
      BY <1>2, <2>1, <2>2 DEF StopNext
  <1>3. CASE \/ CloseCallbacksBegin \/ CloseCallbacksReturn \/ CloseConn
             \/ \E p \in Closers : Close(p)
    <2>1. CASE CloseCallbacksBegin
      BY <2>1 DEF CloseCallbacksBegin, Goto
    <2>2. CASE CloseCallbacksReturn
      BY <2>2 DEF CloseCallbacksReturn, Goto, MayReturn, Release
    <2>3. CASE CloseConn
      BY <2>3 DEF CloseConn, Goto, Release
    <2>4. ASSUME NEW p \in Closers, Close(p)
          PROVE  CapturesOrdered'
      BY <2>4 DEF Close, Goto, CallStop
    <2> HIDE DEF IndInv, CapturesOrdered
    <2> QED
      BY <1>3, <2>1, <2>2, <2>3, <2>4
  <1>4. CASE RunNext
    <2>1. CASE RunBegin
      BY <2>1 DEF RunBegin, Goto
    <2>2. CASE RunOpened
      BY <2>2 DEF RunOpened, Goto, MayReturn
    <2>3. CASE RunOpenFailed
      BY <2>3 DEF RunOpenFailed, Goto, MayReturn, CallStop
    <2>4. CASE RunGC
      BY <2>4, GCDetaches DEF RunGC
    <2>5. CASE RunTest
      BY <2>5 DEF RunTest, Goto, LockFree
    <2>6. CASE RunInstall
      BY <2>6 DEF RunInstall, Goto
    <2>7. CASE RunSpawn
      BY <2>7 DEF RunSpawn
    <2>8. CASE RunInstallFails
      BY <2>8 DEF RunInstallFails, Goto
    <2> HIDE DEF IndInv, CapturesOrdered
    <2> QED
      BY <1>4, <2>1, <2>2, <2>3, <2>4, <2>5, <2>6, <2>7, <2>8 DEF RunNext
  <1>5. CASE ReaderNext
    <2>1. CASE ReaderCheck
      BY <2>1 DEF ReaderCheck, Goto, CallStop
    <2>2. CASE ReaderTimeout
      BY <2>2 DEF ReaderTimeout, Goto
    <2>3. CASE ReaderFails
      BY <2>3 DEF ReaderFails, Goto, CallStop
    <2>4. CASE ReaderEOF
      BY <2>4 DEF ReaderEOF, Goto, CallStop
    <2>5. CASE ReaderData
      BY <2>5 DEF ReaderData, Goto
    <2>6. CASE ReaderDecoded
      BY <2>6 DEF ReaderDecoded, Goto, CallStop, MayReturn
    <2>7. CASE ReaderInlineDone
      BY <2>7 DEF ReaderInlineDone, Goto
    <2>8. CASE ReaderCallback
      BY <2>8 DEF ReaderCallback, Goto
    <2>9. CASE ReaderCallbackReturn
      BY <2>9 DEF ReaderCallbackReturn, Goto, MayReturn
    <2>10. CASE ReaderGC
      BY <2>10, GCDetaches, SMTT(30) DEF ReaderGC
    <2> HIDE DEF IndInv, CapturesOrdered
    <2> QED
      BY <1>5, <2>1, <2>2, <2>3, <2>4, <2>5, <2>6, <2>7, <2>8, <2>9, <2>10 DEF ReaderNext
  <1>6. CASE \/ \E t \in CronTasks : Tick(t) \/ CronNext(t)
             \/ \E t \in MsgTasks : MsgNext(t)
    <2>1. ASSUME NEW t \in CronTasks, Tick(t)
          PROVE  CapturesOrdered'
      BY <2>1 DEF Tick, Goto
    <2>2. ASSUME NEW t \in CronTasks \cup MsgTasks, TaskAcquire(t)
          PROVE  CapturesOrdered'
      BY <2>2 DEF TaskAcquire, Goto, Acquire
    <2>3. ASSUME NEW t \in CronTasks, CronBegin(t)
          PROVE  CapturesOrdered'
      BY <2>3 DEF CronBegin, Goto, Release
    <2>4. ASSUME NEW t \in CronTasks, CronReturn(t)
          PROVE  CapturesOrdered'
      BY <2>4 DEF CronReturn, Goto, Release, MayReturn
    <2>5. ASSUME NEW t \in CronTasks, CronPanic(t)
          PROVE  CapturesOrdered'
      BY <2>5 DEF CronPanic, Goto, MayReturn
    <2>6. ASSUME NEW t \in CronTasks, CronRawClose(t)
          PROVE  CapturesOrdered'
      BY <2>6 DEF CronRawClose, Goto, Release
    <2>7. ASSUME NEW t \in MsgTasks, MsgBegin(t)
          PROVE  CapturesOrdered'
      BY <2>7 DEF MsgBegin, Goto, Release
    <2>8. ASSUME NEW t \in MsgTasks, MsgReturn(t)
          PROVE  CapturesOrdered'
      BY <2>8 DEF MsgReturn, Goto, Release, MayReturn
    <2>9. ASSUME NEW t \in MsgTasks, MsgPanic(t)
          PROVE  CapturesOrdered'
      BY <2>9 DEF MsgPanic, Release, MayReturn
    <2> HIDE DEF IndInv, CapturesOrdered
    <2> QED
      BY <1>6, <2>1, <2>2, <2>3, <2>4, <2>5, <2>6, <2>7, <2>8, <2>9 DEF CronNext, MsgNext
  <1>7. CASE \/ \E w \in Writers : WriteCheck(w) \/ WriteNext(w)
             \/ \E w \in RawWriters : WriteCheck(w) \/ RawNext(w)
    <2>1. ASSUME NEW w \in Writers \cup RawWriters, WriteCheck(w)
          PROVE  CapturesOrdered'
      BY <2>1 DEF WriteCheck, Goto
    <2>2. ASSUME NEW w \in Writers, WriteSnapshot(w)
          PROVE  CapturesOrdered'
      BY <2>2 DEF WriteSnapshot, Goto
    <2>3. ASSUME NEW w \in Writers, WriteAcquire(w)
          PROVE  CapturesOrdered'
      BY <2>3 DEF WriteAcquire, Goto, Acquire
    <2>4. ASSUME NEW w \in Writers, WriteEncoded(w)
          PROVE  CapturesOrdered'
      BY <2>4 DEF WriteEncoded, Goto, Release, MayReturn
    <2>5. ASSUME NEW w \in Writers, WriteLock(w)
          PROVE  CapturesOrdered'
      BY <2>5 DEF WriteLock, Goto, Release
    <2>6. ASSUME NEW w \in Writers, WriteSent(w)
          PROVE  CapturesOrdered'
      BY <2>6 DEF WriteSent, Goto, Release
    <2>7. ASSUME NEW w \in RawWriters, RawLock(w)
          PROVE  CapturesOrdered'
      BY <2>7 DEF RawLock, Goto
    <2>8. ASSUME NEW w \in RawWriters, RawSent(w)
          PROVE  CapturesOrdered'
      BY <2>8 DEF RawSent, Goto
    <2>9. ASSUME NEW w \in RawWriters, RawSnapshot(w)
          PROVE  CapturesOrdered'
      BY <2>9 DEF RawSnapshot, Goto
    <2>10. ASSUME NEW w \in RawWriters, RawLockBatch(w)
          PROVE  CapturesOrdered'
      BY <2>10 DEF RawLockBatch, Goto
    <2> HIDE DEF IndInv, CapturesOrdered
    <2> QED
      BY <1>7, <2>1, <2>2, <2>3, <2>4, <2>5, <2>6, <2>7, <2>8, <2>9, <2>10 DEF WriteNext, RawNext
  <1>8. CASE \E r \in Resetters :
                \/ \E h \in inCallback \cup {"none"} :
                      Reset(r, h) \/ TryReset(r, h) \/ CallResetAsync(r, h)
                \/ ResetAsync(r) \/ AwaitResult(r)
    <2>1. ASSUME NEW r \in Resetters, NEW h \in inCallback \cup {"none"}, Reset(r, h)
          PROVE  CapturesOrdered'
      BY <2>1 DEF Reset, Goto
    <2>2. ASSUME NEW r \in Resetters, NEW h \in inCallback \cup {"none"}, TryReset(r, h)
          PROVE  CapturesOrdered'
      BY <2>2 DEF TryReset, Goto
    <2>3. ASSUME NEW r \in Resetters, NEW h \in inCallback \cup {"none"}, CallResetAsync(r, h)
          PROVE  CapturesOrdered'
      BY <2>3 DEF CallResetAsync, Goto
    <2>4. ASSUME NEW r \in Resetters, ResetAsync(r)
          PROVE  CapturesOrdered'
      <3>1. /\ gen' = gen /\ once' = once /\ done' = done /\ lcClosed' = lcClosed
            /\ pgen' = pgen \/ pgen' = [pgen EXCEPT !["worker"] = gen]
            /\ \A q \in Procs \ {r, "worker"} : pc'[q] = pc[q]
        BY <2>4, ResetAsyncStep DEF lifeVars
      <3>2. \A q \in Procs : pgen'[q] = pgen[q] \/ (q = "worker" /\ pgen'[q] = gen)
        BY <3>1
      <3>3. \A q \in Writers : pc'[q] = pc[q] /\ pgen'[q] = pgen[q]
        BY <3>1
      <3>4. \A q \in CronTasks \cup MsgTasks \cup {"run", "reader"} : pgen'[q] = pgen[q]
        BY <3>1
      <3>5. \A q \in Procs : pgen'[q] <= gen'
        BY <3>1, <3>2
      <3> QED
        BY <3>3, <3>4, <3>5
    <2>5. ASSUME NEW r \in Resetters, AwaitResult(r)
          PROVE  CapturesOrdered'
      BY <2>5 DEF AwaitResult, Goto
    <2> HIDE DEF IndInv, CapturesOrdered
    <2> QED
      BY <1>8, <2>1, <2>2, <2>3, <2>4, <2>5
  <1>9. CASE WorkerNext
    <2>1. CASE WorkerRawClose
      BY <2>1 DEF WorkerRawClose, Goto
    <2>2. CASE WorkerStopHeartbeat
      BY <2>2 DEF WorkerStopHeartbeat, Goto
    <2>3. CASE WorkerWaitGr
      BY <2>3 DEF WorkerWaitGr, Goto
    <2>4. CASE WorkerGC
      <3>1. /\ gen' = gen /\ once' = once /\ done' = done /\ lcClosed' = lcClosed
            /\ pgen' = pgen \/ pgen' = [pgen EXCEPT !["closeconn"] = gen]
            /\ lcWG' = lcWG \/ lcWG' = [lcWG EXCEPT ![gen] = @ \cup {"closeconn"}]
            /\ \A q \in Procs \ {"worker", "closeconn"} : pc'[q] = pc[q]
        BY <2>4, GCFrame, Zenon DEF WorkerGC
      <3>2. \A q \in Procs : pgen'[q] = pgen[q] \/ (q = "closeconn" /\ pgen'[q] = gen)
        BY <3>1
      <3>3. \A q \in Writers : pc'[q] = pc[q] /\ pgen'[q] = pgen[q]
        BY <3>1
      <3>4. \A q \in CronTasks \cup MsgTasks \cup {"run", "reader"} : pgen'[q] = pgen[q]
        BY <3>1
      <3>5. \A q \in Procs : pgen'[q] <= gen'
        BY <3>1, <3>2
      <3> QED
        BY <3>3, <3>4, <3>5
    <2>5. CASE WorkerWaitLifecycle
      BY <2>5 DEF WorkerWaitLifecycle, Goto
    <2>6. CASE WorkerClear
      BY <2>6 DEF WorkerClear, Goto, WorkerOrdered
    <2>7. CASE WorkerDeliver
      BY <2>7 DEF WorkerDeliver, Goto
    <2> HIDE DEF IndInv, CapturesOrdered
    <2> QED
      BY <1>9, <2>1, <2>2, <2>3, <2>4, <2>5, <2>6, <2>7 DEF WorkerNext
  <1> HIDE DEF IndInv, CapturesOrdered
  <1> QED
    BY <1>1, <1>2, <1>3, <1>4, <1>5, <1>6, <1>7, <1>8, <1>9 DEF Next
=============================================================================
