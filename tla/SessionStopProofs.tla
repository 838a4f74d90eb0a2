------------------------- MODULE SessionStopProofs --------------------------
(***************************************************************************)
(* Every action of Session keeps the order of the stop() body, run() and   *)
(* the reset worker, and where the timer and the connection are.           *)
(***************************************************************************)
EXTENDS SessionLemmas

\* The stop() body goes through its steps in order, before anything that
\* waits for it.
LEMMA OncePreserved == ASSUME IndInv, Next PROVE OnceOrdered'
  <1> USE ParametersTyped, Roles, IndInvFacts
  <1> USE DEF IndInv, TypeOK, LifeTyped, Facts, OnceOrdered, RunActive, ReaderActive,
     ReaderClosing, Goroutines, Tasks, Callers, StopCallers, lifeVars, connVars, timerVars,
     countVars, resetVars, outVars
  <1>1. CASE OnceBody
    <2>1. ASSUME NEW g \in Gen, OnceHeartbeat(g)
          PROVE  OnceOrdered'
      BY <2>1 DEF OnceHeartbeat, LockFree
    <2>2. ASSUME NEW g \in Gen, OnceStopTimer(g)
          PROVE  OnceOrdered'
      BY <2>2 DEF OnceStopTimer
    <2>3. ASSUME NEW g \in Gen, OnceCloseLifecycle(g)
          PROVE  OnceOrdered'
      BY <2>3 DEF OnceCloseLifecycle
    <2>4. ASSUME NEW g \in Gen, OnceCallbacks(g)
          PROVE  OnceOrdered'
      BY <2>4 DEF OnceCallbacks, Goto
    <2>5. ASSUME NEW g \in Gen, OnceReconnect(g)
          PROVE  OnceOrdered'
      BY <2>5 DEF OnceReconnect, LockFree
    <2> HIDE DEF IndInv, OnceOrdered
    <2> QED
      BY <1>1, <2>1, <2>2, <2>3, <2>4, <2>5 DEF OnceBody
  <1>2. CASE \E p \in StopCallers : StopNext(p)
    <2>1. ASSUME NEW p \in StopCallers, OnceClose(p)
          PROVE  OnceOrdered'
      BY <2>1 DEF OnceClose
    <2>2. ASSUME NEW p \in StopCallers, StopReturn(p)
          PROVE  OnceOrdered'
      BY <2>2 DEF StopReturn, Goto, AfterStop
    <2> HIDE DEF IndInv, OnceOrdered
    <2> QED
      BY <1>2, <2>1, <2>2 DEF StopNext
  <1>3. CASE \/ CloseCallbacksBegin \/ CloseCallbacksReturn \/ CloseConn
             \/ \E p \in Closers : Close(p)
    <2>1. CASE CloseCallbacksBegin
      BY <2>1 DEF CloseCallbacksBegin, Goto
    <2>2. CASE CloseCallbacksReturn
      BY <2>2 DEF CloseCallbacksReturn, Goto, MayReturn, Release
    <2>3. CASE CloseConn
      BY <2>3 DEF CloseConn, Goto, Release
    <2>4. ASSUME NEW p \in Closers, Close(p)
          PROVE  OnceOrdered'
      BY <2>4 DEF Close, Goto, CallStop
    <2> HIDE DEF IndInv, OnceOrdered
    <2> QED
      BY <1>3, <2>1, <2>2, <2>3, <2>4
  <1>4. CASE RunNext
    <2>1. CASE RunBegin
      BY <2>1 DEF RunBegin, Goto
    <2>2. CASE RunOpened
      BY <2>2 DEF RunOpened, Goto, MayReturn
    <2>3. CASE RunOpenFailed
      BY <2>3 DEF RunOpenFailed, Goto, MayReturn, CallStop
    <2>4. CASE RunGC
      BY <2>4, GCDetaches DEF RunGC
    <2>5. CASE RunTest
      BY <2>5 DEF RunTest, Goto, LockFree
    <2>6. CASE RunInstall
      BY <2>6 DEF RunInstall, Goto
    <2>7. CASE RunSpawn
      BY <2>7 DEF RunSpawn
    <2>8. CASE RunInstallFails
      BY <2>8 DEF RunInstallFails, Goto
    <2> HIDE DEF IndInv, OnceOrdered
    <2> QED
      BY <1>4, <2>1, <2>2, <2>3, <2>4, <2>5, <2>6, <2>7, <2>8 DEF RunNext
  <1>5. CASE ReaderNext
    <2>1. CASE ReaderCheck
      BY <2>1 DEF ReaderCheck, Goto, CallStop
    <2>2. CASE ReaderTimeout
      BY <2>2 DEF ReaderTimeout, Goto
    <2>3. CASE ReaderFails
      BY <2>3 DEF ReaderFails, Goto, CallStop
    <2>4. CASE ReaderEOF
      BY <2>4 DEF ReaderEOF, Goto, CallStop
    <2>5. CASE ReaderData
      BY <2>5 DEF ReaderData, Goto
    <2>6. CASE ReaderDecoded
      BY <2>6 DEF ReaderDecoded, Goto, CallStop, MayReturn
    <2>7. CASE ReaderInlineDone
      BY <2>7 DEF ReaderInlineDone, Goto
    <2>8. CASE ReaderCallback
      BY <2>8 DEF ReaderCallback, Goto
    <2>9. CASE ReaderCallbackReturn
      BY <2>9 DEF ReaderCallbackReturn, Goto, MayReturn
    <2>10. CASE ReaderGC
      BY <2>10, GCDetaches DEF ReaderGC
    <2> HIDE DEF IndInv, OnceOrdered
    <2> QED
      BY <1>5, <2>1, <2>2, <2>3, <2>4, <2>5, <2>6, <2>7, <2>8, <2>9, <2>10 DEF ReaderNext
  <1>6. CASE \/ \E t \in CronTasks : Tick(t) \/ CronNext(t)
             \/ \E t \in MsgTasks : MsgNext(t)
    <2>1. ASSUME NEW t \in CronTasks, Tick(t)
          PROVE  OnceOrdered'
      BY <2>1 DEF Tick, Goto
    <2>2. ASSUME NEW t \in CronTasks \cup MsgTasks, TaskAcquire(t)
          PROVE  OnceOrdered'
      BY <2>2 DEF TaskAcquire, Goto, Acquire
    <2>3. ASSUME NEW t \in CronTasks, CronBegin(t)
          PROVE  OnceOrdered'
      BY <2>3 DEF CronBegin, Goto, Release
    <2>4. ASSUME NEW t \in CronTasks, CronReturn(t)
          PROVE  OnceOrdered'
      BY <2>4 DEF CronReturn, Goto, Release, MayReturn
    <2>5. ASSUME NEW t \in CronTasks, CronPanic(t)
          PROVE  OnceOrdered'
      BY <2>5 DEF CronPanic, Goto, MayReturn
    <2>6. ASSUME NEW t \in CronTasks, CronRawClose(t)
          PROVE  OnceOrdered'
      BY <2>6 DEF CronRawClose, Goto, Release
    <2>7. ASSUME NEW t \in MsgTasks, MsgBegin(t)
          PROVE  OnceOrdered'
      BY <2>7 DEF MsgBegin, Goto, Release
    <2>8. ASSUME NEW t \in MsgTasks, MsgReturn(t)
          PROVE  OnceOrdered'
      BY <2>8 DEF MsgReturn, Goto, Release, MayReturn
    <2>9. ASSUME NEW t \in MsgTasks, MsgPanic(t)
          PROVE  OnceOrdered'
      BY <2>9 DEF MsgPanic, Release, MayReturn
    <2> HIDE DEF IndInv, OnceOrdered
    <2> QED
      BY <1>6, <2>1, <2>2, <2>3, <2>4, <2>5, <2>6, <2>7, <2>8, <2>9 DEF CronNext, MsgNext
  <1>7. CASE \/ \E w \in Writers : WriteCheck(w) \/ WriteNext(w)
             \/ \E w \in RawWriters : WriteCheck(w) \/ RawNext(w)
    <2>1. ASSUME NEW w \in Writers \cup RawWriters, WriteCheck(w)
          PROVE  OnceOrdered'
      BY <2>1 DEF WriteCheck, Goto
    <2>2. ASSUME NEW w \in Writers, WriteSnapshot(w)
          PROVE  OnceOrdered'
      BY <2>2 DEF WriteSnapshot, Goto
    <2>3. ASSUME NEW w \in Writers, WriteAcquire(w)
          PROVE  OnceOrdered'
      BY <2>3 DEF WriteAcquire, Goto, Acquire
    <2>4. ASSUME NEW w \in Writers, WriteEncoded(w)
          PROVE  OnceOrdered'
      BY <2>4 DEF WriteEncoded, Goto, Release, MayReturn
    <2>5. ASSUME NEW w \in Writers, WriteLock(w)
          PROVE  OnceOrdered'
      BY <2>5 DEF WriteLock, Goto, Release
    <2>6. ASSUME NEW w \in Writers, WriteSent(w)
          PROVE  OnceOrdered'
      BY <2>6 DEF WriteSent, Goto, Release
    <2>7. ASSUME NEW w \in RawWriters, RawLock(w)
          PROVE  OnceOrdered'
      BY <2>7 DEF RawLock, Goto
    <2>8. ASSUME NEW w \in RawWriters, RawSent(w)
          PROVE  OnceOrdered'
      BY <2>8 DEF RawSent, Goto
    <2>9. ASSUME NEW w \in RawWriters, RawSnapshot(w)
          PROVE  OnceOrdered'
      BY <2>9 DEF RawSnapshot, Goto
    <2>10. ASSUME NEW w \in RawWriters, RawLockBatch(w)
          PROVE  OnceOrdered'
      BY <2>10 DEF RawLockBatch, Goto
    <2> HIDE DEF IndInv, OnceOrdered
    <2> QED
      BY <1>7, <2>1, <2>2, <2>3, <2>4, <2>5, <2>6, <2>7, <2>8, <2>9, <2>10 DEF WriteNext, RawNext
  <1>8. CASE \E r \in Resetters :
                \/ \E h \in inCallback \cup {"none"} :
                      Reset(r, h) \/ TryReset(r, h) \/ CallResetAsync(r, h)
                \/ ResetAsync(r) \/ AwaitResult(r)
    <2>1. ASSUME NEW r \in Resetters, NEW h \in inCallback \cup {"none"}, Reset(r, h)
          PROVE  OnceOrdered'
      BY <2>1 DEF Reset, Goto
    <2>2. ASSUME NEW r \in Resetters, NEW h \in inCallback \cup {"none"}, TryReset(r, h)
          PROVE  OnceOrdered'
      BY <2>2 DEF TryReset, Goto
    <2>3. ASSUME NEW r \in Resetters, NEW h \in inCallback \cup {"none"}, CallResetAsync(r, h)
          PROVE  OnceOrdered'
      BY <2>3 DEF CallResetAsync, Goto
    <2>4. ASSUME NEW r \in Resetters, ResetAsync(r)
          PROVE  OnceOrdered'
      BY <2>4 DEF ResetAsync, Goto
    <2>5. ASSUME NEW r \in Resetters, AwaitResult(r)
          PROVE  OnceOrdered'
      BY <2>5 DEF AwaitResult, Goto
    <2> HIDE DEF IndInv, OnceOrdered
    <2> QED
      BY <1>8, <2>1, <2>2, <2>3, <2>4, <2>5
  <1>9. CASE WorkerNext
    <2>1. CASE WorkerRawClose
      BY <2>1 DEF WorkerRawClose, Goto
    <2>2. CASE WorkerStopHeartbeat
      BY <2>2 DEF WorkerStopHeartbeat, Goto
    <2>3. CASE WorkerWaitGr
      BY <2>3 DEF WorkerWaitGr, Goto
    <2>4. CASE WorkerGC
      BY <2>4, GCDetaches DEF WorkerGC
    <2>5. CASE WorkerWaitLifecycle
      BY <2>5 DEF WorkerWaitLifecycle, Goto
    <2>6. CASE WorkerClear
      <3> USE DEF WorkerOrdered, Gen
      <3>1. gen + 1 \in Gen /\ once[gen] = "ran" /\ attrs = "nil"
        BY <2>6 DEF WorkerClear
      <3>2. once[gen + 1] = "new" /\ ~done[gen + 1] /\ ~lcClosed[gen + 1]
        BY <3>1 DEF GenerationsOrdered
      <3>3. pc["closecb"] = "idle"
        BY <2>6 DEF WorkerClear, LifecyclesExact, Holding, PcTyped, ClosecbSteps
      <3>4. pc["run"] # "gc" /\ pc["reader"] \notin ReaderClosing
        BY <2>6 DEF WorkerClear
      <3> QED
        BY <2>6, <3>1, <3>2, <3>3, <3>4 DEF WorkerClear, Goto
    <2>7. CASE WorkerDeliver
      BY <2>7 DEF WorkerDeliver, Goto
    <2> HIDE DEF IndInv, OnceOrdered
    <2> QED
      BY <1>9, <2>1, <2>2, <2>3, <2>4, <2>5, <2>6, <2>7 DEF WorkerNext
  <1> HIDE DEF IndInv, OnceOrdered
  <1> QED
    BY <1>1, <1>2, <1>3, <1>4, <1>5, <1>6, <1>7, <1>8, <1>9 DEF Next

\* run()'s install and stopHeartbeat agree on who stops the timer.
LEMMA TimerPreserved == ASSUME IndInv, Next PROVE TimerOrdered'
  <1> USE ParametersTyped, Roles, IndInvFacts
  <1> USE DEF IndInv, TypeOK, LifeTyped, Facts, TimerOrdered, Goroutines, Tasks, Callers,
     StopCallers, lifeVars, connVars, timerVars, countVars, resetVars, outVars
  <1>1. CASE OnceBody
    <2>1. ASSUME NEW g \in Gen, OnceHeartbeat(g)
          PROVE  TimerOrdered'
      BY <2>1 DEF OnceHeartbeat, LockFree
    <2>2. ASSUME NEW g \in Gen, OnceStopTimer(g)
          PROVE  TimerOrdered'
      BY <2>2 DEF OnceStopTimer
    <2>3. ASSUME NEW g \in Gen, OnceCloseLifecycle(g)
          PROVE  TimerOrdered'
      BY <2>3 DEF OnceCloseLifecycle
    <2>4. ASSUME NEW g \in Gen, OnceCallbacks(g)
          PROVE  TimerOrdered'
      BY <2>4 DEF OnceCallbacks, Goto
    <2>5. ASSUME NEW g \in Gen, OnceReconnect(g)
          PROVE  TimerOrdered'
      BY <2>5 DEF OnceReconnect, LockFree
    <2> HIDE DEF IndInv, TimerOrdered
    <2> QED
      BY <1>1, <2>1, <2>2, <2>3, <2>4, <2>5 DEF OnceBody
  <1>2. CASE \E p \in StopCallers : StopNext(p)
    <2>1. ASSUME NEW p \in StopCallers, OnceClose(p)
          PROVE  TimerOrdered'
      BY <2>1 DEF OnceClose
    <2>2. ASSUME NEW p \in StopCallers, StopReturn(p)
          PROVE  TimerOrdered'
      BY <2>2 DEF StopReturn, Goto, AfterStop
    <2> HIDE DEF IndInv, TimerOrdered
    <2> QED
      BY <1>2, <2>1, <2>2 DEF StopNext
  <1>3. CASE \/ CloseCallbacksBegin \/ CloseCallbacksReturn \/ CloseConn
             \/ \E p \in Closers : Close(p)
    <2>1. CASE CloseCallbacksBegin
      BY <2>1 DEF CloseCallbacksBegin, Goto
    <2>2. CASE CloseCallbacksReturn
      BY <2>2 DEF CloseCallbacksReturn, Goto, MayReturn, Release
    <2>3. CASE CloseConn
      BY <2>3 DEF CloseConn, Goto, Release
    <2>4. ASSUME NEW p \in Closers, Close(p)
          PROVE  TimerOrdered'
      BY <2>4 DEF Close, Goto, CallStop
    <2> HIDE DEF IndInv, TimerOrdered
    <2> QED
      BY <1>3, <2>1, <2>2, <2>3, <2>4
  <1>4. CASE RunNext
    <2>1. CASE RunBegin
      BY <2>1 DEF RunBegin, Goto
    <2>2. CASE RunOpened
      BY <2>2 DEF RunOpened, Goto, MayReturn
    <2>3. CASE RunOpenFailed
      BY <2>3 DEF RunOpenFailed, Goto, MayReturn, CallStop
    <2>4. CASE RunGC
      BY <2>4, GCDetaches DEF RunGC
    <2>5. CASE RunTest
      BY <2>5 DEF RunTest, Goto, LockFree, OnceOrdered
    <2>6. CASE RunInstall
      BY <2>6 DEF RunInstall, Goto
    <2>7. CASE RunSpawn
      BY <2>7 DEF RunSpawn
    <2>8. CASE RunInstallFails
      BY <2>8 DEF RunInstallFails, Goto
    <2> HIDE DEF IndInv, TimerOrdered
    <2> QED
      BY <1>4, <2>1, <2>2, <2>3, <2>4, <2>5, <2>6, <2>7, <2>8 DEF RunNext
  <1>5. CASE ReaderNext
    <2>1. CASE ReaderCheck
      BY <2>1 DEF ReaderCheck, Goto, CallStop
    <2>2. CASE ReaderTimeout
      BY <2>2 DEF ReaderTimeout, Goto
    <2>3. CASE ReaderFails
      BY <2>3 DEF ReaderFails, Goto, CallStop
    <2>4. CASE ReaderEOF
      BY <2>4 DEF ReaderEOF, Goto, CallStop
    <2>5. CASE ReaderData
      BY <2>5 DEF ReaderData, Goto
    <2>6. CASE ReaderDecoded
      BY <2>6 DEF ReaderDecoded, Goto, CallStop, MayReturn
    <2>7. CASE ReaderInlineDone
      BY <2>7 DEF ReaderInlineDone, Goto
    <2>8. CASE ReaderCallback
      BY <2>8 DEF ReaderCallback, Goto
    <2>9. CASE ReaderCallbackReturn
      BY <2>9 DEF ReaderCallbackReturn, Goto, MayReturn
    <2>10. CASE ReaderGC
      BY <2>10, GCDetaches DEF ReaderGC
    <2> HIDE DEF IndInv, TimerOrdered
    <2> QED
      BY <1>5, <2>1, <2>2, <2>3, <2>4, <2>5, <2>6, <2>7, <2>8, <2>9, <2>10 DEF ReaderNext
  <1>6. CASE \/ \E t \in CronTasks : Tick(t) \/ CronNext(t)
             \/ \E t \in MsgTasks : MsgNext(t)
    <2>1. ASSUME NEW t \in CronTasks, Tick(t)
          PROVE  TimerOrdered'
      BY <2>1 DEF Tick, Goto
    <2>2. ASSUME NEW t \in CronTasks \cup MsgTasks, TaskAcquire(t)
          PROVE  TimerOrdered'
      BY <2>2 DEF TaskAcquire, Goto, Acquire
    <2>3. ASSUME NEW t \in CronTasks, CronBegin(t)
          PROVE  TimerOrdered'
      BY <2>3 DEF CronBegin, Goto, Release
    <2>4. ASSUME NEW t \in CronTasks, CronReturn(t)
          PROVE  TimerOrdered'
      BY <2>4 DEF CronReturn, Goto, Release, MayReturn
    <2>5. ASSUME NEW t \in CronTasks, CronPanic(t)
          PROVE  TimerOrdered'
      BY <2>5 DEF CronPanic, Goto, MayReturn
    <2>6. ASSUME NEW t \in CronTasks, CronRawClose(t)
          PROVE  TimerOrdered'
      BY <2>6 DEF CronRawClose, Goto, Release
    <2>7. ASSUME NEW t \in MsgTasks, MsgBegin(t)
          PROVE  TimerOrdered'
      BY <2>7 DEF MsgBegin, Goto, Release
    <2>8. ASSUME NEW t \in MsgTasks, MsgReturn(t)
          PROVE  TimerOrdered'
      BY <2>8 DEF MsgReturn, Goto, Release, MayReturn
    <2>9. ASSUME NEW t \in MsgTasks, MsgPanic(t)
          PROVE  TimerOrdered'
      BY <2>9 DEF MsgPanic, Release, MayReturn
    <2> HIDE DEF IndInv, TimerOrdered
    <2> QED
      BY <1>6, <2>1, <2>2, <2>3, <2>4, <2>5, <2>6, <2>7, <2>8, <2>9 DEF CronNext, MsgNext
  <1>7. CASE \/ \E w \in Writers : WriteCheck(w) \/ WriteNext(w)
             \/ \E w \in RawWriters : WriteCheck(w) \/ RawNext(w)
    <2>1. ASSUME NEW w \in Writers \cup RawWriters, WriteCheck(w)
          PROVE  TimerOrdered'
      BY <2>1 DEF WriteCheck, Goto
    <2>2. ASSUME NEW w \in Writers, WriteSnapshot(w)
          PROVE  TimerOrdered'
      BY <2>2 DEF WriteSnapshot, Goto
    <2>3. ASSUME NEW w \in Writers, WriteAcquire(w)
          PROVE  TimerOrdered'
      BY <2>3 DEF WriteAcquire, Goto, Acquire
    <2>4. ASSUME NEW w \in Writers, WriteEncoded(w)
          PROVE  TimerOrdered'
      BY <2>4 DEF WriteEncoded, Goto, Release, MayReturn
    <2>5. ASSUME NEW w \in Writers, WriteLock(w)
          PROVE  TimerOrdered'
      BY <2>5 DEF WriteLock, Goto, Release
    <2>6. ASSUME NEW w \in Writers, WriteSent(w)
          PROVE  TimerOrdered'
      BY <2>6 DEF WriteSent, Goto, Release
    <2>7. ASSUME NEW w \in RawWriters, RawLock(w)
          PROVE  TimerOrdered'
      BY <2>7 DEF RawLock, Goto
    <2>8. ASSUME NEW w \in RawWriters, RawSent(w)
          PROVE  TimerOrdered'
      BY <2>8 DEF RawSent, Goto
    <2>9. ASSUME NEW w \in RawWriters, RawSnapshot(w)
          PROVE  TimerOrdered'
      BY <2>9 DEF RawSnapshot, Goto
    <2>10. ASSUME NEW w \in RawWriters, RawLockBatch(w)
          PROVE  TimerOrdered'
      BY <2>10 DEF RawLockBatch, Goto
    <2> HIDE DEF IndInv, TimerOrdered
    <2> QED
      BY <1>7, <2>1, <2>2, <2>3, <2>4, <2>5, <2>6, <2>7, <2>8, <2>9, <2>10 DEF WriteNext, RawNext
  <1>8. CASE \E r \in Resetters :
                \/ \E h \in inCallback \cup {"none"} :
                      Reset(r, h) \/ TryReset(r, h) \/ CallResetAsync(r, h)
                \/ ResetAsync(r) \/ AwaitResult(r)
    <2>1. ASSUME NEW r \in Resetters, NEW h \in inCallback \cup {"none"}, Reset(r, h)
          PROVE  TimerOrdered'
      BY <2>1 DEF Reset, Goto
    <2>2. ASSUME NEW r \in Resetters, NEW h \in inCallback \cup {"none"}, TryReset(r, h)
          PROVE  TimerOrdered'
      BY <2>2 DEF TryReset, Goto
    <2>3. ASSUME NEW r \in Resetters, NEW h \in inCallback \cup {"none"}, CallResetAsync(r, h)
          PROVE  TimerOrdered'
      BY <2>3 DEF CallResetAsync, Goto
    <2>4. ASSUME NEW r \in Resetters, ResetAsync(r)
          PROVE  TimerOrdered'
      BY <2>4 DEF ResetAsync, Goto
    <2>5. ASSUME NEW r \in Resetters, AwaitResult(r)
          PROVE  TimerOrdered'
      BY <2>5 DEF AwaitResult, Goto
    <2> HIDE DEF IndInv, TimerOrdered
    <2> QED
      BY <1>8, <2>1, <2>2, <2>3, <2>4, <2>5
  <1>9. CASE WorkerNext
    <2>1. CASE WorkerRawClose
      BY <2>1 DEF WorkerRawClose, Goto
    <2>2. CASE WorkerStopHeartbeat
      BY <2>2 DEF WorkerStopHeartbeat, Goto
    <2>3. CASE WorkerWaitGr
      BY <2>3 DEF WorkerWaitGr, Goto
    <2>4. CASE WorkerGC
      BY <2>4, GCDetaches DEF WorkerGC
    <2>5. CASE WorkerWaitLifecycle
      BY <2>5 DEF WorkerWaitLifecycle, Goto
    <2>6. CASE WorkerClear
      BY <2>6 DEF WorkerClear, Goto, OnceOrdered, WorkerOrdered
    <2>7. CASE WorkerDeliver
      BY <2>7 DEF WorkerDeliver, Goto
    <2> HIDE DEF IndInv, TimerOrdered
    <2> QED
      BY <1>9, <2>1, <2>2, <2>3, <2>4, <2>5, <2>6, <2>7 DEF WorkerNext
  <1> HIDE DEF IndInv, TimerOrdered
  <1> QED
    BY <1>1, <1>2, <1>3, <1>4, <1>5, <1>6, <1>7, <1>8, <1>9 DEF Next

\* The connection is detached by gc() or reset() and then closed.
LEMMA ConnPreserved == ASSUME IndInv, Next PROVE ConnOwned'
  <1> USE ParametersTyped, Roles, IndInvFacts
  <1> USE DEF IndInv, TypeOK, LifeTyped, Facts, ConnOwned, Goroutines, Tasks, Callers,
     StopCallers, lifeVars, connVars, timerVars, countVars, resetVars, outVars
  <1>1. CASE OnceBody
    <2>1. ASSUME NEW g \in Gen, OnceHeartbeat(g)
          PROVE  ConnOwned'
      BY <2>1 DEF OnceHeartbeat, LockFree
    <2>2. ASSUME NEW g \in Gen, OnceStopTimer(g)
          PROVE  ConnOwned'
      BY <2>2 DEF OnceStopTimer
    <2>3. ASSUME NEW g \in Gen, OnceCloseLifecycle(g)
          PROVE  ConnOwned'
      BY <2>3 DEF OnceCloseLifecycle
    <2>4. ASSUME NEW g \in Gen, OnceCallbacks(g)
          PROVE  ConnOwned'
      BY <2>4 DEF OnceCallbacks, Goto
    <2>5. ASSUME NEW g \in Gen, OnceReconnect(g)
          PROVE  ConnOwned'
      BY <2>5 DEF OnceReconnect, LockFree
    <2> HIDE DEF IndInv, ConnOwned
    <2> QED
      BY <1>1, <2>1, <2>2, <2>3, <2>4, <2>5 DEF OnceBody
  <1>2. CASE \E p \in StopCallers : StopNext(p)
    <2>1. ASSUME NEW p \in StopCallers, OnceClose(p)
          PROVE  ConnOwned'
      BY <2>1 DEF OnceClose
    <2>2. ASSUME NEW p \in StopCallers, StopReturn(p)
          PROVE  ConnOwned'
      BY <2>2 DEF StopReturn, Goto, AfterStop
    <2> HIDE DEF IndInv, ConnOwned
    <2> QED
      BY <1>2, <2>1, <2>2 DEF StopNext
  <1>3. CASE \/ CloseCallbacksBegin \/ CloseCallbacksReturn \/ CloseConn
             \/ \E p \in Closers : Close(p)
    <2>1. CASE CloseCallbacksBegin
      BY <2>1 DEF CloseCallbacksBegin, Goto
    <2>2. CASE CloseCallbacksReturn
      BY <2>2 DEF CloseCallbacksReturn, Goto, MayReturn, Release
    <2>3. CASE CloseConn
      BY <2>3 DEF CloseConn, Goto, Release
    <2>4. ASSUME NEW p \in Closers, Close(p)
          PROVE  ConnOwned'
      BY <2>4 DEF Close, Goto, CallStop
    <2> HIDE DEF IndInv, ConnOwned
    <2> QED
      BY <1>3, <2>1, <2>2, <2>3, <2>4
  <1>4. CASE RunNext
    <2>1. CASE RunBegin
      BY <2>1 DEF RunBegin, Goto
    <2>2. CASE RunOpened
      BY <2>2 DEF RunOpened, Goto, MayReturn
    <2>3. CASE RunOpenFailed
      BY <2>3 DEF RunOpenFailed, Goto, MayReturn, CallStop
    <2>4. CASE RunGC
      BY <2>4, GCDetaches DEF RunGC
    <2>5. CASE RunTest
      BY <2>5 DEF RunTest, Goto, LockFree
    <2>6. CASE RunInstall
      BY <2>6 DEF RunInstall, Goto, RunActive, ReaderActive, ReaderClosing
    <2>7. CASE RunSpawn
      BY <2>7 DEF RunSpawn, RunActive, ReaderActive, ReaderClosing
    <2>8. CASE RunInstallFails
      BY <2>8 DEF RunInstallFails, Goto, RunActive, ReaderActive, ReaderClosing
    <2> HIDE DEF IndInv, ConnOwned
    <2> QED
      BY <1>4, <2>1, <2>2, <2>3, <2>4, <2>5, <2>6, <2>7, <2>8 DEF RunNext
  <1>5. CASE ReaderNext
    <2>1. CASE ReaderCheck
      BY <2>1 DEF ReaderCheck, Goto, CallStop
    <2>2. CASE ReaderTimeout
      BY <2>2 DEF ReaderTimeout, Goto
    <2>3. CASE ReaderFails
      BY <2>3 DEF ReaderFails, Goto, CallStop
    <2>4. CASE ReaderEOF
      BY <2>4 DEF ReaderEOF, Goto, CallStop
    <2>5. CASE ReaderData
      BY <2>5 DEF ReaderData, Goto
    <2>6. CASE ReaderDecoded
      BY <2>6 DEF ReaderDecoded, Goto, CallStop, MayReturn
    <2>7. CASE ReaderInlineDone
      BY <2>7 DEF ReaderInlineDone, Goto
    <2>8. CASE ReaderCallback
      BY <2>8 DEF ReaderCallback, Goto
    <2>9. CASE ReaderCallbackReturn
      BY <2>9 DEF ReaderCallbackReturn, Goto, MayReturn
    <2>10. CASE ReaderGC
      BY <2>10, GCDetaches DEF ReaderGC
    <2> HIDE DEF IndInv, ConnOwned
    <2> QED
      BY <1>5, <2>1, <2>2, <2>3, <2>4, <2>5, <2>6, <2>7, <2>8, <2>9, <2>10 DEF ReaderNext
  <1>6. CASE \/ \E t \in CronTasks : Tick(t) \/ CronNext(t)
             \/ \E t \in MsgTasks : MsgNext(t)
    <2>1. ASSUME NEW t \in CronTasks, Tick(t)
          PROVE  ConnOwned'
      BY <2>1 DEF Tick, Goto
    <2>2. ASSUME NEW t \in CronTasks \cup MsgTasks, TaskAcquire(t)
          PROVE  ConnOwned'
      BY <2>2 DEF TaskAcquire, Goto, Acquire
    <2>3. ASSUME NEW t \in CronTasks, CronBegin(t)
          PROVE  ConnOwned'
      BY <2>3 DEF CronBegin, Goto, Release
    <2>4. ASSUME NEW t \in CronTasks, CronReturn(t)
          PROVE  ConnOwned'
      BY <2>4 DEF CronReturn, Goto, Release, MayReturn
    <2>5. ASSUME NEW t \in CronTasks, CronPanic(t)
          PROVE  ConnOwned'
      BY <2>5 DEF CronPanic, Goto, MayReturn
    <2>6. ASSUME NEW t \in CronTasks, CronRawClose(t)
          PROVE  ConnOwned'
      BY <2>6 DEF CronRawClose, Goto, Release
    <2>7. ASSUME NEW t \in MsgTasks, MsgBegin(t)
          PROVE  ConnOwned'
      BY <2>7 DEF MsgBegin, Goto, Release
    <2>8. ASSUME NEW t \in MsgTasks, MsgReturn(t)
          PROVE  ConnOwned'
      BY <2>8 DEF MsgReturn, Goto, Release, MayReturn
    <2>9. ASSUME NEW t \in MsgTasks, MsgPanic(t)
          PROVE  ConnOwned'
      BY <2>9 DEF MsgPanic, Release, MayReturn
    <2> HIDE DEF IndInv, ConnOwned
    <2> QED
      BY <1>6, <2>1, <2>2, <2>3, <2>4, <2>5, <2>6, <2>7, <2>8, <2>9 DEF CronNext, MsgNext
  <1>7. CASE \/ \E w \in Writers : WriteCheck(w) \/ WriteNext(w)
             \/ \E w \in RawWriters : WriteCheck(w) \/ RawNext(w)
    <2>1. ASSUME NEW w \in Writers \cup RawWriters, WriteCheck(w)
          PROVE  ConnOwned'
      BY <2>1 DEF WriteCheck, Goto
    <2>2. ASSUME NEW w \in Writers, WriteSnapshot(w)
          PROVE  ConnOwned'
      BY <2>2 DEF WriteSnapshot, Goto
    <2>3. ASSUME NEW w \in Writers, WriteAcquire(w)
          PROVE  ConnOwned'
      BY <2>3 DEF WriteAcquire, Goto, Acquire
    <2>4. ASSUME NEW w \in Writers, WriteEncoded(w)
          PROVE  ConnOwned'
      BY <2>4 DEF WriteEncoded, Goto, Release, MayReturn
    <2>5. ASSUME NEW w \in Writers, WriteLock(w)
          PROVE  ConnOwned'
      BY <2>5 DEF WriteLock, Goto, Release
    <2>6. ASSUME NEW w \in Writers, WriteSent(w)
          PROVE  ConnOwned'
      BY <2>6 DEF WriteSent, Goto, Release
    <2>7. ASSUME NEW w \in RawWriters, RawLock(w)
          PROVE  ConnOwned'
      BY <2>7 DEF RawLock, Goto
    <2>8. ASSUME NEW w \in RawWriters, RawSent(w)
          PROVE  ConnOwned'
      BY <2>8 DEF RawSent, Goto
    <2>9. ASSUME NEW w \in RawWriters, RawSnapshot(w)
          PROVE  ConnOwned'
      BY <2>9 DEF RawSnapshot, Goto
    <2>10. ASSUME NEW w \in RawWriters, RawLockBatch(w)
          PROVE  ConnOwned'
      BY <2>10 DEF RawLockBatch, Goto
    <2> HIDE DEF IndInv, ConnOwned
    <2> QED
      BY <1>7, <2>1, <2>2, <2>3, <2>4, <2>5, <2>6, <2>7, <2>8, <2>9, <2>10 DEF WriteNext, RawNext
  <1>8. CASE \E r \in Resetters :
                \/ \E h \in inCallback \cup {"none"} :
                      Reset(r, h) \/ TryReset(r, h) \/ CallResetAsync(r, h)
                \/ ResetAsync(r) \/ AwaitResult(r)
    <2>1. ASSUME NEW r \in Resetters, NEW h \in inCallback \cup {"none"}, Reset(r, h)
          PROVE  ConnOwned'
      BY <2>1 DEF Reset, Goto
    <2>2. ASSUME NEW r \in Resetters, NEW h \in inCallback \cup {"none"}, TryReset(r, h)
          PROVE  ConnOwned'
      BY <2>2 DEF TryReset, Goto
    <2>3. ASSUME NEW r \in Resetters, NEW h \in inCallback \cup {"none"}, CallResetAsync(r, h)
          PROVE  ConnOwned'
      BY <2>3 DEF CallResetAsync, Goto
    <2>4. ASSUME NEW r \in Resetters, ResetAsync(r)
          PROVE  ConnOwned'
      BY <2>4 DEF ResetAsync, Goto
    <2>5. ASSUME NEW r \in Resetters, AwaitResult(r)
          PROVE  ConnOwned'
      BY <2>5 DEF AwaitResult, Goto
    <2> HIDE DEF IndInv, ConnOwned
    <2> QED
      BY <1>8, <2>1, <2>2, <2>3, <2>4, <2>5
  <1>9. CASE WorkerNext
    <2>1. CASE WorkerRawClose
      BY <2>1 DEF WorkerRawClose, Goto
    <2>2. CASE WorkerStopHeartbeat
      BY <2>2 DEF WorkerStopHeartbeat, Goto
    <2>3. CASE WorkerWaitGr
      BY <2>3 DEF WorkerWaitGr, Goto
    <2>4. CASE WorkerGC
      BY <2>4, GCDetaches DEF WorkerGC
    <2>5. CASE WorkerWaitLifecycle
      BY <2>5 DEF WorkerWaitLifecycle, Goto
    <2>6. CASE WorkerClear
      BY <2>6 DEF WorkerClear, Goto, WorkerOrdered, OnceOrdered, TimerOrdered, LifecyclesExact,
         Holding, Gen
    <2>7. CASE WorkerDeliver
      BY <2>7 DEF WorkerDeliver, Goto
    <2> HIDE DEF IndInv, ConnOwned
    <2> QED
      BY <1>9, <2>1, <2>2, <2>3, <2>4, <2>5, <2>6, <2>7 DEF WorkerNext
  <1> HIDE DEF IndInv, ConnOwned
  <1> QED
    BY <1>1, <1>2, <1>3, <1>4, <1>5, <1>6, <1>7, <1>8, <1>9 DEF Next

\* reset() has waited for what it is about to clear.
LEMMA WorkerPreserved == ASSUME IndInv, Next PROVE WorkerOrdered'
  <1> USE ParametersTyped, Roles, IndInvFacts
  <1> USE DEF IndInv, TypeOK, LifeTyped, Facts, WorkerOrdered, RunActive, ReaderActive,
     ReaderClosing, Goroutines, Tasks, Callers, StopCallers, lifeVars, connVars, timerVars,
     countVars, resetVars, outVars
  <1>1. CASE OnceBody
    <2>1. ASSUME NEW g \in Gen, OnceHeartbeat(g)
          PROVE  WorkerOrdered'
      BY <2>1 DEF OnceHeartbeat, LockFree
    <2>2. ASSUME NEW g \in Gen, OnceStopTimer(g)
          PROVE  WorkerOrdered'
      BY <2>2 DEF OnceStopTimer
    <2>3. ASSUME NEW g \in Gen, OnceCloseLifecycle(g)
          PROVE  WorkerOrdered'
      BY <2>3 DEF OnceCloseLifecycle
    <2>4. ASSUME NEW g \in Gen, OnceCallbacks(g)
          PROVE  WorkerOrdered'
      BY <2>4 DEF OnceCallbacks, Goto, OnceOrdered
    <2>5. ASSUME NEW g \in Gen, OnceReconnect(g)
          PROVE  WorkerOrdered'
      BY <2>5 DEF OnceReconnect, LockFree
    <2> HIDE DEF IndInv, WorkerOrdered
    <2> QED
      BY <1>1, <2>1, <2>2, <2>3, <2>4, <2>5 DEF OnceBody
  <1>2. CASE \E p \in StopCallers : StopNext(p)
    <2>1. ASSUME NEW p \in StopCallers, OnceClose(p)
          PROVE  WorkerOrdered'
      BY <2>1 DEF OnceClose
    <2>2. ASSUME NEW p \in StopCallers, StopReturn(p)
          PROVE  WorkerOrdered'
      BY <2>2 DEF StopReturn, Goto, AfterStop
    <2> HIDE DEF IndInv, WorkerOrdered
    <2> QED
      BY <1>2, <2>1, <2>2 DEF StopNext
  <1>3. CASE \/ CloseCallbacksBegin \/ CloseCallbacksReturn \/ CloseConn
             \/ \E p \in Closers : Close(p)
    <2>1. CASE CloseCallbacksBegin
      BY <2>1 DEF CloseCallbacksBegin, Goto
    <2>2. CASE CloseCallbacksReturn
      BY <2>2 DEF CloseCallbacksReturn, Goto, MayReturn, Release
    <2>3. CASE CloseConn
      BY <2>3 DEF CloseConn, Goto, Release
    <2>4. ASSUME NEW p \in Closers, Close(p)
          PROVE  WorkerOrdered'
      BY <2>4 DEF Close, Goto, CallStop
    <2> HIDE DEF IndInv, WorkerOrdered
    <2> QED
      BY <1>3, <2>1, <2>2, <2>3, <2>4
  <1>4. CASE RunNext
    <2>1. CASE RunBegin
      BY <2>1 DEF RunBegin, Goto
    <2>2. CASE RunOpened
      BY <2>2 DEF RunOpened, Goto, MayReturn
    <2>3. CASE RunOpenFailed
      BY <2>3 DEF RunOpenFailed, Goto, MayReturn, CallStop
    <2>4. CASE RunGC
      BY <2>4, GCDetaches DEF RunGC
    <2>5. CASE RunTest
      BY <2>5 DEF RunTest, Goto, LockFree
    <2>6. CASE RunInstall
      BY <2>6 DEF RunInstall, Goto
    <2>7. CASE RunSpawn
      BY <2>7 DEF RunSpawn
    <2>8. CASE RunInstallFails
      BY <2>8 DEF RunInstallFails, Goto
    <2> HIDE DEF IndInv, WorkerOrdered
    <2> QED
      BY <1>4, <2>1, <2>2, <2>3, <2>4, <2>5, <2>6, <2>7, <2>8 DEF RunNext
  <1>5. CASE ReaderNext
    <2>1. CASE ReaderCheck
      BY <2>1 DEF ReaderCheck, Goto, CallStop
    <2>2. CASE ReaderTimeout
      BY <2>2 DEF ReaderTimeout, Goto
    <2>3. CASE ReaderFails
      BY <2>3 DEF ReaderFails, Goto, CallStop
    <2>4. CASE ReaderEOF
      BY <2>4 DEF ReaderEOF, Goto, CallStop
    <2>5. CASE ReaderData
      BY <2>5 DEF ReaderData, Goto
    <2>6. CASE ReaderDecoded
      BY <2>6 DEF ReaderDecoded, Goto, CallStop, MayReturn
    <2>7. CASE ReaderInlineDone
      BY <2>7 DEF ReaderInlineDone, Goto
    <2>8. CASE ReaderCallback
      BY <2>8 DEF ReaderCallback, Goto
    <2>9. CASE ReaderCallbackReturn
      BY <2>9 DEF ReaderCallbackReturn, Goto, MayReturn
    <2>10. CASE ReaderGC
      BY <2>10, GCDetaches DEF ReaderGC
    <2> HIDE DEF IndInv, WorkerOrdered
    <2> QED
      BY <1>5, <2>1, <2>2, <2>3, <2>4, <2>5, <2>6, <2>7, <2>8, <2>9, <2>10 DEF ReaderNext
  <1>6. CASE \/ \E t \in CronTasks : Tick(t) \/ CronNext(t)
             \/ \E t \in MsgTasks : MsgNext(t)
    <2>1. ASSUME NEW t \in CronTasks, Tick(t)
          PROVE  WorkerOrdered'
      BY <2>1 DEF Tick, Goto
    <2>2. ASSUME NEW t \in CronTasks \cup MsgTasks, TaskAcquire(t)
          PROVE  WorkerOrdered'
      BY <2>2 DEF TaskAcquire, Goto, Acquire, OnceOrdered
    <2>3. ASSUME NEW t \in CronTasks, CronBegin(t)
          PROVE  WorkerOrdered'
      BY <2>3 DEF CronBegin, Goto, Release
    <2>4. ASSUME NEW t \in CronTasks, CronReturn(t)
          PROVE  WorkerOrdered'
      BY <2>4 DEF CronReturn, Goto, Release, MayReturn
    <2>5. ASSUME NEW t \in CronTasks, CronPanic(t)
          PROVE  WorkerOrdered'
      BY <2>5 DEF CronPanic, Goto, MayReturn
    <2>6. ASSUME NEW t \in CronTasks, CronRawClose(t)
          PROVE  WorkerOrdered'
      BY <2>6 DEF CronRawClose, Goto, Release
    <2>7. ASSUME NEW t \in MsgTasks, MsgBegin(t)
          PROVE  WorkerOrdered'
      BY <2>7 DEF MsgBegin, Goto, Release
    <2>8. ASSUME NEW t \in MsgTasks, MsgReturn(t)
          PROVE  WorkerOrdered'
      BY <2>8 DEF MsgReturn, Goto, Release, MayReturn
    <2>9. ASSUME NEW t \in MsgTasks, MsgPanic(t)
          PROVE  WorkerOrdered'
      BY <2>9 DEF MsgPanic, Release, MayReturn
    <2> HIDE DEF IndInv, WorkerOrdered
    <2> QED
      BY <1>6, <2>1, <2>2, <2>3, <2>4, <2>5, <2>6, <2>7, <2>8, <2>9 DEF CronNext, MsgNext
  <1>7. CASE \/ \E w \in Writers : WriteCheck(w) \/ WriteNext(w)
             \/ \E w \in RawWriters : WriteCheck(w) \/ RawNext(w)
    <2>1. ASSUME NEW w \in Writers \cup RawWriters, WriteCheck(w)
          PROVE  WorkerOrdered'
      BY <2>1 DEF WriteCheck, Goto
    <2>2. ASSUME NEW w \in Writers, WriteSnapshot(w)
          PROVE  WorkerOrdered'
      BY <2>2 DEF WriteSnapshot, Goto
    <2>3. ASSUME NEW w \in Writers, WriteAcquire(w)
          PROVE  WorkerOrdered'
      BY <2>3 DEF WriteAcquire, Goto, Acquire, OnceOrdered
    <2>4. ASSUME NEW w \in Writers, WriteEncoded(w)
          PROVE  WorkerOrdered'
      BY <2>4 DEF WriteEncoded, Goto, Release, MayReturn
    <2>5. ASSUME NEW w \in Writers, WriteLock(w)
          PROVE  WorkerOrdered'
      BY <2>5 DEF WriteLock, Goto, Release
    <2>6. ASSUME NEW w \in Writers, WriteSent(w)
          PROVE  WorkerOrdered'
      BY <2>6 DEF WriteSent, Goto, Release
    <2>7. ASSUME NEW w \in RawWriters, RawLock(w)
          PROVE  WorkerOrdered'
      BY <2>7 DEF RawLock, Goto
    <2>8. ASSUME NEW w \in RawWriters, RawSent(w)
          PROVE  WorkerOrdered'
      BY <2>8 DEF RawSent, Goto
    <2>9. ASSUME NEW w \in RawWriters, RawSnapshot(w)
          PROVE  WorkerOrdered'
      BY <2>9 DEF RawSnapshot, Goto
    <2>10. ASSUME NEW w \in RawWriters, RawLockBatch(w)
          PROVE  WorkerOrdered'
      BY <2>10 DEF RawLockBatch, Goto
    <2> HIDE DEF IndInv, WorkerOrdered
    <2> QED
      BY <1>7, <2>1, <2>2, <2>3, <2>4, <2>5, <2>6, <2>7, <2>8, <2>9, <2>10 DEF WriteNext, RawNext
  <1>8. CASE \E r \in Resetters :
                \/ \E h \in inCallback \cup {"none"} :
                      Reset(r, h) \/ TryReset(r, h) \/ CallResetAsync(r, h)
                \/ ResetAsync(r) \/ AwaitResult(r)
    <2>1. ASSUME NEW r \in Resetters, NEW h \in inCallback \cup {"none"}, Reset(r, h)
          PROVE  WorkerOrdered'
      BY <2>1 DEF Reset, Goto
    <2>2. ASSUME NEW r \in Resetters, NEW h \in inCallback \cup {"none"}, TryReset(r, h)
          PROVE  WorkerOrdered'
      BY <2>2 DEF TryReset, Goto
    <2>3. ASSUME NEW r \in Resetters, NEW h \in inCallback \cup {"none"}, CallResetAsync(r, h)
          PROVE  WorkerOrdered'
      BY <2>3 DEF CallResetAsync, Goto
    <2>4. ASSUME NEW r \in Resetters, ResetAsync(r)
          PROVE  WorkerOrdered'
      BY <2>4 DEF ResetAsync, Goto
    <2>5. ASSUME NEW r \in Resetters, AwaitResult(r)
          PROVE  WorkerOrdered'
      BY <2>5 DEF AwaitResult, Goto
    <2> HIDE DEF IndInv, WorkerOrdered
    <2> QED
      BY <1>8, <2>1, <2>2, <2>3, <2>4, <2>5
  <1>9. CASE WorkerNext
    <2>1. CASE WorkerRawClose
      BY <2>1 DEF WorkerRawClose, Goto
    <2>2. CASE WorkerStopHeartbeat
      BY <2>2 DEF WorkerStopHeartbeat, Goto
    <2>3. CASE WorkerWaitGr
      BY <2>3 DEF WorkerWaitGr, Goto
    <2>4. CASE WorkerGC
      BY <2>4, GCDetaches DEF WorkerGC
    <2>5. CASE WorkerWaitLifecycle
      BY <2>5 DEF WorkerWaitLifecycle, Goto
    <2>6. CASE WorkerClear
      BY <2>6 DEF WorkerClear, Goto, Gen
    <2>7. CASE WorkerDeliver
      BY <2>7 DEF WorkerDeliver, Goto
    <2> HIDE DEF IndInv, WorkerOrdered
    <2> QED
      BY <1>9, <2>1, <2>2, <2>3, <2>4, <2>5, <2>6, <2>7 DEF WorkerNext
  <1> HIDE DEF IndInv, WorkerOrdered
  <1> QED
    BY <1>1, <1>2, <1>3, <1>4, <1>5, <1>6, <1>7, <1>8, <1>9 DEF Next

\* Each request is answered by the run it joined.
LEMMA RequestsPreserved == ASSUME IndInv, Next PROVE RequestsOrdered'
  <1> USE ParametersTyped, Roles, IndInvFacts
  <1> USE DEF IndInv, TypeOK, LifeTyped, Facts, RequestsOrdered, Goroutines, Tasks, Callers,
     StopCallers, lifeVars, connVars, timerVars, countVars, resetVars, outVars
  <1>1. CASE OnceBody
    <2>1. ASSUME NEW g \in Gen, OnceHeartbeat(g)
          PROVE  RequestsOrdered'
      BY <2>1 DEF OnceHeartbeat, LockFree
    <2>2. ASSUME NEW g \in Gen, OnceStopTimer(g)
          PROVE  RequestsOrdered'
      BY <2>2 DEF OnceStopTimer
    <2>3. ASSUME NEW g \in Gen, OnceCloseLifecycle(g)
          PROVE  RequestsOrdered'
      BY <2>3 DEF OnceCloseLifecycle
    <2>4. ASSUME NEW g \in Gen, OnceCallbacks(g)
          PROVE  RequestsOrdered'
      BY <2>4 DEF OnceCallbacks, Goto
    <2>5. ASSUME NEW g \in Gen, OnceReconnect(g)
          PROVE  RequestsOrdered'
      BY <2>5 DEF OnceReconnect, LockFree
    <2> HIDE DEF IndInv, RequestsOrdered
    <2> QED
      BY <1>1, <2>1, <2>2, <2>3, <2>4, <2>5 DEF OnceBody
  <1>2. CASE \E p \in StopCallers : StopNext(p)
    <2>1. ASSUME NEW p \in StopCallers, OnceClose(p)
          PROVE  RequestsOrdered'
      BY <2>1 DEF OnceClose
    <2>2. ASSUME NEW p \in StopCallers, StopReturn(p)
          PROVE  RequestsOrdered'
      BY <2>2 DEF StopReturn, Goto, AfterStop
    <2> HIDE DEF IndInv, RequestsOrdered
    <2> QED
      BY <1>2, <2>1, <2>2 DEF StopNext
  <1>3. CASE \/ CloseCallbacksBegin \/ CloseCallbacksReturn \/ CloseConn
             \/ \E p \in Closers : Close(p)
    <2>1. CASE CloseCallbacksBegin
      BY <2>1 DEF CloseCallbacksBegin, Goto
    <2>2. CASE CloseCallbacksReturn
      BY <2>2 DEF CloseCallbacksReturn, Goto, MayReturn, Release
    <2>3. CASE CloseConn
      BY <2>3 DEF CloseConn, Goto, Release
    <2>4. ASSUME NEW p \in Closers, Close(p)
          PROVE  RequestsOrdered'
      BY <2>4 DEF Close, Goto, CallStop
    <2> HIDE DEF IndInv, RequestsOrdered
    <2> QED
      BY <1>3, <2>1, <2>2, <2>3, <2>4
  <1>4. CASE RunNext
    <2>1. CASE RunBegin
      BY <2>1 DEF RunBegin, Goto
    <2>2. CASE RunOpened
      BY <2>2 DEF RunOpened, Goto, MayReturn
    <2>3. CASE RunOpenFailed
      BY <2>3 DEF RunOpenFailed, Goto, MayReturn, CallStop
    <2>4. CASE RunGC
      BY <2>4 DEF RunGC, Goto, GC, LockFree
    <2>5. CASE RunTest
      BY <2>5 DEF RunTest, Goto, LockFree
    <2>6. CASE RunInstall
      BY <2>6 DEF RunInstall, Goto
    <2>7. CASE RunSpawn
      BY <2>7 DEF RunSpawn
    <2>8. CASE RunInstallFails
      BY <2>8 DEF RunInstallFails, Goto
    <2> HIDE DEF IndInv, RequestsOrdered
    <2> QED
      BY <1>4, <2>1, <2>2, <2>3, <2>4, <2>5, <2>6, <2>7, <2>8 DEF RunNext
  <1>5. CASE ReaderNext
    <2>1. CASE ReaderCheck
      BY <2>1 DEF ReaderCheck, Goto, CallStop
    <2>2. CASE ReaderTimeout
      BY <2>2 DEF ReaderTimeout, Goto
    <2>3. CASE ReaderFails
      BY <2>3 DEF ReaderFails, Goto, CallStop
    <2>4. CASE ReaderEOF
      BY <2>4 DEF ReaderEOF, Goto, CallStop
    <2>5. CASE ReaderData
      BY <2>5 DEF ReaderData, Goto
    <2>6. CASE ReaderDecoded
      BY <2>6 DEF ReaderDecoded, Goto, CallStop, MayReturn
    <2>7. CASE ReaderInlineDone
      BY <2>7 DEF ReaderInlineDone, Goto
    <2>8. CASE ReaderCallback
      BY <2>8 DEF ReaderCallback, Goto
    <2>9. CASE ReaderCallbackReturn
      BY <2>9 DEF ReaderCallbackReturn, Goto, MayReturn
    <2>10. CASE ReaderGC
      BY <2>10 DEF ReaderGC, Goto, GC, LockFree
    <2> HIDE DEF IndInv, RequestsOrdered
    <2> QED
      BY <1>5, <2>1, <2>2, <2>3, <2>4, <2>5, <2>6, <2>7, <2>8, <2>9, <2>10 DEF ReaderNext
  <1>6. CASE \/ \E t \in CronTasks : Tick(t) \/ CronNext(t)
             \/ \E t \in MsgTasks : MsgNext(t)
    <2>1. ASSUME NEW t \in CronTasks, Tick(t)
          PROVE  RequestsOrdered'
      BY <2>1 DEF Tick, Goto
    <2>2. ASSUME NEW t \in CronTasks \cup MsgTasks, TaskAcquire(t)
          PROVE  RequestsOrdered'
      BY <2>2 DEF TaskAcquire, Goto, Acquire
    <2>3. ASSUME NEW t \in CronTasks, CronBegin(t)
          PROVE  RequestsOrdered'
      BY <2>3 DEF CronBegin, Goto, Release
    <2>4. ASSUME NEW t \in CronTasks, CronReturn(t)
          PROVE  RequestsOrdered'
      BY <2>4 DEF CronReturn, Goto, Release, MayReturn
    <2>5. ASSUME NEW t \in CronTasks, CronPanic(t)
          PROVE  RequestsOrdered'
      BY <2>5 DEF CronPanic, Goto, MayReturn
    <2>6. ASSUME NEW t \in CronTasks, CronRawClose(t)
          PROVE  RequestsOrdered'
      BY <2>6 DEF CronRawClose, Goto, Release
    <2>7. ASSUME NEW t \in MsgTasks, MsgBegin(t)
          PROVE  RequestsOrdered'
      BY <2>7 DEF MsgBegin, Goto, Release
    <2>8. ASSUME NEW t \in MsgTasks, MsgReturn(t)
          PROVE  RequestsOrdered'
      BY <2>8 DEF MsgReturn, Goto, Release, MayReturn
    <2>9. ASSUME NEW t \in MsgTasks, MsgPanic(t)
          PROVE  RequestsOrdered'
      BY <2>9 DEF MsgPanic, Release, MayReturn
    <2> HIDE DEF IndInv, RequestsOrdered
    <2> QED
      BY <1>6, <2>1, <2>2, <2>3, <2>4, <2>5, <2>6, <2>7, <2>8, <2>9 DEF CronNext, MsgNext
  <1>7. CASE \/ \E w \in Writers : WriteCheck(w) \/ WriteNext(w)
             \/ \E w \in RawWriters : WriteCheck(w) \/ RawNext(w)
    <2>1. ASSUME NEW w \in Writers \cup RawWriters, WriteCheck(w)
          PROVE  RequestsOrdered'
      BY <2>1 DEF WriteCheck, Goto
    <2>2. ASSUME NEW w \in Writers, WriteSnapshot(w)
          PROVE  RequestsOrdered'
      BY <2>2 DEF WriteSnapshot, Goto
    <2>3. ASSUME NEW w \in Writers, WriteAcquire(w)
          PROVE  RequestsOrdered'
      BY <2>3 DEF WriteAcquire, Goto, Acquire
    <2>4. ASSUME NEW w \in Writers, WriteEncoded(w)
          PROVE  RequestsOrdered'
      BY <2>4 DEF WriteEncoded, Goto, Release, MayReturn
    <2>5. ASSUME NEW w \in Writers, WriteLock(w)
          PROVE  RequestsOrdered'
      BY <2>5 DEF WriteLock, Goto, Release
    <2>6. ASSUME NEW w \in Writers, WriteSent(w)
          PROVE  RequestsOrdered'
      BY <2>6 DEF WriteSent, Goto, Release
    <2>7. ASSUME NEW w \in RawWriters, RawLock(w)
          PROVE  RequestsOrdered'
      BY <2>7 DEF RawLock, Goto
    <2>8. ASSUME NEW w \in RawWriters, RawSent(w)
          PROVE  RequestsOrdered'
      BY <2>8 DEF RawSent, Goto
    <2>9. ASSUME NEW w \in RawWriters, RawSnapshot(w)
          PROVE  RequestsOrdered'
      BY <2>9 DEF RawSnapshot, Goto
    <2>10. ASSUME NEW w \in RawWriters, RawLockBatch(w)
          PROVE  RequestsOrdered'
      BY <2>10 DEF RawLockBatch, Goto
    <2> HIDE DEF IndInv, RequestsOrdered
    <2> QED
      BY <1>7, <2>1, <2>2, <2>3, <2>4, <2>5, <2>6, <2>7, <2>8, <2>9, <2>10 DEF WriteNext, RawNext
  <1>8. CASE \E r \in Resetters :
                \/ \E h \in inCallback \cup {"none"} :
                      Reset(r, h) \/ TryReset(r, h) \/ CallResetAsync(r, h)
                \/ ResetAsync(r) \/ AwaitResult(r)
    <2>1. ASSUME NEW r \in Resetters, NEW h \in inCallback \cup {"none"}, Reset(r, h)
          PROVE  RequestsOrdered'
      BY <2>1 DEF Reset, Goto
    <2>2. ASSUME NEW r \in Resetters, NEW h \in inCallback \cup {"none"}, TryReset(r, h)
          PROVE  RequestsOrdered'
      BY <2>2 DEF TryReset, Goto
    <2>3. ASSUME NEW r \in Resetters, NEW h \in inCallback \cup {"none"}, CallResetAsync(r, h)
          PROVE  RequestsOrdered'
      BY <2>3 DEF CallResetAsync, Goto
    <2>4. ASSUME NEW r \in Resetters, ResetAsync(r)
          PROVE  RequestsOrdered'
      BY <2>4 DEF ResetAsync, Goto
    <2>5. ASSUME NEW r \in Resetters, AwaitResult(r)
          PROVE  RequestsOrdered'
      BY <2>5 DEF AwaitResult, Goto
    <2> HIDE DEF IndInv, RequestsOrdered
    <2> QED
      BY <1>8, <2>1, <2>2, <2>3, <2>4, <2>5
  <1>9. CASE WorkerNext
    <2>1. CASE WorkerRawClose
      BY <2>1 DEF WorkerRawClose, Goto
    <2>2. CASE WorkerStopHeartbeat
      BY <2>2 DEF WorkerStopHeartbeat, Goto
    <2>3. CASE WorkerWaitGr
      BY <2>3 DEF WorkerWaitGr, Goto
    <2>4. CASE WorkerGC
      BY <2>4 DEF WorkerGC, Goto, GC, LockFree
    <2>5. CASE WorkerWaitLifecycle
      BY <2>5 DEF WorkerWaitLifecycle, Goto
    <2>6. CASE WorkerClear
      BY <2>6 DEF WorkerClear, Goto
    <2>7. CASE WorkerDeliver
      BY <2>7 DEF WorkerDeliver, Goto
    <2> HIDE DEF IndInv, RequestsOrdered
    <2> QED
      BY <1>9, <2>1, <2>2, <2>3, <2>4, <2>5, <2>6, <2>7 DEF WorkerNext
  <1> HIDE DEF IndInv, RequestsOrdered
  <1> QED
    BY <1>1, <1>2, <1>3, <1>4, <1>5, <1>6, <1>7, <1>8, <1>9 DEF Next
=============================================================================
