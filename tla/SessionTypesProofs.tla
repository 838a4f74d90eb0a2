------------------------- MODULE SessionTypesProofs -------------------------
(***************************************************************************)
(* Every action of Session keeps the types of the variables.               *)
(***************************************************************************)
EXTENDS SessionLemmas

\* Every goroutine stays at the steps of its own code.
LEMMA PcTypedPreserved == ASSUME IndInv, Next PROVE PcTyped'
  <1> USE ParametersTyped, Roles, IndInvFacts
  <1> USE DEF IndInv, TypeOK, PcTyped, Steps, RunSteps, ReaderSteps, WorkerSteps, ClosecbSteps,
     CronSteps, MsgSteps, WriterSteps, RawSteps, ResetSteps, Goroutines, Tasks, Callers,
     StopCallers, lifeVars, connVars, timerVars, countVars, resetVars, outVars
  <1>1. CASE OnceBody
    <2>1. ASSUME NEW g \in Gen, OnceHeartbeat(g)
          PROVE  PcTyped'
      BY <2>1 DEF OnceHeartbeat, LockFree
    <2>2. ASSUME NEW g \in Gen, OnceStopTimer(g)
          PROVE  PcTyped'
      BY <2>2 DEF OnceStopTimer
    <2>3. ASSUME NEW g \in Gen, OnceCloseLifecycle(g)
          PROVE  PcTyped'
      BY <2>3 DEF OnceCloseLifecycle
    <2>4. ASSUME NEW g \in Gen, OnceCallbacks(g)
          PROVE  PcTyped'
      BY <2>4 DEF OnceCallbacks, Goto
    <2>5. ASSUME NEW g \in Gen, OnceReconnect(g)
          PROVE  PcTyped'
      BY <2>5 DEF OnceReconnect, LockFree
    <2> HIDE DEF IndInv, PcTyped
    <2> QED
      BY <1>1, <2>1, <2>2, <2>3, <2>4, <2>5 DEF OnceBody
  <1>2. CASE \E p \in StopCallers : StopNext(p)
    <2>1. ASSUME NEW p \in StopCallers, OnceClose(p)
          PROVE  PcTyped'
      BY <2>1 DEF OnceClose
    <2>2. ASSUME NEW p \in StopCallers, StopReturn(p)
          PROVE  PcTyped'
      BY <2>2 DEF StopReturn, Goto, AfterStop
    <2> HIDE DEF IndInv, PcTyped
    <2> QED
      BY <1>2, <2>1, <2>2 DEF StopNext
  <1>3. CASE \/ CloseCallbacksBegin \/ CloseCallbacksReturn \/ CloseConn
             \/ \E p \in Closers : Close(p)
    <2>1. CASE CloseCallbacksBegin
      BY <2>1 DEF CloseCallbacksBegin, Goto
    <2>2. CASE CloseCallbacksReturn
      BY <2>2 DEF CloseCallbacksReturn, Goto, MayReturn, Release
    <2>3. CASE CloseConn
      BY <2>3 DEF CloseConn, Goto, Release
    <2>4. ASSUME NEW p \in Closers, Close(p)
          PROVE  PcTyped'
      BY <2>4 DEF Close, Goto, CallStop
    <2> HIDE DEF IndInv, PcTyped
    <2> QED
      BY <1>3, <2>1, <2>2, <2>3, <2>4
  <1>4. CASE RunNext
    <2>1. CASE RunBegin
      BY <2>1 DEF RunBegin, Goto
    <2>2. CASE RunOpened
      BY <2>2 DEF RunOpened, Goto, MayReturn
    <2>3. CASE RunOpenFailed
      BY <2>3 DEF RunOpenFailed, Goto, MayReturn, CallStop
    <2>4. CASE RunGC
      BY <2>4 DEF RunGC, Goto, GC, LockFree
    <2>5. CASE RunTest
      BY <2>5 DEF RunTest, Goto, LockFree
    <2>6. CASE RunInstall
      BY <2>6 DEF RunInstall, Goto
    <2>7. CASE RunSpawn
      BY <2>7 DEF RunSpawn
    <2>8. CASE RunInstallFails
      BY <2>8 DEF RunInstallFails, Goto
    <2> HIDE DEF IndInv, PcTyped
    <2> QED
      BY <1>4, <2>1, <2>2, <2>3, <2>4, <2>5, <2>6, <2>7, <2>8 DEF RunNext
  <1>5. CASE ReaderNext
    <2>1. CASE ReaderCheck
      BY <2>1 DEF ReaderCheck, Goto, CallStop
    <2>2. CASE ReaderTimeout
      BY <2>2 DEF ReaderTimeout, Goto
    <2>3. CASE ReaderFails
      BY <2>3 DEF ReaderFails, Goto, CallStop
    <2>4. CASE ReaderEOF
      BY <2>4 DEF ReaderEOF, Goto, CallStop
    <2>5. CASE ReaderData
      BY <2>5 DEF ReaderData, Goto
    <2>6. CASE ReaderDecoded
      BY <2>6 DEF ReaderDecoded, Goto, CallStop, MayReturn
    <2>7. CASE ReaderInlineDone
      BY <2>7 DEF ReaderInlineDone, Goto
    <2>8. CASE ReaderCallback
      BY <2>8 DEF ReaderCallback, Goto
    <2>9. CASE ReaderCallbackReturn
      BY <2>9 DEF ReaderCallbackReturn, Goto, MayReturn
    <2>10. CASE ReaderGC
      BY <2>10 DEF ReaderGC, Goto, GC, LockFree
    <2> HIDE DEF IndInv, PcTyped
    <2> QED
      BY <1>5, <2>1, <2>2, <2>3, <2>4, <2>5, <2>6, <2>7, <2>8, <2>9, <2>10 DEF ReaderNext
  <1>6. CASE \/ \E t \in CronTasks : Tick(t) \/ CronNext(t)
             \/ \E t \in MsgTasks : MsgNext(t)
    <2>1. ASSUME NEW t \in CronTasks, Tick(t)
          PROVE  PcTyped'
      BY <2>1 DEF Tick, Goto
    <2>2. ASSUME NEW t \in CronTasks \cup MsgTasks, TaskAcquire(t)
          PROVE  PcTyped'
      BY <2>2 DEF TaskAcquire, Goto, Acquire
    <2>3. ASSUME NEW t \in CronTasks, CronBegin(t)
          PROVE  PcTyped'
      BY <2>3 DEF CronBegin, Goto, Release
    <2>4. ASSUME NEW t \in CronTasks, CronReturn(t)
          PROVE  PcTyped'
      BY <2>4 DEF CronReturn, Goto, Release, MayReturn
    <2>5. ASSUME NEW t \in CronTasks, CronPanic(t)
          PROVE  PcTyped'
      BY <2>5 DEF CronPanic, Goto, MayReturn
    <2>6. ASSUME NEW t \in CronTasks, CronRawClose(t)
          PROVE  PcTyped'
      BY <2>6 DEF CronRawClose, Goto, Release
    <2>7. ASSUME NEW t \in MsgTasks, MsgBegin(t)
          PROVE  PcTyped'
      BY <2>7 DEF MsgBegin, Goto, Release
    <2>8. ASSUME NEW t \in MsgTasks, MsgReturn(t)
          PROVE  PcTyped'
      BY <2>8 DEF MsgReturn, Goto, Release, MayReturn
    <2>9. ASSUME NEW t \in MsgTasks, MsgPanic(t)
          PROVE  PcTyped'
      BY <2>9 DEF MsgPanic, Release, MayReturn
    <2> HIDE DEF IndInv, PcTyped
    <2> QED
      BY <1>6, <2>1, <2>2, <2>3, <2>4, <2>5, <2>6, <2>7, <2>8, <2>9 DEF CronNext, MsgNext
  <1>7. CASE \/ \E w \in Writers : WriteCheck(w) \/ WriteNext(w)
             \/ \E w \in RawWriters : WriteCheck(w) \/ RawNext(w)
    <2>1. ASSUME NEW w \in Writers \cup RawWriters, WriteCheck(w)
          PROVE  PcTyped'
      BY <2>1 DEF WriteCheck, Goto
    <2>2. ASSUME NEW w \in Writers, WriteSnapshot(w)
          PROVE  PcTyped'
      BY <2>2 DEF WriteSnapshot, Goto
    <2>3. ASSUME NEW w \in Writers, WriteAcquire(w)
          PROVE  PcTyped'
      BY <2>3 DEF WriteAcquire, Goto, Acquire
    <2>4. ASSUME NEW w \in Writers, WriteEncoded(w)
          PROVE  PcTyped'
      BY <2>4 DEF WriteEncoded, Goto, Release, MayReturn
    <2>5. ASSUME NEW w \in Writers, WriteLock(w)
          PROVE  PcTyped'
      BY <2>5 DEF WriteLock, Goto, Release
    <2>6. ASSUME NEW w \in Writers, WriteSent(w)
          PROVE  PcTyped'
      BY <2>6 DEF WriteSent, Goto, Release
    <2>7. ASSUME NEW w \in RawWriters, RawLock(w)
          PROVE  PcTyped'
      BY <2>7 DEF RawLock, Goto
    <2>8. ASSUME NEW w \in RawWriters, RawSent(w)
          PROVE  PcTyped'
      BY <2>8 DEF RawSent, Goto
    <2>9. ASSUME NEW w \in RawWriters, RawSnapshot(w)
          PROVE  PcTyped'
      BY <2>9 DEF RawSnapshot, Goto
    <2>10. ASSUME NEW w \in RawWriters, RawLockBatch(w)
          PROVE  PcTyped'
      BY <2>10 DEF RawLockBatch, Goto
    <2> HIDE DEF IndInv, PcTyped
    <2> QED
      BY <1>7, <2>1, <2>2, <2>3, <2>4, <2>5, <2>6, <2>7, <2>8, <2>9, <2>10 DEF WriteNext, RawNext
  <1>8. CASE \E r \in Resetters :
                \/ \E h \in inCallback \cup {"none"} :
                      Reset(r, h) \/ TryReset(r, h) \/ CallResetAsync(r, h)
                \/ ResetAsync(r) \/ AwaitResult(r)
    <2>1. ASSUME NEW r \in Resetters, NEW h \in inCallback \cup {"none"}, Reset(r, h)
          PROVE  PcTyped'
      BY <2>1 DEF Reset, Goto
    <2>2. ASSUME NEW r \in Resetters, NEW h \in inCallback \cup {"none"}, TryReset(r, h)
          PROVE  PcTyped'
      BY <2>2 DEF TryReset, Goto
    <2>3. ASSUME NEW r \in Resetters, NEW h \in inCallback \cup {"none"}, CallResetAsync(r, h)
          PROVE  PcTyped'
      BY <2>3 DEF CallResetAsync, Goto
    <2>4. ASSUME NEW r \in Resetters, ResetAsync(r)
          PROVE  PcTyped'
      BY <2>4 DEF ResetAsync, Goto
    <2>5. ASSUME NEW r \in Resetters, AwaitResult(r)
          PROVE  PcTyped'
      BY <2>5 DEF AwaitResult, Goto
    <2> HIDE DEF IndInv, PcTyped
    <2> QED
      BY <1>8, <2>1, <2>2, <2>3, <2>4, <2>5
  <1>9. CASE WorkerNext
    <2>1. CASE WorkerRawClose
      BY <2>1 DEF WorkerRawClose, Goto
    <2>2. CASE WorkerStopHeartbeat
      BY <2>2 DEF WorkerStopHeartbeat, Goto
    <2>3. CASE WorkerWaitGr
      BY <2>3 DEF WorkerWaitGr, Goto
    <2>4. CASE WorkerGC
      BY <2>4 DEF WorkerGC, Goto, GC, LockFree
    <2>5. CASE WorkerWaitLifecycle
      BY <2>5 DEF WorkerWaitLifecycle, Goto
    <2>6. CASE WorkerClear
      BY <2>6 DEF WorkerClear, Goto
    <2>7. CASE WorkerDeliver
      BY <2>7 DEF WorkerDeliver, Goto
    <2> HIDE DEF IndInv, PcTyped
    <2> QED
      BY <1>9, <2>1, <2>2, <2>3, <2>4, <2>5, <2>6, <2>7 DEF WorkerNext
  <1> HIDE DEF IndInv, PcTyped
  <1> QED
    BY <1>1, <1>2, <1>3, <1>4, <1>5, <1>6, <1>7, <1>8, <1>9 DEF Next

\* The once, done channel and lifecycle of each generation, and the counters,
\* keep their types.
LEMMA LifeTypedPreserved == ASSUME IndInv, Next PROVE LifeTyped'
  <1> USE ParametersTyped, Roles, IndInvFacts
  <1> USE DEF IndInv, TypeOK, LifeTyped, WorkerOrdered, Gen, OnceSteps, Goroutines, Tasks,
     Callers, StopCallers, lifeVars, connVars, timerVars, countVars, resetVars, outVars
  <1>1. CASE OnceBody
    <2>1. ASSUME NEW g \in Gen, OnceHeartbeat(g)
          PROVE  LifeTyped'
      BY <2>1 DEF OnceHeartbeat, LockFree
    <2>2. ASSUME NEW g \in Gen, OnceStopTimer(g)
          PROVE  LifeTyped'
      BY <2>2 DEF OnceStopTimer
    <2>3. ASSUME NEW g \in Gen, OnceCloseLifecycle(g)
          PROVE  LifeTyped'
      BY <2>3 DEF OnceCloseLifecycle
    <2>4. ASSUME NEW g \in Gen, OnceCallbacks(g)
          PROVE  LifeTyped'
      BY <2>4 DEF OnceCallbacks, Goto
    <2>5. ASSUME NEW g \in Gen, OnceReconnect(g)
          PROVE  LifeTyped'
      BY <2>5 DEF OnceReconnect, LockFree
    <2> HIDE DEF IndInv, LifeTyped
    <2> QED
      BY <1>1, <2>1, <2>2, <2>3, <2>4, <2>5 DEF OnceBody
  <1>2. CASE \E p \in StopCallers : StopNext(p)
    <2>1. ASSUME NEW p \in StopCallers, OnceClose(p)
          PROVE  LifeTyped'
      BY <2>1 DEF OnceClose
    <2>2. ASSUME NEW p \in StopCallers, StopReturn(p)
          PROVE  LifeTyped'
      BY <2>2 DEF StopReturn, Goto, AfterStop
    <2> HIDE DEF IndInv, LifeTyped
    <2> QED
      BY <1>2, <2>1, <2>2 DEF StopNext
  <1>3. CASE \/ CloseCallbacksBegin \/ CloseCallbacksReturn \/ CloseConn
             \/ \E p \in Closers : Close(p)
    <2>1. CASE CloseCallbacksBegin
      BY <2>1 DEF CloseCallbacksBegin, Goto
    <2>2. CASE CloseCallbacksReturn
      BY <2>2, LifecycleTyped DEF CloseCallbacksReturn, Goto, MayReturn
    <2>3. CASE CloseConn
      BY <2>3, LifecycleTyped DEF CloseConn, Goto
    <2>4. ASSUME NEW p \in Closers, Close(p)
          PROVE  LifeTyped'
      BY <2>4 DEF Close, Goto, CallStop
    <2> HIDE DEF IndInv, LifeTyped
    <2> QED
      BY <1>3, <2>1, <2>2, <2>3, <2>4
  <1>4. CASE RunNext
    <2>1. CASE RunBegin
      BY <2>1 DEF RunBegin, Goto
    <2>2. CASE RunOpened
      BY <2>2 DEF RunOpened, Goto, MayReturn
    <2>3. CASE RunOpenFailed
      BY <2>3 DEF RunOpenFailed, Goto, MayReturn, CallStop
    <2>4. CASE RunGC
      BY <2>4 DEF RunGC, Goto, GC, LockFree
    <2>5. CASE RunTest
      BY <2>5 DEF RunTest, Goto, LockFree
    <2>6. CASE RunInstall
      BY <2>6 DEF RunInstall, Goto
    <2>7. CASE RunSpawn
      BY <2>7 DEF RunSpawn
    <2>8. CASE RunInstallFails
      BY <2>8 DEF RunInstallFails, Goto
    <2> HIDE DEF IndInv, LifeTyped
    <2> QED
      BY <1>4, <2>1, <2>2, <2>3, <2>4, <2>5, <2>6, <2>7, <2>8 DEF RunNext
  <1>5. CASE ReaderNext
    <2>1. CASE ReaderCheck
      BY <2>1 DEF ReaderCheck, Goto, CallStop
    <2>2. CASE ReaderTimeout
      BY <2>2 DEF ReaderTimeout, Goto
    <2>3. CASE ReaderFails
      BY <2>3 DEF ReaderFails, Goto, CallStop
    <2>4. CASE ReaderEOF
      BY <2>4 DEF ReaderEOF, Goto, CallStop
    <2>5. CASE ReaderData
      BY <2>5 DEF ReaderData, Goto
    <2>6. CASE ReaderDecoded
      <3>1. pgen' \in [Procs -> Gen]
        BY <2>6, SMTT(30) DEF ReaderDecoded, CallStop
      <3> QED
        BY <2>6, <3>1 DEF ReaderDecoded
    <2>7. CASE ReaderInlineDone
      BY <2>7 DEF ReaderInlineDone, Goto
    <2>8. CASE ReaderCallback
      BY <2>8 DEF ReaderCallback, Goto
    <2>9. CASE ReaderCallbackReturn
      BY <2>9 DEF ReaderCallbackReturn, Goto, MayReturn
    <2>10. CASE ReaderGC
      BY <2>10 DEF ReaderGC, Goto, GC, LockFree
    <2> HIDE DEF IndInv, LifeTyped
    <2> QED
      BY <1>5, <2>1, <2>2, <2>3, <2>4, <2>5, <2>6, <2>7, <2>8, <2>9, <2>10 DEF ReaderNext
  <1>6. CASE \/ \E t \in CronTasks : Tick(t) \/ CronNext(t)
             \/ \E t \in MsgTasks : MsgNext(t)
    <2>1. ASSUME NEW t \in CronTasks, Tick(t)
          PROVE  LifeTyped'
      BY <2>1 DEF Tick, Goto
    <2>2. ASSUME NEW t \in CronTasks \cup MsgTasks, TaskAcquire(t)
          PROVE  LifeTyped'
      BY <2>2, LifecycleTyped DEF TaskAcquire, Goto
    <2>3. ASSUME NEW t \in CronTasks, CronBegin(t)
          PROVE  LifeTyped'
      BY <2>3, LifecycleTyped DEF CronBegin, Goto
    <2>4. ASSUME NEW t \in CronTasks, CronReturn(t)
          PROVE  LifeTyped'
      BY <2>4, LifecycleTyped DEF CronReturn, Goto, MayReturn
    <2>5. ASSUME NEW t \in CronTasks, CronPanic(t)
          PROVE  LifeTyped'
      BY <2>5 DEF CronPanic, Goto, MayReturn
    <2>6. ASSUME NEW t \in CronTasks, CronRawClose(t)
          PROVE  LifeTyped'
      BY <2>6, LifecycleTyped DEF CronRawClose, Goto
    <2>7. ASSUME NEW t \in MsgTasks, MsgBegin(t)
          PROVE  LifeTyped'
      BY <2>7, LifecycleTyped DEF MsgBegin, Goto
    <2>8. ASSUME NEW t \in MsgTasks, MsgReturn(t)
          PROVE  LifeTyped'
      BY <2>8, LifecycleTyped DEF MsgReturn, Goto, MayReturn
    <2>9. ASSUME NEW t \in MsgTasks, MsgPanic(t)
          PROVE  LifeTyped'
      BY <2>9, LifecycleTyped DEF MsgPanic, MayReturn
    <2> HIDE DEF IndInv, LifeTyped
    <2> QED
      BY <1>6, <2>1, <2>2, <2>3, <2>4, <2>5, <2>6, <2>7, <2>8, <2>9 DEF CronNext, MsgNext
  <1>7. CASE \/ \E w \in Writers : WriteCheck(w) \/ WriteNext(w)
             \/ \E w \in RawWriters : WriteCheck(w) \/ RawNext(w)
    <2>1. ASSUME NEW w \in Writers \cup RawWriters, WriteCheck(w)
          PROVE  LifeTyped'
      BY <2>1 DEF WriteCheck, Goto
    <2>2. ASSUME NEW w \in Writers, WriteSnapshot(w)
          PROVE  LifeTyped'
      BY <2>2 DEF WriteSnapshot, Goto
    <2>3. ASSUME NEW w \in Writers, WriteAcquire(w)
          PROVE  LifeTyped'
      BY <2>3, LifecycleTyped DEF WriteAcquire, Goto
    <2>4. ASSUME NEW w \in Writers, WriteEncoded(w)
          PROVE  LifeTyped'
      BY <2>4, LifecycleTyped DEF WriteEncoded, Goto, MayReturn
    <2>5. ASSUME NEW w \in Writers, WriteLock(w)
          PROVE  LifeTyped'
      BY <2>5, LifecycleTyped DEF WriteLock, Goto
    <2>6. ASSUME NEW w \in Writers, WriteSent(w)
          PROVE  LifeTyped'
      BY <2>6, LifecycleTyped DEF WriteSent, Goto
    <2>7. ASSUME NEW w \in RawWriters, RawLock(w)
          PROVE  LifeTyped'
      BY <2>7 DEF RawLock, Goto
    <2>8. ASSUME NEW w \in RawWriters, RawSent(w)
          PROVE  LifeTyped'
      BY <2>8 DEF RawSent, Goto
    <2>9. ASSUME NEW w \in RawWriters, RawSnapshot(w)
          PROVE  LifeTyped'
      BY <2>9 DEF RawSnapshot, Goto
    <2>10. ASSUME NEW w \in RawWriters, RawLockBatch(w)
          PROVE  LifeTyped'
      BY <2>10 DEF RawLockBatch, Goto
    <2> HIDE DEF IndInv, LifeTyped
    <2> QED
      BY <1>7, <2>1, <2>2, <2>3, <2>4, <2>5, <2>6, <2>7, <2>8, <2>9, <2>10 DEF WriteNext, RawNext
  <1>8. CASE \E r \in Resetters :
                \/ \E h \in inCallback \cup {"none"} :
                      Reset(r, h) \/ TryReset(r, h) \/ CallResetAsync(r, h)
                \/ ResetAsync(r) \/ AwaitResult(r)
    <2>1. ASSUME NEW r \in Resetters, NEW h \in inCallback \cup {"none"}, Reset(r, h)
          PROVE  LifeTyped'
      BY <2>1 DEF Reset, Goto
    <2>2. ASSUME NEW r \in Resetters, NEW h \in inCallback \cup {"none"}, TryReset(r, h)
          PROVE  LifeTyped'
      BY <2>2 DEF TryReset, Goto
    <2>3. ASSUME NEW r \in Resetters, NEW h \in inCallback \cup {"none"}, CallResetAsync(r, h)
          PROVE  LifeTyped'
      BY <2>3 DEF CallResetAsync, Goto
    <2>4. ASSUME NEW r \in Resetters, ResetAsync(r)
          PROVE  LifeTyped'
      <3>1. /\ UNCHANGED <<lifeVars, countVars>>
            /\ pgen' = pgen \/ pgen' = [pgen EXCEPT !["worker"] = gen]
        BY <2>4, ResetAsyncStep
      <3>2. pgen' \in [Procs -> Gen]
        BY <3>1
      <3> QED
        BY <3>1, <3>2
    <2>5. ASSUME NEW r \in Resetters, AwaitResult(r)
          PROVE  LifeTyped'
      BY <2>5 DEF AwaitResult, Goto
    <2> HIDE DEF IndInv, LifeTyped
    <2> QED
      BY <1>8, <2>1, <2>2, <2>3, <2>4, <2>5
  <1>9. CASE WorkerNext
    <2>1. CASE WorkerRawClose
      BY <2>1 DEF WorkerRawClose, Goto
    <2>2. CASE WorkerStopHeartbeat
      BY <2>2 DEF WorkerStopHeartbeat, Goto
    <2>3. CASE WorkerWaitGr
      BY <2>3 DEF WorkerWaitGr, Goto
    <2>4. CASE WorkerGC
      BY <2>4 DEF WorkerGC, Goto, GC, LockFree
    <2>5. CASE WorkerWaitLifecycle
      BY <2>5 DEF WorkerWaitLifecycle, Goto
    <2>6. CASE WorkerClear
      BY <2>6 DEF WorkerClear, Goto
    <2>7. CASE WorkerDeliver
      BY <2>7 DEF WorkerDeliver, Goto
    <2> HIDE DEF IndInv, LifeTyped
    <2> QED
      BY <1>9, <2>1, <2>2, <2>3, <2>4, <2>5, <2>6, <2>7 DEF WorkerNext
  <1> HIDE DEF IndInv, LifeTyped
  <1> QED
    BY <1>1, <1>2, <1>3, <1>4, <1>5, <1>6, <1>7, <1>8, <1>9 DEF Next

\* The session's fields and the requests' results keep their types.
LEMMA FieldsTypedPreserved == ASSUME IndInv, Next PROVE FieldsTyped'
  <1> USE DEF IndInv, TypeOK, LifeTyped, FieldsTyped, lifeVars, connVars, timerVars, countVars,
     resetVars, outVars
  <1>1. CASE OnceBody
    <2>1. ASSUME NEW g \in Gen, OnceHeartbeat(g)
          PROVE  FieldsTyped'
      <3>1. timer' \in BOOLEAN
        BY <2>1, Zenon DEF OnceHeartbeat
      <3> QED
        BY <2>1, <3>1 DEF OnceHeartbeat
    <2>2. ASSUME NEW g \in Gen, OnceStopTimer(g)
          PROVE  FieldsTyped'
      <3>1. wheel' \in BOOLEAN
        BY <2>2, Zenon DEF OnceStopTimer
      <3> QED
        BY <2>2, <3>1 DEF OnceStopTimer
    <2>3. ASSUME NEW g \in Gen, OnceCloseLifecycle(g)
          PROVE  FieldsTyped'
      BY <2>3 DEF OnceCloseLifecycle
    <2>4. ASSUME NEW g \in Gen, OnceCallbacks(g)
          PROVE  FieldsTyped'
      BY <2>4 DEF OnceCallbacks, Goto
    <2>5. ASSUME NEW g \in Gen, OnceReconnect(g)
          PROVE  FieldsTyped'
      BY <2>5 DEF OnceReconnect, LockFree
    <2> HIDE DEF IndInv, FieldsTyped
    <2> QED
      BY <1>1, <2>1, <2>2, <2>3, <2>4, <2>5 DEF OnceBody
  <1>2. CASE \E p \in StopCallers : StopNext(p)
    <2>1. ASSUME NEW p \in StopCallers, OnceClose(p)
          PROVE  FieldsTyped'
      BY <2>1 DEF OnceClose
    <2>2. ASSUME NEW p \in StopCallers, StopReturn(p)
          PROVE  FieldsTyped'
      BY <2>2 DEF StopReturn, Goto, AfterStop
    <2> HIDE DEF IndInv, FieldsTyped
    <2> QED
      BY <1>2, <2>1, <2>2 DEF StopNext
  <1>3. CASE \/ CloseCallbacksBegin \/ CloseCallbacksReturn \/ CloseConn
             \/ \E p \in Closers : Close(p)
    <2>1. CASE CloseCallbacksBegin
      BY <2>1 DEF CloseCallbacksBegin, Goto
    <2>2. CASE CloseCallbacksReturn
      BY <2>2 DEF CloseCallbacksReturn, Goto, MayReturn, Release
    <2>3. CASE CloseConn
      BY <2>3 DEF CloseConn, Goto, Release
    <2>4. ASSUME NEW p \in Closers, Close(p)
          PROVE  FieldsTyped'
      BY <2>4 DEF Close, Goto, CallStop
    <2> HIDE DEF IndInv, FieldsTyped
    <2> QED
      BY <1>3, <2>1, <2>2, <2>3, <2>4
  <1>4. CASE RunNext
    <2>1. CASE RunBegin
      BY <2>1 DEF RunBegin, Goto
    <2>2. CASE RunOpened
      BY <2>2 DEF RunOpened, Goto, MayReturn
    <2>3. CASE RunOpenFailed
      BY <2>3 DEF RunOpenFailed, Goto, MayReturn, CallStop
    <2>4. CASE RunGC
      BY <2>4, GCDetaches DEF RunGC
    <2>5. CASE RunTest
      BY <2>5 DEF RunTest, Goto, LockFree
    <2>6. CASE RunInstall
      BY <2>6 DEF RunInstall, Goto
    <2>7. CASE RunSpawn
      BY <2>7 DEF RunSpawn
    <2>8. CASE RunInstallFails
      BY <2>8 DEF RunInstallFails, Goto
    <2> HIDE DEF IndInv, FieldsTyped
    <2> QED
      BY <1>4, <2>1, <2>2, <2>3, <2>4, <2>5, <2>6, <2>7, <2>8 DEF RunNext
  <1>5. CASE ReaderNext
    <2>1. CASE ReaderCheck
      BY <2>1 DEF ReaderCheck, Goto, CallStop
    <2>2. CASE ReaderTimeout
      BY <2>2 DEF ReaderTimeout, Goto
    <2>3. CASE ReaderFails
      BY <2>3 DEF ReaderFails, Goto, CallStop
    <2>4. CASE ReaderEOF
      BY <2>4 DEF ReaderEOF, Goto, CallStop
    <2>5. CASE ReaderData
      BY <2>5 DEF ReaderData, Goto
    <2>6. CASE ReaderDecoded
      BY <2>6 DEF ReaderDecoded, Goto, CallStop, MayReturn
    <2>7. CASE ReaderInlineDone
      BY <2>7 DEF ReaderInlineDone, Goto
    <2>8. CASE ReaderCallback
      BY <2>8 DEF ReaderCallback, Goto
    <2>9. CASE ReaderCallbackReturn
      BY <2>9 DEF ReaderCallbackReturn, Goto, MayReturn
    <2>10. CASE ReaderGC
      BY <2>10, GCDetaches DEF ReaderGC
    <2> HIDE DEF IndInv, FieldsTyped
    <2> QED
      BY <1>5, <2>1, <2>2, <2>3, <2>4, <2>5, <2>6, <2>7, <2>8, <2>9, <2>10 DEF ReaderNext
  <1>6. CASE \/ \E t \in CronTasks : Tick(t) \/ CronNext(t)
             \/ \E t \in MsgTasks : MsgNext(t)
    <2>1. ASSUME NEW t \in CronTasks, Tick(t)
          PROVE  FieldsTyped'
      BY <2>1 DEF Tick, Goto
    <2>2. ASSUME NEW t \in CronTasks \cup MsgTasks, TaskAcquire(t)
          PROVE  FieldsTyped'
      BY <2>2 DEF TaskAcquire, Goto, Acquire
    <2>3. ASSUME NEW t \in CronTasks, CronBegin(t)
          PROVE  FieldsTyped'
      BY <2>3 DEF CronBegin, Goto, Release
    <2>4. ASSUME NEW t \in CronTasks, CronReturn(t)
          PROVE  FieldsTyped'
      BY <2>4 DEF CronReturn, Goto, Release, MayReturn
    <2>5. ASSUME NEW t \in CronTasks, CronPanic(t)
          PROVE  FieldsTyped'
      BY <2>5 DEF CronPanic, Goto, MayReturn
    <2>6. ASSUME NEW t \in CronTasks, CronRawClose(t)
          PROVE  FieldsTyped'
      BY <2>6 DEF CronRawClose, Goto, Release
    <2>7. ASSUME NEW t \in MsgTasks, MsgBegin(t)
          PROVE  FieldsTyped'
      BY <2>7 DEF MsgBegin, Goto, Release
    <2>8. ASSUME NEW t \in MsgTasks, MsgReturn(t)
          PROVE  FieldsTyped'
      BY <2>8 DEF MsgReturn, Goto, Release, MayReturn
    <2>9. ASSUME NEW t \in MsgTasks, MsgPanic(t)
          PROVE  FieldsTyped'
      BY <2>9 DEF MsgPanic, Release, MayReturn
    <2> HIDE DEF IndInv, FieldsTyped
    <2> QED
      BY <1>6, <2>1, <2>2, <2>3, <2>4, <2>5, <2>6, <2>7, <2>8, <2>9 DEF CronNext, MsgNext
  <1>7. CASE \/ \E w \in Writers : WriteCheck(w) \/ WriteNext(w)
             \/ \E w \in RawWriters : WriteCheck(w) \/ RawNext(w)
    <2>1. ASSUME NEW w \in Writers \cup RawWriters, WriteCheck(w)
          PROVE  FieldsTyped'
      BY <2>1 DEF WriteCheck, Goto
    <2>2. ASSUME NEW w \in Writers, WriteSnapshot(w)
          PROVE  FieldsTyped'
      BY <2>2 DEF WriteSnapshot, Goto
    <2>3. ASSUME NEW w \in Writers, WriteAcquire(w)
          PROVE  FieldsTyped'
      BY <2>3 DEF WriteAcquire, Goto, Acquire
    <2>4. ASSUME NEW w \in Writers, WriteEncoded(w)
          PROVE  FieldsTyped'
      BY <2>4 DEF WriteEncoded, Goto, Release, MayReturn
    <2>5. ASSUME NEW w \in Writers, WriteLock(w)
          PROVE  FieldsTyped'
      BY <2>5 DEF WriteLock, Goto, Release
    <2>6. ASSUME NEW w \in Writers, WriteSent(w)
          PROVE  FieldsTyped'
      BY <2>6 DEF WriteSent, Goto, Release
    <2>7. ASSUME NEW w \in RawWriters, RawLock(w)
          PROVE  FieldsTyped'
      BY <2>7 DEF RawLock, Goto
    <2>8. ASSUME NEW w \in RawWriters, RawSent(w)
          PROVE  FieldsTyped'
      BY <2>8 DEF RawSent, Goto
    <2>9. ASSUME NEW w \in RawWriters, RawSnapshot(w)
          PROVE  FieldsTyped'
      BY <2>9 DEF RawSnapshot, Goto
    <2>10. ASSUME NEW w \in RawWriters, RawLockBatch(w)
          PROVE  FieldsTyped'
      BY <2>10 DEF RawLockBatch, Goto
    <2> HIDE DEF IndInv, FieldsTyped
    <2> QED
      BY <1>7, <2>1, <2>2, <2>3, <2>4, <2>5, <2>6, <2>7, <2>8, <2>9, <2>10 DEF WriteNext, RawNext
  <1>8. CASE \E r \in Resetters :
                \/ \E h \in inCallback \cup {"none"} :
                      Reset(r, h) \/ TryReset(r, h) \/ CallResetAsync(r, h)
                \/ ResetAsync(r) \/ AwaitResult(r)
    <2>1. ASSUME NEW r \in Resetters, NEW h \in inCallback \cup {"none"}, Reset(r, h)
          PROVE  FieldsTyped'
      BY <2>1, Roles DEF Reset, Goto
    <2>2. ASSUME NEW r \in Resetters, NEW h \in inCallback \cup {"none"}, TryReset(r, h)
          PROVE  FieldsTyped'
      BY <2>2, Roles DEF TryReset, Goto
    <2>3. ASSUME NEW r \in Resetters, NEW h \in inCallback \cup {"none"}, CallResetAsync(r, h)
          PROVE  FieldsTyped'
      BY <2>3, Roles DEF CallResetAsync, Goto
    <2>4. ASSUME NEW r \in Resetters, ResetAsync(r)
          PROVE  FieldsTyped'
      <3>1. resetRun' \in BOOLEAN
        BY <2>4, Zenon DEF ResetAsync
      <3> QED
        BY <2>4, <3>1 DEF ResetAsync
    <2>5. ASSUME NEW r \in Resetters, AwaitResult(r)
          PROVE  FieldsTyped'
      BY <2>5 DEF AwaitResult, Goto
    <2> HIDE DEF IndInv, FieldsTyped
    <2> QED
      BY <1>8, <2>1, <2>2, <2>3, <2>4, <2>5
  <1>9. CASE WorkerNext
    <2>1. CASE WorkerRawClose
      BY <2>1 DEF WorkerRawClose, Goto
    <2>2. CASE WorkerStopHeartbeat
      <3>1. timer' \in BOOLEAN /\ wheel' \in BOOLEAN
        BY <2>2, Zenon DEF WorkerStopHeartbeat
      <3> QED
        BY <2>2, <3>1, Zenon DEF WorkerStopHeartbeat
    <2>3. CASE WorkerWaitGr
      BY <2>3 DEF WorkerWaitGr, Goto
    <2>4. CASE WorkerGC
      BY <2>4, GCDetaches DEF WorkerGC
    <2>5. CASE WorkerWaitLifecycle
      BY <2>5 DEF WorkerWaitLifecycle, Goto
    <2>6. CASE WorkerClear
      <3>1. conn' \in BOOLEAN /\ fields' \in BOOLEAN /\ timer' \in BOOLEAN
        BY <2>6, Zenon DEF WorkerClear
      <3> QED
        BY <2>6, <3>1 DEF WorkerClear
    <2>7. CASE WorkerDeliver
      <3>1. resetRun' \in BOOLEAN
        BY <2>7, Zenon DEF WorkerDeliver
      <3> QED
        BY <2>7, <3>1 DEF WorkerDeliver
    <2> HIDE DEF IndInv, FieldsTyped
    <2> QED
      BY <1>9, <2>1, <2>2, <2>3, <2>4, <2>5, <2>6, <2>7 DEF WorkerNext
  <1> HIDE DEF IndInv, FieldsTyped
  <1> QED
    BY <1>1, <1>2, <1>3, <1>4, <1>5, <1>6, <1>7, <1>8, <1>9 DEF Next
=============================================================================
