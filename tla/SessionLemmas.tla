--------------------------- MODULE SessionLemmas ----------------------------
(***************************************************************************)
(* What the proofs about Session share: the roles of the processes, the    *)
(* initial states, facts read off the inductive invariant, and what gc(),  *)
(* acquire and release do.                                                 *)
(***************************************************************************)
EXTENDS SessionInvariant, TLAPS

\* RolesDistinct, one process at a time.
LEMMA Roles ==
    /\ {"run", "reader", "worker", "closecb", "closeconn"} \subseteq Procs
    /\ \A p \in CronTasks : p \in Procs /\ p \notin Goroutines \cup MsgTasks \cup Writers \cup Callers
    /\ \A p \in MsgTasks : p \in Procs /\ p \notin Goroutines \cup CronTasks \cup Writers \cup Callers
    /\ \A p \in Writers : p \in Procs /\ p \notin Goroutines \cup CronTasks \cup MsgTasks \cup Callers
    /\ \A p \in Closers : p \in Procs /\ p \notin Goroutines \cup Tasks \cup RawWriters \cup Resetters
    /\ \A p \in RawWriters : p \in Procs /\ p \notin Goroutines \cup Tasks \cup Closers \cup Resetters
    /\ \A p \in Resetters : p \in Procs /\ p \notin Goroutines \cup Tasks \cup Closers \cup RawWriters
    /\ "none" \notin Procs
  BY RolesDistinct DEF Procs, Goroutines, Tasks, Callers

\* newSession establishes the invariant.
LEMMA InitIndInv == Init => IndInv
  <1> SUFFICES ASSUME Init PROVE IndInv
    OBVIOUS
  <1> USE ParametersTyped, Roles DEF Init, Gen
  <1>1. PcTyped
    BY DEF PcTyped, Steps, RunSteps, ReaderSteps, WorkerSteps, ClosecbSteps, CronSteps,
           MsgSteps, WriterSteps, RawSteps, ResetSteps
  <1>2. LifeTyped
    BY DEF LifeTyped, OnceSteps
  <1>3. FieldsTyped
    <2>1. /\ result \in [Resetters -> {"none", "pending", "ok", "failed"}]
          /\ host \in [Resetters -> Procs \cup {"none"}]
      OBVIOUS
    <2>2. attrs \in {"nil", "empty", "client", "ignore"}
      OBVIOUS
    <2> QED
      BY <2>1, <2>2, Zenon DEF FieldsTyped
  <1>4. CountersExact /\ LifecyclesExact
    BY DEF CountersExact, LifecyclesExact, Holding, RunActive, ReaderActive, ReaderClosing, CallbackSteps
  <1>5. InlineExact /\ CapturesOrdered /\ GenerationsOrdered
    BY DEF InlineExact, CapturesOrdered, GenerationsOrdered
  <1>6. OnceOrdered /\ TimerOrdered
    BY DEF OnceOrdered, TimerOrdered, ReaderClosing
  <1>7. ConnOwned /\ SendsOrdered /\ WorkerOrdered /\ RequestsOrdered
    BY DEF ConnOwned, SendsOrdered, WorkerOrdered, RequestsOrdered
  <1> QED
    BY <1>1, <1>2, <1>3, <1>4, <1>5, <1>6, <1>7 DEF IndInv, TypeOK

\* Facts that several parts of the induction use: which steps belong to the
\* first generation, and which to the current one.
Facts ==
    /\ pc \in [Procs -> Steps]
    /\ \A p \in Procs : Holding(p) => pgen[p] = gen
    /\ \A p \in CronTasks : pc[p] \in {"held", "oncron", "stopping", "rawclose"} => gen = 0
    /\ \A p \in MsgTasks : pc[p] \in {"held", "onmessage"} => gen = 0
    /\ \A p \in Writers : pc[p] \in {"encode", "locking", "send"} => gen = 0
    /\ \A p \in {"run", "reader", "worker"} : pc[p] = "stopping" => pgen[p] = gen
    /\ \A p \in Procs : once[pgen[p]] # "ran" \/ ~lcClosed[pgen[p]] => pgen[p] = gen
    /\ \A g \in Gen : once[g] \notin {"new", "ran"} => g = gen
    /\ grWG # {} => gen = 0
    /\ pc["run"] \in RunActive => gen = 0 /\ "run" \in grWG
    /\ pc["reader"] \in ReaderActive => gen = 0 /\ "reader" \in grWG
    /\ pc["run"] # "finished" => pc["reader"] = "idle"

\* These facts follow from the invariant.
LEMMA IndInvFacts == IndInv => Facts
  <1> SUFFICES ASSUME IndInv PROVE Facts
    OBVIOUS
  <1> USE ParametersTyped DEF IndInv, TypeOK, LifeTyped
  <1>1. ASSUME NEW p \in Procs, Holding(p) PROVE pgen[p] = gen
    BY <1>1 DEF LifecyclesExact, CapturesOrdered, GenerationsOrdered, Gen
  <1>2. ASSUME NEW p \in CronTasks \cup MsgTasks, Holding(p) PROVE gen = 0
    BY <1>1, <1>2 DEF CapturesOrdered, Procs, Tasks
  <1>3. /\ \A p \in CronTasks : pc[p] \in {"held", "oncron", "stopping", "rawclose"} => gen = 0
        /\ \A p \in MsgTasks : pc[p] \in {"held", "onmessage"} => gen = 0
    BY <1>2 DEF Holding
  <1>4. ASSUME NEW p \in Writers, pc[p] \in {"encode", "locking", "send"} PROVE gen = 0
    <2>1. Holding(p)
      BY <1>4 DEF Holding
    <2> QED
      BY <1>1, <1>4, <2>1, Roles DEF CapturesOrdered
  <1>5. grWG # {} => gen = 0
    BY DEF ConnOwned, Gen
  <1>6. /\ pc["run"] \in RunActive => gen = 0 /\ "run" \in grWG
        /\ pc["reader"] \in ReaderActive => gen = 0 /\ "reader" \in grWG
        /\ pc["run"] # "finished" => pc["reader"] = "idle"
    BY <1>5 DEF CountersExact
  <1>7. \A p \in {"run", "reader", "worker"} : pc[p] = "stopping" => pgen[p] = gen
    BY <1>6 DEF RunActive, ReaderActive, CapturesOrdered, WorkerOrdered
  <1>8. ASSUME NEW p \in Procs, once[pgen[p]] # "ran" \/ ~lcClosed[pgen[p]]
        PROVE  pgen[p] = gen
    BY <1>8 DEF CapturesOrdered, GenerationsOrdered, Gen
  <1>9. ASSUME NEW g \in Gen, once[g] \notin {"new", "ran"} PROVE g = gen
    BY <1>9 DEF GenerationsOrdered, Gen
  <1>10. pc \in [Procs -> Steps]
    BY DEF PcTyped
  <1> QED
    BY <1>1, <1>3, <1>4, <1>5, <1>6, <1>7, <1>8, <1>9, <1>10 DEF Facts

\* What gc() does to the connection.
LEMMA GCDetaches ==
    ASSUME IndInv, NEW p \in {"run", "reader", "worker"}, NEW l, GC(p, l)
    PROVE  /\ ~conn' /\ conn' \in BOOLEAN /\ attrs' = "nil"
           /\ conn => attrs # "nil"
           /\ conn => pc' = [[pc EXCEPT !["closeconn"] = "closing"] EXCEPT ![p] = l]
                      /\ pgen' = [pgen EXCEPT !["closeconn"] = gen]
                      /\ lcWG' = [lcWG EXCEPT ![gen] = @ \cup {"closeconn"}]
                      /\ pc'["closeconn"] = "closing"
           /\ ~conn => pc' = [pc EXCEPT ![p] = l] /\ pgen' = pgen /\ lcWG' = lcWG
           /\ lock = "none" /\ transport' = transport /\ fields' = fields /\ gen' = gen
           /\ once' = once /\ done' = done /\ lcClosed' = lcClosed
  <1> USE Roles DEF IndInv, TypeOK, PcTyped, FieldsTyped, GC, Goto, LockFree, ConnOwned
  <1>1. conn => attrs # "nil"
    OBVIOUS
  <1>2. CASE conn
    <2>1. ~conn' /\ conn' \in BOOLEAN /\ attrs' = "nil"
      BY <1>1, <1>2
    <2>2. pc' = [[pc EXCEPT !["closeconn"] = "closing"] EXCEPT ![p] = l]
      BY <1>1, <1>2
    <2>3. pc'["closeconn"] = "closing"
      BY <2>2
    <2> QED
      BY <1>1, <1>2, <2>1, <2>2, <2>3
  <1>3. CASE ~conn
    <2>1. ~conn' /\ attrs' = "nil"
      BY <1>3
    <2>2. conn' \in BOOLEAN
      BY Zenon
    <2>3. /\ pc' = [pc EXCEPT ![p] = l] /\ pgen' = pgen /\ lcWG' = lcWG
          /\ lock = "none" /\ transport' = transport /\ fields' = fields /\ gen' = gen
          /\ once' = once /\ done' = done /\ lcClosed' = lcClosed
      BY <1>3
    <2> HIDE DEF IndInv, GC
    <2> QED
      BY <1>3, <2>1, <2>2, <2>3, Zenon
  <1> HIDE DEF IndInv, GC
  <1> QED
    BY <1>2, <1>3, Zenon

\* ... and what it leaves alone.
LEMMA GCFrame ==
    ASSUME IndInv, NEW p \in {"run", "reader", "worker"}, NEW l, GC(p, l)
    PROVE  /\ gen' = gen /\ once' = once /\ done' = done /\ lcClosed' = lcClosed
           /\ pgen' = pgen \/ pgen' = [pgen EXCEPT !["closeconn"] = gen]
           /\ lcWG' = lcWG \/ lcWG' = [lcWG EXCEPT ![gen] = @ \cup {"closeconn"}]
           /\ \A q \in Procs \ {p, "closeconn"} : pc'[q] = pc[q]
  <1>1. \A q \in Procs \ {p, "closeconn"} : pc'[q] = pc[q]
    BY Roles DEF IndInv, TypeOK, PcTyped, GC, Goto
  <1> QED
    BY <1>1 DEF GC

\* acquire and release keep the WaitGroups sets of processes.
LEMMA LifecycleTyped ==
    ASSUME IndInv, NEW p \in Procs, Acquire(p) \/ Release(p)
    PROVE  lcWG' \in [Gen -> SUBSET Procs]
  BY DEF IndInv, TypeOK, LifeTyped, Acquire, Release

\* ResetAsync registers a request, and starts the worker of a new run.
LEMMA ResetAsyncStep ==
    ASSUME IndInv, NEW r \in Resetters, ResetAsync(r)
    PROVE  /\ pc[r] \in {"sync", "async"} /\ pc'[r] \in {"await", "returned"}
           /\ \A q \in Procs \ {r, "worker"} : pc'[q] = pc[q]
           /\ resetRun => pc'["worker"] = pc["worker"] /\ pgen' = pgen
           /\ ~resetRun => /\ gen < MaxGen /\ pc'["worker"] = "stopping"
                           /\ pgen' = [pgen EXCEPT !["worker"] = gen]
           /\ pgen' = pgen \/ pgen' = [pgen EXCEPT !["worker"] = gen]
           /\ result' = [result EXCEPT ![r] = "pending"]
           /\ resetRun'
           /\ UNCHANGED <<lifeVars, connVars, timerVars, countVars, host, outVars>>
  <1> USE Roles DEF IndInv, TypeOK, PcTyped, ResetAsync, Goto
  <1> DEFINE next == IF pc[r] = "sync" THEN "await" ELSE "returned"
  <1>1. pc[r] \in {"sync", "async"} /\ next \in {"await", "returned"}
    OBVIOUS
  <1>2. CASE resetRun
    <2>1. pc' = [pc EXCEPT ![r] = next] /\ pgen' = pgen /\ resetRun' = resetRun
      BY <1>2
    <2>2. resetRun'
      BY <1>2, <2>1, Zenon
    <2>3. /\ pc'[r] \in {"await", "returned"} /\ pc'["worker"] = pc["worker"]
          /\ \A q \in Procs \ {r, "worker"} : pc'[q] = pc[q]
      BY <1>1, <2>1
    <2> QED
      BY <1>1, <1>2, <2>1, <2>2, <2>3
  <1>3. CASE ~resetRun
    <2>1. /\ pc' = [pc EXCEPT ![r] = next, !["worker"] = "stopping"]
          /\ gen < MaxGen /\ pgen' = [pgen EXCEPT !["worker"] = gen] /\ resetRun'
      BY <1>3
    <2> QED
      BY <1>1, <1>3, <2>1
  <1> QED
    BY <1>2, <1>3
=============================================================================
