------------------------------ MODULE Session ------------------------------
(***************************************************************************)
(* The life of one getty session (transport/session.go): startup by run(), *)
(* the read goroutine handlePackage(), the once body of stop(), the        *)
(* heartbeat and message tasks that hold the session's lifecycle, WritePkg *)
(* and the raw writers, the two goroutines that outlive stop() and gc(),   *)
(* and the reset worker with its requesters.                               *)
(*                                                                         *)
(* A reset gives the session a new lifecycle, once and done channel.  They *)
(* are indexed here by the generation they belong to, so that a goroutine  *)
(* holding a pointer from before the reset still names the old object.     *)
(* A sync.WaitGroup, and the callbackDepth counter, are the set of the     *)
(* goroutines that are counted in it.                                      *)
(***************************************************************************)
EXTENDS Naturals

CONSTANTS
    Closers,     \* goroutines calling Close()
    CronTasks,   \* slots for heartbeat tasks, on the wheel or in the task pool
    MsgTasks,    \* slots for OnMessage tasks, inline or in the task pool
    Writers,     \* goroutines calling WritePkg
    RawWriters,  \* goroutines calling WriteBytes, WriteBytesArray or Send
    Resetters,   \* calls of Reset, TryReset or ResetAsync, one each
    TaskPool,    \* TRUE when the endpoint has a task pool
    MaxGen       \* bound on the number of completed resets

Goroutines == {"run", "reader", "worker", "closecb", "closeconn"}
Tasks == CronTasks \cup MsgTasks \cup Writers
Callers == Closers \cup RawWriters \cup Resetters
Procs == Goroutines \cup Tasks \cup Callers
Gen == 0 .. MaxGen

\* The process identifiers of different roles differ.
ASSUME RolesDistinct ==
    /\ Goroutines \cap (Tasks \cup Callers) = {}
    /\ Tasks \cap Callers = {}
    /\ CronTasks \cap MsgTasks = {}
    /\ CronTasks \cap Writers = {}
    /\ MsgTasks \cap Writers = {}
    /\ Closers \cap RawWriters = {}
    /\ Closers \cap Resetters = {}
    /\ RawWriters \cap Resetters = {}
    /\ "none" \notin Procs

ASSUME ParametersTyped ==
    /\ TaskPool \in BOOLEAN
    /\ MaxGen \in Nat

VARIABLES
    pc,          \* where each goroutine, task or call is
    pgen,        \* the generation whose once or lifecycle it has captured
    gen,         \* the generation of the fields now in the session
    once,        \* progress of the stop() body of each generation
    done,        \* generations whose done channel is closed
    lcClosed,    \* sessionLifecycle.closed, by generation
    lcWG,        \* sessionLifecycle.wg, by generation: who is counted
    conn,        \* session.Connection is not nil
    transport,   \* the raw connection is "open" or "closed"
    fields,      \* listener, reader, writer and endPoint are set
    attrs,       \* session.attrs: "nil", "empty", "client" or "ignore"
    timer,       \* session.heartbeatTimer is not nil
    wheel,       \* the timer wheel still ticks for this session
    lock,        \* session.lock across run()'s test and install: holder
    grWG,        \* session.grWG: who is counted
    inCallback,  \* session.callbackDepth: who is inside a user callback
    packetLock,  \* who holds session.packetLock around a send
    resetRun,    \* session.resetRun is not nil
    result,      \* the result channel of each request
    host,        \* the callback a reset call is made from, or "none"
    readErr,     \* err of handlePackage is not nil
    reconnects   \* stop() has called client.runReconnect

lifeVars == <<gen, once, done, lcClosed, lcWG>>
connVars == <<conn, transport, fields, attrs>>
timerVars == <<timer, wheel, lock>>
countVars == <<grWG, inCallback, packetLock>>
resetVars == <<resetRun, result, host>>
outVars == <<readErr, reconnects>>
vars == <<pc, pgen, lifeVars, connVars, timerVars, countVars, resetVars, outVars>>

OnceSteps == {"new", "heartbeat", "stopTimer", "closeLifecycle", "callbacks",
              "reconnect", "ran"}

RunSteps == {"idle", "onopen", "test", "install", "spawn", "stopping", "gc",
             "refused", "panicked", "finished"}
ReaderSteps == {"idle", "check", "recv", "decode", "inline", "stopping",
                "errcall", "onerror", "closecall", "onclose", "gc", "finished"}
WorkerSteps == {"idle", "stopping", "rawclose", "heartbeat", "waitgr", "gc",
                "waitlc", "clear", "deliver", "failed"}
CronSteps == {"idle", "queued", "held", "oncron", "stopping", "rawclose"}
MsgSteps == {"idle", "queued", "held", "onmessage"}
WriterSteps == {"idle", "checked", "acquire", "encode", "locking", "send"}
RawSteps == {"idle", "checked", "snapped", "send", "sendbatch"}
ResetSteps == {"idle", "sync", "async", "await", "returned"}
ClosecbSteps == {"idle", "spawned", "oncallbacks"}
Steps == RunSteps \cup ReaderSteps \cup WorkerSteps \cup CronSteps \cup MsgSteps
           \cup WriterSteps \cup RawSteps \cup ResetSteps \cup ClosecbSteps \cup {"closing"}

\* newSession: an open connection, handlers set by the user's
\* NewSessionCallback, and the client's two attributes set by connect().
Init ==
    /\ pc = [p \in Procs |-> "idle"]
    /\ pgen = [p \in Procs |-> 0]
    /\ gen = 0
    /\ once = [g \in Gen |-> "new"]
    /\ done = [g \in Gen |-> FALSE]
    /\ lcClosed = [g \in Gen |-> FALSE]
    /\ lcWG = [g \in Gen |-> {}]
    /\ conn = TRUE /\ transport = "open" /\ fields = TRUE
    /\ attrs \in {"empty", "client"}
    /\ timer = FALSE /\ wheel = FALSE /\ lock = "none"
    /\ grWG = {} /\ inCallback = {} /\ packetLock = {}
    /\ resetRun = FALSE
    /\ result = [r \in Resetters |-> "none"]
    /\ host = [r \in Resetters |-> "none"]
    /\ readErr = FALSE /\ reconnects = FALSE

-----------------------------------------------------------------------------
(* Steps shared by several goroutines. *)

Goto(p, l) == pc' = [pc EXCEPT ![p] = l]

\* session.lock is free for another critical section.
LockFree == lock = "none"

\* The user callback p is in may return: no reset call made inside it is
\* still running.
MayReturn(p) ==
    /\ p \in inCallback
    /\ \A r \in Resetters : host[r] = p => pc[r] = "returned"

\* stop() snapshots session.once and enters once.Do.
CallStop(p) ==
    /\ Goto(p, "stopping")
    /\ pgen' = [pgen EXCEPT ![p] = gen]

\* lifecycle.acquire succeeds for p / lifecycle.release.
Acquire(p) == lcWG' = [lcWG EXCEPT ![pgen[p]] = @ \cup {p}]
Release(p) == lcWG' = [lcWG EXCEPT ![pgen[p]] = @ \ {p}]

\* Mutant: gc() starts the cleanup without registering it in the lifecycle.
GCUnregistered(p, l) ==
    /\ LockFree
    /\ IF attrs # "nil" /\ conn
       THEN /\ pc' = [pc EXCEPT ![p] = l, !["closeconn"] = "closing"]
            /\ pgen' = [pgen EXCEPT !["closeconn"] = gen]
       ELSE Goto(p, l) /\ UNCHANGED pgen
    /\ attrs' = "nil"
    /\ conn' = IF attrs = "nil" THEN conn ELSE FALSE
    /\ UNCHANGED <<transport, fields, lifeVars>>

\* gc(), called by p which then continues at l: the first call of a
\* generation detaches the connection and leaves its cleanup to a goroutine
\* registered in the lifecycle before the lock is released.
GC(p, l) ==
    /\ LockFree
    /\ IF attrs # "nil" /\ conn
       THEN /\ pc' = [pc EXCEPT ![p] = l, !["closeconn"] = "closing"]
            /\ pgen' = [pgen EXCEPT !["closeconn"] = gen]
            /\ lcWG' = [lcWG EXCEPT ![gen] = @ \cup {"closeconn"}]
       ELSE Goto(p, l) /\ UNCHANGED <<pgen, lcWG>>
    /\ attrs' = "nil"
    /\ conn' = IF attrs = "nil" THEN conn ELSE FALSE
    /\ UNCHANGED <<transport, fields, gen, once, done, lcClosed>>

-----------------------------------------------------------------------------
(* stop(): the body of once.Do, run by whichever caller came first; the   *)
(* others wait in StopReturn until it has run.                             *)

OnceClose(p) ==
    /\ pc[p] = "stopping" /\ once[pgen[p]] = "new"
    /\ once' = [once EXCEPT ![pgen[p]] = "heartbeat"]
    /\ done' = [done EXCEPT ![gen] = TRUE]
    /\ UNCHANGED <<pc, pgen, gen, lcClosed, lcWG, connVars, timerVars, countVars,
                   resetVars, outVars>>

\* stopHeartbeat takes the timer under session.lock ...
OnceHeartbeat(g) ==
    /\ once[g] = "heartbeat" /\ LockFree
    /\ once' = [once EXCEPT ![g] = IF timer THEN "stopTimer" ELSE "closeLifecycle"]
    /\ timer' = FALSE
    /\ UNCHANGED <<pc, pgen, gen, done, lcClosed, lcWG, connVars, wheel, lock,
                   countVars, resetVars, outVars>>

\* ... stops it outside the lock ...
OnceStopTimer(g) ==
    /\ once[g] = "stopTimer"
    /\ once' = [once EXCEPT ![g] = "closeLifecycle"]
    /\ wheel' = FALSE
    /\ UNCHANGED <<pc, pgen, gen, done, lcClosed, lcWG, connVars, timer, lock,
                   countVars, resetVars, outVars>>

\* ... and closes the lifecycle it read with the timer.
OnceCloseLifecycle(g) ==
    /\ once[g] = "closeLifecycle"
    /\ once' = [once EXCEPT ![g] = "callbacks"]
    /\ lcClosed' = [lcClosed EXCEPT ![gen] = TRUE]
    /\ UNCHANGED <<pc, pgen, gen, done, lcWG, connVars, timerVars, countVars,
                   resetVars, outVars>>

\* The close callbacks run on a goroutine registered as a closing task.
OnceCallbacks(g) ==
    /\ once[g] = "callbacks"
    /\ once' = [once EXCEPT ![g] = "reconnect"]
    /\ Goto("closecb", "spawned")
    /\ pgen' = [pgen EXCEPT !["closecb"] = gen]
    /\ lcWG' = [lcWG EXCEPT ![gen] = @ \cup {"closecb"}]
    /\ UNCHANGED <<gen, done, lcClosed, connVars, timerVars, countVars, resetVars,
                   outVars>>

\* A client session that is not told to ignore it asks for a reconnect.
OnceReconnect(g) ==
    /\ once[g] = "reconnect" /\ LockFree
    /\ once' = [once EXCEPT ![g] = "ran"]
    /\ reconnects' = (reconnects \/ attrs = "client")
    /\ UNCHANGED <<pc, pgen, gen, done, lcClosed, lcWG, connVars, timerVars,
                   countVars, resetVars, readErr>>

OnceBody ==
    \E g \in Gen : \/ OnceHeartbeat(g) \/ OnceStopTimer(g) \/ OnceCloseLifecycle(g)
                   \/ OnceCallbacks(g) \/ OnceReconnect(g)

\* What each caller of stop() does next.
AfterStop(p) ==
    CASE p = "run" -> "gc"
      [] p = "reader" -> IF readErr THEN "errcall" ELSE "closecall"
      [] p \in CronTasks \cup {"worker"} -> "rawclose"
      [] OTHER -> "idle"

\* Mutant: a repeated stop() returns as soon as done is closed.
StopReturnEarly(p) ==
    /\ pc[p] = "stopping" /\ done[pgen[p]]
    /\ Goto(p, AfterStop(p))
    /\ UNCHANGED <<pgen, lifeVars, connVars, timerVars, countVars, resetVars, outVars>>

\* once.Do returns when the body has run, whoever runs it.
StopReturn(p) ==
    /\ pc[p] = "stopping" /\ once[pgen[p]] = "ran"
    /\ Goto(p, AfterStop(p))
    /\ UNCHANGED <<pgen, lifeVars, connVars, timerVars, countVars, resetVars, outVars>>

CloseCallbacksBegin ==
    /\ pc["closecb"] = "spawned"
    /\ Goto("closecb", "oncallbacks")
    /\ inCallback' = inCallback \cup {"closecb"}
    /\ UNCHANGED <<pgen, lifeVars, connVars, timerVars, grWG, packetLock, resetVars,
                   outVars>>

\* A panic of a close callback is recovered: it ends the goroutine as well.
CloseCallbacksReturn ==
    /\ pc["closecb"] = "oncallbacks" /\ MayReturn("closecb")
    /\ Goto("closecb", "idle")
    /\ Release("closecb")
    /\ inCallback' = inCallback \ {"closecb"}
    /\ UNCHANGED <<pgen, gen, once, done, lcClosed, connVars, timerVars, grWG,
                   packetLock, resetVars, outVars>>

\* gc()'s goroutine: CloseConn, then the deferred release.
CloseConn ==
    /\ pc["closeconn"] = "closing"
    /\ Goto("closeconn", "idle")
    /\ transport' = "closed"
    /\ Release("closeconn")
    /\ UNCHANGED <<pgen, gen, once, done, lcClosed, conn, fields, attrs, timerVars,
                   countVars, resetVars, outVars>>

Close(p) ==
    /\ pc[p] = "idle"
    /\ CallStop(p)
    /\ UNCHANGED <<lifeVars, connVars, timerVars, countVars, resetVars, outVars>>

-----------------------------------------------------------------------------
(* run(). *)

RunBegin ==
    /\ pc["run"] = "idle"
    /\ \/ /\ resetRun
          /\ Goto("run", "refused")
          /\ UNCHANGED <<grWG, inCallback>>
       \/ /\ ~resetRun /\ ~(conn /\ fields)
          /\ Goto("run", "panicked")
          /\ UNCHANGED <<grWG, inCallback>>
       \/ /\ ~resetRun /\ conn /\ fields
          /\ Goto("run", "onopen")
          /\ grWG' = grWG \cup {"run"}
          /\ inCallback' = inCallback \cup {"run"}
    /\ UNCHANGED <<pgen, lifeVars, connVars, timerVars, packetLock, resetVars, outVars>>

RunOpened ==
    /\ pc["run"] = "onopen" /\ MayReturn("run")
    /\ Goto("run", "test")
    /\ inCallback' = inCallback \ {"run"}
    /\ UNCHANGED <<pgen, lifeVars, connVars, timerVars, grWG, packetLock, resetVars,
                   outVars>>

\* OnOpen returned an error or panicked.
RunOpenFailed ==
    /\ pc["run"] = "onopen" /\ MayReturn("run")
    /\ CallStop("run")
    /\ inCallback' = inCallback \ {"run"}
    /\ UNCHANGED <<lifeVars, connVars, timerVars, grWG, packetLock, resetVars, outVars>>

\* Mutant: a failing OnOpen stops the session but does not gc() it.
RunGCSkipped ==
    /\ pc["run"] = "gc"
    /\ Goto("run", "finished")
    /\ grWG' = grWG \ {"run"}
    /\ UNCHANGED <<pgen, lifeVars, connVars, timerVars, inCallback, packetLock, resetVars,
                   outVars>>

\* The session that could not be opened is released by run() itself.
RunGC ==
    /\ pc["run"] = "gc"
    /\ GC("run", "finished")
    /\ grWG' = grWG \ {"run"}
    /\ UNCHANGED <<timerVars, inCallback, packetLock, resetVars, outVars>>

\* Mutant: the timer is installed without a look at done.
RunTestSkipped ==
    /\ pc["run"] = "test" /\ LockFree
    /\ pgen' = [pgen EXCEPT !["run"] = gen]
    /\ Goto("run", "install")
    /\ lock' = "run"
    /\ UNCHANGED <<lifeVars, connVars, timer, wheel, countVars, resetVars, outVars>>

\* closedLocked() is tested under session.lock, and the lock is kept until
\* the timer is installed; close(done) does not take the lock.
RunTest ==
    /\ pc["run"] = "test" /\ LockFree
    /\ pgen' = [pgen EXCEPT !["run"] = gen]
    /\ IF done[gen]
       THEN Goto("run", "spawn") /\ UNCHANGED lock
       ELSE Goto("run", "install") /\ lock' = "run"
    /\ UNCHANGED <<lifeVars, connVars, timer, wheel, countVars, resetVars, outVars>>

RunInstall ==
    /\ pc["run"] = "install"
    /\ Goto("run", "spawn")
    /\ timer' = TRUE /\ wheel' = TRUE /\ lock' = "none"
    /\ UNCHANGED <<pgen, lifeVars, connVars, countVars, resetVars, outVars>>

\* AddTimer failed: the panic leaves run() with session.lock released.
RunInstallFails ==
    /\ pc["run"] = "install"
    /\ Goto("run", "panicked")
    /\ lock' = "none"
    /\ grWG' = grWG \ {"run"}
    /\ UNCHANGED <<pgen, lifeVars, connVars, timer, wheel, inCallback, packetLock,
                   resetVars, outVars>>

RunSpawn ==
    /\ pc["run"] = "spawn"
    /\ pc' = [pc EXCEPT !["run"] = "finished", !["reader"] = "check"]
    /\ grWG' = (grWG \cup {"reader"}) \ {"run"}
    /\ UNCHANGED <<pgen, lifeVars, connVars, timerVars, inCallback, packetLock,
                   resetVars, outVars>>

RunNext ==
    \/ RunBegin \/ RunOpened \/ RunOpenFailed \/ RunGC
    \/ RunTest \/ RunInstall \/ RunInstallFails \/ RunSpawn

-----------------------------------------------------------------------------
(* handlePackage(): the read loop of any transport, then its defer. *)

\* The loop's IsClosed test.  The tcp and websocket loops leave with a nil
\* error, the udp loop with the error of its last read.
ReaderCheck ==
    /\ pc["reader"] = "check"
    /\ IF done[gen]
       THEN CallStop("reader") /\ readErr' \in BOOLEAN
       ELSE Goto("reader", "recv") /\ UNCHANGED <<pgen, readErr>>
    /\ UNCHANGED <<lifeVars, connVars, timerVars, countVars, resetVars, reconnects>>

ReaderTimeout ==
    /\ pc["reader"] = "recv" /\ transport = "open"
    /\ Goto("reader", "check")
    /\ UNCHANGED <<pgen, lifeVars, connVars, timerVars, countVars, resetVars, outVars>>

ReaderFails ==
    /\ pc["reader"] = "recv"
    /\ CallStop("reader")
    /\ readErr' = TRUE
    /\ UNCHANGED <<lifeVars, connVars, timerVars, countVars, resetVars, reconnects>>

\* EOF on tcp: the peer closed, so the pool must not reconnect.
ReaderEOF ==
    /\ pc["reader"] = "recv" /\ LockFree
    /\ CallStop("reader")
    /\ attrs' = IF attrs = "client" THEN "ignore" ELSE attrs
    /\ UNCHANGED <<lifeVars, conn, transport, fields, timerVars, countVars, resetVars,
                   outVars>>

\* Bytes, a datagram or a message: the user's Reader decodes them.
ReaderData ==
    /\ pc["reader"] = "recv" /\ transport = "open"
    /\ Goto("reader", "decode")
    /\ inCallback' = inCallback \cup {"reader"}
    /\ UNCHANGED <<pgen, lifeVars, connVars, timerVars, grWG, packetLock, resetVars,
                   outVars>>

ReaderDecoded ==
    /\ pc["reader"] = "decode" /\ MayReturn("reader")
    /\ inCallback' = inCallback \ {"reader"}
    /\ \/ /\ Goto("reader", "check")                   \* no complete package
          /\ UNCHANGED <<pgen, readErr>>
       \/ /\ CallStop("reader")                        \* an error or a panic
          /\ readErr' \in BOOLEAN
       \/ \E t \in MsgTasks :                          \* addTask(pkg)
             /\ pc[t] = "idle"
             /\ LockFree
             /\ pc' = [pc EXCEPT ![t] = "queued",
                        !["reader"] = IF TaskPool THEN "check" ELSE "inline"]
             /\ pgen' = [pgen EXCEPT ![t] = gen]
             /\ UNCHANGED readErr
    /\ UNCHANGED <<lifeVars, connVars, timerVars, grWG, packetLock, resetVars, reconnects>>

\* Without a task pool the task ran on this goroutine.
ReaderInlineDone ==
    /\ pc["reader"] = "inline"
    /\ \A t \in MsgTasks : pc[t] = "idle"
    /\ Goto("reader", "check")
    /\ UNCHANGED <<pgen, lifeVars, connVars, timerVars, countVars, resetVars, outVars>>

ReaderCallback ==
    /\ \/ pc["reader"] = "errcall" /\ Goto("reader", "onerror")
       \/ pc["reader"] = "closecall" /\ Goto("reader", "onclose")
    /\ inCallback' = inCallback \cup {"reader"}
    /\ UNCHANGED <<pgen, lifeVars, connVars, timerVars, grWG, packetLock, resetVars,
                   outVars>>

\* invokeEventCallback contains a panic, so both continue in any case.
ReaderCallbackReturn ==
    /\ MayReturn("reader")
    /\ \/ pc["reader"] = "onerror" /\ Goto("reader", "closecall")
       \/ pc["reader"] = "onclose" /\ Goto("reader", "gc")
    /\ inCallback' = inCallback \ {"reader"}
    /\ UNCHANGED <<pgen, lifeVars, connVars, timerVars, grWG, packetLock, resetVars,
                   outVars>>

ReaderGC ==
    /\ pc["reader"] = "gc"
    /\ GC("reader", "finished")
    /\ grWG' = grWG \ {"reader"}
    /\ UNCHANGED <<timerVars, inCallback, packetLock, resetVars, outVars>>

ReaderNext ==
    \/ ReaderCheck \/ ReaderTimeout \/ ReaderFails \/ ReaderEOF \/ ReaderData
    \/ ReaderDecoded \/ ReaderInlineDone \/ ReaderCallback
    \/ ReaderCallbackReturn \/ ReaderGC

-----------------------------------------------------------------------------
(* heartbeat() and the function it schedules. *)

\* The wheel calls heartbeat with the lifecycle run() captured; inline, the
\* wheel's goroutine runs one task at a time.
Tick(t) ==
    /\ wheel /\ fields /\ pc[t] = "idle"
    /\ TaskPool \/ \A u \in CronTasks : pc[u] = "idle"
    /\ Goto(t, "queued")
    /\ pgen' = [pgen EXCEPT ![t] = pgen["run"]]
    /\ UNCHANGED <<lifeVars, connVars, timerVars, countVars, resetVars, outVars>>

\* Mutant: acquire does not look at closed.
TaskAcquireClosed(t) ==
    /\ pc[t] = "queued"
    /\ Goto(t, "held")
    /\ Acquire(t)
    /\ UNCHANGED <<pgen, gen, once, done, lcClosed, connVars, timerVars, countVars,
                   resetVars, outVars>>

\* lifecycle.acquire of a heartbeat or a message task.
TaskAcquire(t) ==
    /\ pc[t] = "queued"
    /\ IF lcClosed[pgen[t]]
       THEN Goto(t, "idle") /\ UNCHANGED lcWG
       ELSE Goto(t, "held") /\ Acquire(t)
    /\ UNCHANGED <<pgen, gen, once, done, lcClosed, connVars, timerVars, countVars,
                   resetVars, outVars>>

CronBegin(t) ==
    /\ pc[t] = "held" /\ LockFree
    /\ IF conn /\ fields
       THEN /\ Goto(t, "oncron")
            /\ inCallback' = inCallback \cup {t}
            /\ UNCHANGED lcWG
       ELSE Goto(t, "idle") /\ Release(t) /\ UNCHANGED inCallback
    /\ UNCHANGED <<pgen, gen, once, done, lcClosed, connVars, timerVars, grWG,
                   packetLock, resetVars, outVars>>

CronReturn(t) ==
    /\ pc[t] = "oncron" /\ MayReturn(t)
    /\ Goto(t, "idle")
    /\ Release(t)
    /\ inCallback' = inCallback \ {t}
    /\ UNCHANGED <<pgen, gen, once, done, lcClosed, connVars, timerVars, grWG,
                   packetLock, resetVars, outVars>>

\* A panic of OnCron closes the session ...
CronPanic(t) ==
    /\ pc[t] = "oncron" /\ MayReturn(t)
    /\ Goto(t, "stopping")
    /\ pgen' = [pgen EXCEPT ![t] = gen]
    /\ inCallback' = inCallback \ {t}
    /\ UNCHANGED <<lifeVars, connVars, timerVars, grWG, packetLock, resetVars, outVars>>

\* ... and then the raw connection, to release a blocked read.
CronRawClose(t) ==
    /\ pc[t] = "rawclose"
    /\ Goto(t, "idle")
    /\ Release(t)
    /\ transport' = "closed"
    /\ UNCHANGED <<pgen, gen, once, done, lcClosed, conn, fields, attrs, timerVars,
                   countVars, resetVars, outVars>>

\* addTask's function: IsClosed and listener are tested after the acquire.
MsgBegin(t) ==
    /\ pc[t] = "held" /\ LockFree
    /\ IF ~done[gen] /\ fields
       THEN /\ Goto(t, "onmessage")
            /\ inCallback' = inCallback \cup {t}
            /\ UNCHANGED lcWG
       ELSE Goto(t, "idle") /\ Release(t) /\ UNCHANGED inCallback
    /\ UNCHANGED <<pgen, gen, once, done, lcClosed, connVars, timerVars, grWG,
                   packetLock, resetVars, outVars>>

MsgReturn(t) ==
    /\ pc[t] = "onmessage" /\ MayReturn(t)
    /\ Goto(t, "idle")
    /\ Release(t)
    /\ inCallback' = inCallback \ {t}
    /\ UNCHANGED <<pgen, gen, once, done, lcClosed, connVars, timerVars, grWG,
                   packetLock, resetVars, outVars>>

\* Inline, a panic of OnMessage unwinds into handlePackage's recover.
MsgPanic(t) ==
    /\ pc[t] = "onmessage" /\ MayReturn(t)
    /\ ~TaskPool
    /\ pc' = [pc EXCEPT ![t] = "idle", !["reader"] = "stopping"]
    /\ pgen' = [pgen EXCEPT !["reader"] = gen]
    /\ Release(t)
    /\ inCallback' = inCallback \ {t}
    /\ UNCHANGED <<gen, once, done, lcClosed, connVars, timerVars, grWG,
                   packetLock, resetVars, outVars>>

-----------------------------------------------------------------------------
(* WritePkg, and the writers that only take packetLock. *)

\* WritePkg, WriteBytes and WriteBytesArray return on a closed session; Send,
\* the third of the raw writers, does not look.
WriteCheck(w) ==
    /\ pc[w] = "idle" /\ LockFree
    /\ done[gen] => w \in RawWriters
    /\ Goto(w, "checked")
    /\ UNCHANGED <<pgen, lifeVars, connVars, timerVars, countVars, resetVars, outVars>>

\* lifecycle and writer are read together, in a second critical section.
WriteSnapshot(w) ==
    /\ pc[w] = "checked" /\ LockFree
    /\ Goto(w, "acquire")
    /\ pgen' = [pgen EXCEPT ![w] = gen]
    /\ UNCHANGED <<lifeVars, connVars, timerVars, countVars, resetVars, outVars>>

\* A session that was reset has an open lifecycle but a nil writer (only the
\* first generation has one): calling it panics, WritePkg recovers and the
\* deferred release undoes the acquire.
WriteAcquire(w) ==
    /\ pc[w] = "acquire"
    /\ IF lcClosed[pgen[w]] \/ pgen[w] # 0
       THEN Goto(w, "idle") /\ UNCHANGED <<lcWG, inCallback>>
       ELSE /\ Goto(w, "encode")
            /\ Acquire(w)
            /\ inCallback' = inCallback \cup {w}
    /\ UNCHANGED <<pgen, gen, once, done, lcClosed, connVars, timerVars, grWG,
                   packetLock, resetVars, outVars>>

WriteEncoded(w) ==
    /\ pc[w] = "encode" /\ MayReturn(w)
    /\ inCallback' = inCallback \ {w}
    /\ \/ Goto(w, "locking") /\ UNCHANGED lcWG
       \/ Goto(w, "idle") /\ Release(w)               \* an error or a panic
    /\ UNCHANGED <<pgen, gen, once, done, lcClosed, connVars, timerVars, grWG,
                   packetLock, resetVars, outVars>>

\* packetLock, then the connection is read again under session.lock.
WriteLock(w) ==
    /\ pc[w] = "locking" /\ LockFree
    /\ IF conn
       THEN Goto(w, "send") /\ packetLock' = packetLock \cup {w} /\ UNCHANGED lcWG
       ELSE Goto(w, "idle") /\ Release(w) /\ UNCHANGED packetLock
    /\ UNCHANGED <<pgen, gen, once, done, lcClosed, connVars, timerVars, grWG,
                   inCallback, resetVars, outVars>>

WriteSent(w) ==
    /\ pc[w] = "send"
    /\ Goto(w, "idle")
    /\ packetLock' = packetLock \ {w}
    /\ Release(w)
    /\ UNCHANGED <<pgen, gen, once, done, lcClosed, connVars, timerVars, grWG,
                   inCallback, resetVars, outVars>>

WriteNext(w) ==
    \/ WriteSnapshot(w) \/ WriteAcquire(w) \/ WriteEncoded(w)
    \/ WriteLock(w) \/ WriteSent(w)

\* WriteBytes and Send read the connection under packetLock.  (So does a udp
\* batch, which WriteBytesArray merges and hands to WriteBytes.)
RawLock(w) ==
    /\ pc[w] = "checked" /\ LockFree
    /\ IF conn
       THEN Goto(w, "send") /\ packetLock' = packetLock \cup {w}
       ELSE Goto(w, "idle") /\ UNCHANGED packetLock
    /\ UNCHANGED <<pgen, lifeVars, connVars, timerVars, grWG, inCallback, resetVars,
                   outVars>>

\* WriteBytesArray reads the connection before it takes packetLock ...
RawSnapshot(w) ==
    /\ pc[w] = "checked" /\ LockFree
    /\ Goto(w, IF conn THEN "snapped" ELSE "idle")
    /\ UNCHANGED <<pgen, lifeVars, connVars, timerVars, countVars, resetVars, outVars>>

\* ... and sends a tcp or websocket batch on what it read, however late.
RawLockBatch(w) ==
    /\ pc[w] = "snapped"
    /\ Goto(w, "sendbatch")
    /\ packetLock' = packetLock \cup {w}
    /\ UNCHANGED <<pgen, lifeVars, connVars, timerVars, grWG, inCallback, resetVars,
                   outVars>>

RawSent(w) ==
    /\ pc[w] \in {"send", "sendbatch"}
    /\ Goto(w, "idle")
    /\ packetLock' = packetLock \ {w}
    /\ UNCHANGED <<pgen, lifeVars, connVars, timerVars, grWG, inCallback, resetVars,
                   outVars>>

RawNext(w) == RawLock(w) \/ RawSnapshot(w) \/ RawLockBatch(w) \/ RawSent(w)

-----------------------------------------------------------------------------
(* Reset, TryReset and ResetAsync, called from a callback or from outside. *)

\* Mutant: Reset waits also when it is called from a callback.
ResetWaits(r, h) ==
    /\ pc[r] = "idle"
    /\ host' = [host EXCEPT ![r] = h]
    /\ Goto(r, "sync")
    /\ UNCHANGED <<pgen, lifeVars, connVars, timerVars, countVars, resetRun, result,
                   outVars>>

\* Reset decides at entry whether it will wait.
Reset(r, h) ==
    /\ pc[r] = "idle"
    /\ host' = [host EXCEPT ![r] = h]
    /\ Goto(r, IF inCallback # {} THEN "async" ELSE "sync")
    /\ UNCHANGED <<pgen, lifeVars, connVars, timerVars, countVars, resetRun, result,
                   outVars>>

TryReset(r, h) ==
    /\ pc[r] = "idle"
    /\ host' = [host EXCEPT ![r] = h]
    /\ Goto(r, IF inCallback # {} THEN "returned" ELSE "sync")
    /\ UNCHANGED <<pgen, lifeVars, connVars, timerVars, countVars, resetRun, result,
                   outVars>>

\* ResetAsync called by the user never waits.
CallResetAsync(r, h) ==
    /\ pc[r] = "idle"
    /\ host' = [host EXCEPT ![r] = h]
    /\ Goto(r, "async")
    /\ UNCHANGED <<pgen, lifeVars, connVars, timerVars, countVars, resetRun, result,
                   outVars>>

\* ResetAsync: join the pending run, or start one with its worker.
ResetAsync(r) ==
    /\ pc[r] \in {"sync", "async"}
    /\ result' = [result EXCEPT ![r] = "pending"]
    /\ LET next == IF pc[r] = "sync" THEN "await" ELSE "returned"
       IN IF resetRun
          THEN Goto(r, next) /\ UNCHANGED <<pgen, resetRun>>
          ELSE /\ gen < MaxGen
               /\ pc' = [pc EXCEPT ![r] = next, !["worker"] = "stopping"]
               /\ pgen' = [pgen EXCEPT !["worker"] = gen]
               /\ resetRun' = TRUE
    /\ UNCHANGED <<lifeVars, connVars, timerVars, countVars, host, outVars>>

AwaitResult(r) ==
    /\ pc[r] = "await" /\ result[r] \in {"ok", "failed"}
    /\ Goto(r, "returned")
    /\ UNCHANGED <<pgen, lifeVars, connVars, timerVars, countVars, resetVars, outVars>>

-----------------------------------------------------------------------------
(* reset(), on the worker goroutine; it begins with stop(). *)

\* The raw Close releases blocked reads.  It may panic; the worker recovers.
WorkerRawClose ==
    /\ pc["worker"] = "rawclose" /\ LockFree
    /\ \/ /\ Goto("worker", "heartbeat")
          /\ transport' = IF conn THEN "closed" ELSE transport
       \/ /\ conn
          /\ Goto("worker", "failed")
          /\ UNCHANGED transport
    /\ UNCHANGED <<pgen, lifeVars, conn, fields, attrs, timerVars, countVars, resetVars,
                   outVars>>

WorkerStopHeartbeat ==
    /\ pc["worker"] = "heartbeat" /\ LockFree
    /\ Goto("worker", "waitgr")
    /\ timer' = FALSE
    /\ wheel' = IF timer THEN FALSE ELSE wheel
    /\ lcClosed' = [lcClosed EXCEPT ![gen] = TRUE]
    /\ UNCHANGED <<pgen, gen, once, done, lcWG, connVars, lock, countVars, resetVars,
                   outVars>>

\* Mutant: the worker does not wait for run() and handlePackage().
WorkerSkipsGr ==
    /\ pc["worker"] = "waitgr"
    /\ Goto("worker", "gc")
    /\ UNCHANGED <<pgen, lifeVars, connVars, timerVars, countVars, resetVars, outVars>>

\* grWG.Wait().
WorkerWaitGr ==
    /\ pc["worker"] = "waitgr" /\ grWG = {}
    /\ Goto("worker", "gc")
    /\ UNCHANGED <<pgen, lifeVars, connVars, timerVars, countVars, resetVars, outVars>>

WorkerGC ==
    /\ pc["worker"] = "gc"
    /\ GC("worker", "waitlc")
    /\ UNCHANGED <<timerVars, countVars, resetVars, outVars>>

\* lifecycle.wait().
WorkerWaitLifecycle ==
    /\ pc["worker"] = "waitlc" /\ lcWG[pgen["worker"]] = {}
    /\ Goto("worker", "clear")
    /\ UNCHANGED <<pgen, lifeVars, connVars, timerVars, countVars, resetVars, outVars>>

\* Mutant: the fields are cleared without packetLock.
WorkerClearUnlocked ==
    /\ pc["worker"] = "clear" /\ LockFree
    /\ Goto("worker", "deliver")
    /\ gen' = gen + 1
    /\ conn' = FALSE /\ fields' = FALSE /\ attrs' = "empty"
    /\ timer' = FALSE
    /\ UNCHANGED <<pgen, once, done, lcClosed, lcWG, transport, wheel, lock, countVars,
                   resetVars, outVars>>

\* packetLock, closeCallbackMutex and session.lock are all held here.
WorkerClear ==
    /\ pc["worker"] = "clear" /\ packetLock = {} /\ LockFree
    /\ Goto("worker", "deliver")
    /\ gen' = gen + 1
    /\ conn' = FALSE /\ fields' = FALSE /\ attrs' = "empty"
    /\ timer' = FALSE
    /\ UNCHANGED <<pgen, once, done, lcClosed, lcWG, transport, wheel, lock, countVars,
                   resetVars, outVars>>

\* The worker's defer: every request of the run gets the outcome, once.
WorkerDeliver ==
    /\ pc["worker"] \in {"deliver", "failed"}
    /\ LET outcome == IF pc["worker"] = "deliver" THEN "ok" ELSE "failed"
       IN result' = [r \in Resetters |->
                       IF result[r] = "pending" THEN outcome ELSE result[r]]
    /\ resetRun' = FALSE
    /\ Goto("worker", "idle")
    /\ UNCHANGED <<pgen, lifeVars, connVars, timerVars, countVars, host, outVars>>

WorkerNext ==
    \/ WorkerRawClose \/ WorkerStopHeartbeat \/ WorkerWaitGr \/ WorkerGC
    \/ WorkerWaitLifecycle \/ WorkerClear \/ WorkerDeliver

-----------------------------------------------------------------------------
StopCallers == Closers \cup CronTasks \cup {"run", "reader", "worker"}

StopNext(p) == OnceClose(p) \/ StopReturn(p)

CronNext(t) ==
    \/ TaskAcquire(t) \/ CronBegin(t) \/ CronReturn(t) \/ CronPanic(t) \/ CronRawClose(t)

MsgNext(t) == TaskAcquire(t) \/ MsgBegin(t) \/ MsgReturn(t) \/ MsgPanic(t)

Next ==
    \/ OnceBody
    \/ \E p \in StopCallers : StopNext(p)
    \/ CloseCallbacksBegin \/ CloseCallbacksReturn \/ CloseConn
    \/ \E p \in Closers : Close(p)
    \/ RunNext
    \/ ReaderNext
    \/ \E t \in CronTasks : Tick(t) \/ CronNext(t)
    \/ \E t \in MsgTasks : MsgNext(t)
    \/ \E w \in Writers : WriteCheck(w) \/ WriteNext(w)
    \/ \E w \in RawWriters : WriteCheck(w) \/ RawNext(w)
    \/ \E r \in Resetters :
          \/ \E h \in inCallback \cup {"none"} :
                Reset(r, h) \/ TryReset(r, h) \/ CallResetAsync(r, h)
          \/ ResetAsync(r) \/ AwaitResult(r)
    \/ WorkerNext

Spec == Init /\ [][Next]_vars

\* Every goroutine that can take a step eventually takes it: the Go scheduler
\* is fair, user callbacks return, reads time out and closes end.  Nothing is
\* assumed of the users: they may never call Close, a writer or a reset.
Fairness ==
    /\ WF_vars(OnceBody)
    /\ \A p \in StopCallers : WF_vars(StopNext(p))
    /\ WF_vars(CloseCallbacksBegin \/ CloseCallbacksReturn)
    /\ WF_vars(CloseConn)
    /\ WF_vars(RunNext)
    /\ WF_vars(ReaderNext)
    /\ \A t \in CronTasks : WF_vars(CronNext(t))
    /\ \A t \in MsgTasks : WF_vars(MsgNext(t))
    /\ \A w \in Writers : WF_vars(WriteNext(w))
    /\ \A w \in RawWriters : WF_vars(RawNext(w))
    /\ \A r \in Resetters : WF_vars(ResetAsync(r) \/ AwaitResult(r))
    /\ WF_vars(WorkerNext)

FairSpec == Spec /\ Fairness

-----------------------------------------------------------------------------
(* Properties. *)

PcTyped ==
    /\ pc \in [Procs -> Steps]
    /\ pc["run"] \in RunSteps /\ pc["reader"] \in ReaderSteps
    /\ pc["worker"] \in WorkerSteps /\ pc["closecb"] \in ClosecbSteps
    /\ pc["closeconn"] \in {"idle", "closing"}
    /\ \A p \in CronTasks : pc[p] \in CronSteps
    /\ \A p \in MsgTasks : pc[p] \in MsgSteps
    /\ \A p \in Writers : pc[p] \in WriterSteps
    /\ \A p \in Closers : pc[p] \in {"idle", "stopping"}
    /\ \A p \in RawWriters : pc[p] \in RawSteps
    /\ \A p \in Resetters : pc[p] \in ResetSteps

LifeTyped ==
    /\ pgen \in [Procs -> Gen] /\ gen \in Gen
    /\ once \in [Gen -> OnceSteps]
    /\ done \in [Gen -> BOOLEAN] /\ lcClosed \in [Gen -> BOOLEAN]
    /\ lcWG \in [Gen -> SUBSET Procs]
    /\ grWG \in SUBSET Procs /\ inCallback \in SUBSET Procs
    /\ packetLock \in SUBSET Procs

FieldsTyped ==
    /\ conn \in BOOLEAN /\ transport \in {"open", "closed"} /\ fields \in BOOLEAN
    /\ attrs \in {"nil", "empty", "client", "ignore"}
    /\ timer \in BOOLEAN /\ wheel \in BOOLEAN /\ lock \in {"none", "run"}
    /\ resetRun \in BOOLEAN
    /\ result \in [Resetters -> {"none", "pending", "ok", "failed"}]
    /\ host \in [Resetters -> Procs \cup {"none"}]
    /\ readErr \in BOOLEAN /\ reconnects \in BOOLEAN

\* Type correctness: every variable keeps its type, and every goroutine is at
\* one of the steps of its own code.
TypeOK == PcTyped /\ LifeTyped /\ FieldsTyped

\* A lifecycle that a reset has replaced stays closed and nobody is counted in
\* it: neither a task that captured it, nor a closing task of stop() or gc(),
\* can be registered after lifecycle.wait() returned.
NoStaleWork ==
    \A g \in Gen : g < gen => lcClosed[g] /\ lcWG[g] = {}

\* A user callback only runs while the session still has the fields of the
\* generation it was started in: reset() never clears them under a callback.
\* (Closing a session that was already reset runs its close callbacks.)
CallbacksKeepFields ==
    inCallback # {} => fields \/ inCallback = {"closecb"}

\* AsyncResetter: "Success means managed work, connection cleanup, and field
\* reset have finished."  Once some request got a nil result, the connection is
\* detached and closed, the wheel has no timer, no read loop or startup of the
\* old generation is left, and no write either: a send that still runs is that
\* of a WriteBytesArray that had read the connection before it was detached,
\* and its transport is closed.
SuccessMeansFinished ==
    (\E r \in Resetters : result[r] = "ok") =>
        /\ gen > 0 /\ ~fields /\ ~conn /\ transport = "closed"
        /\ ~timer /\ ~wheel
        /\ grWG = {}
        /\ \A p \in packetLock : pc[p] = "sendbatch"

\* #129: once the stop() body has run, no heartbeat timer of that session stays
\* on the wheel, whenever the close fell relative to run()'s install.
NoLeakedTimer ==
    once[gen] \in {"closeLifecycle", "callbacks", "reconnect", "ran"} => ~timer /\ ~wheel

\* #129: gc() clears attrs only after the stop() body has read them, so a
\* client session that was not told to ignore it never loses its reconnect.
ReconnectNotLost ==
    /\ attrs = "nil" => once[gen] = "ran"
    /\ attrs = "client" /\ once[gen] = "ran" => reconnects

\* The step that replaces the session's fields finds no goroutine, no callback
\* and no send that could still be using the old ones.  (A batch that has read
\* the connection and not yet taken packetLock uses no other field.)
ClearsOnlyWhenQuiet ==
    [][gen' # gen => grWG = {} /\ inCallback = {} /\ packetLock = {}]_vars

\* A result, once delivered, is not overwritten by a later reset run.
ResultsAreFinal ==
    [][\A r \in Resetters :
          result[r] \in {"ok", "failed"} => result'[r] = result[r]]_vars

\* Every reset request gets its result, the one that starts a run and the ones
\* that join it, also when it is made from a callback that is running or that
\* returns only after the request.
ResetCompletes ==
    \A r \in Resetters : result[r] = "pending" ~> result[r] \in {"ok", "failed"}

\* A session that was started and then closed, by whoever, ends with its
\* transport closed: the read loop or a failing OnOpen always gets to gc(), also
\* when a reset run failed half way.  (A run() refused because a reset is
\* pending leaves the transport to that reset, one that could not install its
\* timer panics.)
ClosedReleases ==
    done[0] /\ pc["run"] \notin {"idle", "refused", "panicked"} ~>
        transport = "closed" \/ pc["run"] = "panicked"
=============================================================================
