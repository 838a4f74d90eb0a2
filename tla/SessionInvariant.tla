-------------------------- MODULE SessionInvariant --------------------------
(***************************************************************************)
(* The inductive invariant of Session: what each counter and flag says of  *)
(* the goroutines, for every number of closers, tasks, writers and resets. *)
(***************************************************************************)
EXTENDS Session

RunActive == {"onopen", "test", "install", "spawn", "stopping", "gc"}
ReaderClosing == {"errcall", "onerror", "closecall", "onclose", "gc"}
ReaderActive == {"check", "recv", "decode", "inline", "stopping"} \cup ReaderClosing
CallbackSteps == {"onopen", "decode", "onerror", "onclose", "oncron", "onmessage",
                  "encode", "oncallbacks"}

\* p is counted in the WaitGroup of the lifecycle it captured.
Holding(p) ==
    \/ p \in CronTasks /\ pc[p] \in {"held", "oncron", "stopping", "rawclose"}
    \/ p \in MsgTasks /\ pc[p] \in {"held", "onmessage"}
    \/ p \in Writers /\ pc[p] \in {"encode", "locking", "send"}
    \/ p = "closecb" /\ pc[p] \in {"spawned", "oncallbacks"}
    \/ p = "closeconn" /\ pc[p] = "closing"

\* The counters count exactly the goroutines inside the counted regions.
CountersExact ==
    /\ grWG \subseteq {"run", "reader"}
    /\ "run" \in grWG <=> pc["run"] \in RunActive
    /\ "reader" \in grWG <=> pc["reader"] \in ReaderActive
    /\ pc["reader"] # "idle" => pc["run"] = "finished"
    /\ \A p \in Procs : p \in inCallback <=> pc[p] \in CallbackSteps
    /\ \A p \in Procs : p \in packetLock <=> pc[p] \in {"send", "sendbatch"}

\* ... and so do the lifecycles' WaitGroups.
LifecyclesExact ==
    \A g \in Gen : \A p \in Procs : p \in lcWG[g] <=> Holding(p) /\ pgen[p] = g

\* Without a task pool one message task at a time runs on the read goroutine.
InlineExact ==
    ~TaskPool =>
        /\ \A t \in MsgTasks : pc[t] # "idle" => pc["reader"] = "inline"
        /\ \A t, u \in MsgTasks : pc[t] # "idle" /\ pc[u] # "idle" => t = u

\* No goroutine holds a generation that does not exist yet, and only the first
\* generation, which has a connection, has tasks, a read loop and a writer.
CapturesOrdered ==
    /\ \A p \in Procs : pgen[p] <= gen
    /\ \A p \in CronTasks \cup MsgTasks \cup {"run", "reader"} : pgen[p] = 0
    /\ \A p \in Writers : pc[p] \in {"encode", "locking", "send"} => pgen[p] = 0

\* Generations before the current one are finished, later ones are fresh.
GenerationsOrdered ==
    /\ \A g \in Gen : g < gen => once[g] = "ran" /\ lcClosed[g] /\ lcWG[g] = {}
    /\ \A g \in Gen : g > gen => once[g] = "new" /\ ~done[g] /\ ~lcClosed[g]

\* How far the stop() body of the current generation has come.
OnceOrdered ==
    /\ done[gen] <=> once[gen] # "new"
    /\ lcClosed[gen] <=> once[gen] \in {"callbacks", "reconnect", "ran"}
    /\ pc["closecb"] # "idle" => once[gen] \in {"reconnect", "ran"}
    /\ pc["run"] = "gc" => once[gen] = "ran"
    /\ pc["reader"] \in ReaderClosing => once[gen] = "ran"
    /\ pc["worker"] \notin {"idle", "stopping", "deliver"} => once[gen] = "ran"
    /\ attrs = "nil" => once[gen] = "ran"
    /\ attrs = "client" /\ once[gen] = "ran" => reconnects

\* The timer is on the wheel only until the stop() body has dealt with it.
TimerOrdered ==
    /\ lock = "run" <=> pc["run"] = "install"
    /\ timer \/ lock = "run" => once[gen] \in {"new", "heartbeat"}
    /\ wheel => timer \/ once[gen] = "stopTimer"

\* Where the connection is.
ConnOwned ==
    /\ conn => gen = 0 /\ attrs # "nil"
    /\ ~conn => transport = "closed" \/ pc["closeconn"] = "closing"
    /\ fields <=> gen = 0
    /\ gen > 0 => grWG = {} /\ ~timer /\ ~wheel /\ transport = "closed"

\* Only a batch, which read the connection before it took packetLock, can be
\* sending after a reset.
SendsOrdered ==
    \A p \in Procs : pc[p] = "send" => gen = 0

\* What the reset worker has established at each of its steps.
WorkerOrdered ==
    /\ resetRun <=> pc["worker"] # "idle"
    /\ pc["worker"] \notin {"idle", "deliver"} => pgen["worker"] = gen /\ gen < MaxGen
    /\ pc["worker"] \in {"gc", "waitlc", "clear"} => grWG = {}
    /\ pc["worker"] \in {"waitlc", "clear"} => attrs = "nil"
    /\ pc["worker"] = "clear" => lcWG[gen] = {}
    /\ pc["worker"] = "deliver" => gen > 0
    /\ \A r \in Resetters : result[r] = "ok" => gen > 0

\* A request that waits for an answer belongs to the pending run, and a call
\* that has not registered its request yet has no answer.
RequestsOrdered ==
    /\ \A r \in Resetters : result[r] = "pending" => resetRun
    /\ \A r \in Resetters : pc[r] \in {"idle", "sync", "async"} => result[r] = "none"

\* The inductive invariant: each part is needed by another to be preserved.
IndInv ==
    /\ TypeOK /\ CountersExact /\ LifecyclesExact /\ InlineExact
    /\ CapturesOrdered /\ GenerationsOrdered
    /\ OnceOrdered /\ TimerOrdered /\ ConnOwned /\ SendsOrdered
    /\ WorkerOrdered /\ RequestsOrdered
=============================================================================
