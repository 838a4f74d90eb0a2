------------------------------- MODULE Server -------------------------------
(***************************************************************************)
(* The server endpoint (transport/server.go): RunEventLoop, which opens    *)
(* and publishes a listener and registers an event loop; the event loops   *)
(* of the tcp, udp and websocket servers; the handlers of websocket        *)
(* requests; and concurrent calls of Close.                                *)
(*                                                                         *)
(* The wss server differs from the ws server only in its certificates.     *)
(***************************************************************************)
EXTENDS Naturals, FiniteSets

CONSTANTS
    Kinds,       \* the endpoint types considered: "tcp", "udp", "ws"
    Closers,     \* goroutines calling Close()
    Handlers     \* slots for websocket requests being served

ASSUME KindsKnown == Kinds \subseteq {"tcp", "udp", "ws"}
ASSUME RolesDistinct ==
    /\ {"none", "run", "loop"} \cap (Closers \cup Handlers) = {}
    /\ Closers \cap Handlers = {}

VARIABLES
    kind,        \* s.endPointType
    pc,          \* where RunEventLoop, the event loop, each Close and handler is
    done,        \* s.done is closed
    once,        \* the sync.Once of stop(): "new", "running" or "ran"
    owner,       \* the Close call that runs the body of stop()
    lock,        \* s.lock: who holds it for writing
    listener,    \* the listener: "none", "open" or "closed"
    published,   \* s.streamListener or s.pktListener is set
    http,        \* the http server: not published, "set", or "shut" by Shutdown
    snapshot,    \* the body of stop() has read a listener to close
    wg,          \* s.wg counts the event loop
    delay        \* back-off of the accept loop, in milliseconds

vars == <<kind, pc, done, once, owner, lock, listener, published, http, snapshot,
          wg, delay>>
netVars == <<listener, published, http, snapshot>>
stopVars == <<done, once, owner>>

Procs == {"run", "loop"} \cup Closers \cup Handlers

MinDelay == 5
MaxDelay == 1000

Init ==
    /\ kind \in Kinds
    /\ pc = [p \in Procs |-> "idle"]
    /\ done = FALSE /\ once = "new" /\ owner = "none"
    /\ lock = "none"
    /\ listener = "none" /\ published = FALSE /\ http = "nil" /\ snapshot = FALSE
    /\ wg = FALSE
    /\ delay = 0

Goto(p, l) == pc' = [pc EXCEPT ![p] = l]

-----------------------------------------------------------------------------
(* RunEventLoop: listen, publish, register the event loop. *)

\* listenTCP and listenUDP refuse a closed server before they open a socket.
RunListen ==
    /\ pc["run"] = "idle"
    /\ Goto("run", IF done THEN "returned" ELSE "open")
    /\ UNCHANGED <<kind, stopVars, lock, netVars, wg, delay>>

RunOpen ==
    /\ pc["run"] = "open"
    /\ Goto("run", "publish")
    /\ listener' = "open"
    /\ UNCHANGED <<kind, stopVars, lock, published, http, snapshot, wg, delay>>

\* RunEventLoop panics with the error of listen().
RunOpenFails ==
    /\ pc["run"] = "open"
    /\ Goto("run", "panicked")
    /\ UNCHANGED <<kind, stopVars, lock, netVars, wg, delay>>

\* Mutant: the listener is published without a look at done.
PublishUntested ==
    /\ pc["run"] = "publish" /\ lock = "none"
    /\ Goto("run", "publishing")
    /\ lock' = "run"
    /\ UNCHANGED <<kind, stopVars, netVars, wg, delay>>

\* publishStreamListener, publishPacketListener: done is tested under s.lock ...
PublishTest ==
    /\ pc["run"] = "publish" /\ lock = "none" /\ ~done
    /\ Goto("run", "publishing")
    /\ lock' = "run"
    /\ UNCHANGED <<kind, stopVars, netVars, wg, delay>>

\* ... and a closed server's listener is closed ...
PublishRefused ==
    /\ pc["run"] = "publish" /\ lock = "none" /\ done
    /\ Goto("run", "returned")
    /\ listener' = "closed"
    /\ UNCHANGED <<kind, stopVars, lock, published, http, snapshot, wg, delay>>

\* ... else the lock is held until the listener is visible; close(done) does not take it.
PublishSet ==
    /\ pc["run"] = "publishing"
    /\ Goto("run", "start")
    /\ published' = TRUE
    /\ lock' = "none"
    /\ UNCHANGED <<kind, stopVars, listener, http, snapshot, wg, delay>>

\* Mutant: done is tested without s.lock.
StartTestUnlocked ==
    /\ pc["run"] = "start" /\ ~done
    /\ Goto("run", "starting")
    /\ UNCHANGED <<kind, stopVars, lock, netVars, wg, delay>>

\* startEventLoop: done is tested under s.lock ...
StartTest ==
    /\ pc["run"] = "start" /\ lock = "none" /\ ~done
    /\ Goto("run", "starting")
    /\ lock' = "run"
    /\ UNCHANGED <<kind, stopVars, netVars, wg, delay>>

StartRefused ==
    /\ pc["run"] = "start" /\ lock = "none" /\ done
    /\ Goto("run", "returned")
    /\ UNCHANGED <<kind, stopVars, lock, netVars, wg, delay>>

\* ... and the event loop is counted before the lock is released.
StartAdd ==
    /\ pc["run"] = "starting"
    /\ pc' = [pc EXCEPT !["run"] = "returned",
               !["loop"] = CASE kind = "tcp" -> "check" [] kind = "udp" -> "session"
                             [] kind = "ws" -> "handler"]
    /\ wg' = TRUE
    /\ lock' = "none"
    /\ UNCHANGED <<kind, stopVars, netVars, delay>>

RunNext ==
    \/ RunListen \/ RunOpen \/ RunOpenFails \/ PublishTest \/ PublishRefused \/ PublishSet
    \/ StartTest \/ StartRefused \/ StartAdd

-----------------------------------------------------------------------------
(* The event loops. *)

\* Mutant: the event loop returns without wg.Done.
LoopEndsUncounted == Goto("loop", "finished") /\ UNCHANGED wg

\* The deferred wg.Done.
LoopEnds == Goto("loop", "finished") /\ wg' = FALSE

\* runTCPEventLoop: the top of the accept loop ...
AcceptCheck ==
    /\ pc["loop"] = "check" /\ ~done
    /\ Goto("loop", IF delay = 0 THEN "accept" ELSE "backoff")
    /\ UNCHANGED <<kind, stopVars, lock, netVars, wg, delay>>

\* ... and its back-off, which a Close does not have to sit out.
Backoff ==
    /\ pc["loop"] = "backoff"
    /\ Goto("loop", "accept")
    /\ UNCHANGED <<kind, stopVars, lock, netVars, wg, delay>>

AcceptClosed ==
    /\ pc["loop"] \in {"check", "backoff"} /\ done
    /\ LoopEnds
    /\ UNCHANGED <<kind, stopVars, lock, netVars, delay>>

\* Mutant: the delay is not capped.
NextDelayUncapped == IF delay = 0 THEN MinDelay ELSE 2 * delay

\* The delay doubles with every error, up to a second.
NextDelay ==
    IF delay = 0 THEN MinDelay ELSE IF 2 * delay > MaxDelay THEN MaxDelay ELSE 2 * delay

\* Accept fails on a closed listener, without descriptors, or on a connection
\* to itself, which is closed.
AcceptFails ==
    /\ pc["loop"] = "accept"
    /\ Goto("loop", "check")
    /\ delay' = NextDelay
    /\ UNCHANGED <<kind, stopVars, lock, netVars, wg>>

AcceptReturns ==
    /\ pc["loop"] = "accept" /\ listener = "open"
    /\ Goto("loop", "callback")
    /\ UNCHANGED <<kind, stopVars, lock, netVars, wg, delay>>

\* NewSessionCallback fails or panics and the connection is closed, or the
\* session runs.
AcceptCallback ==
    /\ pc["loop"] = "callback"
    /\ Goto("loop", "check")
    /\ delay' \in {0, NextDelay}
    /\ UNCHANGED <<kind, stopVars, lock, netVars, wg>>

\* runUDPEventLoop: one session on the listening socket, or its Close.
UDPSession ==
    /\ pc["loop"] = "session"
    /\ LoopEnds
    /\ listener' \in {listener, "closed"}
    /\ UNCHANGED <<kind, stopVars, lock, published, http, snapshot, delay>>

\* runWSEventLoop publishes the http server under s.lock, then serves.
WSHandler ==
    /\ pc["loop"] = "handler" /\ lock = "none"
    /\ Goto("loop", "serve")
    /\ http' = "set"
    /\ UNCHANGED <<kind, stopVars, lock, listener, published, snapshot, wg, delay>>

\* Serve returns when Shutdown was called or the listener is closed, and
\* closes the listener in both cases.
WSServeReturns ==
    /\ pc["loop"] = "serve"
    /\ http = "shut" \/ listener = "closed"
    /\ LoopEnds
    /\ listener' = "closed"
    /\ UNCHANGED <<kind, stopVars, lock, published, http, snapshot, delay>>

LoopNext ==
    \/ AcceptCheck \/ Backoff \/ AcceptClosed \/ AcceptFails \/ AcceptReturns \/ AcceptCallback
    \/ UDPSession \/ WSHandler \/ WSServeReturns

\* serveWSRequest: a request arrives and IsClosed is tested ...
WSRequest(h) ==
    /\ pc[h] = "idle" /\ pc["loop"] = "serve" /\ listener = "open"
    /\ ~done
    /\ Goto(h, "upgrade")
    /\ UNCHANGED <<kind, stopVars, lock, netVars, wg, delay>>

\* ... then it is upgraded, its session is set up and run, or it is closed.
WSRequestEnds(h) ==
    /\ pc[h] = "upgrade"
    /\ Goto(h, "idle")
    /\ UNCHANGED <<kind, stopVars, lock, netVars, wg, delay>>

-----------------------------------------------------------------------------
(* Close: stop(), then wg.Wait(). *)

\* A stop() that finds done closed returns at once.
StopCheck(c) ==
    /\ pc[c] = "idle"
    /\ Goto(c, IF done THEN "wait" ELSE "once")
    /\ UNCHANGED <<kind, stopVars, lock, netVars, wg, delay>>

\* once.Do: the first caller runs the body, which closes done ...
StopOnce(c) ==
    /\ pc[c] = "once" /\ once = "new"
    /\ once' = "running" /\ owner' = c /\ done' = TRUE
    /\ Goto(c, "lock")
    /\ UNCHANGED <<kind, lock, netVars, wg, delay>>

\* ... and a later one waits for the body.
StopOnceRan(c) ==
    /\ pc[c] = "once" /\ once = "ran"
    /\ Goto(c, "wait")
    /\ UNCHANGED <<kind, stopVars, lock, netVars, wg, delay>>

StopLock(c) ==
    /\ pc[c] = "lock" /\ lock = "none"
    /\ lock' = c
    /\ Goto(c, "shutdown")
    /\ UNCHANGED <<kind, stopVars, netVars, wg, delay>>

\* Shutdown closes the http server's listener and waits, up to a timeout, for
\* its requests; then the listeners are read and the lock is released.
StopShutdown(c) ==
    /\ pc[c] = "shutdown"
    /\ IF http = "set"
       THEN http' = "shut" /\ listener' = "closed"
       ELSE UNCHANGED <<http, listener>>
    /\ snapshot' = published
    /\ lock' = "none"
    /\ Goto(c, "close")
    /\ UNCHANGED <<kind, stopVars, published, wg, delay>>

\* The listeners are closed outside the lock.
StopClose(c) ==
    /\ pc[c] = "close"
    /\ listener' = IF snapshot THEN "closed" ELSE listener
    /\ once' = "ran"
    /\ Goto(c, "wait")
    /\ UNCHANGED <<kind, done, owner, lock, published, http, snapshot, wg, delay>>

CloseReturns(c) ==
    /\ pc[c] = "wait" /\ ~wg
    /\ Goto(c, "returned")
    /\ UNCHANGED <<kind, stopVars, lock, netVars, wg, delay>>

CloseNext(c) ==
    \/ StopOnce(c) \/ StopOnceRan(c) \/ StopLock(c) \/ StopShutdown(c) \/ StopClose(c)
    \/ CloseReturns(c)

-----------------------------------------------------------------------------
Next ==
    \/ RunNext
    \/ LoopNext
    \/ \E h \in Handlers : WSRequest(h) \/ WSRequestEnds(h)
    \/ \E c \in Closers : StopCheck(c) \/ CloseNext(c)

Spec == Init /\ [][Next]_vars

\* RunEventLoop, the event loop and a Close that was called are goroutines the
\* scheduler runs; nobody has to call Close, and no request has to come.
\* Accept on an open listener may wait for ever.
LoopProgress == LoopNext /\ (pc["loop"] = "accept" => listener # "open")

Fairness ==
    /\ WF_vars(RunNext)
    /\ WF_vars(LoopProgress)
    /\ \A c \in Closers : WF_vars(CloseNext(c))

FairSpec == Spec /\ Fairness

-----------------------------------------------------------------------------
RunSteps == {"idle", "open", "publish", "publishing", "start", "starting", "returned",
             "panicked"}
LoopSteps == {"idle", "check", "backoff", "accept", "callback", "session", "handler",
              "serve", "finished"}
CloseSteps == {"idle", "once", "lock", "shutdown", "close", "wait", "returned"}
Steps == RunSteps \cup LoopSteps \cup CloseSteps \cup {"upgrade"}

\* Type correctness of the server, the cap of the accept back-off included.
TypeOK ==
    /\ kind \in Kinds
    /\ pc \in [Procs -> Steps]
    /\ pc["run"] \in RunSteps /\ pc["loop"] \in LoopSteps
    /\ \A c \in Closers : pc[c] \in CloseSteps
    /\ \A h \in Handlers : pc[h] \in {"idle", "upgrade"}
    /\ done \in BOOLEAN /\ once \in {"new", "running", "ran"}
    /\ owner \in Closers \cup {"none"}
    /\ lock \in Closers \cup {"none", "run"}
    /\ listener \in {"none", "open", "closed"} /\ published \in BOOLEAN
    /\ http \in {"nil", "set", "shut"} /\ snapshot \in BOOLEAN
    /\ wg \in BOOLEAN
    /\ delay \in 0 .. MaxDelay

\* The event loop goroutine runs, or has been let through to be started.
LoopActive == pc["loop"] \notin {"idle", "finished"} \/ pc["run"] = "starting"

\* A listener opened by RunEventLoop does not outlive a Close: once the body of
\* stop() has run and RunEventLoop has returned, the listener is closed,
\* wherever the close fell between the bind, its publication and the loop.
ListenerNotLeaked ==
    once = "ran" /\ pc["run"] = "returned" => listener # "open"

\* The Close that runs the body of stop() returns only when no event loop runs
\* and none can be started any more, so no later NewSessionCallback comes from
\* the accept loop.
FirstCloseWaits ==
    owner # "none" /\ pc[owner] = "returned" => ~LoopActive

\* startEventLoop's comment, of every Close: "either the loop is registered
\* before stop() closes done (and Wait() then waits for it), or the closed
\* server refuses the registration and no goroutine is started."
EveryCloseWaits ==
    \A c \in Closers : pc[c] = "returned" => ~LoopActive

\* Every Close that is called returns, also one that finds done closed: the
\* closed listener ends Accept and Serve, and the accept loop's back-off does not
\* outlast the server.
CloseTerminates ==
    \A c \in Closers : pc[c] # "idle" ~> pc[c] = "returned"
=============================================================================
