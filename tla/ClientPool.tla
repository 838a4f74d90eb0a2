----------------------------- MODULE ClientPool -----------------------------
(***************************************************************************)
(* The client's connection pool (transport/client.go): RunEventLoop and    *)
(* the reconnect triggers of stopping sessions, coalesced into one         *)
(* reconnect loop by runReconnect; the passes of that loop, reConnect and  *)
(* connect; and Close, concurrent with all of them.                        *)
(*                                                                         *)
(* A session is what the pool sees of it: it is open, or done is closed    *)
(* and stop() has still to read the reconnect attributes ("dying"), or it  *)
(* is gone.  Module Session models its inside.                             *)
(***************************************************************************)
EXTENDS Naturals, FiniteSets

CONSTANTS
    Number,       \* c.number, the size of the pool
    MaxAttempts,  \* c.maxReconnectAttempts
    Slots,        \* session objects; one that is gone and dropped is reused
    Loops,        \* reconnect goroutines, each with its completion channel
    Runners       \* goroutines calling RunEventLoop

ASSUME SizesPositive == Number \in Nat \ {0} /\ MaxAttempts \in Nat \ {0}
ASSUME NamesDistinct ==
    Loops \cap {"nil", "idle", "returned"} = {} /\ "nil" \notin Slots

VARIABLES
    pc,                \* where each reconnect loop is
    cur,               \* the session each loop is connecting
    attempts,          \* reconnectAttempts of each loop's pass
    waits,             \* RunEventLoop: "idle", the loop it waits for, "returned"
    reconnectDone,     \* the running loop, or "nil"
    reconnectPending,  \* a trigger is still to be served
    ssMap,             \* the pool; nil, here empty, once done is closed
    done,              \* c.done is closed
    victims,           \* the sessions Close has still to close
    state,             \* of each session: "open", "dying" or "gone"
    attr,              \* its reconnect attributes: "none", "client" or "ignore"
    excuse             \* history: since the last pass began, an attempt limit was
                       \* hit or a peer's EOF turned a session's reconnect off

loopVars == <<pc, cur, attempts>>
trigVars == <<waits, reconnectDone, reconnectPending>>
poolVars == <<ssMap, done, victims>>
sessVars == <<state, attr>>
vars == <<loopVars, trigVars, poolVars, sessVars, excuse>>

Init ==
    /\ pc = [l \in Loops |-> "idle"]
    /\ cur = [l \in Loops |-> "nil"]
    /\ attempts = [l \in Loops |-> 0]
    /\ waits = [r \in Runners |-> "idle"]
    /\ reconnectDone = "nil" /\ reconnectPending = FALSE
    /\ ssMap = {} /\ done = FALSE /\ victims = {}
    /\ state = [s \in Slots |-> "gone"] /\ attr = [s \in Slots |-> "none"]
    /\ excuse = FALSE

Goto(l, step) == pc' = [pc EXCEPT ![l] = step]

\* sessionNum() and connect() count a session that is not closed.
Active(ss) == {s \in ss : state[s] = "open"}

\* Mutant: the pool is full only when it is over its size.
HasRoomOverfull(ss) == Cardinality(ss) <= Number

\* connPoolSize <= c.sessionNum() is the test of a full pool.
HasRoom(ss) == Cardinality(ss) < Number

-----------------------------------------------------------------------------
(* Triggers. *)

\* Mutant: every trigger starts a loop of its own.
runReconnectAlways(l, channel) ==
    \/ done /\ channel = "returned" /\ UNCHANGED <<pc, reconnectDone, reconnectPending>>
    \/ /\ ~done /\ channel = l
       /\ pc[l] = "idle" /\ \A r \in Runners : waits[r] # l
       /\ reconnectDone' = l /\ reconnectPending' = TRUE
       /\ Goto(l, "top")

\* Mutant: a trigger that meets a running loop is dropped.
runReconnectDropped(l, channel) ==
    \/ /\ channel = IF done THEN "returned" ELSE reconnectDone
       /\ done \/ reconnectDone # "nil"
       /\ UNCHANGED <<pc, reconnectDone, reconnectPending>>
    \/ /\ ~done /\ reconnectDone = "nil" /\ channel = l
       /\ pc[l] = "idle" /\ \A r \in Runners : waits[r] # l
       /\ reconnectDone' = l /\ reconnectPending' = TRUE
       /\ Goto(l, "top")

\* runReconnect, by RunEventLoop or by a session's stop(): a closed client
\* starts nothing, a running loop takes the trigger over, else loop l starts.
\* channel is the loop whose completion the caller is given.
runReconnect(l, channel) ==
    \/ /\ done /\ channel = "returned"
       /\ UNCHANGED <<pc, reconnectDone, reconnectPending>>
    \/ /\ ~done /\ reconnectDone # "nil" /\ channel = reconnectDone
       /\ reconnectPending' = TRUE
       /\ UNCHANGED <<pc, reconnectDone>>
    \/ /\ ~done /\ reconnectDone = "nil" /\ channel = l
       /\ pc[l] = "idle" /\ \A r \in Runners : waits[r] # l
       /\ reconnectDone' = l /\ reconnectPending' = TRUE
       /\ Goto(l, "top")

RunEventLoop(r) ==
    /\ waits[r] = "idle"
    /\ \E l \in Loops, channel \in Loops \cup {"returned"} :
          /\ runReconnect(l, channel)
          /\ waits' = [waits EXCEPT ![r] = channel]
    /\ UNCHANGED <<cur, attempts, poolVars, sessVars, excuse>>

\* A session is closed: by its reader, by the application, or by the
\* NewSessionCallback that was given it.
SessionDies(s) ==
    /\ state[s] = "open"
    /\ state' = [state EXCEPT ![s] = "dying"]
    /\ UNCHANGED <<loopVars, trigVars, poolVars, attr, excuse>>

\* handleTCPPackage meets the peer's EOF and turns the reconnect off.
SessionEOF(s) ==
    /\ state[s] = "open" /\ attr[s] = "client"
    /\ state' = [state EXCEPT ![s] = "dying"]
    /\ attr' = [attr EXCEPT ![s] = "ignore"]
    /\ excuse' = TRUE
    /\ UNCHANGED <<loopVars, trigVars, poolVars>>

\* The end of session.stop(): the attributes decide about a reconnect.
SessionStopped(s) ==
    /\ state[s] = "dying"
    /\ state' = [state EXCEPT ![s] = "gone"]
    /\ IF attr[s] = "client"
       THEN \E l \in Loops, channel \in Loops \cup {"returned"} : runReconnect(l, channel)
       ELSE UNCHANGED <<pc, reconnectDone, reconnectPending>>
    /\ UNCHANGED <<cur, attempts, waits, poolVars, attr, excuse>>

-----------------------------------------------------------------------------
(* The reconnect loop. *)

\* The critical section at the top of the loop: it ends, or takes the trigger.
LoopTop(l) ==
    /\ pc[l] = "top"
    /\ IF done \/ ~reconnectPending
       THEN Goto(l, "ending") /\ reconnectDone' = "nil" /\ UNCHANGED <<attempts, excuse>>
       ELSE /\ Goto(l, "pass") /\ UNCHANGED reconnectDone
            /\ attempts' = [attempts EXCEPT ![l] = 0]
            /\ excuse' = FALSE
    /\ reconnectPending' = FALSE
    /\ UNCHANGED <<cur, waits, poolVars, sessVars>>

\* Mutant: the loop returns without closing its channel.
LoopEndsSilently(l) ==
    /\ pc[l] = "ending"
    /\ Goto(l, "idle")
    /\ UNCHANGED <<cur, attempts, trigVars, poolVars, sessVars, excuse>>

\* The deferred close of the loop's channel wakes every RunEventLoop on it.
LoopEnds(l) ==
    /\ pc[l] = "ending"
    /\ Goto(l, "idle")
    /\ waits' = [r \in Runners |-> IF waits[r] = l THEN "returned" ELSE waits[r]]
    /\ UNCHANGED <<cur, attempts, reconnectDone, reconnectPending, poolVars, sessVars, excuse>>

\* reConnect: a closed client ends the pass ...
PassClosed(l) ==
    /\ pc[l] = "pass"
    /\ Goto(l, IF done THEN "top" ELSE "count")
    /\ UNCHANGED <<cur, attempts, trigVars, poolVars, sessVars, excuse>>

\* ... and so does a full pool, which sessionNum() prunes as it counts.
PassCount(l) ==
    /\ pc[l] = "count"
    /\ ssMap' = Active(ssMap)
    /\ Goto(l, IF HasRoom(Active(ssMap)) THEN "dial" ELSE "top")
    /\ UNCHANGED <<cur, attempts, trigVars, done, victims, sessVars, excuse>>

\* dialTCP, dialUDP, dialWS and dialWSS look at IsClosed once, then dial.
Dial(l) ==
    /\ pc[l] = "dial"
    /\ Goto(l, IF done THEN "failed" ELSE "dialing")
    /\ UNCHANGED <<cur, attempts, trigVars, poolVars, sessVars, excuse>>

\* The dial fails, or there is a new session.
Dialed(l) ==
    /\ pc[l] = "dialing"
    /\ \/ Goto(l, "failed") /\ UNCHANGED <<cur, sessVars>>
       \/ \E s \in Slots \ (ssMap \cup victims) :
             /\ state[s] = "gone"
             /\ state' = [state EXCEPT ![s] = "open"]
             /\ attr' = [attr EXCEPT ![s] = "none"]
             /\ cur' = [cur EXCEPT ![l] = s]
             /\ Goto(l, "callback")
    /\ UNCHANGED <<attempts, trigVars, poolVars, excuse>>

\* NewSessionCallback fails and the connection is closed, or the session gets
\* its reconnect attributes and runs.
Callback(l) ==
    /\ pc[l] = "callback"
    /\ \/ /\ Goto(l, "failed")
          /\ state' = [state EXCEPT ![cur[l]] = "gone"]
          /\ cur' = [cur EXCEPT ![l] = "nil"]
          /\ UNCHANGED attr
       \/ /\ Goto(l, "admit")
          /\ attr' = [attr EXCEPT ![cur[l]] = "client"]
          /\ UNCHANGED <<state, cur>>
    /\ UNCHANGED <<attempts, trigVars, poolVars, excuse>>

\* Mutant: connect() admits the session without a look at a closed client.
AdmitUntested(l) ==
    /\ pc[l] = "admit"
    /\ Goto(l, "pass")
    /\ ssMap' = IF done THEN ssMap ELSE Active(ssMap \cup {cur[l]})
    /\ attempts' = [attempts EXCEPT ![l] = 0]
    /\ cur' = [cur EXCEPT ![l] = "nil"]
    /\ UNCHANGED <<trigVars, done, victims, sessVars, excuse>>

\* The critical section of connect() that admits the session: not into a closed
\* client, not when it died meanwhile, not into a full pool.
Admit(l) ==
    LET s == cur[l] IN
    /\ pc[l] = "admit"
    /\ \/ /\ done
          /\ Goto(l, "reject")
          /\ attr' = [attr EXCEPT ![s] = "none"]
          /\ UNCHANGED <<cur, attempts, ssMap>>
       \/ /\ ~done /\ state[s] # "open"
          /\ Goto(l, "failed")
          /\ attr' = [attr EXCEPT ![s] = "none"]
          /\ cur' = [cur EXCEPT ![l] = "nil"]
          /\ UNCHANGED <<attempts, ssMap>>
       \/ /\ ~done /\ state[s] = "open"
          /\ IF HasRoom(Active(ssMap))
             THEN /\ ssMap' = Active(ssMap) \cup {s}
                  /\ Goto(l, "pass")
                  /\ attempts' = [attempts EXCEPT ![l] = 0]
                  /\ cur' = [cur EXCEPT ![l] = "nil"]
                  /\ UNCHANGED attr
             ELSE /\ ssMap' = Active(ssMap)
                  /\ Goto(l, "reject")
                  /\ attr' = [attr EXCEPT ![s] = "none"]
                  /\ UNCHANGED <<cur, attempts>>
    /\ UNCHANGED <<trigVars, done, victims, state, excuse>>

\* ss.Close() outside the lock; it waits for a stop() that is under way.
Reject(l) ==
    /\ pc[l] = "reject" /\ state[cur[l]] # "dying"
    /\ state' = [state EXCEPT ![cur[l]] = "gone"]
    /\ cur' = [cur EXCEPT ![l] = "nil"]
    /\ Goto(l, "failed")
    /\ UNCHANGED <<attempts, trigVars, poolVars, attr, excuse>>

\* A failed connect(): the pass ends, or backs off before it tries again.
Failed(l) ==
    LET tried == attempts[l] + 1
        full == ~HasRoom(Active(ssMap))
    IN
    /\ pc[l] = "failed"
    /\ attempts' = [attempts EXCEPT ![l] = tried]
    /\ ssMap' = IF done THEN ssMap ELSE Active(ssMap)
    /\ Goto(l, IF done \/ full \/ tried >= MaxAttempts THEN "top" ELSE "backoff")
    /\ excuse' = (excuse \/ (~done /\ ~full /\ tried >= MaxAttempts))
    /\ UNCHANGED <<cur, trigVars, done, victims, sessVars>>

Backoff(l) ==
    /\ pc[l] = "backoff"
    /\ \/ done /\ Goto(l, "top")
       \/ Goto(l, "pass")
    /\ UNCHANGED <<cur, attempts, trigVars, poolVars, sessVars, excuse>>

LoopNext(l) ==
    \/ LoopTop(l) \/ LoopEnds(l) \/ PassClosed(l) \/ PassCount(l) \/ Dial(l) \/ Dialed(l)
    \/ Callback(l) \/ Admit(l) \/ Reject(l) \/ Failed(l) \/ Backoff(l)

-----------------------------------------------------------------------------
(* Close. *)

\* stop(): done is closed and the pool is taken over in one critical section.
Stop ==
    /\ ~done
    /\ done' = TRUE
    /\ victims' = ssMap
    /\ ssMap' = {}
    /\ UNCHANGED <<loopVars, trigVars, sessVars, excuse>>

\* Its sessions lose their reconnect attributes, one after the other ...
StopDetach(s) ==
    /\ s \in victims /\ \A v \in victims : attr[v] # "none"
    /\ attr' = [attr EXCEPT ![s] = "none"]
    /\ UNCHANGED <<loopVars, trigVars, poolVars, state, excuse>>

\* ... and are closed; Close waits for a stop() that is under way.
StopClose(s) ==
    /\ s \in victims /\ attr[s] = "none" /\ state[s] # "dying"
    /\ state' = [state EXCEPT ![s] = "gone"]
    /\ victims' = victims \ {s}
    /\ UNCHANGED <<loopVars, trigVars, ssMap, done, attr, excuse>>

-----------------------------------------------------------------------------
SessionNext(s) == SessionDies(s) \/ SessionEOF(s) \/ SessionStopped(s)

Next ==
    \/ \E r \in Runners : RunEventLoop(r)
    \/ \E l \in Loops : LoopNext(l)
    \/ \E s \in Slots : SessionNext(s)
    \/ Stop
    \/ \E s \in Slots : StopDetach(s) \/ StopClose(s)

Spec == Init /\ [][Next]_vars

\* A reconnect loop runs: its dials have timeouts and its callbacks return.  So
\* do a stop() under way and a Close under way.
Fairness ==
    /\ \A l \in Loops : WF_vars(LoopNext(l))
    /\ \A s \in Slots : WF_vars(SessionStopped(s)) /\ WF_vars(StopDetach(s) \/ StopClose(s))

FairSpec == Spec /\ Fairness

-----------------------------------------------------------------------------
\* Type correctness of the pool.
TypeOK ==
    /\ pc \in [Loops -> {"idle", "top", "pass", "count", "dial", "dialing", "callback",
                         "admit", "reject", "failed", "backoff", "ending"}]
    /\ cur \in [Loops -> Slots \cup {"nil"}]
    /\ attempts \in [Loops -> 0 .. MaxAttempts]
    /\ waits \in [Runners -> Loops \cup {"idle", "returned"}]
    /\ reconnectDone \in Loops \cup {"nil"} /\ reconnectPending \in BOOLEAN
    /\ ssMap \in SUBSET Slots /\ done \in BOOLEAN /\ victims \in SUBSET Slots
    /\ state \in [Slots -> {"open", "dying", "gone"}]
    /\ attr \in [Slots -> {"none", "client", "ignore"}]
    /\ excuse \in BOOLEAN

\* The loops that are in a pass or about to begin one.
Running == {l \in Loops : pc[l] \notin {"idle", "ending"}}

\* Reconnect triggers are single-flight: whatever sessions stop and whoever
\* calls RunEventLoop, at most one loop works on the pool, and it is the one
\* further triggers are handed to.
SingleFlight == Running = {reconnectDone} \ {"nil"}

\* The pool never holds more sessions than WithConnectionNumber asked for, the
\* closed ones that were not pruned yet included.
PoolBounded == Cardinality(ssMap) <= Number

\* No session outlives the client: when Close has returned and no loop runs,
\* every session is closed, also one that was being connected during Close.
NoLeakedSession ==
    done /\ victims = {} /\ Running = {} => \A s \in Slots : state[s] # "open"

\* No trigger is lost: while no loop works on an open client that was started,
\* the pool is full, or a stopping session is about to trigger a pass, or the
\* pool was left short on purpose (the attempt limit, or a peer's EOF).
IdlePoolIsFull ==
    Running = {} /\ ~done /\ (\E r \in Runners : waits[r] # "idle") =>
        \/ ~HasRoom(Active(ssMap))
        \/ \E s \in ssMap : state[s] = "dying" /\ attr[s] = "client"
        \/ excuse

\* After Close the reconnect loop ends, and every RunEventLoop returns.
CloseEndsLoop ==
    done ~> (\A l \in Loops : pc[l] = "idle") /\ (\A r \in Runners : waits[r] \notin Loops)
=============================================================================
