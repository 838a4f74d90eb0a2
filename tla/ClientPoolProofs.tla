-------------------------- MODULE ClientPoolProofs ---------------------------
(***************************************************************************)
(* The client's pool for any pool size, attempt limit and number of        *)
(* triggers: one reconnect loop at a time, a bounded pool, no session that *)
(* outlives the client, and no lost trigger.                               *)
(***************************************************************************)
EXTENDS ClientPool, FiniteSetTheorems, TLAPS

\* A loop holds a session between its dial and its admission, and a pass is
\* within its attempts.
Passes ==
    \A l \in Loops :
       /\ pc[l] \in {"callback", "admit", "reject"} => cur[l] \in Slots
       /\ pc[l] \notin {"idle", "top", "ending"} => attempts[l] < MaxAttempts

\* An open session belongs to the pool, to Close or to the loop connecting it;
\* a closed client has no pool.
Owned ==
    /\ IsFiniteSet(ssMap)
    /\ done => ssMap = {}
    /\ victims # {} => done
    /\ \A s \in Slots : state[s] = "open" =>
          \/ s \in ssMap \cup victims
          \/ \E l \in Loops : pc[l] \in {"callback", "admit", "reject"} /\ cur[l] = s

Full == ~HasRoom(Active(ssMap))
Triggers == \E s \in ssMap : state[s] = "dying" /\ attr[s] = "client"
InPass == \E l \in Loops : pc[l] \notin {"idle", "top", "ending"}

\* A pool that is short is being filled or has a trigger on its way, which a
\* running loop serves; the sessions of an open client's pool trigger one when
\* they stop.
Served ==
    /\ reconnectPending => reconnectDone # "nil"
    /\ ~done => \A s \in ssMap : state[s] = "open" => attr[s] = "client"
    /\ \A l \in Loops :
          /\ pc[l] \in {"callback", "admit", "reject"} => cur[l] \notin ssMap
          /\ ~done /\ pc[l] = "admit" /\ state[cur[l]] = "open" => attr[cur[l]] = "client"
    /\ ~done /\ (\E r \in Runners : waits[r] # "idle") =>
          Full \/ Triggers \/ excuse \/ reconnectPending \/ InPass

Inv == TypeOK /\ Passes /\ SingleFlight /\ PoolBounded /\ Owned /\ Served

USE DEF loopVars, trigVars, poolVars, sessVars, Goto

\* Pruning the pool leaves a finite set that is no larger.
LEMMA ActiveFinite ==
    ASSUME IsFiniteSet(ssMap)
    PROVE  IsFiniteSet(Active(ssMap)) /\ Cardinality(Active(ssMap)) <= Cardinality(ssMap)
  BY FS_Subset DEF Active

\* Types are preserved, and a pass stays within its attempts.
LEMMA TypesStep ==
    ASSUME TypeOK, Passes, [Next]_vars
    PROVE  TypeOK' /\ Passes'
<1> USE SizesPositive, NamesDistinct DEF TypeOK, Passes, Active
<1>1. ASSUME NEW r \in Runners, RunEventLoop(r) PROVE TypeOK' /\ Passes'
  <2>1. PICK l \in Loops, channel \in Loops \cup {"returned"} :
           runReconnect(l, channel) /\ waits' = [waits EXCEPT ![r] = channel]
    BY <1>1 DEF RunEventLoop
  <2>2. waits' \in [Runners -> Loops \cup {"idle", "returned"}]
    BY <2>1
  <2>3. reconnectDone' \in Loops \cup {"nil"} /\ reconnectPending' \in BOOLEAN
    BY <2>1 DEF runReconnect
  <2>4. QED
    BY <1>1, <2>1, <2>2, <2>3 DEF RunEventLoop, runReconnect
<1>2. ASSUME NEW l \in Loops, LoopTop(l) PROVE TypeOK' /\ Passes'
  <2>1. excuse' \in BOOLEAN /\ reconnectPending' \in BOOLEAN
    BY <1>2 DEF LoopTop
  <2>2. QED
    BY <1>2, <2>1 DEF LoopTop
<1>3. ASSUME NEW l \in Loops, LoopEnds(l) PROVE TypeOK' /\ Passes'
  BY <1>3 DEF LoopEnds
<1>4. ASSUME NEW l \in Loops, PassClosed(l) PROVE TypeOK' /\ Passes'
  BY <1>4 DEF PassClosed
<1>5. ASSUME NEW l \in Loops, PassCount(l) PROVE TypeOK' /\ Passes'
  BY <1>5 DEF PassCount
<1>6. ASSUME NEW l \in Loops, Dial(l) PROVE TypeOK' /\ Passes'
  BY <1>6 DEF Dial
<1>7. ASSUME NEW l \in Loops, Dialed(l) PROVE TypeOK' /\ Passes'
  BY <1>7 DEF Dialed
<1>8. ASSUME NEW l \in Loops, Callback(l) PROVE TypeOK' /\ Passes'
  BY <1>8 DEF Callback
<1>9. ASSUME NEW l \in Loops, Admit(l) PROVE TypeOK' /\ Passes'
  BY <1>9 DEF Admit
<1>10. ASSUME NEW l \in Loops, Reject(l) PROVE TypeOK' /\ Passes'
  BY <1>10 DEF Reject
<1>11. ASSUME NEW l \in Loops, Failed(l) PROVE TypeOK' /\ Passes'
  BY <1>11 DEF Failed
<1>12. ASSUME NEW l \in Loops, Backoff(l) PROVE TypeOK' /\ Passes'
  BY <1>12 DEF Backoff
<1>13. ASSUME NEW s \in Slots, SessionDies(s) PROVE TypeOK' /\ Passes'
  BY <1>13 DEF SessionDies
<1>14. ASSUME NEW s \in Slots, SessionEOF(s) PROVE TypeOK' /\ Passes'
  BY <1>14 DEF SessionEOF
<1>15. ASSUME NEW s \in Slots, SessionStopped(s) PROVE TypeOK' /\ Passes'
  <2>1. reconnectDone' \in Loops \cup {"nil"} /\ reconnectPending' \in BOOLEAN
    BY <1>15 DEF SessionStopped, runReconnect
  <2>2. pc' = pc \/ \E l \in Loops : pc' = [pc EXCEPT ![l] = "top"]
    BY <1>15 DEF SessionStopped, runReconnect
  <2>3. QED
    BY <1>15, <2>1, <2>2 DEF SessionStopped
<1>16. ASSUME NEW s \in Slots, StopDetach(s) PROVE TypeOK' /\ Passes'
  BY <1>16 DEF StopDetach
<1>17. ASSUME NEW s \in Slots, StopClose(s) PROVE TypeOK' /\ Passes'
  BY <1>17 DEF StopClose
<1>18. CASE Stop
  BY <1>18 DEF Stop
<1>19. CASE UNCHANGED vars
  BY <1>19 DEF vars
<1>20. QED
  BY <1>1, <1>2, <1>3, <1>4, <1>5, <1>6, <1>7, <1>8, <1>9, <1>10, <1>11, <1>12,
    <1>13, <1>14, <1>15, <1>16, <1>17, <1>18, <1>19
    DEF Next, LoopNext, SessionNext

\* A loop starts only when none runs, and leaves only by itself.
LEMMA SingleFlightStep ==
    ASSUME TypeOK, SingleFlight, [Next]_vars
    PROVE  SingleFlight'
<1> USE SizesPositive, NamesDistinct DEF TypeOK, SingleFlight, Running
<1>1. ASSUME NEW r \in Runners, RunEventLoop(r) PROVE SingleFlight'
  BY <1>1 DEF RunEventLoop, runReconnect
<1>2. ASSUME NEW l \in Loops, LoopTop(l) PROVE SingleFlight'
  BY <1>2 DEF LoopTop
<1>3. ASSUME NEW l \in Loops, LoopEnds(l) PROVE SingleFlight'
  BY <1>3 DEF LoopEnds
<1>4. ASSUME NEW l \in Loops, PassClosed(l) PROVE SingleFlight'
  BY <1>4 DEF PassClosed
<1>5. ASSUME NEW l \in Loops, PassCount(l) PROVE SingleFlight'
  BY <1>5 DEF PassCount
<1>6. ASSUME NEW l \in Loops, Dial(l) PROVE SingleFlight'
  BY <1>6 DEF Dial
<1>7. ASSUME NEW l \in Loops, Dialed(l) PROVE SingleFlight'
  BY <1>7 DEF Dialed
<1>8. ASSUME NEW l \in Loops, Callback(l) PROVE SingleFlight'
  BY <1>8 DEF Callback
<1>9. ASSUME NEW l \in Loops, Admit(l) PROVE SingleFlight'
  BY <1>9 DEF Admit
<1>10. ASSUME NEW l \in Loops, Reject(l) PROVE SingleFlight'
  BY <1>10 DEF Reject
<1>11. ASSUME NEW l \in Loops, Failed(l) PROVE SingleFlight'
  BY <1>11 DEF Failed
<1>12. ASSUME NEW l \in Loops, Backoff(l) PROVE SingleFlight'
  BY <1>12 DEF Backoff
<1>13. ASSUME NEW s \in Slots, SessionDies(s) PROVE SingleFlight'
  BY <1>13 DEF SessionDies
<1>14. ASSUME NEW s \in Slots, SessionEOF(s) PROVE SingleFlight'
  BY <1>14 DEF SessionEOF
<1>15. ASSUME NEW s \in Slots, SessionStopped(s) PROVE SingleFlight'
  BY <1>15 DEF SessionStopped, runReconnect
<1>16. ASSUME NEW s \in Slots, StopDetach(s) PROVE SingleFlight'
  BY <1>16 DEF StopDetach
<1>17. ASSUME NEW s \in Slots, StopClose(s) PROVE SingleFlight'
  BY <1>17 DEF StopClose
<1>18. CASE Stop
  BY <1>18 DEF Stop
<1>19. CASE UNCHANGED vars
  BY <1>19 DEF vars
<1>20. QED
  BY <1>1, <1>2, <1>3, <1>4, <1>5, <1>6, <1>7, <1>8, <1>9, <1>10, <1>11, <1>12,
    <1>13, <1>14, <1>15, <1>16, <1>17, <1>18, <1>19
    DEF Next, LoopNext, SessionNext

\* A session changes hands without being dropped while it is open.
LEMMA OwnedStep ==
    ASSUME TypeOK, Passes, SingleFlight, Owned, [Next]_vars
    PROVE  Owned'
<1> USE SizesPositive, NamesDistinct DEF TypeOK, Passes, SingleFlight, Running, Owned, Active
<1>1. ASSUME NEW r \in Runners, RunEventLoop(r) PROVE Owned'
  BY <1>1 DEF RunEventLoop, runReconnect
<1>2. ASSUME NEW l \in Loops, LoopTop(l) PROVE Owned'
  BY <1>2 DEF LoopTop
<1>3. ASSUME NEW l \in Loops, LoopEnds(l) PROVE Owned'
  BY <1>3 DEF LoopEnds
<1>4. ASSUME NEW l \in Loops, PassClosed(l) PROVE Owned'
  BY <1>4 DEF PassClosed
<1>5. ASSUME NEW l \in Loops, PassCount(l) PROVE Owned'
  <2>1. IsFiniteSet(ssMap')
    BY <1>5, ActiveFinite DEF PassCount
  <2>2. QED
    BY <1>5, <2>1 DEF PassCount
<1>6. ASSUME NEW l \in Loops, Dial(l) PROVE Owned'
  BY <1>6 DEF Dial
<1>7. ASSUME NEW l \in Loops, Dialed(l) PROVE Owned'
  BY <1>7 DEF Dialed
<1>8. ASSUME NEW l \in Loops, Callback(l) PROVE Owned'
  BY <1>8 DEF Callback
<1>9. ASSUME NEW l \in Loops, Admit(l) PROVE Owned'
  <2>1. IsFiniteSet(ssMap')
    <3>1. ssMap' \in {ssMap, Active(ssMap), Active(ssMap) \cup {cur[l]}}
      BY <1>9 DEF Admit
    <3>2. IsFiniteSet(Active(ssMap))
      BY ActiveFinite
    <3> HIDE DEF Active
    <3>3. IsFiniteSet(Active(ssMap) \cup {cur[l]})
      BY <3>2, FS_AddElement
    <3>4. QED
      BY <3>1, <3>2, <3>3
  <2>2. QED
    BY <1>9, <2>1 DEF Admit
<1>10. ASSUME NEW l \in Loops, Reject(l) PROVE Owned'
  BY <1>10 DEF Reject
<1>11. ASSUME NEW l \in Loops, Failed(l) PROVE Owned'
  <2>1. IsFiniteSet(ssMap')
    BY <1>11, ActiveFinite DEF Failed
  <2>2. QED
    BY <1>11, <2>1 DEF Failed
<1>12. ASSUME NEW l \in Loops, Backoff(l) PROVE Owned'
  BY <1>12 DEF Backoff
<1>13. ASSUME NEW s \in Slots, SessionDies(s) PROVE Owned'
  BY <1>13 DEF SessionDies
<1>14. ASSUME NEW s \in Slots, SessionEOF(s) PROVE Owned'
  BY <1>14 DEF SessionEOF
<1>15. ASSUME NEW s \in Slots, SessionStopped(s) PROVE Owned'
  BY <1>15 DEF SessionStopped, runReconnect
<1>16. ASSUME NEW s \in Slots, StopDetach(s) PROVE Owned'
  BY <1>16 DEF StopDetach
<1>17. ASSUME NEW s \in Slots, StopClose(s) PROVE Owned'
  BY <1>17 DEF StopClose
<1>18. CASE Stop
  <2>1. IsFiniteSet(ssMap')
    BY <1>18, FS_EmptySet DEF Stop
  <2>2. QED
    BY <1>18, <2>1 DEF Stop
<1>19. CASE UNCHANGED vars
  BY <1>19 DEF vars
<1>20. QED
  BY <1>1, <1>2, <1>3, <1>4, <1>5, <1>6, <1>7, <1>8, <1>9, <1>10, <1>11, <1>12,
    <1>13, <1>14, <1>15, <1>16, <1>17, <1>18, <1>19
    DEF Next, LoopNext, SessionNext

\* A trigger stays pending until a pass has looked at the pool.
LEMMA ServedStep ==
    ASSUME TypeOK, Passes, SingleFlight, Owned, Served, [Next]_vars
    PROVE  Served'
<1> USE SizesPositive, NamesDistinct DEF TypeOK, Passes, SingleFlight, Running, Owned, Served, Full, Triggers, InPass, Active
<1>1. ASSUME NEW r \in Runners, RunEventLoop(r) PROVE Served'
  BY <1>1 DEF RunEventLoop, runReconnect
<1>2. ASSUME NEW l \in Loops, LoopTop(l) PROVE Served'
  BY <1>2 DEF LoopTop
<1>3. ASSUME NEW l \in Loops, LoopEnds(l) PROVE Served'
  BY <1>3 DEF LoopEnds
<1>4. ASSUME NEW l \in Loops, PassClosed(l) PROVE Served'
  BY <1>4 DEF PassClosed
<1>5. ASSUME NEW l \in Loops, PassCount(l) PROVE Served'
  <2>1. Active(ssMap)' = Active(ssMap)
    BY <1>5 DEF PassCount
  <2>2. Full' = Full
    BY <2>1 DEF HasRoom
  <2>3. Full \/ pc'[l] = "dial"
    BY <1>5 DEF PassCount
  <2>4. ~done => \A s \in ssMap' : state'[s] = "open" => attr'[s] = "client"
    BY <1>5 DEF PassCount
  <2>5. /\ pc' \in {[pc EXCEPT ![l] = "dial"], [pc EXCEPT ![l] = "top"]}
        /\ ssMap' \subseteq ssMap
        /\ UNCHANGED <<cur, done, waits, reconnectDone, reconnectPending, state, attr, excuse>>
    BY <1>5 DEF PassCount
  <2> HIDE DEF Full, Triggers
  <2>6. QED
    BY <2>2, <2>3, <2>4, <2>5
<1>6. ASSUME NEW l \in Loops, Dial(l) PROVE Served'
  BY <1>6 DEF Dial
<1>7. ASSUME NEW l \in Loops, Dialed(l) PROVE Served'
  BY <1>7 DEF Dialed
<1>8. ASSUME NEW l \in Loops, Callback(l) PROVE Served'
  BY <1>8 DEF Callback
<1>9. ASSUME NEW l \in Loops, Admit(l) PROVE Served'
  <2>1. pc'[l] \notin {"idle", "top", "ending"}
    BY <1>9 DEF Admit
  <2>2. ~done => \A s \in ssMap' : state'[s] = "open" => attr'[s] = "client"
    BY <1>9 DEF Admit
  <2> HIDE DEF Full, Triggers
  <2>3. QED
    BY <1>9, <2>1, <2>2 DEF Admit
<1>10. ASSUME NEW l \in Loops, Reject(l) PROVE Served'
  BY <1>10 DEF Reject
<1>11. ASSUME NEW l \in Loops, Failed(l) PROVE Served'
  <2>1. ~done => Active(ssMap)' = Active(ssMap)
    BY <1>11 DEF Failed
  <2>2. ~done => Full' = Full
    BY <2>1 DEF HasRoom
  <2>3. ASSUME ~done, ~Full, pc'[l] = "top" PROVE excuse'
    <3>1. attempts[l] + 1 >= MaxAttempts
      BY <1>11, <2>3 DEF Failed
    <3>2. QED
      BY <1>11, <2>3, <3>1, Zenon DEF Failed, Full
  <2>4. ~done => \A s \in ssMap' : state'[s] = "open" => attr'[s] = "client"
    BY <1>11 DEF Failed
  <2>5. /\ pc' \in {[pc EXCEPT ![l] = "top"], [pc EXCEPT ![l] = "backoff"]}
        /\ ssMap' \subseteq ssMap
        /\ UNCHANGED <<cur, done, waits, reconnectDone, reconnectPending, state, attr>>
    BY <1>11 DEF Failed
  <2> HIDE DEF Full, Triggers
  <2>6. QED
    BY <2>2, <2>3, <2>4, <2>5
<1>12. ASSUME NEW l \in Loops, Backoff(l) PROVE Served'
  BY <1>12 DEF Backoff
<1>13. ASSUME NEW s \in Slots, SessionDies(s) PROVE Served'
  BY <1>13 DEF SessionDies
<1>14. ASSUME NEW s \in Slots, SessionEOF(s) PROVE Served'
  BY <1>14 DEF SessionEOF
<1>15. ASSUME NEW s \in Slots, SessionStopped(s) PROVE Served'
  <2>1. /\ state' = [state EXCEPT ![s] = "gone"] /\ state[s] = "dying"
        /\ UNCHANGED <<cur, waits, ssMap, done, attr, excuse>>
    BY <1>15 DEF SessionStopped
  <2>2. CASE attr[s] = "client"
    <3>1. /\ done => UNCHANGED <<pc, reconnectDone, reconnectPending>>
          /\ ~done => reconnectPending' /\ reconnectDone' # "nil"
          /\ \/ pc' = pc
             \/ \E l \in Loops : pc' = [pc EXCEPT ![l] = "top"]
      BY <1>15, <2>2 DEF SessionStopped, runReconnect
    <3>2. QED
      BY <2>1, <3>1
  <2>3. CASE attr[s] # "client"
    <3>1. UNCHANGED <<pc, reconnectDone, reconnectPending>>
      BY <1>15, <2>3 DEF SessionStopped
    <3>2. Active(ssMap)' = Active(ssMap)
      BY <2>1
    <3>3. Full' = Full
      BY <3>2 DEF HasRoom
    <3>4. Triggers' = Triggers
      BY <2>1, <2>3
    <3> HIDE DEF Full, Triggers
    <3>5. QED
      BY <2>1, <3>1, <3>3, <3>4
  <2>4. QED
    BY <2>2, <2>3
<1>16. ASSUME NEW s \in Slots, StopDetach(s) PROVE Served'
  BY <1>16 DEF StopDetach
<1>17. ASSUME NEW s \in Slots, StopClose(s) PROVE Served'
  BY <1>17 DEF StopClose
<1>18. CASE Stop
  BY <1>18 DEF Stop
<1>19. CASE UNCHANGED vars
  BY <1>19 DEF vars
<1>20. QED
  BY <1>1, <1>2, <1>3, <1>4, <1>5, <1>6, <1>7, <1>8, <1>9, <1>10, <1>11, <1>12,
    <1>13, <1>14, <1>15, <1>16, <1>17, <1>18, <1>19
    DEF Next, LoopNext, SessionNext

\* Only Admit makes the pool grow, by one session and only when it has room.
LEMMA BoundedStep ==
    ASSUME Owned, PoolBounded, [Next]_vars
    PROVE  PoolBounded'
<1> USE SizesPositive DEF PoolBounded, Owned
<1>1. ssMap' \in {ssMap, {}, Active(ssMap)}
      \/ \E s : HasRoom(Active(ssMap)) /\ ssMap' = Active(ssMap) \cup {s}
  BY DEF Next, vars, RunEventLoop, LoopNext, LoopTop, LoopEnds, PassClosed, PassCount, Dial,
     Dialed, Callback, Admit, Reject, Failed, Backoff, SessionNext, SessionDies, SessionEOF,
     SessionStopped, Stop, StopDetach, StopClose
<1>2. CASE ssMap' = ssMap
  BY <1>2
<1>3. CASE ssMap' = {}
  BY <1>3, FS_EmptySet
<1>4. CASE ssMap' = Active(ssMap)
  BY <1>4, ActiveFinite, FS_CardinalityType
<1>5. ASSUME NEW s, HasRoom(Active(ssMap)), ssMap' = Active(ssMap) \cup {s}
      PROVE  PoolBounded'
  <2> DEFINE A == Active(ssMap)
  <2>1. IsFiniteSet(A)
    BY ActiveFinite
  <2>2. Cardinality(A) < Number
    BY <1>5 DEF HasRoom
  <2> HIDE DEF A
  <2>3. Cardinality(A) \in Nat
    BY <2>1, FS_CardinalityType
  <2>4. Cardinality(A \cup {s}) = IF s \in A THEN Cardinality(A) ELSE Cardinality(A) + 1
    BY <2>1, FS_AddElement
  <2>5. Cardinality(A \cup {s}) <= Number
    BY <2>2, <2>3, <2>4
  <2>6. QED
    BY <1>5, <2>5 DEF A
<1>6. QED
  BY <1>1, <1>2, <1>3, <1>4, <1>5

\* A new client satisfies the invariant.
LEMMA InvInit == Init => Inv
<1> SUFFICES ASSUME Init PROVE Inv
  OBVIOUS
<1> USE SizesPositive, NamesDistinct DEF Init
<1>1. TypeOK /\ Passes
  <2>1. reconnectPending \in BOOLEAN /\ done \in BOOLEAN /\ excuse \in BOOLEAN
    OBVIOUS
  <2>2. QED
    BY <2>1 DEF TypeOK, Passes
<1>2. SingleFlight
  BY DEF SingleFlight, Running
<1>3. PoolBounded
  BY FS_EmptySet DEF PoolBounded
<1>4. Owned
  BY FS_EmptySet DEF Owned
<1>5. Served
  BY DEF Served
<1>6. QED
  BY <1>1, <1>2, <1>3, <1>4, <1>5 DEF Inv

\* Every step preserves it.
LEMMA InvStep == Inv /\ [Next]_vars => Inv'
  BY TypesStep, SingleFlightStep, OwnedStep, ServedStep, BoundedStep DEF Inv

\* So every reachable state satisfies it.
LEMMA InvAlways == Spec => []Inv
  BY InvInit, InvStep, PTL DEF Spec

\* A pass of reConnect never counts past maxReconnectAttempts, and every field
\* of the pool stays in its range.
THEOREM PoolTyped == Spec => []TypeOK
<1>1. Inv => TypeOK
  BY DEF Inv
<1>2. QED
  BY <1>1, InvAlways, PTL

\* runReconnect is single-flight for any number of triggers.
THEOREM PoolSingleFlight == Spec => []SingleFlight
<1>1. Inv => SingleFlight
  BY DEF Inv
<1>2. QED
  BY <1>1, InvAlways, PTL

\* connect() never fills the pool past WithConnectionNumber.
THEOREM PoolIsBounded == Spec => []PoolBounded
<1>1. Inv => PoolBounded
  BY DEF Inv
<1>2. QED
  BY <1>1, InvAlways, PTL

\* Close leaves no open session behind, whatever was being connected.
THEOREM PoolNoLeakedSession == Spec => []NoLeakedSession
<1>1. Inv => NoLeakedSession
  BY DEF Inv, Owned, NoLeakedSession, Running
<1>2. QED
  BY <1>1, InvAlways, PTL

\* No reconnect trigger is lost between a loop that ends and a session that
\* stops.
THEOREM PoolIdleIsFull == Spec => []IdlePoolIsFull
<1>1. Inv => IdlePoolIsFull
  BY NamesDistinct DEF Inv, TypeOK, SingleFlight, Running, Served, Full, Triggers, InPass,
     IdlePoolIsFull
<1>2. QED
  BY <1>1, InvAlways, PTL

=============================================================================
