----------------------------- MODULE EchoServer -----------------------------
(***************************************************************************)
(* The server program of the tcp echo example: one listener per port, all  *)
(* of them sharing one EchoMessageHandler with its map of sessions.        *)
(***************************************************************************)
EXTENDS EchoNet

CONSTANTS
    Ports,         \* conf.Ports, one listener and accept loop each
    Routes,        \* the connections that are made, with the port of each
    SessionNumber  \* conf.SessionNumber

ASSUME ServerParameters ==
    /\ Routes \subseteq UNION {[cs -> Ports] : cs \in SUBSET Conns}
    /\ SessionNumber \in Nat

VARIABLES
    portOf,      \* the port a connection is made to
    up,          \* the program runs
    accepting,   \* the session whose OnOpen an accept loop is in
    sessionMap   \* EchoMessageHandler.sessionMap: the sessions, without reqNum

serverVars == <<portOf, up, accepting, sessionMap>>

ServerInit ==
    /\ portOf \in Routes
    /\ up = TRUE
    /\ accepting = [p \in Ports |-> {}]
    /\ sessionMap = {}

-----------------------------------------------------------------------------
\* Every port has an accept loop of its own, which opens one session at a time.
Accepts(c) == up /\ st["server"][c] = "backlog" /\ accepting[portOf[c]] = {}

\* Mutant: one session too many is let in.
OnOpenTestOff(c) ==
    /\ Accepts(c)
    /\ IF SessionNumber < Cardinality(sessionMap)
       THEN Gone("server", c) /\ UNCHANGED accepting
       ELSE /\ SetState("server", c, "opening")
            /\ accepting' = [accepting EXCEPT ![portOf[c]] = {c}]
            /\ UNCHANGED <<stream, inbuf>>
    /\ UNCHANGED <<tasks, got, torn, portOf, up, sessionMap>>

\* run() calls OnOpen, which tests the number of sessions under the read lock.  A
\* refused session is closed.
OnOpenTest(c) ==
    /\ Accepts(c)
    /\ IF SessionNumber <= Cardinality(sessionMap)
       THEN Gone("server", c) /\ UNCHANGED accepting
       ELSE /\ SetState("server", c, "opening")
            /\ accepting' = [accepting EXCEPT ![portOf[c]] = {c}]
            /\ UNCHANGED <<stream, inbuf>>
    /\ UNCHANGED <<tasks, got, torn, portOf, up, sessionMap>>

\* Later it adds the session under the write lock, and the reader starts.
OnOpenAdd(c) ==
    /\ up /\ st["server"][c] = "opening"
    /\ SetState("server", c, "open")
    /\ accepting' = [accepting EXCEPT ![portOf[c]] = {}]
    /\ sessionMap' = sessionMap \cup {c}
    /\ UNCHANGED <<stream, inbuf, tasks, got, torn, portOf, up>>

\* The handlers of both commands write the package they were given; the response
\* HeartbeatHandler prepares is not used.
Handle(p) == p

\* OnMessage runs in a task: the handler's reply is written.  A failed write is
\* only counted.
OnMessage(c) ==
    /\ up
    /\ \E p \in tasks["server"][c], ok \in BOOLEAN :
         \E sent \in {<<>>} \cup Written("server", Handle(p), ok) :
          /\ tasks' = [tasks EXCEPT !["server"][c] = @ \ {p}]
          /\ WritePkg("server", c, Handle(p), ok, sent)
    /\ UNCHANGED <<st, inbuf, got, serverVars>>

\* Mutant: the session is only forgotten.
OnCronForget(c) ==
    /\ up /\ st["server"][c] \in {"open", "closing"}
    /\ c \in sessionMap
    /\ sessionMap' = sessionMap \ {c}
    /\ UNCHANGED <<netVars, portOf, up, accepting>>

\* OnCron removes and closes a session that had no traffic for
\* conf.sessionTimeout.  The clock is left open: a package restarts it, so this may
\* be at any moment.  It is one step although the test and the removal lock the map
\* separately: a session is added once, so removing it later is the same or nothing.
OnCron(c) ==
    /\ up /\ st["server"][c] \in {"open", "closing"}
    /\ c \in sessionMap
    /\ sessionMap' = sessionMap \ {c}
    /\ SetState("server", c, Stopped("server", c))
    /\ UNCHANGED <<stream, inbuf, tasks, got, torn, portOf, up, accepting>>

OnError(c) ==
    /\ up /\ Failed("server", c)
    /\ SetState("server", c, "ending")
    /\ sessionMap' = sessionMap \ {c}
    /\ UNCHANGED <<stream, inbuf, tasks, got, torn, portOf, up, accepting>>

\* OnClose; the transport then closes the connection.
OnClose(c) ==
    /\ up /\ st["server"][c] = "ending"
    /\ Gone("server", c)
    /\ sessionMap' = sessionMap \ {c}
    /\ UNCHANGED <<tasks, got, torn, portOf, up, accepting>>

\* A signal ends the program: the servers are closed and main returns.
uninitServer ==
    /\ up
    /\ up' = FALSE /\ UNCHANGED portOf
    /\ Exit("server", Conns)
    /\ accepting' = [p \in Ports |-> {}]
    /\ sessionMap' = {}

ServerStep(c) ==
    \/ (Receive("server", c) \/ ReadEnds("server", c) \/ DropTask("server", c))
       /\ up /\ UNCHANGED serverVars
    \/ OnOpenTest(c) \/ OnOpenAdd(c) \/ OnMessage(c) \/ OnError(c) \/ OnClose(c) \/ OnCron(c)

ServerNext == uninitServer \/ \E c \in Conns : ServerStep(c)

=============================================================================
