----------------------------- MODULE EchoClient -----------------------------
(***************************************************************************)
(* The client programs of the tcp echo example: EchoClient's list of       *)
(* sessions, the event handler that maintains it, the heartbeat, the echo  *)
(* loop and the exit of the program.                                       *)
(***************************************************************************)
EXTENDS EchoNet

CONSTANTS
    Clients,      \* client programs
    ClientOf,     \* the program that makes a connection
    EchoStrings,  \* possible lengths of conf.EchoString
    MaxRequests   \* bound: packages each program writes

HeartbeatString == 1   \* the length of echoHeartbeatRequestString, scaled

ASSUME ClientParameters ==
    /\ ClientOf \in [Conns -> Clients]
    /\ EchoStrings \subseteq Nat
    /\ MaxRequests \in [Clients -> Nat]
    /\ HeartbeatString <= MaxEchoStringLen

VARIABLES
    echoString,  \* the length of conf.EchoString
    alive,     \* the program runs
    sessions,  \* EchoClient.sessions, without their order and reqNum
    writes,    \* writes under way: who writes which package, where, and what next
    reqID,     \* the counter behind H.Sequence
    asked      \* packages written on each connection

clientVars == <<echoString, alive, sessions, writes, reqID, asked>>

ClientInit ==
    /\ echoString \in EchoStrings
    /\ alive = [cl \in Clients |-> TRUE]
    /\ sessions = [cl \in Clients |-> {}]
    /\ writes = {}
    /\ reqID = [cl \in Clients |-> 0]
    /\ asked = [c \in Conns |-> {}]

\* getClientEchoSession finds the session.
Listed(c) == c \in sessions[ClientOf[c]]

\* isAvailable and selectSession: any session of the list may be picked.
selectSession(cl) == sessions[cl]

addSession(c) == sessions' = [sessions EXCEPT ![ClientOf[c]] = @ \cup {c}]
removeSession(c) == sessions' = [sessions EXCEPT ![ClientOf[c]] = @ \ {c}]

-----------------------------------------------------------------------------
\* The pool makes a connection; newSession configures the session and OnOpen
\* adds it to the list.  The server has yet to accept it.
ClientOnOpen(c) ==
    /\ alive[ClientOf[c]]
    /\ st["client"][c] = "none"
    /\ st' = [st EXCEPT !["client"][c] = "open", !["server"][c] = "backlog"]
    /\ addSession(c)
    /\ UNCHANGED <<stream, inbuf, tasks, got, torn, echoString, alive, writes, reqID, asked>>

\* reqID is incremented for a package that is to be written to session c.
Request(by, c, command, n) ==
    LET cl == ClientOf[c]
        p == NewPackage(command, reqID[cl] + 1, n)
    IN /\ reqID[cl] < MaxRequests[cl]
       /\ reqID' = [reqID EXCEPT ![cl] = @ + 1]
       /\ writes' = writes \cup {[by |-> by, c |-> c, p |-> p, next |-> "write"]}
       /\ UNCHANGED <<netVars, echoString, alive, sessions, asked>>

Goes(w, next) ==
    writes' = (writes \ {w}) \cup IF next = "return" THEN {} ELSE {[w EXCEPT !.next = next]}

\* WritePkg, which may find the session closed or dropped since it was chosen.
RequestWrite(w) ==
    /\ w.next = "write"
    /\ \E ok \in BOOLEAN : \E sent \in {<<>>} \cup Written("client", w.p, ok) :
          /\ WritePkg("client", w.c, w.p, ok, sent)
          /\ asked' = [asked EXCEPT ![w.c] = IF sent = <<>> THEN @ ELSE @ \cup {w.p}]
          /\ Goes(w, IF ok THEN "return" ELSE "close")
    /\ UNCHANGED <<st, inbuf, tasks, got, echoString, alive, sessions, reqID>>

\* Mutant: the session is only removed.
GiveUpKeeps(w) ==
    /\ w.next = "close"
    /\ Goes(w, "return")
    /\ removeSession(w.c)
    /\ UNCHANGED <<netVars, echoString, alive, reqID, asked>>

\* When it fails session.Close() is called, others may still write before it is,
\* and then removeSession().
GiveUp(w) ==
    /\ \/ /\ w.next = "close" /\ Goes(w, "remove")
          /\ SetState("client", w.c, Stopped("client", w.c))
          /\ UNCHANGED sessions
       \/ /\ w.next = "remove" /\ Goes(w, "return")
          /\ removeSession(w.c)
          /\ UNCHANGED st
    /\ UNCHANGED <<stream, inbuf, tasks, got, torn, echoString, alive, reqID, asked>>

\* echo(), called in a loop by test(); without a session the package it numbered
\* is not written.
echo(cl) ==
    /\ alive[cl]
    /\ \A w \in writes : w.by # "echo" \/ ClientOf[w.c] # cl
    /\ \/ \E c \in selectSession(cl) : Request("echo", c, "echo", echoString)
       \/ /\ selectSession(cl) = {} /\ reqID[cl] < MaxRequests[cl]
          /\ reqID' = [reqID EXCEPT ![cl] = @ + 1]
          /\ UNCHANGED <<netVars, echoString, alive, sessions, writes, asked>>

\* OnCron, which the task pool may run beside itself: a session that is not
\* listed is left alone, one without traffic is dropped from the list but not
\* closed, any other sends a heartbeat.  The client's clock is left open: any
\* session may have had no traffic.
ClientOnCron(c) ==
    /\ alive[ClientOf[c]]
    /\ st["client"][c] = "open" /\ Listed(c)
    /\ \/ /\ removeSession(c)
          /\ UNCHANGED <<netVars, echoString, alive, writes, reqID, asked>>
       \/ Request("cron", c, "heartbeat", HeartbeatString)

\* OnMessage runs in a task; updateSession only counts the reply.
ClientOnMessage(c) ==
    /\ alive[ClientOf[c]]
    /\ \E p \in tasks["client"][c] : tasks' = [tasks EXCEPT !["client"][c] = @ \ {p}]
    /\ UNCHANGED <<st, stream, inbuf, got, torn, clientVars>>

\* OnError
ClientOnError(c) ==
    /\ Failed("client", c)
    /\ SetState("client", c, "ending")
    /\ removeSession(c)
    /\ UNCHANGED <<stream, inbuf, tasks, got, torn, echoString, alive, writes, reqID, asked>>

\* Mutant: OnClose leaves the session in the list.
ClientOnCloseKeeps(c) ==
    /\ st["client"][c] = "ending"
    /\ Gone("client", c)
    /\ UNCHANGED <<tasks, got, torn, clientVars>>

\* OnClose; the transport then closes the connection.
ClientOnClose(c) ==
    /\ st["client"][c] = "ending"
    /\ Gone("client", c)
    /\ removeSession(c)
    /\ UNCHANGED <<tasks, got, torn, echoString, alive, writes, reqID, asked>>

\* close(): gettyClient and every session of the list are closed, the list is
\* emptied.
close(cl) ==
    /\ alive' = [alive EXCEPT ![cl] = FALSE]
    /\ sessions' = [sessions EXCEPT ![cl] = {}]

\* A signal ends the program: after close() main returns and the system closes
\* what is still open.
uninitClient(cl) ==
    /\ alive[cl]
    /\ close(cl)
    /\ Exit("client", {c \in Conns : ClientOf[c] = cl})
    /\ writes' = {w \in writes : ClientOf[w.c] # cl}
    /\ UNCHANGED <<echoString, reqID, asked>>

ClientStep(c) ==
    \/ (Receive("client", c) \/ ReadEnds("client", c) \/ DropTask("client", c))
       /\ alive[ClientOf[c]] /\ UNCHANGED clientVars
    \/ ClientOnMessage(c) \/ ClientOnError(c) \/ ClientOnClose(c)
    \/ \E w \in writes : w.c = c /\ (RequestWrite(w) \/ GiveUp(w))

ClientNext ==
    \/ \E c \in Conns : ClientOnCron(c) \/ ClientStep(c)
    \/ \E cl \in Clients : echo(cl) \/ uninitClient(cl)

=============================================================================
