------------------------------- MODULE EchoNet -------------------------------
(***************************************************************************)
(* The connections between the echo programs and what transport does with  *)
(* them on either side: the byte streams, the read loop with its decoder,  *)
(* the tasks that call OnMessage, and the end of a session.  Each is the   *)
(* outcome of what Session, StreamReceive and PacketWrites model in full.  *)
(***************************************************************************)
EXTENDS EchoPackage, FiniteSets

CONSTANT Conns   \* connections, each made at most once

Sides == {"client", "server"}
Other(s) == IF s = "client" THEN "server" ELSE "client"

VARIABLES
    st,      \* the session of each side: "none", "backlog" (server: not yet
             \* accepted), "opening" (in OnOpen), "open", "closing" (stopped),
             \* "failing" (it could not decode) or "reset" (its read failed),
             \* both before OnError, "ending" (before OnClose), "closed"
    stream,  \* units on their way to a side
    inbuf,   \* units it has read and not decoded
    tasks,   \* packages decoded, whose OnMessage has not run
    got,     \* packages the client decoded
    torn     \* a write of the side was cut short

netVars == <<st, stream, inbuf, tasks, got, torn>>

NetInit ==
    /\ st = [s \in Sides |-> [c \in Conns |-> "none"]]
    /\ stream = [s \in Sides |-> [c \in Conns |-> <<>>]]
    /\ inbuf = [s \in Sides |-> [c \in Conns |-> <<>>]]
    /\ tasks = [s \in Sides |-> [c \in Conns |-> {}]]
    /\ got = [c \in Conns |-> <<>>]
    /\ torn = [s \in Sides |-> [c \in Conns |-> FALSE]]

SetState(s, c, l) == st' = [st EXCEPT ![s][c] = l]
IsClosed(s, c) == st[s][c] # "open"

\* The whole of a package, or what a write that fails gets rid of.
Written(s, p, ok) ==
    LET bytes == IF s = "client" THEN Write(p) ELSE ServerWrite(p)
    IN IF ok THEN {bytes} ELSE {<<>>, SubSeq(bytes, 1, HeaderLen)}

\* session.WritePkg of side s: ok says whether it succeeds, sent what goes out.
\* On a closed session it fails without sending.
WritePkg(s, c, p, ok, sent) ==
    /\ ok => ~IsClosed(s, c)
    /\ IF IsClosed(s, c) THEN sent = <<>> ELSE sent \in Written(s, p, ok)
    /\ stream' = [stream EXCEPT ![Other(s)][c] =
                    IF st[Other(s)][c] = "closed" THEN @ ELSE @ \o sent]
    /\ torn' = [torn EXCEPT ![s][c] = @ \/ (~ok /\ sent # <<>>)]

\* Before OnError.
Failed(s, c) == st[s][c] \in {"failing", "reset"}

\* session.Close: stop() closes the session, its reader will notice.
Stopped(s, c) == IF st[s][c] = "open" THEN "closing" ELSE st[s][c]

\* The decode loop of handleTCPPackage on the bytes side s has.
Decode(s, buf) ==
    LET from[i \in 1 .. Len(buf) + 1] ==
          LET left == SubSeq(buf, i, Len(buf))
              r == IF s = "client" THEN Read(left) ELSE ServerRead(left)
          IN IF i > Len(buf) \/ r.err # "none" \/ r.len = 0
             THEN [pkgs |-> <<>>, rest |-> left,
                   err |-> i <= Len(buf) /\ r.err # "none"]
             ELSE LET d == from[i + r.len]
                  IN [d EXCEPT !.pkgs = <<r.pkg>> \o @]
    IN from[1]

\* The read loop: some of the bytes that arrived are read, the packages they
\* complete become tasks.
Receive(s, c) ==
    /\ st[s][c] = "open"
    /\ \E k \in 1 .. Len(stream[s][c]) :
          LET d == Decode(s, inbuf[s][c] \o SubSeq(stream[s][c], 1, k))
          IN /\ stream' = [stream EXCEPT ![s][c] = SubSeq(@, k + 1, Len(@))]
             /\ inbuf' = [inbuf EXCEPT ![s][c] = d.rest]
             /\ tasks' = [tasks EXCEPT ![s][c] = @ \cup ToSet(d.pkgs)]
             /\ got' = IF s = "client" THEN [got EXCEPT ![c] = @ \o d.pkgs] ELSE got
             /\ SetState(s, c, IF d.err THEN "failing" ELSE "open")
    /\ UNCHANGED torn

\* The read loop ends: the session was closed; the peer closed the connection
\* and everything it sent was read; or the peer's close reset the connection.
ReadEnds(s, c) ==
    /\ \/ st[s][c] = "closing" /\ SetState(s, c, "ending")
       \/ /\ st[s][c] = "open" /\ st[Other(s)][c] = "closed" /\ stream[s][c] = <<>>
          /\ SetState(s, c, "ending")
       \/ /\ st[s][c] = "open" /\ st[Other(s)][c] = "closed"
          /\ SetState(s, c, "reset")
    /\ UNCHANGED <<stream, inbuf, tasks, got, torn>>

\* addTask: the task of a session that was closed meanwhile does not call
\* OnMessage.
DropTask(s, c) ==
    /\ IsClosed(s, c)
    /\ \E p \in tasks[s][c] : tasks' = [tasks EXCEPT ![s][c] = @ \ {p}]
    /\ UNCHANGED <<st, stream, inbuf, got, torn>>

\* The end of a session on side s: gc() frees its buffer and closes the socket,
\* which discards what was not read.
Gone(s, c) ==
    /\ SetState(s, c, "closed")
    /\ stream' = [stream EXCEPT ![s][c] = <<>>]
    /\ inbuf' = [inbuf EXCEPT ![s][c] = <<>>]

\* The program behind side s of the connections cs ends.
Exit(s, cs) ==
    /\ st' = [st EXCEPT ![s] = [c \in Conns |-> IF c \in cs THEN "closed" ELSE @[c]]]
    /\ stream' = [stream EXCEPT ![s] = [c \in Conns |-> IF c \in cs THEN <<>> ELSE @[c]]]
    /\ inbuf' = [inbuf EXCEPT ![s] = [c \in Conns |-> IF c \in cs THEN <<>> ELSE @[c]]]
    /\ tasks' = [tasks EXCEPT ![s] = [c \in Conns |-> IF c \in cs THEN {} ELSE @[c]]]
    /\ UNCHANGED <<got, torn>>

=============================================================================
