----------------------------- MODULE EchoSystem -----------------------------
(***************************************************************************)
(* The tcp echo example as a whole: client programs and one server program *)
(* that any signal may end at any time, over the connections of EchoNet.   *)
(***************************************************************************)
EXTENDS EchoClient, EchoServer

vars == <<netVars, clientVars, serverVars>>

Init == NetInit /\ ClientInit /\ ServerInit

\* A connection is made while the server listens.
Connect(c) == up /\ c \in DOMAIN portOf /\ ClientOnOpen(c) /\ UNCHANGED serverVars

Next ==
    \/ \E c \in Conns : Connect(c)
    \/ ClientNext /\ UNCHANGED serverVars
    \/ ServerNext /\ UNCHANGED clientVars

Spec == Init /\ [][Next]_vars

\* The goroutines and timers of a running program go on; nobody has to connect,
\* to ask or to end a program.
FairSpec ==
    /\ Spec
    /\ WF_vars(\E c \in Conns : ClientStep(c) /\ UNCHANGED serverVars)
    /\ WF_vars(\E c \in Conns : ServerStep(c) /\ UNCHANGED clientVars)

-----------------------------------------------------------------------------
\* As long as no write on a connection was cut short, what comes back is what
\* was asked: every package the client decodes is one it wrote there, with the
\* same header and echo string, and comes once, however the streams are cut into
\* reads and in whichever order the tasks of the server answer; the client never
\* fails to decode, and the server only on an echo string above
\* maxEchoStringLen.  A client whose write was cut short is about to close the
\* session; the server's handler keeps it, and the rest of the stream is spoilt.
EchoFaithful ==
    \A c \in Conns :
      /\ ~torn["client"][c] /\ ~torn["server"][c] =>
            /\ ToSet(got[c]) \subseteq asked[c]
            /\ IsInjective(got[c])
            /\ st["client"][c] # "failing"
            /\ st["server"][c] = "failing" => \E p \in asked[c] : p.B > MaxEchoStringLen
      /\ torn["client"][c] /\ st["client"][c] = "open" =>
            \E w \in writes : w.c = c /\ w.next = "close"

\* The test of OnOpen is not atomic with the insertion, and the listeners share
\* the map: together they can exceed conf.SessionNumber, by no more than one
\* session for each of them but one.  One listener alone never does.
SessionLimit ==
    /\ Cardinality(sessionMap) <= SessionNumber + Cardinality(Ports) - 1
    /\ \A p \in Ports :
         Cardinality({c \in sessionMap : portOf[c] = p}) <= SessionNumber

\* Sessions a running client no longer lists and has not closed.
Dropped == {c \in Conns : st["client"][c] = "open" /\ ~Listed(c)}

\* A session the client drops because it has no traffic is not closed by the
\* client.  It does not linger: without heartbeats the server's OnCron closes it,
\* and the end of the connection reaches the client.
DroppedEnds == Dropped # {} ~> Dropped = {}

ClientsEnded == \A cl \in Clients : ~alive[cl]

\* A program that ends is forgotten by the other side: when the clients have
\* ended the server's map becomes empty, and when the server has ended the
\* clients' lists do, through OnError, OnClose and OnCron alone.
EndsForgotten ==
    ~up \/ ClientsEnded ~> /\ ~up => \A cl \in Clients : sessions[cl] = {}
                           /\ ClientsEnded => sessionMap = {}

=============================================================================
