---------------------------- MODULE PacketWrites ----------------------------
(***************************************************************************)
(* The write calls of one session (WritePkg, WriteBytes, WriteBytesArray   *)
(* and Send of transport/session.go) down to the connection's Send         *)
(* (transport/connection.go): session.packetLock, the fragments and        *)
(* batches, the temporary write timeout of a timed WritePkg, and what the  *)
(* peer receives.                                                          *)
(*                                                                         *)
(* A call is a record of its operation and the sizes of its packages, in   *)
(* units of which MaxPacketLen make a fragment.  The wire is the sequence  *)
(* of the writes the connection accepted.  One write is atomic among       *)
(* writers; a tls connection is handed the buffers of a batch one by one   *)
(* (net.Buffers.WriteTo), any other tcp connection all of them at once.    *)
(***************************************************************************)
EXTENDS Naturals, Sequences, SequencesExt

CONSTANTS
    Writers,       \* goroutines that make one write call each
    Calls,         \* the calls they choose from
    Kinds,         \* connections considered: "tcp", "tls", "udp", "ws"
    MaxPacketLen,  \* maxPacketLen, in units
    Limit,         \* maxWriteMsgLen, in units; 0 is no limit
    Configured,    \* timeouts passed to SetWriteTimeout
    PerCall        \* timeouts passed to WritePkg

ASSUME ParametersTyped ==
    /\ MaxPacketLen \in Nat \ {0}
    /\ Limit \in Nat
    /\ Configured \cap PerCall = {}
    /\ \A c \in Calls : /\ c.op \in {"pkg", "timed", "bytes", "array", "send"}
                        /\ c.parts \in Seq(Nat)

VARIABLES
    kind,        \* the connection's type
    stopping,    \* progress of session.stop(): "no", "read", "armed", "closed"
    stopTimeout, \* the write timeout stop() read
    conn,        \* session.Connection is not nil
    pc,          \* where each call is
    call,        \* what it writes
    timeout,     \* the timeout argument of a timed WritePkg
    saved,       \* its origWriteTimeout
    sends,       \* sizes of the writes it still has to make
    count,       \* units it will report as written
    failed,      \* it will report an error
    readers,     \* packetLock: who holds it shared
    owner,       \* packetLock: who holds it exclusively
    writeLock,   \* gettyWSConn.writeLock: who holds it
    wTimeout,    \* gettyConn.wTimeout
    deadline,    \* the timeout the write deadline was armed with
    wire         \* the writes the peer receives

sessVars == <<kind, stopping, stopTimeout, conn>>
callVars == <<call, timeout, saved, sends, count, failed>>
lockVars == <<readers, owner, writeLock>>
timeVars == <<wTimeout, deadline>>
vars == <<sessVars, pc, callVars, lockVars, timeVars, wire>>

NoCall == [op |-> "none", parts |-> <<>>]
Total(c) == FoldLeft(+, 0, c.parts)
Goto(w, l) == pc' = [pc EXCEPT ![w] = l]

Init ==
    /\ kind \in Kinds
    /\ stopping = "no" /\ conn = TRUE
    /\ pc = [w \in Writers |-> "idle"]
    /\ call = [w \in Writers |-> NoCall]
    /\ timeout \in [Writers -> PerCall]
    /\ wTimeout \in Configured
    /\ deadline = wTimeout /\ stopTimeout = wTimeout
    /\ saved = [w \in Writers |-> wTimeout]
    /\ sends = [w \in Writers |-> <<>>]
    /\ count = [w \in Writers |-> 0]
    /\ failed = [w \in Writers |-> FALSE]
    /\ readers = {} /\ owner = {} /\ writeLock = {}
    /\ wire = <<>>

-----------------------------------------------------------------------------
(* What a call sends, and under which lock. *)

\* The writes WriteBytes makes of n units: whole fragments while more than a
\* fragment is left, then the rest; none for an empty package.
Fragments(n) ==
    LET whole == IF n = 0 THEN 0 ELSE (n - 1) \div MaxPacketLen
    IN [i \in 1 .. whole |-> MaxPacketLen]
         \o (IF n = 0 THEN <<>> ELSE <<n - whole * MaxPacketLen>>)

\* The call reaches the fragmenting loop of WriteBytes; a udp batch is merged
\* and gets there too.
Fragmented(c) ==
    \/ c.op = "bytes" /\ kind # "ws"
    \/ c.op = "array" /\ kind = "udp"

\* Mutant: a websocket package is fragmented like any other.
PlanFragments(c) ==
    CASE Fragmented(c) \/ c.op = "bytes" -> Fragments(Total(c))
      [] c.op = "array" /\ kind \in {"ws", "tls"} -> c.parts
      [] OTHER -> <<Total(c)>>

\* The writes a call makes.  A websocket package is one message.
Plan(c) ==
    CASE Fragmented(c) -> Fragments(Total(c))
      [] c.op = "array" /\ kind \in {"ws", "tls"} -> c.parts
      [] OTHER -> <<Total(c)>>

\* Mutant: a timed WritePkg shares the lock.
ExclusiveUntimed(c) ==
    \/ c.op = "array" /\ kind = "ws"
    \/ (c.op = "bytes" \/ Fragmented(c)) /\ Total(c) > MaxPacketLen

\* Mutant: a package that needs two fragments shares the lock.
ExclusiveLarge(c) ==
    \/ c.op = "timed"
    \/ c.op = "array" /\ kind = "ws"
    \/ (c.op = "bytes" \/ Fragmented(c)) /\ Total(c) > 2 * MaxPacketLen

\* The calls that take packetLock for writing.
Exclusive(c) ==
    \/ c.op = "timed"
    \/ c.op = "array" /\ kind = "ws"
    \/ (c.op = "bytes" \/ Fragmented(c)) /\ Total(c) > MaxPacketLen

\* The connection refuses the next write before it reaches the transport: a
\* websocket message above maxWriteMsgLen, or bytes that are no UDPContext.
Refused(w) ==
    \/ kind = "ws" /\ Limit > 0 /\ Head(sends[w]) > Limit
    \/ kind = "udp" /\ call[w].op \in {"bytes", "array"}

-----------------------------------------------------------------------------
(* One write call. *)

\* The call is made and tests IsClosed, which Send does not; WriteBytesArray
\* also reads the connection before it takes packetLock.
Call(w) ==
    /\ pc[w] = "idle"
    /\ \E c \in Calls :
          /\ stopping = "closed" => c.op = "send"
          /\ c.op = "array" => conn
          /\ call' = [call EXCEPT ![w] = c]
    /\ Goto(w, "locking")
    /\ UNCHANGED <<sessVars, timeout, saved, sends, count, failed, lockVars,
                   timeVars, wire>>

\* Mutant: the exclusive lock does not wait for the shared ones.
LockOverReaders(w) ==
    /\ pc[w] = "locking"
    /\ owner = {}
    /\ IF Exclusive(call[w])
       THEN owner' = {w} /\ UNCHANGED readers
       ELSE readers' = readers \cup {w} /\ UNCHANGED owner
    /\ sends' = [sends EXCEPT ![w] = IF conn THEN Plan(call[w]) ELSE <<>>]
    /\ failed' = [failed EXCEPT ![w] = ~conn]
    /\ Goto(w, IF conn /\ Plan(call[w]) # <<>> THEN "next" ELSE "unlock")
    /\ UNCHANGED <<sessVars, call, timeout, saved, count, writeLock, timeVars, wire>>

\* packetLock, then the connection; without one only Send reports success.
Lock(w) ==
    LET c == call[w]
        plan == Plan(c)
        attached == conn \/ (c.op = "array" /\ kind # "udp")
    IN /\ pc[w] = "locking"
       /\ owner = {}
       /\ IF Exclusive(c)
          THEN readers = {} /\ owner' = {w} /\ UNCHANGED readers
          ELSE readers' = readers \cup {w} /\ UNCHANGED owner
       /\ sends' = [sends EXCEPT ![w] = IF attached THEN plan ELSE <<>>]
       /\ failed' = [failed EXCEPT ![w] = ~attached /\ c.op # "send"]
       /\ Goto(w, CASE ~attached \/ plan = <<>> -> "unlock"
                    [] attached /\ c.op = "timed" -> "save"
                    [] OTHER -> "next")
       /\ UNCHANGED <<sessVars, call, timeout, saved, count, writeLock, timeVars, wire>>

\* A timed WritePkg keeps the connection's timeout and installs its own.
Save(w) ==
    /\ pc[w] = "save"
    /\ saved' = [saved EXCEPT ![w] = wTimeout]
    /\ Goto(w, "override")
    /\ UNCHANGED <<sessVars, call, timeout, sends, count, failed, lockVars, timeVars,
                   wire>>

Override(w) ==
    /\ pc[w] = "override"
    /\ wTimeout' = timeout[w]
    /\ Goto(w, "next")
    /\ UNCHANGED <<sessVars, callVars, lockVars, deadline, wire>>

\* Where a call goes when its writes are over.
Finish(w) == IF call[w].op = "timed" THEN "restore" ELSE "unlock"

Refuse(w) ==
    /\ pc[w] = "next" /\ Refused(w)
    /\ failed' = [failed EXCEPT ![w] = TRUE]
    /\ Goto(w, Finish(w))
    /\ UNCHANGED <<sessVars, call, timeout, saved, sends, count, lockVars, timeVars,
                   wire>>

\* The connection's Send arms the write deadline; a websocket holds writeLock
\* from here until the message is written.
Arm(w) ==
    /\ pc[w] = "next" /\ ~Refused(w)
    /\ IF kind = "ws" THEN writeLock = {} /\ writeLock' = {w} ELSE UNCHANGED writeLock
    /\ deadline' = wTimeout
    /\ Goto(w, "write")
    /\ UNCHANGED <<sessVars, callVars, readers, owner, wTimeout, wire>>

\* A write succeeds.  The buffers of a tls batch follow under one deadline.
Write(w) ==
    /\ pc[w] = "write"
    /\ wire' = Append(wire, [by |-> w, len |-> Head(sends[w])])
    /\ count' = [count EXCEPT ![w] = @ + Head(sends[w])]
    /\ sends' = [sends EXCEPT ![w] = Tail(@)]
    /\ writeLock' = writeLock \ {w}
    /\ Goto(w, CASE Len(sends[w]) = 1 -> Finish(w)
                 [] Len(sends[w]) > 1 /\ call[w].op = "array" /\ kind = "tls" -> "write"
                 [] OTHER -> "next")
    /\ UNCHANGED <<sessVars, call, timeout, saved, failed, readers, owner, timeVars>>

\* Mutant: the bytes of a failing write are not counted.
WriteFailsUncounted(w) ==
    /\ pc[w] = "write"
    /\ \E n \in 0 .. Head(sends[w]) :
          /\ kind \in {"ws", "udp"} => n = 0
          /\ wire' = IF n = 0 THEN wire ELSE Append(wire, [by |-> w, len |-> n])
    /\ failed' = [failed EXCEPT ![w] = TRUE]
    /\ writeLock' = writeLock \ {w}
    /\ Goto(w, Finish(w))
    /\ UNCHANGED <<sessVars, call, timeout, saved, sends, count, readers, owner, timeVars>>

\* A write fails: a stream may have taken a part of it, a message connection
\* has taken nothing.  The call returns what it wrote so far.
WriteFails(w) ==
    /\ pc[w] = "write"
    /\ \E n \in 0 .. Head(sends[w]) :
          /\ kind \in {"ws", "udp"} => n = 0
          /\ wire' = IF n = 0 THEN wire ELSE Append(wire, [by |-> w, len |-> n])
          /\ count' = [count EXCEPT ![w] = @ + n]
    /\ failed' = [failed EXCEPT ![w] = TRUE]
    /\ writeLock' = writeLock \ {w}
    /\ Goto(w, Finish(w))
    /\ UNCHANGED <<sessVars, call, timeout, saved, sends, readers, owner, timeVars>>

Restore(w) ==
    /\ pc[w] = "restore"
    /\ wTimeout' = saved[w]
    /\ Goto(w, "unlock")
    /\ UNCHANGED <<sessVars, callVars, lockVars, deadline, wire>>

\* Mutant: a call that failed keeps packetLock.
UnlockOnSuccess(w) ==
    /\ pc[w] = "unlock"
    /\ IF failed[w] THEN UNCHANGED <<readers, owner>>
       ELSE readers' = readers \ {w} /\ owner' = owner \ {w}
    /\ Goto(w, "returned")
    /\ UNCHANGED <<sessVars, callVars, writeLock, timeVars, wire>>

Unlock(w) ==
    /\ pc[w] = "unlock"
    /\ readers' = readers \ {w} /\ owner' = owner \ {w}
    /\ Goto(w, "returned")
    /\ UNCHANGED <<sessVars, callVars, writeLock, timeVars, wire>>

WriterNext(w) ==
    \/ Lock(w) \/ Save(w) \/ Override(w) \/ Refuse(w) \/ Arm(w) \/ Write(w)
    \/ WriteFails(w) \/ Restore(w) \/ Unlock(w)

-----------------------------------------------------------------------------
(* What else touches the timeout, the deadline and the connection. *)

SetWriteTimeout(t) ==
    /\ conn
    /\ wTimeout' = t
    /\ UNCHANGED <<sessVars, pc, callVars, lockVars, deadline, wire>>

\* A websocket ping, pong or close frame takes writeLock and not packetLock.
ControlFrame ==
    /\ kind = "ws" /\ writeLock = {}
    /\ deadline' = wTimeout
    /\ UNCHANGED <<sessVars, pc, callVars, lockVars, wTimeout, wire>>

\* stop() reads the write timeout, arms the deadline with it on the raw
\* connection and closes done.  A websocket re-arms it inside the write.
StopRead ==
    /\ stopping = "no"
    /\ stopping' = "read" /\ stopTimeout' = wTimeout
    /\ UNCHANGED <<kind, conn, pc, callVars, lockVars, timeVars, wire>>

StopArm ==
    /\ stopping = "read"
    /\ stopping' = "armed"
    /\ deadline' = IF kind = "ws" THEN deadline ELSE stopTimeout
    /\ UNCHANGED <<kind, stopTimeout, conn, pc, callVars, lockVars, wTimeout,
                   wire>>

StopClose ==
    /\ stopping = "armed"
    /\ stopping' = "closed"
    /\ UNCHANGED <<kind, stopTimeout, conn, pc, callVars, lockVars, timeVars, wire>>

GC ==
    /\ stopping = "closed" /\ conn
    /\ conn' = FALSE
    /\ UNCHANGED <<kind, stopping, stopTimeout, pc, callVars, lockVars, timeVars, wire>>

Next ==
    \/ \E w \in Writers : Call(w) \/ WriterNext(w)
    \/ \E t \in Configured : SetWriteTimeout(t)
    \/ ControlFrame \/ StopRead \/ StopArm \/ StopClose \/ GC

Spec == Init /\ [][Next]_vars

\* A call that was made goes on, since nothing but the locks can block it.
Fairness == \A w \in Writers : WF_vars(WriterNext(w))
FairSpec == Spec /\ Fairness

-----------------------------------------------------------------------------
Steps == {"idle", "locking", "save", "override", "next", "write", "restore",
          "unlock", "returned"}
Timeouts == Configured \cup PerCall

\* The variables keep their types, and packetLock its discipline: one
\* exclusive holder or any number of shared ones.
TypeOK ==
    /\ kind \in Kinds /\ conn \in BOOLEAN
    /\ stopping \in {"no", "read", "armed", "closed"}
    /\ {wTimeout, deadline, stopTimeout} \subseteq Timeouts
    /\ \A w \in Writers :
          /\ pc[w] \in Steps /\ call[w] \in Calls \cup {NoCall}
          /\ timeout[w] \in PerCall /\ saved[w] \in Timeouts
          /\ sends[w] \in Seq(Nat) /\ count[w] \in Nat /\ failed[w] \in BOOLEAN
    /\ readers \subseteq Writers
    /\ owner = {} \/ (readers = {} /\ \E w \in Writers : owner = {w})
    /\ writeLock = {} \/ \E w \in Writers : writeLock = {w}
    /\ \A i \in DOMAIN wire : wire[i].by \in Writers /\ wire[i].len \in Nat

\* The writes of w are next to each other on the wire.
Contiguous(w) ==
    \A i, k \in DOMAIN wire :
        wire[i].by = w /\ wire[k].by = w
            => \A j \in i .. k : wire[j].by = w

\* No other write lands between the fragments of one package, nor between the
\* packages of a batch on a connection that is not tls (session.go comments
\* of #128 and #131); packetLock, which sees to it, has one exclusive holder or
\* any number of shared ones.
FragmentsContiguous ==
    /\ TypeOK
    /\ \A w \in Writers : Contiguous(w) \/ (kind = "tls" /\ call[w].op = "array")

\* The sizes of the writes of w the peer has received.
Received(w) ==
    LET mine == SelectSeq(wire, LAMBDA x : x.by = w)
    IN [i \in DOMAIN mine |-> mine[i].len]

\* A websocket peer receives whole packages in their order, never a fragment,
\* and none above maxWriteMsgLen.
MessagesWhole ==
    kind = "ws" =>
        \A w \in Writers :
            /\ IsPrefix(Received(w), call[w].parts)
            /\ \A i \in DOMAIN Received(w) : Limit = 0 \/ Received(w)[i] <= Limit

\* A call reports exactly the bytes the peer will see of it, and success only
\* for all of them; Send alone reports success without a connection.
CountsHonest ==
    \A w \in Writers : pc[w] = "returned" =>
        /\ count[w] = FoldLeft(+, 0, Received(w))
        /\ \/ failed[w]
           \/ count[w] = Total(call[w])
           \/ call[w].op = "send" /\ count[w] = 0

\* A timed WritePkg has installed its timeout and not yet restored the other.
InWindow(w) == call[w].op = "timed" /\ pc[w] \in {"next", "write", "restore"}

\* A per-call timeout is in force only while its WritePkg holds packetLock
\* exclusively, and no other write runs under it until the session stops.
TimeoutContained ==
    /\ wTimeout \in PerCall => \E w \in Writers : InWindow(w) /\ owner = {w}
    /\ \A w \in Writers :
          pc[w] = "write" /\ call[w].op # "timed" /\ stopping = "no"
              => deadline \in Configured

\* Every call that was made returns: no path keeps packetLock or writeLock.
CallsReturn == \A w \in Writers : pc[w] = "locking" ~> pc[w] = "returned"
=============================================================================
