--------------------------- MODULE MessageReceive ---------------------------
(***************************************************************************)
(* handleUDPPackage and handleWSPackage (transport/session.go): the loops  *)
(* that receive one message at a time, with udpReadBufferSize and the      *)
(* websocket read limit of threadSafeReadMessage (connection.go).          *)
(*                                                                         *)
(* A message has a length and a form: what the Reader makes of it, or the  *)
(* connect ping a udp client sends.  A datagram that does not fit the read *)
(* buffer is truncated, and the Reader may then return anything.           *)
(***************************************************************************)
EXTENDS Naturals, FiniteSets, Sequences

CONSTANTS
    Kinds,          \* connections considered: "udp", "ws"
    Messages,       \* what a peer may send
    MaxMessages,    \* bound on the number of messages received
    MaxReadBufLen,  \* maxReadBufLen
    MaxUDPBuf,      \* maxUDPReadBufferSize, and no datagram is longer
    Limits          \* values of maxMsgLen; 0 is no limit

Forms == {"good", "bad", "none", "header", "ping"}

ASSUME ParametersTyped ==
    /\ Kinds \subseteq {"udp", "ws"}
    /\ {MaxMessages, MaxReadBufLen, MaxUDPBuf} \subseteq Nat
    /\ Limits \subseteq Nat
    /\ \A m \in Messages : m.len \in 0 .. MaxUDPBuf /\ m.form \in Forms

VARIABLES
    kind,       \* the connection's type
    pc,         \* where the loop is
    buffer,     \* size of the udp read buffer
    msg,        \* the message in hand
    snapshot,   \* the maxMsgLen a websocket pass, or a udp length check, has read
    limit,      \* session.maxMsgLen
    raised,     \* maxMsgLen has been raised since the loop began
    lifted,     \* it was set to no limit in the middle of a udp length check
    received,   \* the messages received
    delivered,  \* those handed to addTask, by their index, with what was read
    err,        \* the err of the loop
    failure,    \* a read failed
    closed      \* session.IsClosed()

limVars == <<limit, raised, lifted, buffer>>
msgVars == <<received, delivered>>
endVars == <<err, failure>>
vars == <<kind, pc, msg, snapshot, limVars, msgVars, endVars, closed>>

NoMessage == [len |-> 0, form |-> "none"]
Least(S) == CHOOSE n \in S : \A m \in S : n <= m

\* n is within the limit max, where 0 is no limit.
Within(n, max) == max = 0 \/ n <= max

\* Mutant: the buffer holds exactly the largest legal datagram.
udpReadBufferExact(max) ==
    IF max = 0 THEN MaxUDPBuf ELSE Least({max, MaxUDPBuf})

\* The read buffer has room for more than the largest legal datagram, so that
\* a longer one shows.
udpReadBufferSize(max) ==
    IF max = 0 THEN MaxUDPBuf
    ELSE Least({max + MaxReadBufLen, 2 * max, MaxUDPBuf})

Init ==
    /\ kind \in Kinds
    /\ pc = "check"
    /\ limit \in Limits /\ raised = FALSE /\ lifted = FALSE /\ snapshot = 0
    /\ buffer = udpReadBufferSize(limit)
    /\ msg = NoMessage /\ received = <<>> /\ delivered = <<>>
    /\ err = "nil" /\ failure = FALSE
    /\ closed = FALSE

-----------------------------------------------------------------------------
(* The loop.  A websocket pass reads maxMsgLen once, before it receives; a   *)
(* websocket loop that has seen the session closed returns nil, the udp loop *)
(* the error of its last pass.                                               *)

\* Mutant: the websocket loop returns the error of its last pass.
CheckKeepsError ==
    /\ pc = "check"
    /\ pc' = IF closed THEN "ended" ELSE "recv"
    /\ snapshot' = limit
    /\ UNCHANGED <<kind, msg, limVars, msgVars, endVars, closed>>

Check ==
    /\ pc = "check"
    /\ pc' = IF closed THEN "ended" ELSE "recv"
    /\ err' = IF closed /\ kind = "ws" THEN "nil" ELSE err
    /\ snapshot' = limit
    /\ UNCHANGED <<kind, msg, limVars, msgVars, failure, closed>>

Timeout ==
    /\ pc = "recv"
    /\ err' = "timeout"
    /\ pc' = "check"
    /\ UNCHANGED <<kind, msg, snapshot, limVars, msgVars, failure, closed>>

ReadFails ==
    /\ pc = "recv"
    /\ err' = "read" /\ failure' = TRUE
    /\ pc' = "ended"
    /\ UNCHANGED <<kind, msg, snapshot, limVars, msgVars, closed>>

\* A udp read skips an empty datagram and the connect ping.  A websocket
\* message above the limit fails the read.
Receive(m) ==
    LET skipped == kind = "udp" /\ (m.len = 0 \/ m.form = "ping")
        refused == kind = "ws" /\ ~Within(m.len, snapshot)
    IN /\ pc = "recv" /\ Len(received) < MaxMessages
       /\ kind = "ws" => m.form # "ping"
       /\ received' = Append(received, m)
       /\ msg' = m
       /\ err' = IF refused THEN "read" ELSE "nil"
       /\ failure' = (failure \/ refused)
       /\ pc' = CASE refused -> "ended" [] skipped -> "check" [] OTHER -> "decode"
       /\ UNCHANGED <<kind, snapshot, limVars, delivered, closed>>

\* The bytes of the message that were read, and whether some are missing.
BufLen == IF kind = "udp" THEN Least({msg.len, buffer}) ELSE msg.len
Truncated == BufLen < msg.len

\* The results the Reader may return: an error, no package with or without
\* its length (of a message, the bytes read), or a package.
Result(f) ==
    CASE f = "bad" -> [err |-> TRUE, pkg |-> FALSE, len |-> 0]
      [] f = "none" -> [err |-> FALSE, pkg |-> FALSE, len |-> 0]
      [] f = "header" -> [err |-> FALSE, pkg |-> FALSE, len |-> BufLen]
      [] OTHER -> [err |-> FALSE, pkg |-> TRUE, len |-> BufLen]
Decoded ==
    IF Truncated THEN {Result(f) : f \in Forms} ELSE {Result(msg.form)}

\* The udp loop asks whether there is a limit, without session.lock ...
CheckLimit ==
    /\ pc = "decode" /\ kind = "udp"
    /\ snapshot' = limit
    /\ pc' = "compare"
    /\ UNCHANGED <<kind, msg, limVars, msgVars, endVars, closed>>

\* Mutant: a message as long as the limit is refused.
TooLongAtLimit(d) == snapshot > 0 /\ BufLen >= limit

\* ... and compares with what the limit is by then.  A websocket loop uses the
\* one of this pass.
TooLong(d) ==
    IF kind = "ws" THEN ~Within(d.len, snapshot) ELSE snapshot > 0 /\ BufLen > limit

\* Mutant: the websocket loop hands over what the Reader returned.
HasPackageUnchecked(d) == kind = "ws" \/ d.len > 0

\* The loop takes the result for a package: udp looks at pkgLen only.
HasPackage(d) == IF kind = "ws" THEN d.pkg ELSE d.len > 0

\* Mutant: a message may be decoded once more.
DecodeTwice ==
    /\ pc = IF kind = "udp" THEN "compare" ELSE "decode"
    /\ \E d \in Decoded :
          /\ err' = IF d.err \/ TooLong(d) THEN "decode" ELSE "nil"
          /\ delivered' = IF err' = "nil" /\ HasPackage(d)
                          THEN Append(delivered, [index |-> Len(received), pkg |-> d.pkg,
                                                  whole |-> ~Truncated])
                          ELSE delivered
    /\ pc' \in {"check", pc}
    /\ Len(delivered') <= MaxMessages
    /\ UNCHANGED <<kind, msg, snapshot, limVars, received, failure, closed>>

\* The message is decoded, and delivered unless it is refused or no package.
Decode ==
    /\ pc = IF kind = "udp" THEN "compare" ELSE "decode"
    /\ \E d \in Decoded :
          /\ err' = IF d.err \/ TooLong(d) THEN "decode" ELSE "nil"
          /\ delivered' = IF err' = "nil" /\ HasPackage(d)
                          THEN Append(delivered, [index |-> Len(received), pkg |-> d.pkg,
                                                  whole |-> ~Truncated])
                          ELSE delivered
    /\ pc' = "check"
    /\ UNCHANGED <<kind, msg, snapshot, limVars, received, failure, closed>>

-----------------------------------------------------------------------------
(* The user's side. *)

SetMaxMsgLen(n) ==
    /\ pc # "ended"
    /\ raised' = (raised \/ ~Within(n, limit) \/ (n = 0 /\ limit > 0))
    /\ lifted' = (lifted \/ (n = 0 /\ pc = "compare"))
    /\ limit' = n
    /\ UNCHANGED <<kind, pc, msg, snapshot, buffer, msgVars, endVars, closed>>

Close ==
    /\ ~closed
    /\ closed' = TRUE
    /\ UNCHANGED <<kind, pc, msg, snapshot, limVars, msgVars, endVars>>

Next ==
    \/ Check \/ Timeout \/ ReadFails \/ CheckLimit \/ Decode \/ Close
    \/ \E m \in Messages : Receive(m)
    \/ \E n \in Limits : SetMaxMsgLen(n)

Spec == Init /\ [][Next]_vars

-----------------------------------------------------------------------------
\* Type correctness of the loops; the udp buffer never exceeds its cap.
TypeOK ==
    /\ kind \in Kinds
    /\ pc \in {"check", "recv", "decode", "compare", "ended"}
    /\ msg \in Messages \cup {NoMessage}
    /\ {limit, snapshot} \subseteq Limits \cup {0}
    /\ buffer \in 0 .. MaxUDPBuf
    /\ received \in Seq(Messages)
    /\ \A i \in DOMAIN delivered : delivered[i].index \in DOMAIN received
    /\ err \in {"nil", "timeout", "read", "decode"}
    /\ {raised, lifted, failure, closed} \subseteq BOOLEAN

\* A message is delivered at most once, and messages in the order in which
\* they were received; the loops' variables keep their types.
DeliveredInOrder ==
    /\ TypeOK
    /\ \A i, j \in DOMAIN delivered : i < j => delivered[i].index < delivered[j].index

\* The smallest limit that can have been in force, 0 when there is none.
Floor == IF Limits = {0} THEN 0 ELSE Least(Limits \ {0})

\* A good message within every limit is never dropped: when the loop goes on
\* it has been delivered, whatever was skipped or refused around it.  (Except
\* by a udp loop whose limit was lifted between the two reads of its check: it
\* compares with 0.)  And the websocket loop hands nothing but packages to the
\* listener, no nil one (#128).
LegalDelivered ==
    /\ pc \in {"check", "recv"} /\ ~lifted =>
          \A i \in DOMAIN received :
              received[i].form = "good" /\ received[i].len \in 1 .. Floor
                  => \E j \in DOMAIN delivered : delivered[j].index = i
    /\ kind = "ws" => \A i \in DOMAIN delivered : delivered[i].pkg

\* A truncated datagram is never taken for a message, as long as maxMsgLen
\* has not been raised above the one the read buffer was made for.
NoTruncatedMessage ==
    \A i \in DOMAIN delivered : delivered[i].whole \/ raised

\* A websocket loop that ends reports an error only if a read failed: the
\* timeouts and refused messages before a close are no error of the session.
ErrorsAreReal == kind = "ws" /\ pc = "ended" /\ err # "nil" => failure
=============================================================================
