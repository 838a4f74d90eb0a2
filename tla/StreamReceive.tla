--------------------------- MODULE StreamReceive ---------------------------
(***************************************************************************)
(* handleTCPPackage (transport/session.go): the loop that reads a byte     *)
(* stream into pktBuf and cuts it into packages with the user's Reader.    *)
(*                                                                         *)
(* The stream is a sequence of packages, one after the other: each has the *)
(* position it begins at, a length and whether the Reader finds an error   *)
(* in it.  pktBuf is the bytes between the two counters consumed and got,  *)
(* and the Reader is handed what lies there: nothing but the two counters  *)
(* tells it which package comes next.                                      *)
(* The Reader follows its documented contract (getty.go): an error,        *)
(* nothing yet with or without the package's length, or a package.  A read *)
(* may return bytes together with EOF or an error, as tls and flate        *)
(* readers do.                                                             *)
(***************************************************************************)
EXTENDS Naturals, Sequences

CONSTANTS
    Streams,    \* the streams a peer may send
    MaxRead,    \* maxReadBufLen: most bytes of one read
    Limits      \* values of maxMsgLen; 0 is no limit

\* Where package i begins in the stream, and where the stream ends.
Offset(s, i) == IF i = 1 THEN 0 ELSE s[i - 1].at + s[i - 1].len
Length(s) == Offset(s, Len(s) + 1)

ASSUME ParametersTyped ==
    /\ MaxRead \in Nat \ {0}
    /\ Limits \subseteq Nat
    /\ \A s \in Streams :
          /\ s \in Seq([at : Nat, len : Nat \ {0}, bad : BOOLEAN])
          /\ \A i \in DOMAIN s : s[i].at = Offset(s, i)

VARIABLES
    stream,     \* what the peer sends
    pc,         \* where the loop is
    got,        \* bytes written into pktBuf
    consumed,   \* bytes taken out of it
    delivered,  \* packages handed to addTask, by their index in the stream
    err,        \* the err of handleTCPPackage
    exit,       \* its exit
    failure,    \* what went wrong first, if anything did
    ignore,     \* ignoreReconnectKey was set on EOF
    limit,      \* session.maxMsgLen
    checked,    \* the maxMsgLen the last decoding was checked against
    closed      \* session.IsClosed()

bufVars == <<got, consumed, delivered>>
endVars == <<err, exit, failure, ignore>>
limVars == <<limit, checked>>
vars == <<stream, pc, bufVars, endVars, limVars, closed>>

\* A tls connection begins with its handshake.
Init ==
    /\ stream \in Streams
    /\ pc \in {"handshake", "check"}
    /\ got = 0 /\ consumed = 0 /\ delivered = <<>>
    /\ err = "nil" /\ exit = FALSE /\ failure = "none" /\ ignore = FALSE
    /\ limit \in Limits /\ checked = 0
    /\ closed = FALSE

\* The bytes in pktBuf.
Buffered == got - consumed

Handshake ==
    /\ pc = "handshake"
    /\ pc' = "check"
    /\ UNCHANGED <<stream, bufVars, endVars, limVars, closed>>

HandshakeFails ==
    /\ pc = "handshake"
    /\ pc' = "ended" /\ err' = "handshake" /\ failure' = "handshake"
    /\ UNCHANGED <<stream, bufVars, exit, ignore, limVars, closed>>

-----------------------------------------------------------------------------
(* The loop: one pass is a test of IsClosed, a read and the decoding. *)

\* Mutant: the error of the last read survives a close.
CheckKeepsError ==
    /\ pc = "check"
    /\ pc' = IF closed THEN "ended" ELSE "recv"
    /\ UNCHANGED <<stream, bufVars, endVars, limVars, closed>>

Check ==
    /\ pc = "check"
    /\ IF closed THEN pc' = "ended" /\ err' = "nil" ELSE pc' = "recv" /\ UNCHANGED err
    /\ UNCHANGED <<stream, bufVars, exit, failure, ignore, limVars, closed>>

\* A read returns n bytes; the loop decodes only when there are some.
Read(n, e, ended) ==
    /\ pc = "recv" /\ n <= MaxRead /\ got + n <= Length(stream)
    /\ got' = got + n
    /\ err' = e
    /\ exit' = ended
    /\ pc' = CASE n > 0 -> "decode"
               [] n = 0 /\ ended -> "ended"
               [] OTHER -> "check"
    /\ UNCHANGED <<stream, consumed, delivered, limVars, closed>>

Data(n) ==
    /\ n > 0 /\ Read(n, "nil", FALSE)
    /\ UNCHANGED <<failure, ignore>>

Timeout(n) ==
    /\ Read(n, "timeout", FALSE)
    /\ UNCHANGED <<failure, ignore>>

\* Mutant: the bytes that come with EOF are thrown away.
EOFDropsBytes(n) ==
    /\ pc = "recv" /\ n <= MaxRead /\ got + n <= Length(stream)
    /\ got' = got + n
    /\ err' = "nil" /\ exit' = TRUE /\ ignore' = TRUE
    /\ pc' = "ended"
    /\ UNCHANGED <<stream, consumed, delivered, failure, limVars, closed>>

\* The peer has closed its side: no reconnect, and the bytes are still decoded.
EOF(n) ==
    /\ Read(n, "nil", TRUE)
    /\ ignore' = TRUE
    /\ UNCHANGED failure

ReadFails(n) ==
    /\ Read(n, "read", TRUE)
    /\ failure' = "read"
    /\ UNCHANGED ignore

\* What the Reader makes of the buffer: its error flag, the package, and
\* pkgLen.  It sees the package that begins where pktBuf begins; one that is
\* not complete may show its length, and bytes from the middle of a package
\* make no sense to it.
Decoded ==
    LET head == {i \in DOMAIN stream : stream[i].at = consumed /\ ~stream[i].bad}
        whole == {i \in head : stream[i].len <= Buffered}
    IN CASE head = {} -> {[err |-> TRUE, pkg |-> 0, len |-> 0]}
         [] whole # {} -> {[err |-> FALSE, pkg |-> i, len |-> stream[i].len] : i \in whole}
         [] OTHER -> [err : {FALSE}, pkg : {0}, len : {0} \cup {stream[i].len : i \in head}]

\* Mutant: the whole batch is held against the limit.
TooLongBatch(d) == limit > 0 /\ (d.len > limit \/ Buffered > limit)

\* A package above maxMsgLen, or a remainder above it that is no package yet.
TooLong(d) == limit > 0 /\ (d.len > limit \/ (d.pkg = 0 /\ Buffered > limit))

\* Mutant: a delivered package is not taken out of the buffer.
DecodeKeeps ==
    /\ pc = "decode"
    /\ \E d \in Decoded :
          /\ d.pkg # 0 /\ ~TooLong(d)
          /\ delivered' = Append(delivered, d.pkg)
    /\ err' = "nil" /\ checked' = limit
    /\ UNCHANGED <<stream, pc, got, consumed, exit, failure, ignore, limit, closed>>

\* The Reader returns a package: deliver it, take it out, go on if bytes are left.
Decode ==
    /\ pc = "decode"
    /\ \E d \in Decoded :
          /\ d.pkg # 0 /\ ~TooLong(d)
          /\ delivered' = Append(delivered, d.pkg)
          /\ consumed' = consumed + d.len
          /\ pc' = CASE Buffered > d.len -> "decode"
                     [] Buffered <= d.len /\ exit -> "ended"
                     [] OTHER -> "check"
    /\ err' = "nil" /\ checked' = limit
    /\ UNCHANGED <<stream, got, exit, failure, ignore, limit, closed>>

\* The Reader has nothing yet: the remainder waits for the next read.
DecodeMore ==
    /\ pc = "decode"
    /\ \E d \in Decoded : ~d.err /\ d.pkg = 0 /\ ~TooLong(d)
    /\ err' = "nil" /\ checked' = limit
    /\ pc' = IF exit THEN "ended" ELSE "check"
    /\ UNCHANGED <<stream, bufVars, exit, failure, ignore, limit, closed>>

\* The Reader returns an error, or the package is too long: the loop ends.
DecodeFails ==
    /\ pc = "decode"
    /\ \E d \in Decoded :
          /\ d.err \/ TooLong(d)
          /\ err' = IF d.err THEN "decode" ELSE "toolong"
    /\ failure' = IF failure = "none" THEN err' ELSE failure
    /\ exit' = TRUE /\ checked' = limit
    /\ pc' = "ended"
    /\ UNCHANGED <<stream, bufVars, ignore, limit, closed>>

-----------------------------------------------------------------------------
(* The user's side. *)

SetMaxMsgLen(n) ==
    /\ pc # "ended"
    /\ limit' = n
    /\ UNCHANGED <<stream, pc, bufVars, endVars, checked, closed>>

Close ==
    /\ ~closed
    /\ closed' = TRUE
    /\ UNCHANGED <<stream, pc, bufVars, endVars, limVars>>

LoopNext ==
    \/ Handshake \/ HandshakeFails \/ Check \/ Decode \/ DecodeMore \/ DecodeFails
    \/ \E n \in 0 .. MaxRead : Data(n) \/ Timeout(n) \/ EOF(n) \/ ReadFails(n)

Next == LoopNext \/ Close \/ \E n \in Limits : SetMaxMsgLen(n)

Spec == Init /\ [][Next]_vars

-----------------------------------------------------------------------------
\* Type correctness of the loop; it decodes only while there are bytes.
TypeOK ==
    /\ stream \in Streams
    /\ pc \in {"handshake", "check", "recv", "decode", "ended"}
    /\ got \in 0 .. Length(stream) /\ consumed \in 0 .. got
    /\ delivered \in Seq(1 .. Len(stream))
    /\ err \in {"nil", "timeout", "handshake", "read", "decode", "toolong"}
    /\ failure \in {"none", "handshake", "read", "decode", "toolong"}
    /\ {exit, ignore, closed} \subseteq BOOLEAN
    /\ {limit, checked} \subseteq Limits \cup {0}
    /\ pc = "decode" => Buffered > 0

\* The first package that was not delivered has been received completely and
\* is one the Reader accepts.
Waiting ==
    LET i == Len(delivered) + 1
    IN i <= Len(stream) /\ ~stream[i].bad /\ Offset(stream, i + 1) <= got

\* The packages are delivered once each, in the order of the stream, however
\* reads split it: each decoding finds the package after the last delivered
\* one, because pktBuf loses the bytes of the delivered packages and no others.
\* The loop's variables keep their types.
DeliveredInOrder ==
    /\ TypeOK
    /\ \A k \in DOMAIN delivered : delivered[k] = k
    /\ \A i \in DOMAIN stream : stream[i].at >= consumed <=> i > Len(delivered)

\* No complete package is left behind: none waits in pktBuf while the loop
\* reads, and none when it ends without an error, the bytes that came with
\* EOF or a read error included.
NothingHeldBack ==
    pc \in {"recv", "ended"} /\ err \in {"nil", "timeout"} => ~Waiting

\* Only a package above the limit is rejected as too long, however many legal
\* ones arrive in one read; and what waits in pktBuf is within the limit.
LimitIsPerPackage ==
    /\ err = "toolong" => stream[Len(delivered) + 1].len > checked
    /\ pc = "recv" /\ checked > 0 => Buffered <= checked

\* An ended loop reports an error to the listener only if the
\* handshake, a read or a decoding failed: the timeouts of an idle or closing session are none.
ErrorsAreReal == pc = "ended" /\ err # "nil" => failure # "none"
=============================================================================
