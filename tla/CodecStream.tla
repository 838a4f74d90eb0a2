----------------------------- MODULE CodecStream -----------------------------
(***************************************************************************)
(* A compressed tcp connection (gettyTCPConn of transport/connection.go)   *)
(* under one session: the reader goroutine with codecPollingReader below   *)
(* the decoder, the writers with the flusher lock and codecPollingWriter   *)
(* below the encoder, SetCompressType, codecIOError, CloseConn, and as     *)
(* much of session.stop() and gc() as touches the connection.              *)
(*                                                                         *)
(* Bytes are counted, BlockLen of them make a codec block.  Time is        *)
(* discrete: Tick lowers the armed deadlines and raises the ages of        *)
(* lastDelivery and lastProgress, which stop at codecStallTimeout because  *)
(* they are only compared with it.  session.lock is a sync.RWMutex: a      *)
(* pending Lock keeps new readers out.                                     *)
(***************************************************************************)
EXTENDS Naturals, FiniteSets

CONSTANTS
    Writers,       \* goroutines that call Send
    Stalls,        \* values of CodecStallTimeout; 0 disables the detection
    RTimeout,      \* rTimeout, in ticks
    WTimeout,      \* wTimeout, in ticks
    BlockLen,      \* bytes of a codec block, and of a package
    InBytes,       \* bound: bytes the peer sends
    Sends,         \* bound: Send calls of one writer
    Window         \* bytes the transport takes before the peer reads any

\* The two ways CloseConn is reached: the goroutine gc() starts, and
\* Session.CloseConn, which keeps session.lock while it runs.
Closers == {"gc", "direct"}
Emitters == Writers \cup Closers

ASSUME StreamParameters ==
    /\ Stalls \subseteq Nat
    /\ RTimeout \in Nat \ {0} /\ WTimeout \in Nat \ {0}
    /\ BlockLen \in Nat \ {0}
    /\ InBytes \in Nat /\ Sends \in Nat /\ Window \in Nat \ {0}
    /\ Writers \cap (Closers \cup {"reader", "nobody"}) = {}

VARIABLES
    codecEnabled, streamStarted, codecStallTimeout, codecBroken, closing,
    brokenBy,   \* who set codecBroken first
    sockOpen,   \* the raw connection was not closed
    once,       \* closeOnce: "free", "running", "done"
    rpc,        \* where the reader goroutine is
    inbound,    \* bytes that arrived and were not read
    unsent,     \* bytes the peer may still send
    peerClosed, \* the peer closed its side
    buf,        \* undelivered bytes of codecPollingReader.buf
    fed,        \* bytes of the current block the decoder was given
    shown,      \* of which it has turned into output
    progress,
    silence,    \* age of lastDelivery
    rleft,      \* ticks until the read deadline
    epc,        \* where each writer and closer is
    calls,      \* Send calls each writer has left
    todo,       \* bytes its encoder still has to put on the wire
    acc,        \* of which the current conn.Write got rid
    idle,       \* age of its lastProgress
    wleft,      \* ticks until the write deadline, one for the connection
    flusher,    \* who holds the flusher's lock
    latched,    \* the error the encoder recorded: "none", "timeout", "other"
    room,       \* bytes the transport takes now
    quiet,      \* ticks since it took a byte, or since the write began
    wire,       \* what the peer receives
    spc,        \* progress of session.stop()
    done,       \* session.done is closed
    slReaders,  \* session.lock: who holds it shared across a blocking call
    slPending   \* session.lock: whose Lock call waits

confVars == <<codecEnabled, streamStarted, codecStallTimeout>>
connVars == <<codecBroken, closing, brokenBy, sockOpen, once>>
peerVars == <<inbound, unsent, peerClosed>>
decVars == <<buf, fed, shown, progress, silence>>
readVars == <<rpc, rleft, decVars, peerVars>>
wireVars == <<latched, room, quiet, wire>>
emitVars == <<calls, todo, acc, idle>>
writeVars == <<epc, emitVars, wleft, flusher, wireVars>>
sessVars == <<spc, done, slReaders, slPending>>
vars == <<confVars, connVars, readVars, writeVars, sessVars>>

Least(a, b) == IF a < b THEN a ELSE b
Most(a, b) == IF a < b THEN b ELSE a

\* The wire as the peer's decoder sees it: the format of its bytes, whose
\* block is incomplete, and whether a byte arrived that does not belong there.
EmptyWire == [format |-> "none", open |-> "nobody", whole |-> TRUE]

Init ==
    /\ codecEnabled = FALSE /\ streamStarted = FALSE /\ codecStallTimeout = 0
    /\ codecBroken = FALSE /\ closing = FALSE /\ brokenBy = "nobody"
    /\ sockOpen = TRUE /\ once = "free"
    /\ rpc = "check" /\ rleft = 0
    /\ inbound = 0 /\ unsent = InBytes /\ peerClosed = FALSE
    /\ buf = 0 /\ fed = 0 /\ shown = 0 /\ progress = FALSE /\ silence = 0
    /\ epc = [e \in Emitters |-> "idle"]
    /\ calls = [w \in Writers |-> Sends]
    /\ todo = [e \in Emitters |-> 0]
    /\ acc = [e \in Emitters |-> 0]
    /\ idle = [e \in Emitters |-> 0]
    /\ wleft = 0 /\ flusher = {} /\ latched = "none"
    /\ room = Window /\ quiet = 0
    /\ wire = EmptyWire
    /\ spc = "no" /\ done = FALSE /\ slReaders = {} /\ slPending = {}

\* session.lock can be taken shared, as IsClosed and the accessors do.
RLockable == slPending = {}

GotoR(l) == rpc' = l
Goto(e, l) == epc' = [epc EXCEPT ![e] = l]

-----------------------------------------------------------------------------
(* Configuration. *)

\* Mutant: the codec can be installed on a started stream.
SetCompressTypeLate ==
    /\ ~codecEnabled
    /\ codecEnabled' = TRUE
    /\ \E s \in Stalls : codecStallTimeout' = s
    /\ UNCHANGED <<streamStarted, connVars, readVars, writeVars, sessVars>>

\* The codec replaces reader and writer; on a started stream the call panics
\* and leaves the connection alone.  Bound: a connection is given a codec once.
SetCompressType ==
    /\ ~codecEnabled /\ ~streamStarted
    /\ codecEnabled' = TRUE
    /\ \E s \in Stalls : codecStallTimeout' = s
    /\ UNCHANGED <<streamStarted, connVars, readVars, writeVars, sessVars>>

\* beginRecv and beginSend: from the first call on the codec is settled.
begin == streamStarted' = TRUE

-----------------------------------------------------------------------------
(* The reader goroutine: handleTCPPackage, recv, codecPollingReader. *)

\* The read loop tests IsClosed.
ReadLoop ==
    /\ rpc = "check" /\ RLockable
    /\ GotoR(IF done THEN "exit" ELSE "recv")
    /\ UNCHANGED <<confVars, connVars, rleft, decVars, peerVars, writeVars, sessVars>>

\* recv: a broken stream fails at once, otherwise the stream has started.  The
\* decoder first takes what codecPollingReader read ahead.
recv ==
    /\ rpc = "recv"
    /\ IF codecBroken
       THEN GotoR("exit") /\ UNCHANGED streamStarted
       ELSE /\ begin
            /\ GotoR(IF buf > 0 THEN "feed" ELSE "arm")
    /\ UNCHANGED <<codecEnabled, codecStallTimeout, connVars, rleft, decVars, peerVars,
                   writeVars, sessVars>>

\* The poll interval: rTimeout, inside a block no longer than the stall
\* deadline is away.
ReadWait ==
    IF codecEnabled /\ progress /\ codecStallTimeout > 0
    THEN Least(RTimeout, Most(codecStallTimeout - silence, 1))
    ELSE RTimeout

\* fill (or recv of a raw connection) arms the read deadline.
ArmRead ==
    /\ rpc = "arm"
    /\ IF sockOpen
       THEN rleft' = ReadWait /\ GotoR("poll")
       ELSE GotoR("exit") /\ UNCHANGED rleft
    /\ UNCHANGED <<confVars, connVars, decVars, peerVars, writeVars, sessVars>>

\* conn.Read returns bytes: to codecPollingReader.buf, or from recv.
PollData ==
    /\ rpc = "poll" /\ sockOpen
    /\ \E k \in 1 .. inbound :
          /\ inbound' = inbound - k
          /\ buf' = IF codecEnabled THEN k ELSE buf
    /\ GotoR(IF codecEnabled THEN "feed" ELSE "check")
    /\ UNCHANGED <<confVars, connVars, rleft, fed, shown, progress, silence, unsent,
                   peerClosed, writeVars, sessVars>>

\* conn.Read fails for good: end of file, or the connection was closed.
PollFails ==
    /\ rpc = "poll"
    /\ ~sockOpen \/ (peerClosed /\ inbound = 0)
    /\ GotoR("exit")
    /\ UNCHANGED <<confVars, connVars, rleft, decVars, peerVars, writeVars, sessVars>>

\* conn.Read times out; a raw read is simply retried by the read loop.
PollTimeout ==
    /\ rpc = "poll" /\ sockOpen /\ rleft = 0
    /\ GotoR(IF codecEnabled THEN "late" ELSE "check")
    /\ UNCHANGED <<confVars, connVars, rleft, decVars, peerVars, writeVars, sessVars>>

\* fill classifies the timeout, codecBroken first.
ReadLate ==
    /\ rpc = "late"
    /\ GotoR(IF codecBroken THEN "fail" ELSE "ask")
    /\ UNCHANGED <<confVars, connVars, rleft, decVars, peerVars, writeVars, sessVars>>

\* The decoder holds part of a block and got nothing for too long.
ReadStalled == progress /\ codecStallTimeout > 0 /\ silence >= codecStallTimeout

\* Mutant: the reader does not ask whether the session is closing.
ReadAskStallOnly ==
    /\ rpc = "ask"
    /\ GotoR(IF ReadStalled THEN "fail" ELSE "arm")
    /\ UNCHANGED <<confVars, connVars, rleft, decVars, peerVars, writeVars, sessVars>>

\* Then sessionClosing, then the stall; an idle timeout is absorbed.
ReadAsk ==
    /\ rpc = "ask" /\ RLockable
    /\ GotoR(IF done \/ ReadStalled THEN "fail" ELSE "arm")
    /\ UNCHANGED <<confVars, connVars, rleft, decVars, peerVars, writeVars, sessVars>>

\* codecIOError: the stream is broken and the raw connection closed.
Break(p) ==
    /\ codecBroken' = TRUE
    /\ brokenBy' = IF codecBroken THEN brokenBy ELSE p
    /\ sockOpen' = FALSE
    /\ UNCHANGED <<closing, once>>

\* codecReadError: a timeout of a closing session is passed on and the read
\* loop retries it, any other breaks the stream.
codecReadError ==
    /\ rpc = "fail" /\ RLockable
    /\ IF done
       THEN GotoR("check") /\ UNCHANGED connVars
       ELSE GotoR("exit") /\ Break("reader")
    /\ UNCHANGED <<confVars, rleft, decVars, peerVars, writeVars, sessVars>>

\* Mutant: recv does not tell codecPollingReader that output was produced.
FeedNoBoundary ==
    /\ rpc = "feed"
    /\ \E k \in 1 .. Least(buf, BlockLen - fed) :
          /\ buf' = buf - k
          /\ fed' = (fed + k) % BlockLen
          /\ IF fed' = 0
             THEN shown' = 0 /\ GotoR("check")
             ELSE UNCHANGED shown /\ GotoR(IF buf' > 0 THEN "feed" ELSE "arm")
    /\ progress' = TRUE /\ silence' = 0
    /\ UNCHANGED <<confVars, connVars, rleft, peerVars, writeVars, sessVars>>

\* Mutant: delivered bytes are not noted as progress.
FeedNoProgress ==
    /\ rpc = "feed"
    /\ \E k \in 1 .. Least(buf, BlockLen - fed) :
          /\ buf' = buf - k
          /\ fed' = (fed + k) % BlockLen
          /\ IF fed' = 0
             THEN shown' = 0 /\ GotoR("check")
             ELSE UNCHANGED shown /\ GotoR(IF buf' > 0 THEN "feed" ELSE "arm")
    /\ progress' = FALSE /\ silence' = 0
    /\ UNCHANGED <<confVars, connVars, rleft, peerVars, writeVars, sessVars>>

\* Read and ReadByte deliver bytes to the decoder, which asks for more until it
\* has output: at the end of the block or, for flate, when its window is full.
\* Output ends recv, which calls boundary().
Feed ==
    /\ rpc = "feed"
    /\ \E k \in 1 .. Least(buf, BlockLen - fed), full \in BOOLEAN :
          LET at == IF fed + k = BlockLen THEN 0 ELSE fed + k
              output == at = 0 \/ full
          IN /\ buf' = buf - k
             /\ fed' = at
             /\ progress' = ~output
             /\ shown' = IF output THEN at ELSE shown
             /\ GotoR(CASE output -> "check"
                        [] ~output /\ buf - k > 0 -> "feed"
                        [] OTHER -> "arm")
    /\ silence' = 0
    /\ UNCHANGED <<confVars, connVars, rleft, peerVars, writeVars, sessVars>>

\* handlePackage's deferred stop(), which waits for one that is running.
ReaderStops ==
    /\ rpc = "exit"
    /\ GotoR("stopping")
    /\ spc' = IF spc = "no" THEN "arm" ELSE spc
    /\ UNCHANGED <<confVars, connVars, rleft, decVars, peerVars, writeVars, done,
                   slReaders, slPending>>

\* Then gc() asks for session.lock.
ReaderLock ==
    /\ rpc = "stopping" /\ spc = "done"
    /\ GotoR("locking")
    /\ slPending' = slPending \cup {"reader"}
    /\ UNCHANGED <<confVars, connVars, rleft, decVars, peerVars, writeVars, spc, done,
                   slReaders>>

\* gc() detaches the connection and starts the goroutine that closes it.
ReaderGC ==
    /\ rpc = "locking" /\ slReaders = {}
    /\ GotoR("finished")
    /\ slPending' = slPending \ {"reader"}
    /\ Goto("gc", "once")
    /\ UNCHANGED <<confVars, connVars, rleft, decVars, peerVars, emitVars, wleft, flusher,
                   wireVars, spc, done, slReaders>>

-----------------------------------------------------------------------------
(* session.stop(). *)

Close ==
    /\ spc = "no"
    /\ spc' = "arm"
    /\ UNCHANGED <<confVars, connVars, readVars, writeVars, done, slReaders, slPending>>

\* The deadlines that wake a blocked read or write.
StopArm ==
    /\ spc = "arm" /\ RLockable
    /\ spc' = "close"
    /\ rleft' = IF sockOpen THEN RTimeout ELSE rleft
    /\ wleft' = IF sockOpen THEN WTimeout ELSE wleft
    /\ UNCHANGED <<confVars, connVars, rpc, decVars, peerVars, epc, emitVars, flusher,
                   wireVars, done, slReaders, slPending>>

StopClose ==
    /\ spc = "close"
    /\ spc' = "lock" /\ done' = TRUE
    /\ UNCHANGED <<confVars, connVars, readVars, writeVars, slReaders, slPending>>

\* stopHeartbeat takes session.lock exclusively.
StopLock ==
    /\ spc = "lock"
    /\ spc' = "locking"
    /\ slPending' = slPending \cup {"stop"}
    /\ UNCHANGED <<confVars, connVars, readVars, writeVars, done, slReaders>>

StopHeartbeat ==
    /\ spc = "locking" /\ slReaders = {}
    /\ spc' = "done"
    /\ slPending' = slPending \ {"stop"}
    /\ UNCHANGED <<confVars, connVars, readVars, writeVars, done, slReaders>>

-----------------------------------------------------------------------------
(* Writing: Send, the flushers, codecPollingWriter. *)

\* Send of one package.  A raw connection arms its deadline here.
Send(w) ==
    /\ epc[w] = "idle" /\ calls[w] > 0
    /\ calls' = [calls EXCEPT ![w] = @ - 1]
    /\ IF codecBroken
       THEN UNCHANGED <<streamStarted, epc, todo, wleft>>
       ELSE /\ begin
            /\ todo' = [todo EXCEPT ![w] = BlockLen]
            /\ Goto(w, CASE codecEnabled -> "flush"
                         [] ~codecEnabled /\ sockOpen -> "raw"
                         [] OTHER -> "idle")
            /\ wleft' = IF ~codecEnabled /\ sockOpen THEN WTimeout ELSE wleft
    /\ UNCHANGED <<codecEnabled, codecStallTimeout, connVars, readVars, acc, idle, flusher,
                   wireVars, sessVars>>

\* The encoder starts a block; one that failed before repeats its error.
Encode(e) ==
    /\ idle' = [idle EXCEPT ![e] = IF latched = "none" THEN 0 ELSE @]
    /\ quiet' = IF latched = "none" THEN 0 ELSE quiet
    /\ Goto(e, CASE latched = "none" -> "arm"
                 [] latched = "timeout" -> "broke"
                 [] OTHER -> "error")
    /\ UNCHANGED <<confVars, connVars, readVars, calls, todo, acc, wleft, latched, room,
                   wire, sessVars>>

\* Mutant: the flusher does not exclude other writers.
LockFlusherShared(e) ==
    /\ epc[e] = "flush"
    /\ flusher' = {e}
    /\ Encode(e)

\* The flusher's Write, WriteBuffers or Close: under its lock the encoder puts
\* one block on the wire.
LockFlusher(e) ==
    /\ epc[e] = "flush" /\ flusher = {}
    /\ flusher' = {e}
    /\ Encode(e)

\* codecPollingWriter arms the write deadline, no later than the stall.
ArmWrite(e) ==
    /\ epc[e] = "arm"
    /\ IF sockOpen
       THEN /\ Goto(e, "write")
            /\ wleft' = IF codecStallTimeout > 0
                        THEN Least(WTimeout, Most(codecStallTimeout - idle[e], 1))
                        ELSE WTimeout
       ELSE Goto(e, "error") /\ UNCHANGED wleft
    /\ UNCHANGED <<confVars, connVars, readVars, emitVars, flusher, wireVars, sessVars>>

\* The next byte of e's block on the wire: it belongs there when all bytes have
\* one format and, in a compressed stream, no other block is incomplete.
Put(e, format, last) ==
    [format |-> format,
     open |-> IF last \/ format = "raw" THEN "nobody" ELSE e,
     whole |-> /\ wire.whole
               /\ wire.format \in {"none", format}
               /\ wire.open \in {"nobody", e}]

\* The transport takes a byte; with the last one conn.Write returns.
Accept(e) ==
    LET last == todo[e] = acc[e] + 1
        raw == epc[e] = "raw"
    IN /\ epc[e] \in {"write", "raw"} /\ sockOpen /\ room > 0
       /\ room' = room - 1 /\ quiet' = 0
       /\ wire' = Put(e, IF raw THEN "raw" ELSE "codec", last)
       /\ todo' = [todo EXCEPT ![e] = IF last THEN 0 ELSE @]
       /\ acc' = [acc EXCEPT ![e] = IF last THEN 0 ELSE @ + 1]
       /\ IF ~last THEN UNCHANGED epc ELSE Goto(e, IF raw THEN "idle" ELSE "unlock")
       /\ UNCHANGED <<confVars, connVars, readVars, calls, idle, wleft, flusher, latched,
                      sessVars>>

\* The block is out: the flusher returns.
Unlock(e) ==
    /\ epc[e] = "unlock"
    /\ flusher' = {}
    /\ Goto(e, IF e \in Writers THEN "idle" ELSE "sock")
    /\ UNCHANGED <<confVars, connVars, readVars, emitVars, wleft, wireVars, sessVars>>

\* Mutant: a timeout counts as silence although bytes went out.
WriteTimeoutNoProgress(e) ==
    /\ epc[e] \in {"write", "raw"} /\ sockOpen /\ wleft = 0
    /\ acc' = [acc EXCEPT ![e] = 0]
    /\ todo' = [todo EXCEPT ![e] = IF epc[e] = "raw" THEN 0 ELSE @ - acc[e]]
    /\ Goto(e, IF epc[e] = "raw" THEN "idle" ELSE "late")
    /\ UNCHANGED <<confVars, connVars, readVars, calls, idle, wleft, flusher, wireVars,
                   sessVars>>

\* conn.Write times out with part of the bytes written.  A raw Send returns
\* that part, codecPollingWriter goes on from there.
WriteTimeout(e) ==
    /\ epc[e] \in {"write", "raw"} /\ sockOpen /\ wleft = 0
    /\ acc' = [acc EXCEPT ![e] = 0]
    /\ todo' = [todo EXCEPT ![e] = IF epc[e] = "raw" THEN 0 ELSE @ - acc[e]]
    /\ idle' = [idle EXCEPT ![e] = IF acc[e] > 0 THEN 0 ELSE @]
    /\ Goto(e, IF epc[e] = "raw" THEN "idle" ELSE "late")
    /\ UNCHANGED <<confVars, connVars, readVars, calls, wleft, flusher, wireVars, sessVars>>

\* conn.Write fails because the connection was closed.
WriteFails(e) ==
    /\ epc[e] \in {"write", "raw"} /\ ~sockOpen
    /\ acc' = [acc EXCEPT ![e] = 0]
    /\ todo' = [todo EXCEPT ![e] = IF epc[e] = "raw" THEN 0 ELSE @ - acc[e]]
    /\ Goto(e, IF epc[e] = "raw" THEN "idle" ELSE "error")
    /\ UNCHANGED <<confVars, connVars, readVars, calls, idle, wleft, flusher, wireVars,
                   sessVars>>

\* codecPollingWriter classifies the timeout: codecBroken and closing first,
WriteLate(e) ==
    /\ epc[e] = "late"
    /\ Goto(e, IF codecBroken \/ closing THEN "broke" ELSE "ask")
    /\ UNCHANGED <<confVars, connVars, readVars, emitVars, wleft, flusher, wireVars, sessVars>>

\* The transport took nothing for too long.
WriteStalled(e) == codecStallTimeout > 0 /\ idle[e] >= codecStallTimeout

\* then sessionClosing, then the stall; a slow peer is waited for.
WriteAsk(e) ==
    /\ epc[e] = "ask" /\ RLockable
    /\ Goto(e, IF done \/ WriteStalled(e) THEN "broke" ELSE "arm")
    /\ UNCHANGED <<confVars, connVars, readVars, emitVars, wleft, flusher, wireVars, sessVars>>

\* The write is given up: the encoder latches the error and the flusher's lock
\* is released.  Send goes on to codecIOError, CloseConn only logs the error.
Abandon(e) ==
    /\ epc[e] \in {"broke", "error"}
    /\ latched' = IF epc[e] = "broke" THEN "timeout" ELSE "other"
    /\ flusher' = {}
    /\ todo' = [todo EXCEPT ![e] = 0]
    /\ Goto(e, CASE e \in Closers -> "sock"
                 [] e \in Writers /\ epc[e] = "broke" -> "ioerror"
                 [] OTHER -> "idle")
    /\ UNCHANGED <<confVars, connVars, readVars, calls, acc, idle, wleft, room,
                   quiet, wire, sessVars>>

codecIOError(w) ==
    /\ epc[w] = "ioerror"
    /\ Break(w)
    /\ Goto(w, "idle")
    /\ UNCHANGED <<confVars, readVars, emitVars, wleft, flusher, wireVars, sessVars>>

-----------------------------------------------------------------------------
(* CloseConn. *)

\* Session.CloseConn runs it under session.lock, held shared.
CloseConnDirect ==
    /\ epc["direct"] = "idle" /\ RLockable
    /\ Goto("direct", "once")
    /\ slReaders' = slReaders \cup {"direct"}
    /\ UNCHANGED <<confVars, connVars, readVars, emitVars, wleft, flusher, wireVars, spc,
                   done, slPending>>

\* closeOnce: the first call closes, the others wait for it.
CloseOnce(c) ==
    /\ epc[c] = "once" /\ once # "running"
    /\ IF once = "free"
       THEN once' = "running" /\ closing' = TRUE /\ Goto(c, "writer")
       ELSE UNCHANGED <<once, closing>> /\ Goto(c, "return")
    /\ UNCHANGED <<confVars, codecBroken, brokenBy, sockOpen, readVars, emitVars, wleft,
                   flusher, wireVars, sessVars>>

\* The encoder of a healthy stream is closed, which writes a trailer.
CloseWriter(c) ==
    /\ epc[c] = "writer"
    /\ IF codecEnabled /\ ~codecBroken
       THEN todo' = [todo EXCEPT ![c] = 1] /\ Goto(c, "flush")
       ELSE Goto(c, "sock") /\ UNCHANGED todo
    /\ UNCHANGED <<confVars, connVars, readVars, calls, acc, idle, wleft, flusher,
                   wireVars, sessVars>>

CloseSocket(c) ==
    /\ epc[c] = "sock"
    /\ sockOpen' = FALSE /\ once' = "done"
    /\ Goto(c, "return")
    /\ UNCHANGED <<confVars, codecBroken, closing, brokenBy, readVars, emitVars, wleft,
                   flusher, wireVars, sessVars>>

CloseReturn(c) ==
    /\ epc[c] = "return"
    /\ Goto(c, "closed")
    /\ slReaders' = slReaders \ {c}
    /\ UNCHANGED <<confVars, connVars, readVars, emitVars, wleft, flusher, wireVars, spc,
                   done, slPending>>

-----------------------------------------------------------------------------
(* The peer and time. *)

PeerSends ==
    /\ unsent > 0 /\ ~peerClosed
    /\ unsent' = unsent - 1 /\ inbound' = inbound + 1
    /\ UNCHANGED <<confVars, connVars, rpc, rleft, decVars, peerClosed, writeVars, sessVars>>

PeerCloses ==
    /\ ~peerClosed
    /\ peerClosed' = TRUE
    /\ UNCHANGED <<confVars, connVars, rpc, rleft, decVars, inbound, unsent, writeVars,
                   sessVars>>

\* The peer reads a byte, so the transport takes another.
PeerReads ==
    /\ room < Window
    /\ room' = room + 1
    /\ UNCHANGED <<confVars, connVars, readVars, epc, emitVars, wleft, flusher, latched,
                   quiet, wire, sessVars>>

Older(age) == Least(age + 1, codecStallTimeout)
Sooner(left) == IF left > 0 THEN left - 1 ELSE 0

\* Deadlines and ages are kept still where the code does not look at them: the
\* deadline of a connection nobody reads or writes, the age of lastDelivery at a
\* block boundary, the age of lastProgress outside codecPollingWriter.
Polling(e) == epc[e] \in {"arm", "write", "late", "ask"}

Tick ==
    /\ rleft' = IF rpc = "poll" THEN Sooner(rleft) ELSE rleft
    /\ wleft' = IF \E e \in Emitters : epc[e] \in {"write", "raw"} THEN Sooner(wleft)
                ELSE wleft
    /\ silence' = IF progress THEN Older(silence) ELSE silence
    /\ quiet' = IF \E e \in Emitters : Polling(e) THEN Older(quiet) ELSE quiet
    /\ idle' = [e \in Emitters |-> IF Polling(e) THEN Older(idle[e]) ELSE idle[e]]
    /\ UNCHANGED <<confVars, connVars, rpc, buf, fed, shown, progress, peerVars, epc, calls,
                   todo, acc, flusher, latched, room, wire, sessVars>>

-----------------------------------------------------------------------------
ReaderStep ==
    \/ ReadLoop \/ recv \/ ArmRead \/ PollData \/ PollFails \/ PollTimeout \/ ReadLate
    \/ ReadAsk \/ codecReadError \/ Feed \/ ReaderStops \/ ReaderLock \/ ReaderGC
StopStep == StopArm \/ StopClose \/ StopLock \/ StopHeartbeat
EmitStep(e) ==
    \/ LockFlusher(e) \/ ArmWrite(e) \/ Accept(e) \/ Unlock(e) \/ WriteTimeout(e)
    \/ WriteFails(e) \/ WriteLate(e) \/ WriteAsk(e) \/ Abandon(e)
CloseStep(c) == CloseOnce(c) \/ CloseWriter(c) \/ CloseSocket(c) \/ CloseReturn(c)
PeerStep == PeerSends \/ PeerCloses \/ PeerReads

Next ==
    \/ SetCompressType \/ Close
    \/ ReaderStep \/ StopStep \/ PeerStep \/ Tick
    \/ \E w \in Writers : Send(w) \/ codecIOError(w)
    \/ \E e \in Emitters : EmitStep(e)
    \/ \E c \in Closers : CloseStep(c)

Spec == Init /\ [][Next]_vars

\* Every goroutine that is not waiting for the peer or the application goes on,
\* and time passes.  Nothing is assumed of the peer.
Fairness ==
    /\ WF_vars(ReaderStep) /\ WF_vars(StopStep) /\ WF_vars(Tick)
    /\ \A w \in Writers : WF_vars(codecIOError(w))
    /\ \A e \in Emitters : WF_vars(EmitStep(e))
    /\ \A c \in Closers : WF_vars(CloseStep(c))

FairSpec == Spec /\ Fairness

\* The same connection when the application calls Session.CloseConn.
DirectSpec == Init /\ [][Next \/ CloseConnDirect]_vars /\ Fairness

-----------------------------------------------------------------------------
ReaderLabels ==
    {"check", "recv", "arm", "poll", "late", "ask", "fail", "feed", "exit", "stopping",
     "locking", "finished"}
EmitLabels ==
    {"idle", "flush", "arm", "write", "raw", "unlock", "late", "ask", "broke", "error",
     "ioerror", "once", "writer", "sock", "return", "closed"}

\* The connection's state is well typed.
TypeOK ==
    /\ codecEnabled \in BOOLEAN /\ streamStarted \in BOOLEAN
    /\ codecStallTimeout \in Nat
    /\ codecBroken \in BOOLEAN /\ closing \in BOOLEAN /\ sockOpen \in BOOLEAN
    /\ brokenBy \in Writers \cup {"nobody", "reader"}
    /\ once \in {"free", "running", "done"}
    /\ rpc \in ReaderLabels /\ rleft \in Nat /\ wleft \in Nat
    /\ inbound \in Nat /\ unsent \in Nat /\ peerClosed \in BOOLEAN
    /\ buf \in Nat /\ fed \in Nat /\ fed < BlockLen /\ shown \in Nat
    /\ progress \in BOOLEAN /\ silence \in Nat /\ quiet \in Nat
    /\ epc \in [Emitters -> EmitLabels] /\ calls \in [Writers -> Nat]
    /\ todo \in [Emitters -> Nat] /\ acc \in [Emitters -> Nat]
    /\ idle \in [Emitters -> Nat]
    /\ flusher \subseteq Emitters /\ latched \in {"none", "timeout", "other"}
    /\ room \in Nat
    /\ wire \in [format : {"none", "raw", "codec"}, open : Emitters \cup {"nobody"},
                  whole : BOOLEAN]
    /\ spc \in {"no", "arm", "close", "lock", "locking", "done"} /\ done \in BOOLEAN
    /\ slReaders \subseteq Closers /\ slPending \subseteq {"reader", "stop"}

\* A healthy stream is never declared broken.  The reader sets codecBroken only
\* when the decoder really holds part of a block and got nothing more for
\* codecStallTimeout: an idle stream, however long it is idle, is left alone.
\* A writer does so only while the connection is being closed or when the
\* transport took no byte for codecStallTimeout: a slow peer is waited for.
BrokenForCause ==
    /\ brokenBy = "reader" =>
          /\ codecStallTimeout > 0
          /\ fed # shown /\ silence >= codecStallTimeout
    /\ brokenBy \in Writers =>
          \/ closing \/ done
          \/ codecStallTimeout > 0 /\ quiet >= codecStallTimeout

\* What the peer's decoder receives is in one format, and nothing follows a
\* block that was given up in the middle: not another package, and not the
\* trailer CloseConn writes.
WireWhole == wire.whole

\* A peer that dies in the middle of a block is noticed: the decoder gets the
\* rest or the reader goroutine gives up, with no help from the session.
StallEnds ==
    codecStallTimeout > 0 /\ fed # shown ~> fed = shown \/ rpc = "finished"

\* Closing the session ends its goroutines whatever the peer does: the reader
\* returns, every write in progress returns, the socket is closed.
CloseEnds ==
    done ~> /\ rpc = "finished" /\ ~sockOpen
            /\ \A w \in Writers : epc[w] = "idle"
            /\ epc["gc"] = "closed"

\* CloseConn returns although the peer stopped reading: "a peer that stopped
\* reading cannot pin CloseConn".
CloseConnReturns == closing ~> once = "done"

=============================================================================
