# A TLA+ verification of getty

getty is a Go network library: `transport/` gives an application sessions over tcp, tls, udp and websocket
connections, kept by a client with a connection pool or accepted by a server. This directory holds TLA+ models of its
concurrent parts and of the tcp echo programs in `examples/`, the TLC configurations that check them on small
instances, and TLAPS proofs of the safety properties of the session's life, the server's shutdown, the client's pool and
the compressed connection for every number of participants.

`PROJECT.json` lists components, runs, mutants, the map from definitions to source lines, findings, hazards and theorems.

## The system

| part | source | state | operations | talks to |
|---|---|---|---|---|
| session lifecycle | `session.go` | connection, handlers, attributes, `once`/`done`/`lifecycle`, heartbeat timer, `grWG`, `callbackDepth`, `resetRun` | `run`, `handlePackage`, `stop`, `gc`, `Close`, heartbeat, `addTask`, `Reset`, `TryReset`, `ResetAsync` | application callbacks, timer wheel, task pool, the client's `runReconnect` |
| write path | `session.go`, `connection.go` | `packetLock`, `writeLock`, write timeout and deadline | `WritePkg`, `WriteBytes`, `WriteBytesArray`, `Send`, `SetWriteTimeout` | `stop`/`gc` of the session |
| receive loops | `session.go`, `connection.go` | `pktBuf`, read buffer, `maxMsgLen`, `err` | `handleTCPPackage`, `handleUDPPackage`, `handleWSPackage`, `SetMaxMsgLen` | the application's `Reader`, `addTask` |
| close callbacks | `callback.go`, `session_callback.go` | linked list, `closeCallbackMutex` | `Add`, `Remove`, `Invoke` | `stop`, `reset` |
| client pool | `client.go` | `ssMap`, `reconnectDone`, `reconnectPending`, `done` | `RunEventLoop`, `runReconnect`, `reConnect`, `connect`, `stop` | stopping sessions |
| server | `server.go` | `done`, `once`, `lock`, listeners, http server, `wg` | `RunEventLoop`, listen, publish, event loops, request handlers, `Close` | accepted sessions |
| tcp codec | `connection.go` | polling reader and writer, flushers, `codecBroken`, `closing` | `SetCompressType`, `recv`, `Send`, `CloseConn` | the session's `stop`, `gc`, `IsClosed` |
| echo programs | `examples/echo/tcp-echo/` | the client's list and the server's map of sessions, `reqID` | `Marshal`, `Unmarshal`, `OnOpen`, `OnMessage`, `OnCron`, `OnError`, `OnClose`, `heartbeat`, `echo`, the programs' ends | sessions on both sides |

What is hard about them, and which property would notice it going wrong, is the `hazards` list of `PROJECT.json`. The
recurring themes: a close racing startup; a reset replacing fields that tasks still use; a trigger or a listener lost
between a test and the assignment after it; fragments and timeouts of concurrent writers; bytes that come together with
an error; a timeout that may mean idleness, a slow peer or a dead one.

## Modules

| module | models | note |
|---|---|---|
| `Session` | the session lifecycle | one `pc` for all goroutines; `once`, `done` and `lifecycle` are indexed by generation, since a goroutine may hold the object of an earlier one; a raw writer is `WriteBytes` or a `WriteBytesArray` that reads the connection before it takes `packetLock`; a WaitGroup is the set of those counted in it |
| `SessionInvariant` | its inductive invariant | |
| `SessionLemmas`, `SessionTypesProofs`, `SessionOrderProofs`, `SessionStopProofs`, `SessionProofs` | its proofs | by parts of the invariant; the theorems are in `SessionProofs` |
| `PacketWrites` | the write path | sizes in units of which `MaxPacketLen` make a fragment; the wire is the sequence of writes the peer gets |
| `StreamReceive` | `handleTCPPackage` | `pktBuf` is the bytes between two counters over a stream of packages, and the Reader finds whichever package begins at the first; a tls connection starts with its handshake |
| `MessageReceive` | `handleUDPPackage`, `handleWSPackage` | a message is its length and what the Reader makes of it; the udp length check reads `maxMsgLen` twice, as the code does |
| `CloseCallbacks` | the linked list of callbacks | `CloseRegistry` is its abstract specification |
| `ClientPool`, `ClientPoolProofs` | the client | a session is open, dying (its `stop()` has still to read the attributes) or gone |
| `Server`, `ServerInvariant`, `ServerProofs` | the server | wss is ws with certificates |
| `CodecStream`, `CodecProofs` | a compressed connection and the session around it | bytes are counted, `BlockLen` of them make a block; a discrete clock lowers deadlines and raises the ages of `lastDelivery` and `lastProgress`; `session.lock` is an RWMutex whose pending `Lock` keeps readers out |
| `EchoPackage` | the echo wire format | a package is a header and a counted string; the stream is a sequence of units, the length byte one of them |
| `EchoNet` | what the programs see of `transport` | byte streams, read loop, tasks, end of a session: the outcome of what the modules above model in full |
| `EchoClient`, `EchoServer` | the two programs | the tables are sets of sessions, without the request counts that are only logged; choosing a session, writing, `Close` and `removeSession` after a failed write are steps of their own |
| `EchoSystem` | their composition | the properties of the whole |
| `MC*` | instances for TLC | constants and symmetry; `MCEchoSystem` also assumes, so that TLC evaluates it, that `Unmarshal` inverts `Marshal` at every cut |

An action is one critical section or one step between two points at which another goroutine can be noticed. Operators
named in a comment as a *mutant* are faulty variants of the definition after them. They are used by no specification;
substituted for it they show that a property can fail.

External code is modelled by how the source uses it: the application's `Reader` by its documented results, the timer
wheel and the task pool as tasks that start at any later time, `http.Server` by Serve and Shutdown, a `tls.Conn` as a
connection without writev, an encoder as what puts the bytes of a block on the wire and repeats the error it once met, a
decoder as what asks for bytes until it has output.

## Runs

| run | instance | properties | distinct states |
|---|---|---|---|
| `session_life` | a closer, a heartbeat task, a message task in a task pool, a reset, one generation change | `NoStaleWork`, `CallbacksKeepFields`, `NoLeakedTimer`, `ReconnectNotLost`, `ResetCompletes`, `ClosedReleases` | 424,560 |
| `session_writers` | a message on the read goroutine, a `WritePkg`, a raw writer, two resets, two generation changes | `SuccessMeansFinished`, `ClearsOnlyWhenQuiet` | 5,039,442 |
| `packet_writes` | two calls out of eleven on four kinds of connection | `FragmentsContiguous`, `MessagesWhole`, `CountsHonest`, `TimeoutContained`, `CallsReturn` | 369,390 |
| `stream_receive` | streams of up to three packages and a bad one, reads of up to four bytes, limits none, 2, 3 | `DeliveredInOrder`, `NothingHeldBack`, `LimitIsPerPackage`, `ErrorsAreReal` | 117,422 |
| `message_receive` | three messages around limits 2 and 6, a read buffer of at most 8 | `DeliveredInOrder`, `LegalDelivered`, `NoTruncatedMessage`, `ErrorsAreReal` | 3,616,878 |
| `close_callbacks` | two users, three keys and one Go cannot compare, three nodes | `ListSound`, `RefinesRegistry` | 6,314 |
| `client_pool` | pool of two, three sessions, two loops, two attempts | `SingleFlight`, `PoolBounded`, `NoLeakedSession`, `IdlePoolIsFull`, `CloseEndsLoop` | 2,352,066 |
| `server_shutdown` | three Close calls, two requests, all kinds | `TypeOK`, `ListenerNotLeaked`, `FirstCloseWaits`, `CloseTerminates` | 15,340 |
| `codec_stream` | a writer, the close of the session, blocks of two bytes through a window of one, stall timeouts 0 and 2 | `BrokenForCause`, `WireWhole`, `StallEnds`, `CloseEnds` | 596,327 |
| `echo_system` | two listeners, a limit of one session; a client with one connection and two requests, or one with three connections of which two share a port | `EchoFaithful`, `SessionLimit`, `DroppedEnds`, `EndsForgotten` | 261,442 |

What the properties say, beside the types:

- `session_life`: nothing is counted in a lifecycle that a reset has replaced; no callback finds the fields cleared; no
  timer is left on the wheel by a stop; `gc()` does not clear the attributes before `stop()` has read them; every reset
  request is answered, also one made inside a callback; a session that was started and closed closes its transport.
- `session_writers`: a nil result of a reset means that work, cleanup and clearing are over, but for a
  `WriteBytesArray` that read the old connection before it took `packetLock`: its send, on the closed transport, may come
  after the result. The clearing step finds nobody at work in the session's fields.
- `packet_writes`: no write lands between the fragments of a package; a websocket peer gets whole packages; the
  reported count is what the peer sees; a per-call timeout stays with its call; every call returns.
- `stream_receive`, `message_receive`: what was received and is legal is delivered, once and in order; limits hit only
  what is above them; timeouts and refused messages are not reported as the error of a closed tcp or websocket session.
- `close_callbacks`: the list is what the documentation of the two calls promises.
- `client_pool`: one reconnect loop at a time, a bounded pool, no session left open by `Close`, no lost trigger.
- `server_shutdown`: no listener outlives a `Close`; the `Close` that shuts down waits for the event loop.
- `codec_stream`: the reader declares a stream broken only inside a block that got nothing for `codecStallTimeout`, a
  writer only when the transport took nothing for as long or the connection is being closed; the peer's decoder never
  meets bytes that do not belong where they are; a peer that dies inside a block is noticed; closing the session ends
  reader, writers and socket whatever the peer does.
- `echo_system`: while no write on a connection was cut short, what comes back was asked there, once, and no legal
  package fails to decode; a client that cut a package short is about to close the session, though its other writer may
  still write into the spoilt stream, while the server's handler keeps it; the server's limit is exceeded by at most one session for each further listener, because `OnOpen` tests and inserts in two critical
  sections; a session the client drops without closing it ends; a program that ends is forgotten by the other.

`TypeOK` is a property of its own only where it bounds a number (the accept back-off of `Server`); elsewhere it is part of
another invariant or proved.

Two runs state what a comment says and show that the code does otherwise (`findings` in `PROJECT.json` quotes the lines):

- `server_second_close`: a second `Close` can return while `startEventLoop` is between its test and its `Add`.
- `codec_close`: `Session.CloseConn` waits for the flusher's lock with `session.lock` held for reading. The `Send` that
  holds the flusher asks `IsClosed`, behind the `Lock` of `stopHeartbeat`. If its deadline expired before `closing` was
  set, none of the three goes on. The `CloseConn` started by `gc()` holds no lock and returns (`CloseEnds`).

Some smaller disagreements and oddities are visible in the models without a run of their own. On tls another write can land between
the packages of a `WriteBytesArray` (`PacketWrites`: `Plan`, `Exclusive`), where `session.go:867` says the batch is one
Send. A read error that comes with bytes is overwritten by the decoding and not reported to `OnError` (`StreamReceive`:
`Decode`). udp and websocket sessions continue after a decoding error (`MessageReceive`: `Decode`), where `getty.go:97`
says the connection is closed. The udp loop returns the error of its last pass when it finds the session closed
(`MessageReceive`: `Check`). Its length check reads `maxMsgLen` twice without `session.lock`, so that a
`SetMaxMsgLen(0)` in between refuses a legal datagram; `LegalDelivered` excuses that case (`lifted`).

### Bounds

`MaxGen` bounds completed resets; a second one is what meets requests left from the first. Two concurrent writers are
enough for an interleaving of fragments, and five units against fragments of two give three fragments;
sizes of zero, two and four units are whole fragments. Streams of three
packages over reads of four bytes split a package over reads and put several in one. Pool size two lets one session die
while another is admitted, and two loops one loop start while the channel of the other is still open. Limits and buffers
are scaled down together (`MaxReadBufLen`, `MaxUDPBuf`), so that every branch of `udpReadBufferSize` is taken.

A block of two bytes can be interrupted, and a window of one makes the writer depend on the peer inside it. A stall
timeout of two ticks with poll intervals of one lets a poller see silence that is not yet a stall. `InBytes` of two is a
whole block, or one cut in the middle; `Sends` of one still races the trailer of `CloseConn` for the flusher. A connection
is given a codec at most once. In the echo system headers have two units; a string of two is above
`MaxEchoStringLen`, a string of one and a heartbeat's are not. Traffic and admission are checked on different instances of
one run: two requests let the echo loop and the heartbeat write on one session and their replies change places, and three
connections on two ports are one more than the limit allows, with both the sharing and the racing of listeners.
`MaxRequests` bounds the requests of a client, and a connection is made at most once.

Symmetry is used for interchangeable goroutines, only in runs without liveness properties. Deadlock is not checked where
the system may stop: a returned call, an ended loop, a closed client or server.

### Fairness

Weak fairness of each goroutine's own steps, since the Go scheduler runs what can run. It includes that callbacks
return and that dials and sends end, which their timeouts ensure. It does not include that anybody calls `Close` or
`Reset`, that data arrives, or that `Accept` on an open listener returns (`LoopProgress`). In `CodecStream` time passes
and nothing is assumed of the peer. In `EchoSystem` some step of the clients and some step of the server that can be taken
is eventually taken; `OnCron` is one of them because the heartbeat timer is periodic.

## Proofs

`SessionProofs` proves for any sets of closers, tasks, writers and resets, any `MaxGen`, with or without a task pool:
`SessionTyped`, `SessionNoStaleWork`, `SessionCallbacksKeepFields`, `SessionSuccessMeansFinished`,
`SessionNoLeakedTimer`, `SessionReconnectNotLost`, `SessionClearsOnlyWhenQuiet` and `SessionResultsAreFinal`. The
assumptions are `RolesDistinct` (a process has one role) and `ParametersTyped`.

None of these is inductive. `IndInv` says what every counter means: `grWG`, `callbackDepth`, `packetLock` and the
lifecycles' WaitGroups count exactly the goroutines inside the counted regions (`CountersExact`, `LifecyclesExact`);
past generations are finished and later ones fresh (`GenerationsOrdered`); and how far `stop()` and the reset worker have
come determines who may still run (`OnceOrdered`, `TimerOrdered`, `ConnOwned`, `WorkerOrdered`, `RequestsOrdered`,
`SendsOrdered`: a `WriteBytes` that is sending found the connection under `packetLock`, which the clearing step also
takes, so no reset has cleared it). The
central step is `WorkerClear`: behind `grWG.Wait()` and `lifecycle.wait()` the counters are empty, so by exactness nobody
is in a callback, and the fields can be cleared. Each action has its lemma; a lemma is split by the conjuncts of the
invariant that the action can disturb.

`ServerProofs` proves `ServerTyped`, `ServerListenerNotLeaked` and `ServerFirstCloseWaits` for any number of Close calls
and requests, from `KindsKnown` and `RolesDistinct`. The argument of its `IndInv` is `NoLateStart`: who saw `done` open under
`s.lock` has left the critical section before the body of `stop()`, which closed `done` first, gets that lock.

`ClientPoolProofs` proves `PoolSingleFlight`, `PoolIsBounded`, `PoolNoLeakedSession`, `PoolIdleIsFull` and `PoolTyped` for
any pool size, attempt limit and sets of sessions, loops and callers, from `SizesPositive` and `NamesDistinct`. Its `Inv` adds
who owns an open session (`Owned`: the pool, `Close`, or the loop that is connecting it) and why a short pool is not
forgotten (`Served`: a pass is under way, a trigger is pending, or a session that will trigger one has not stopped yet).
The step that matters is the top of the loop, which gives up only with no trigger pending.

`CodecProofs` proves `CodecWireWhole`, `CodecBrokenForCause` and `CodecTyped` for any number of writers and any timeouts,
block size, window and traffic, from `StreamParameters`. `Exclusion` says that who is inside the encoder holds the flusher and
that no error is latched; with it an incomplete block on the wire belongs to that writer or the encoder refuses all others
(`Decodable`). `Ages` relates the age the poller looks at to the time the transport was really quiet: a byte taken by the
current `conn.Write` makes the transport younger than `lastProgress` until the deadline, which then resets it.

All these invariants were checked with TLC before they were proved.

Only model-checked: liveness (temporal reasoning under fairness and `ENABLED` are outside what the proof system
handles), what folds and recursive functions compute (induction over data), and all of `PacketWrites`,
`StreamReceive`, `MessageReceive`, `CloseCallbacks` and the echo modules.

## Not modelled

- What the compressors compute: a block is so many bytes. Corrupt compressed input is not modelled.
- Counters, names, `Stat`, accessors; tls configuration; options and constants; the logger; the benchmark.
- The udp, ws and wss echo programs, which repeat the tcp ones with another constructor, the browser clients, and the
  examples' configuration files.
- `ResetCompletes` is checked with one request; requests that join a running reset are covered by `RequestsOrdered` and
  `SessionResultsAreFinal`, which are safety.
- One writer of a compressed connection meets the trailer of `CloseConn` in `codec_stream`; more writers are covered by
  the proof of `CodecWireWhole`.
- The certificate-loading panics of the wss server, and gorilla's own websocket read limit.
- A timeout of a websocket read is more frequent in the model than in gorilla, which keeps a failed read's error.
- A reset inside `NewSessionCallback`, before `connect()` or `accept()` calls `run()`: `Session` starts with `run()`.
