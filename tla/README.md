# Verification of go-wirenet

TLA+ models, TLC checks and TLAPS proofs for go-wirenet: a Go package in which
clients keep one multiplexed (yamux) TCP connection to a server, and both sides
open named, bidirectional streams over it. In hub mode the server routes the
streams that one client opens to the client that serves their name. Nine modules
model the package and one of its example programs, two more state what some of
them implement; nine TLC runs check what they promise, three exhibit what the
code does not keep; eight proof modules prove 34 theorems.

The models are translated from the code of the repository, with its tests and
README as witnesses of what is intended. Lines such as `session.go:253` refer
to the files under `src/`.

## 1. The system

### Components

| component | source | state | operations that change it |
|---|---|---|---|
| client wire | `wirenet.go` | `closed`, `conn`, `connCounter`, `closeCh`, `waitCh`, `sessions` | `Connect` (`acceptClient`: dial, handshake, wait, retry, reconnect), `Close`, the goroutine `shutdown`, `unregisterSession` |
| server wire | `wirenet.go` | `closed`, `conn`, the listener, `sessions` | `Connect` (`acceptServer`), `Close`, `shutdown` |
| registry | `wirenet.go`, `session.go` | `sessions`, `streamIndex`, `handlers` | `registerSession`, `unregisterSession`, `Stream`; read by `findSession`, `findHandler`, `validateStreamName`, `serveHub`, `serve` |
| session | `session.go` | `closed`, `activeStreams`, `streams`, `closeCh`, the yamux connection | `open`, `OpenStream`, `dispatchStream`, `serve`, `serveHub`, `Close`, `shutdown` |
| stream | `stream.go` | `closed`, a mutex, `hdr` and `buf` | `ReadFrom`, `WriteTo`, `Writer`, `Reader`, `Close` |
| frames, handshake | `frame.go`, `wirenet.go` | the decoder's buffer | `Encode`, `Decode`, `sendFrame`, `recvFrame`, `openSession`, `confirmSession` |
| hub pipe | `session.go`, `stream.go` | what each goroutine has read and not written | `serveHub`'s two goroutines, `pipe` |
| retry policy | `options.go`, `wirenet.go` | `connCounter`, the end of the wait | `DefaultRetryPolicy`, the waiting loop of `acceptClient` |
| options, errors, certificates, protobuf | `options.go`, `errors.go`, `cert.go`, `pb/` | fields | setters, formatting, file reading, generated code |
| examples | `examples/reconnect` and others | `startIndex` of the reconnecting client | `read`, `main` |

### Interaction

`Connect` of the client dials, agrees on a session with the server's `Connect`
(one request and one response frame over the first yamux stream), and then
starts two goroutines for the connection: `wire.shutdown`, and `session.open`,
which registers the session with the wire, starts `session.shutdown` and accepts
streams. Every stream that the peer opens gets a goroutine `dispatchStream`.

Closing runs through channels that carry channels. `Session.Close` sends a
reply channel on `session.closeCh` to `session.shutdown`, which waits for the
streams, closes the connection and answers; then `Close` unregisters the session
from the wire. On a client, the wire's last session to unregister calls
`wire.close`. `Wire.Close` and `wire.close` send a reply channel on
`wire.closeCh` to `wire.shutdown`, which calls `Session.Close` on every session
it finds, closes the connection (or the listener) and, on a client, closes
`waitCh`, on which `Connect` waits; then it answers.

Shared state is guarded by three kinds of mutex (of the wire, of a session, of a
stream), and some of it by none (`waitCh`, `closeCh`, the forced loop's range
over `session.streams`).

### What is hard, and what makes each component correct

* **Session.** Streams, callers of `Close`, and the shutdown goroutine
  interleave freely; the counter and the map of streams are changed in several
  places; two mutexes are taken in two orders; a timeout may expire at any time.
  Correct: the counter agrees with the map, a graceful close leaves no stream,
  one `Close` wins, nobody waits for ever, a session leaves the wire's table only
  when its connection is closed.
* **Client wire.** The flag that `Close` tests, the channels it uses and the
  goroutine that receives from them are set up at different times; the session's
  close calls the wire's close, and the other way round. Correct: one session at
  a time, `Close` finds it, no goroutine waits for itself, a lost connection is
  noticed.
* **Server wire.** `Close` runs while a handshake of unbounded length is under
  way. Correct: what was open is closed, `Connect` ends, without an error.
* **Registry.** Sessions of one client overlap when it reconnects. Correct: the
  index leads only to registered sessions, and finds the names they serve.
* **Stream transfer.** Reads and writes are cut anywhere by the flow control.
  Correct: messages arrive whole, once, in order.
* **Named streams and the hub pipe.** A stream is confirmed to its opener before
  the name is looked up again and the second hop opened; two goroutines copy
  between two hops, each with its own flow control, closes and losses. Correct:
  an opener that got a stream was accepted and is served or learns that it is
  not, bytes arrive in order and none is dropped, the hub keeps nothing when the
  opener has gone.
* **Retry.** A product of floating-point numbers is converted back and compared;
  the wait is polled in naps and compared in whole seconds. Correct: bounds,
  monotony, a `Close` that cuts the wait short, giving up in the end.
* **Reconnect example.** The client counts `Read` calls and asks for that index on
  the next connection. Correct: nothing is skipped, everything arrives at last.
* **Handshake.** Frames may be torn by deadlines and lost connections. Correct:
  a refused client knows it, and both sides end up with the session or neither.

`PROJECT.json` lists these hazards one by one, each at its line and with the
properties that cover it.

## 2. Modules

| module | models | extends, or instantiates |
|---|---|---|
| `SessionLife` | abstract: the order in which a session is registered, closed, drained, cut and unregistered | |
| `Session` | one session with its streams, callers and shutdown goroutine | `Life == INSTANCE SessionLife` |
| `Registry` | the tables of a wire, the routing of streams, the hooks | |
| `ClientWire` | `Connect`, `Close` and the shutdown goroutines of a client | `Life == INSTANCE SessionLife` |
| `ServerWire` | `Connect`, `Close` and the shutdown goroutine of a server | `Life == INSTANCE SessionLife` |
| `MessageChannel` | abstract: what one direction of a stream promises | |
| `Transfer` | `ReadFrom`/`Writer`, the yamux window, `WriteTo`/`Reader` | `Channel == INSTANCE MessageChannel` |
| `Handshake` | `openSession` and `confirmSession`, frame by frame | |
| `NamedStream` | opening, serving and piping one named stream, over one hop or two | |
| `Retry` | `DefaultRetryPolicy` and the loop that waits by it | |
| `Resume` | the two programs of `examples/reconnect` | |
| `SessionProofs`, `RegistryProofs`, `ClientWireProofs`, `ServerWireProofs`, `NamedStreamProofs`, `TransferProofs`, `ResumeProofs` | theorems and proofs | the module proved about, `TLAPS` |
| `ConnectProofs` | theorems and proofs about how a client connects | `Retry`, `Handshake`, `WellFoundedInduction`, `TLAPS` |
| `MC*` | instances for TLC | the module checked |

**Grain of atomicity.** A step is what one goroutine does between two points at
which another can interleave: a critical section, a channel rendezvous, a system
call or an answer of the peer. A test and the assignment that follows it in
another critical section are two steps, because they are in the code. So
`IsClosed` and `closed = true` in `Session.Close` are `CloseCheck` and
`CloseMark`; in the wires' `Close` they are `CloseCheckConn`, `CloseCheckClosed`
and `CloseUp`.

**How the modules fit together.** `ClientWire` and `ServerWire` contain the
close of a session in five steps (`SessionCheck`, `SessionMark`, `SessionTake`,
`SessionCut`, `UnregisterSession`) and leave out its streams. That these steps
are what a session does is checked through `SessionLife`: `Session`, with its
streams, callers and shutdown goroutine, implements it for one session, and the
two wires implement it for all of theirs, so what a wire relies on is what the
session does. A drain ends because `Session.ClosingCompletes` says so. The
handshake, which is one step in both wires, is `Handshake`; the wait between two
attempts, also one step, is `Retry`. `Registry` leaves out how a session ends and
keeps only that it does in two steps, `CloseSession` and `UnregisterSession`; what
becomes of a stream that it routes is `NamedStream`, with the checks of its token,
which leave no trace in the tables and are left out of `Registry`. `Transfer` leaves out the
locking of a stream, which is in `Session`, and `NamedStream` leaves out the chunks
of a message, which are in `Transfer`. `Resume` uses the package as a whole, of
which it keeps what the other modules say: a lost connection ends its session,
which waits for its stream or closes it by force, then `Connect` dials again, and
messages arrive whole and in order as far as they arrive.

### Session

| variable | in the code |
|---|---|
| `closed`, `active`, `streams` | `session.closed`, `session.activeStreams`, the keys of `session.streams` |
| `registered`, `connClosed` | is the session in `wire.sessions`; is the yamux connection closed |
| `sd`, `expired`, `todo`, `victim`, `client` | the goroutine `session.shutdown`: where it is, has its timeout passed, what its range loop still visits, the stream it closes by force, whose `errCh` it holds |
| `cpc[c]` | where each goroutine in `Session.Close` is |
| `spc[st]`, `marked`, `closes` | the goroutine that uses a stream, `stream.closed`, how often the user closed it |

Served streams go `AcceptStream`, `Confirm` or `Refuse`, `StartStream` (with
`RegisterStream`), the handler, `ServeCheck`, `ServeClose`, `ServeEnd`; opened ones
`OpenStream`, `Confirm`, `StartStream`. The user's code transfers
(`BeginTransfer`, `EnterTransfer`, `EndTransfer`), closes (`CloseStream`,
`CloseStreamEnd`), returns or panics. `unregisterStream` takes `s.mu` and then,
in `stream.ID()`, the mutex of the stream, so the forced close is split into
`ForceMark`, `ForceLock` and `ForceUnregister`; `ReadFrom` and `WriteTo` hold the
stream's mutex and then take `s.mu`, which is `EnterTransfer`.

### Registry

`sessions`, `streamIndex`, `handlers` and `wireClosed` are fields of the wire; `phase` is
where each session is in its life; `req` and `route` follow each stream through
`validateStreamName` and then `serveHub` or `serve`; `hooks` holds the hook
goroutines not yet run and `table` is what a user keeps with them, in the way of
the repository's README. `FindSession` and `NameIsValid` are `findSession` and
`validateStreamName`; `Stream` registers a handler, at any time. A reconnected
is a second session with the same names.

### ClientWire and ServerWire

`closed`, `conn`, `attempts` (`connCounter`), `listening` are fields; `gen`
numbers the channels `closeCh` and `waitCh`, which `acceptClient` makes anew for
each connection, and `chan[p]` is the one that `p` is sending on. `con` is where
`Connect` is and `err` what it will return; `sess`, `sclosed`, `taken` and `lost`
are each connection's session, its `closed` flag, whether its shutdown goroutine
has received a caller, and whether the connection is closed; `sd` is where
`wire.shutdown` is; `pc` where each goroutine in a `Close` is. `ShutdownRecv`
takes the copy of the table and starts the closes of all sessions in it. The
code calls them one after another; the model lets them run in any order, which
allows every order that the code has, the map having none, and more. On the
server an `Accept` may fail because the listener is closed (`AcceptFails`) or while
it is open (`AcceptErrs`), and `yamux.Server` may fail (`ServeFails`); each ends the
loop of `Connect`.

### MessageChannel and Transfer

`MessageChannel` says: messages are sent, delivered in order, whole and once;
when the stream ends within a message, the beginning of it may be delivered as
the last. `Transfer` has the sender (`spc`, `out`, `next`, `source`), the bytes
under way (`net`, at most `Window`), and the receiver (`rpc`, `size`, `buf`,
`count`, `got`). Bytes are records that name where they come from, so that a
reordered, repeated or missing one is visible. `ReadChunk` writes a header and
then the chunk; `Push` moves what the window has room for, so writes are cut
anywhere; `ReadHeader` and `ReadData` are one `conn.Read` each, and return what is
there. `Receiver` chooses between `WriteTo` (which reads after what it has) and
`Reader` (which reads to the start of its buffer). When a chunk is complete
(`ChunkRead`), `WriteTo` hands it to its sink: `SinkWrite` is one `w.Write(p)`, which
takes it all, fails, or is short (`Writes`); `wt` is what has been counted. After a
short write the code writes `p` from its start again (`stream.go:181-197`), and so
does the model. `SinkFailed` is the return of `WriteTo` with an error: the rest of the
message stays in the stream, and the next `WriteTo` takes it for a message; `broken`
has the numbers of these messages. `resetBuffers` renews buffers whose old content is
not observed, and is left out. `Cut` is a session closed under the stream, and
`StreamClosed` that the receiver notices it between two chunks.

The refinement mapping is the identity on `sent`, `ended <- rpc = "stopped"`, and
`delivered <- Kept`: what was delivered, except that of a message in which a sink
failed nothing is said but that it counts as one. So `IsChannel` says that the failure
of a sink does not disturb the messages before it and after it, and does not say that
the user has that message, which is not so (see `DeliveredIntact` below).

### Handshake

`cl` and `sv` are where the two sides are, `sent` and `arrived` the frames and how
many of their pieces have arrived, `expired` the deadlines that have passed,
`verdict` what the token validator said, `errLen` the length of its error's text,
`altered` who decoded a torn frame without noticing. `Decode` returns a frame whose
body is not complete without an error when a later `Read` returns nothing
(`frame.go:99`): `Torn`.

The request has `Pieces`; of a torn one the model says only that it may be an error
(`ServerFails`) or not (`ServerDecode`). The response is modelled cell by cell, since
the client has nothing but it to tell a refusal from an acceptance: `Payload(e, k)`
is a field of `FieldLen` for the session's id and the stream names together, then an
err of `e` if the validator gave one a text, with zeros from cell `k + 1` on;
`Unmarshals` and `ErrOf` are what protocol buffers make of it, who know no field of
number zero. `ClientDecode` takes a response without an err for an acceptance, as
`len(resp.Err) > 0` does (`wirenet.go:611`), and looks at nothing of the server's.

### NamedStream

The two hops are `near` (opener to the wire it reaches) and `far` (hub to the
session that provides the name). `opener[h]` is where `Session.OpenStream` is, the
user's or the hub's; `server[h]` where `dispatchStream` is; `verdict[h]` what
`readFrame` said of token and name; `line[h][d]` what is under way, frames and
bytes; `shut` the ends on which `Close` was called; `lost` the hops whose
connection is gone; `pipe` and `hold` the hub's two copying goroutines and what
each has in hand; `counted`, `closing` and `expired` the streams that the hub's
sessions wait for, their closes, and the timeout. A frame is a header and a body;
`Decoded` returns a frame whose body was cut off without an error (`frame.go:99`),
and `TakeAnswer` accepts every frame that is not an err frame, as the test at
`session.go:333` does. `HubOK`, a part of `TypeOK`, relates what the hub counts and
copies to where `serveHub` is. What of the two tables decides (`Serve`, `Relay`, `GiveUp`)
is any of the outcomes that `Registry` has. `ServeHubReturn` follows the pipe from
the opener, the one that `serveHub` runs itself; the other one closes nothing.

### Retry

`con`, `attempts` and `closed` are the loop, `connCounter` and `wire.closed`; `now`
the clock, `began` and `due` the begin and the end of the wait, `wake` the end of
the nap; `since` counts how long a `Close` has gone unnoticed. `Policy(n)` is the
set of what `DefaultRetryPolicy` may return: the product is exact, its conversion
to a `Duration` that it does not fit is what a processor makes of it, and the
conversion back rounds the largest integer up. The clock is set back by whole
seconds at the begin of a wait, since only differences and the place within a
second matter. A wall clock that is set forward or back meanwhile is not modelled
(`time.Now().Unix()` is compared, without the monotonic reading).

### Resume

`startIndex` is the client's variable; `con`, `gen`, `wireClosed` and `asked` are
`Connect`, the connections made, the wire's flag and the request to
`wire.shutdown`; `lost` and `forced` the connections lost and the sessions closed
with the hook's stream still open. For each connection, `hook` is where `read(sess)`
is, `index` what it asked for, `first` and `next` where the handler of the server
began and is, `arrived`, `held`, `inHand` and `printed` where the bytes are: with
yamux, in the Reader's buffer, returned by `Read`, on the terminal. Of what may go
wrong before a session is open only the refused dial is kept: a failed handshake
leads to the same next attempt. `Fill`, `Read`
and `ReadEnds` are `Reader.Read`; `Output` prints, and counts the `Read`.

## 3. What TLC checks

| run | bounds | properties | result |
|---|---|---|---|
| `session` | one opened and one served stream; closed by a user goroutine, the handler itself and the accept loop; peer may cut, handlers may panic; 1 user close a stream | `TypeOK`, `CounterBound`, `ReleasedOnReturn`, `OneWinner`, `GracefulDrain`, `ClosingCompletes`, `SessionLives` | hold; 119 054 states |
| `session_lock_cycle` | one served stream | `NoLockCycle` | **violated** |
| `registry_hub` | client a with two sessions, client b, a name that the hub handles too, two streams | `TypeOK`, `IndexSound`, `UniqueNamesFound` | hold; 331 442 states |
| `client` | one user, 2 attempts, 2 connections, peer drops, user closes sessions | `TypeOK`, `OneSession`, `ConnWhileSession`, `NoSelfWait`, `WokenWhenGone`, `LossIsNoticed`, `SessionsLive` | hold; 96 417 states |
| `client_close_handshake` | the same, nothing lost | `CloseReturns` | **violated** |
| `server` | two users, two clients, peers drop | `TypeOK`, `FoundAreClosed`, `CleanCloseIsNil`, `ReceivedCloseEnds`, `SessionsLive` | hold; 325 957 states |
| `transfer` | header 2, buffer 4, window 4, chunks of 2 and 4, 3 messages of up to 2 chunks, `WriteTo`, sinks that fail, cuts | `TypeOK`, `IsChannel`, `AllArrive` | hold; 215 307 states |
| `transfer_reader` | the same with `Reader`, 2 messages of up to 3 chunks, no cuts | `DeliveredIntact` | **violated** |
| `handshake` | a request of 3 pieces, a response with 2 bytes ahead of its err, errors of length 0, 1 and 2, losses | `TypeOK`, `OpenedIsAccepted`, `SettleTogether` | hold; 3 399 states |
| `named_stream` | one or two hops, 3 bytes forward and 1 back, window and buffer 2, refusals, closes, losses | `TypeOK`, `BytesInOrder`, `OpenedIsAccepted`, `ConfirmedIsServed`, `OpenerEndFreesHub` | hold; 182 038 states |
| `retry` | 6 attempts, minimum 2, maximum 11, largest integer 15; a second is 4 units, a nap 2, late by at most 1 | `RetryTypeOK`, `WaitInBounds`, `WaitsAreKept`, `GivesUp` | hold; 19 322 states |
| `resume` | messages 0..6 of 2 bytes, a buffer of 3, 2 connections | `TypeOK`, `NoGap`, `LastingConnCompletes` | hold; 277 163 states |

Each property of a passing run has a mutant in `PROJECT.json`: a definition of
the model changed as a plausible bug would change the code, under which TLC finds
that property violated.

What the properties that are not plain from their names show: `SessionLives` and `SessionsLive`, that a session and the
wires' picture of it go through the same life (see above). `FoundAreClosed`,
that when `wire.shutdown` answers, each session that it found is out of the table, or
its own accept loop closed it first and is about to take it out. `CleanCloseIsNil`,
that `Connect` reports no error when its `Accept` fails because a `Close` has closed
the listener. `OpenedIsAccepted` of `Handshake`, that however a response is torn, and
whatever is missing of it, no refusal with a text is read as an acceptance.
`ConfirmedIsServed`,
that an opener that was told its stream is open gets a handler, or a pipe, or
sees the stream end, whatever happens between the answer and the second look at
the tables. `BytesInOrder`, that each end reads a beginning of what the other
wrote, and that, while nothing is closed or lost, what it has not read yet is
under way, on the one hop, in the hub's hands, or on the other, in order. `OpenerEndFreesHub`, that a hub lets go of both hops when the opener
ends, although only one of its goroutines closes anything. `WaitsAreKept`, that
the waits of one outage never become shorter, through the overflow, and that the
next dial comes less than a second early and at most a nap late. `NoGap`, that a
client which counts Reads for messages nevertheless never asks for one too far,
because a Read is at least a message, or the last, and because the session of a
lost connection waits for the hook that counts.

**Why the bounds are enough.** The hazards of closing need at most two parties of
a kind: two callers of `Close`, a stream and the forced loop, two sessions of one
client, a lost connection and its successor. A handler that closes its own
session is among the callers of `session`. The client's second connection is
where a stale channel, flag, error or session of the first can matter; a run of
`ClientWire` with three connections (1.9 million states) finds the inductive
invariant of its proof to hold as well. In `transfer` the window holds less than a
header and the largest chunk, so a chunk of 4 may be cut, and the sender blocks;
chunks and window are multiples of the header, which is when no header is cut
(see below). In `named_stream` the far hop is full with two bytes and the pipe
holds two more, so a pipe is caught with bytes it cannot write, and a frame fits
the window. In `retry` the attempts make the products 2, 4 and 8, then 16 and more,
which no longer fit; the maximum lies between. In `resume` a message is two bytes and a
buffer three, in about the proportion of 22 or 23 to 32: Reads and messages get
out of step, and a Read may take the beginning of a message that is then cut. In `handshake` three pieces are a header, a part that is torn off, and
a middle; the response may be cut after any of its cells: at a tag, at a length, and
within a field. The proofs remove the bounds for the properties they cover.

**Deadlock** is not checked: every system here may stop, when it is closed, when
the peer does nothing, or at a bound. That it does not stop too early is what the
liveness properties say.

**Bounds in the guards.** `MaxCloses` (closes of one stream by its user),
`MaxConns` (connections, in `ClientWire` and `Resume`), `MaxMsgs` and `MaxChunks`
(messages and chunks), `MaxBytes` (bytes of a named stream) and `Late` (how late a
`Sleep` may end) cap what the code does not.

### Fairness

Weak fairness is assumed of each goroutine that the library runs: the Go
scheduler runs every goroutine that can go on. It is assumed for each goroutine
alone, not for all together. What is not assumed: that a user transfers, closes or
returns; that a peer connects, answers, reads or leaves; that a dial succeeds.

* `Session`: strong fairness for the forced close's wait for a stream's mutex,
  because a `sync.RWMutex` blocks new readers behind a waiting writer, releases
  waiting readers when a writer unlocks, and hands over between writers after a
  bounded time: the waiter is not overtaken for ever. `ClosingCompletes` has two premises, stated in the formula: no transfer
  keeps its mutex for ever, and the lock cycle does not occur. Both are possible
  (see the findings), and without them the property fails.
* `ClientWire`: dial, backoff and handshake end, one way or the other;
  `LossIsNoticed` is for a wire that nobody closes.
* `ServerWire`: the handshake owes nothing, since `AcceptStream` has no deadline;
  `ReceivedCloseEnds` has its end as a premise.
* `Transfer`: both sides go on with what they have begun. The sender need not
  send.
* `Handshake`: goroutines run and deadlines expire; the network need not deliver.
* `NamedStream`: the library's goroutines on each hop, in the hub and in its
  sessions run, and its close timeout passes. Users, handlers and peers owe
  nothing: `OpenerEndFreesHub` has as a premise that the far end takes what the hub
  has still to write, since no deadline bounds the write.
* `Retry`: the goroutine runs, a dial ends, and time passes during a nap.
* `Resume`: the goroutines of both programs run. Strong fairness of
  `DialSucceeds` says that a server which is tried for ever is reached in the end
  (the example retries without a bound worth the name); `LastingConnCompletes` is
  about runs in which some connection lasts and no session is closed by force.

### Findings

Three runs exhibit a disagreement between the code and what its documentation or
its tests say; `PROJECT.json` quotes the lines.

1. `session_lock_cycle`. The forced close holds `s.mu` and waits for a stream's
   mutex, in `stream.ID()` (`session.go:96`); a transfer that has just been started
   on the stream, whose flag is set but which is still registered, holds that mutex
   and waits for `s.mu` in `IsClosed()` (`stream.go:163`, `209`). The session never
   closes, and everything that needs `s.mu` waits.
2. `client_close_handshake`. `conn` is set before `closeCh` is made and
   `wire.shutdown` is started: a `Close` in between sends to nobody
   (`wirenet.go:346`, `362`).
3. `transfer_reader`. `reader.read` passes `p` and not `p[n:]` to every `Read`
   (`stream.go:318`): the fragments of a chunk overwrite each other.

### Other things the code does not do

These are stated next to the properties in each module, under "what the
documentation says, and the code does not do". They are not among the runs, which
keep to the three above; each can be seen by checking it alone with the constants of
the module's passing run (`session.cfg`, `registry_hub.cfg`, `client.cfg`,
`server.cfg`, `transfer.cfg`, `handshake.cfg`, `named_stream.cfg`, `retry.cfg`,
`resume.cfg`), changed as noted.

| module | formula | what happens |
|---|---|---|
| `Session` | `EveryCloseReturns` | two callers pass `IsClosed` (`session.go:300`) before either sets the flag; the shutdown goroutine receives once, and the second sends for ever |
| `Session` | `NoMapRace` | the forced loop ranges over the map without `s.mu` while goroutines are about to write it |
| `Session` | `TimeoutBounds` | a handler inside a transfer keeps the mutex that the forced close needs, beyond any timeout |
| `Session` | `ConfirmedIsWaitedFor` | a stream is confirmed to its opener before it is registered, so a close in between does not wait for it |
| `Session` | `PanickedIsReleased` | `serve` does not close the stream of a handler that panicked (`MayPanic`) |
| `Session` | `GracefulDrain` with `MaxCloses = 2` | a second `Close` of one stream lowers the counter for another |
| `Registry` | `NamesFound` | the end of a client's old session deletes the names of its new one (`wirenet.go:488`) |
| `Registry` | `HookTableSound` | the open hook of a session may run after its close hook |
| `ClientWire` | `CloseEndsConnect` | a `Close` during a dial is not looked at again before the session is opened |
| `ClientWire` | `CloseHookRuns` | a user's `Close` and the last session both send to one receiver |
| `ClientWire` | `ErrorIsFresh` | `Connect` returns the error of an attempt before a connection that succeeded |
| `ServerWire` | `ClosedServerEmpties` | a connection in its handshake while the server closes becomes a session that nobody closes (`wirenet.go:417`) |
| `ServerWire` | `FoundAreGone` | `Close` is answered while a session that it found is still in the table, for its own accept loop to take out (`wirenet_test.go:577-579` finds the table empty) |
| `ServerWire` | `ClosedConnectIsNil` | `Connect` returns the error of an `Accept`, or of `yamux.Server`, that failed before a `Close` returned nil |
| `ServerWire` | `CloseReturns`, `RepeatedCloseIsNil` | two `Close` calls pass the test together; a later one is refused, or nil |
| `ServerWire` | `ReceivedReturns`, `CloseEndsConnect` | a silent client keeps `Connect`; a `Close` in the connect hook may find the flag not set yet |
| `Transfer` | `InStep` with an odd chunk | a header cut by the window is dropped, and what follows is not read from a header on |
| `Transfer` | `DeliveredIntact` with a source that returns `(0, nil)`, or bytes with `io.EOF` | an empty chunk ends the message; the bytes that come with the end are not sent |
| `Transfer` | `IsChannel` with a source that fails | an error without bytes ends the message like EOF; after one with bytes, the next message is read as its rest |
| `Transfer` | `DeliveredIntact` with `WriteTo` and sinks that fail | the next `WriteTo` takes the rest of a message for a message |
| `Transfer` | `IsChannel` with `"short"` in `Writes` | after a short write the whole chunk is written again (`stream.go:181-197`) |
| `NamedStream` | `PipedIsWaitedFor` (under `Spec`) | a piped stream is counted on the far session only, so a graceful close of the near one cuts it |
| `NamedStream` | `HandlerEndReachesOpener` | when the handler ends, the goroutine that sees it closes nothing, and the opener waits (`session.go:238`) |
| `Retry` | `WaitsAtLeastMin` | whole seconds are compared, so a wait of less than a second may pass at once |
| `Resume` | `CompleteIsAll`, `AllIsComplete` | the client stops at a count of 20 Reads, of 21 messages; without a loss the count stays below it, since a Read returns more than a message |
| `Resume` | `NoGapEver` | a hook whose session did not wait for it counts its Read for the next connection |
| `Handshake` | `RefusedIsNotOpened` | a validator's error with an empty text opens the session of the client it refuses (`wirenet.go:611`) |
| `Handshake` | `RefusedIsNotRegistered` | the server registers a client it has refused, until the connection closes |

## 4. What is proved

TLAPS checks these for every value of the constants, from the named assumptions
of each module only.

| theorem | says | invariant |
|---|---|---|
| `SessionProofs!TypeCorrect` | `[]TypeOK` | `TypeOK` |
| `SessionProofs!CounterBounded` | `[]CounterBound` | `CountInv` |
| `SessionProofs!DrainIsGraceful` | `MaxCloses <= 1 => GracefulDrain` | `DrainInv` |
| `SessionProofs!OneWinnerHolds` | `[]OneWinner` | `AnswerInv` |
| `SessionProofs!UnregisteredAreCut` | `[]UnregisteredMeansCut` | `AnswerInv` |
| `SessionProofs!ReturnedAreReleased` | `[]ReleasedOnReturn` | `ReleaseInv` |
| `SessionProofs!SessionImplementsLife` | `SessionLives`: the refinement | `AnswerInv`, `CallInv` |
| `RegistryProofs!TypeCorrect` | `[]TypeOK` | `TypeOK` |
| `RegistryProofs!IndexIsSound` | `[]IndexSound` | `IndexInv` |
| `RegistryProofs!UniqueNamesAreFound` | `[]UniqueNamesFound` | `IndexInv` |
| `RegistryProofs!AcceptedAreHandled` | `[]AcceptedIsHandled` | itself |
| `ClientWireProofs!TypeCorrect` | `[]TypeOK` | `TypeOK`, `WireInv` |
| `ClientWireProofs!OneSessionHolds` | `[]OneSession` | `WireInv` |
| `ClientWireProofs!ConnHolds` | `[]ConnWhileSession` | `WireInv` |
| `ClientWireProofs!NoSelfWaitHolds` | `[]NoSelfWait` | `WireInv` |
| `ClientWireProofs!WokenHolds` | `[]WokenWhenGone` | `WireInv` |
| `ClientWireProofs!SessionsImplementLife` | `SessionsLive`: the refinement | `WireInv`, `LifeInv` |
| `ServerWireProofs!TypeCorrect` | `[]TypeOK` | `TypeOK`, `WireInv` |
| `ServerWireProofs!FoundAreClosedHolds` | `[]FoundAreClosed` | `WireInv` |
| `ServerWireProofs!CleanCloseHolds` | `CleanCloseIsNil`, an action property | `WireInv` |
| `ServerWireProofs!SessionsImplementLife` | `SessionsLive`: the refinement | `WireInv` |
| `ConnectProofs!RetryTypes` | `[]RetryTypeOK` of `Retry` | `LoopInv` |
| `ConnectProofs!WaitsAreInBounds` | `[]WaitInBounds` | `LoopInv` |
| `ConnectProofs!WaitsKept` | `WaitsAreKept`, an action property | `LoopInv` |
| `ConnectProofs!HandshakeTypes` | `[]TypeOK` of `Handshake` | `TypeOK` |
| `ConnectProofs!OpenedAreAccepted` | `[]OpenedIsAccepted` of `Handshake` | `VerdictInv` |
| `NamedStreamProofs!TypeCorrect` | `[]TypeOK` | `TypeOK` |
| `NamedStreamProofs!OpenedAreAccepted` | `[]OpenedIsAccepted` | `StreamInv` |
| `NamedStreamProofs!BytesArriveInOrder` | `[]BytesInOrder` | `StreamDataInv` |
| `TransferProofs!TypeCorrect` | `[]TypeOK` | `TypeOK` |
| `TransferProofs!WriteToIsChannel` | `Fit => IsChannel`: the refinement | `TransferInv` |
| `TransferProofs!WholeHeadersKeepStep` | `Fit /\ Aligned => []InStepUnlessCut` | `TransferInv`, `AlignedInv` |
| `ResumeProofs!TypeCorrect` | `[]TypeOK` | `TypeOK`, `ResumeInv` |
| `ResumeProofs!NothingIsSkipped` | `[]NoGap` | `ResumeInv` |

* **`CountInv`.** `CounterBound` alone is not inductive: registering a stream that
  is in the map already would raise the counter and not the map. `EarlyAbsent`
  says a stream that has not started is not in it. Unregistering lowers the
  counter at least as much as the map, whether or not the stream is there.
* **`DrainInv`.** Until the timeout, the counter equals the size of the map,
  because each registered stream has exactly one goroutine that still owes its
  unregistering (`Owes`): with one close by the user, the `closed` flag of the
  stream keeps `serve` from repeating it, and the forced loop has not begun. The
  assumption `MaxCloses <= 1` is needed: with two the property is false.
* **`AnswerInv`.** The shutdown goroutine takes one caller and keeps it to the end:
  whoever is past the rendezvous is that caller, and it goes on to unregister only
  once the goroutine is done and the connection closed.
* **`ReleaseInv`.** A stream whose flag is set is out of the map, or the forced
  loop's, but for the moment in which whoever set the flag has still to
  unregister it; this is why `serve` may leave a stream alone whose flag it finds
  set. `ReleasedOnReturn` does not say so of streams under way, and is not
  inductive.
* **The refinements of `SessionLife`.** Every action maps to one step of one
  session or to a stutter. `CallInv` and `LifeInv` relate a caller's place in
  `Session.Close` to the flag it has set and to the cut connection; on a wire,
  that of two closers one passes `session.shutdown` makes `Take` happen once.
* **`IndexInv`.** An entry leads to a registered session that provides the name;
  out of hub mode there are none, since unregistering would not clear them.
* **`WireInv`.** Connections come one after the other: all but the last have lost
  their session and their `wire.shutdown` has its request (`Numbered`);
  `Connect` is past its wait only when that is true of the last one as well
  (`ConnectInv`). Of the goroutines that close one session, one passes
  `session.shutdown` (`CloserInv`). While the wire is not closed, that one alone
  asks `wire.shutdown`, after the session has left the table (`AskerInv`); a user
  asks only after it has marked the wire closed (`UserInv`). `NoSelfWait` follows
  because `wire.shutdown` has its request before it closes a session: so the wire
  is closed, or that session is gone already.
* **`WireInv` of the server.** The client that is looked at has no session
  (`ClientInv`); of the two goroutines that close one session one passes
  `session.shutdown` (`CloserInv`); `wire.shutdown` goes on only when its calls
  of `session.Close` have ended (`ShutdownInv`); the listener is closed by
  `wire.shutdown`, after the wire is marked closed, or by `Connect` as it returns
  (`ListenInv`), so that an `Accept` that fails on a closed listener finds the wire
  closed. `FoundAreClosed` follows from `CloserInv`: when `wire.shutdown`'s own call
  was refused, the flag was set by the accept loop, which is past it and has still
  to unregister, or has.
* **`StreamInv`.** Until the server has accepted, nothing but an err frame is on
  its way to the opener, and a tail of err frames is err frames: so no frame that
  the opener takes for an answer, whole or torn, is another one.
* **`StreamDataInv`.** `Fronts` says where frames are: on each hop, what is under way
  begins with the frames that the other side has still to read, and once a side
  is past its frame there is none. `PhaseInv` orders the hops and the pipes: the
  far hop is opened while the near one waits, and no pipe runs before it is open.
  `DataInv` follows the bytes of each direction as a chain, `Carries`, from what has
  been read, over the hop to the reader, the hands of the pipe and the hop from
  the writer, to what has been written; when a pipe has stopped, or the hop to
  the reader is lost, only the first link is left, and when the writer's hop is
  lost the chain ends before the last byte written. `BytesInOrder` is not
  inductive: it says nothing of a chain once an end is closed, and the bytes that
  are under way then may still be read.
* **`TransferInv`.** The stream is a list of chunks, each with its place in the
  stream and in its message (`Layout`); the list is a witness of the invariant,
  not a variable. Every byte not yet read, on its way or about to be written
  (`Pending`), is the byte of the chunk whose place it has; every chunk lies in
  the message that the source sent or is sending, an empty one at its end
  (`Written`). The receiver is at the header of some chunk, or within it, with the
  bytes before it (`At`). A Write does not change `Pending`, a Read takes its
  beginning, a cut its end, and `ReadChunk` adds one chunk. So when `WriteTo` reads
  an EOF frame, what it has is the message as it was sent (`EndsWhole`), and when
  the stream ends, a beginning of it (`LastMessage`). Of a message in which a sink has
  failed `At` says where the receiver is, and not what the sink has; it is the one
  sent in `Kept`, so `LastKept` is a beginning of it as well, and a `SinkFailed` is a
  stutter (`SinkKeeps`).
* **`Fit` and `Aligned`.** `Fit` is what `IsChannel` needs: the receiver is `WriteTo`,
  the source returns between 1 and `BufSize` bytes, or EOF alone, and a sink takes all
  it is given or fails, which is the contract of `io.Writer`. Nothing of it
  can go: for a source that also returns `(0, nil)`, or bytes with EOF, or an error
  with or without bytes, and for a sink that is short, TLC finds `IsChannel` violated,
  and with a longer chunk
  `WriteTo` panics. The run `transfer` satisfies it. As `Transfer` stops at a header that was split,
  `WriteToIsChannel` by itself says nothing of what follows one. `Aligned`, that the
  window and the chunks are a multiple of the header, excludes this: what is
  under way is then always made of whole headers (`AlignedInv`), and only a cut
  session can split one, after which nothing more is sent. The run satisfies
  `Aligned` too. The window (256 KiB) and full buffers (1 KiB) of the code do, a
  source whose last Read returns an odd number of bytes need not.
* **`LoopInv`.** Besides the types, a wait that is under way has the length that the
  policy gives at this number of attempts (`WaitInv`); a nap begins before the
  wait is over, and a `Close` goes unnoticed for as long as the nap (`NapInv`). That the policy returns one value, which lies between the bounds and never
  falls as the attempts rise (`PolicyIsWait`, `ProductGrows`), is proved by induction
  over the attempts: `Product` is a recursive function, and the induction, stated of
  a set of numbers, follows from `WFMin` (`Induction`). `WaitsAreKept` compares whole
  seconds, which `WholeSeconds` reduces to the wait.
* **`ResumeInv`.** `FlowInv` conserves bytes: what the handler has written of whole
  messages and what has arrived is what the hook has printed, has in hand or
  holds; a Read in hand fills the buffer or is the last. `Quiet` says that a hook
  whose session has left, not by force, has nothing more to print; `ConnInv`, that
  connections come one after the other. From these, `CountInv`: what the last hook
  has counted is at most the messages it has printed whole (`CountCompletes`, by
  division). The products of lengths are kept out of the steps by lemmas
  (`TimesMonotonic`, `TimesCancels`, `TimesNext`, `DivBound`).
* **`VerdictInv`.** The response is sent after the verdict, which no longer changes,
  and a client that has a session has read it. That what it read showed no err only
  if there was none is `TornIsNoConsent`: what is missing of a response is read as
  zeros, zero is not a tag, and so nothing ahead of the err's length can be missing
  of a response that protocol buffers take.

**Assumptions.** The named assumptions are on constants only: sets of processes
are disjoint, lengths are positive, a message fits the buffer (`ResumeAssumption`,
which the example's 22 or 23 bytes against 32 satisfy), a frame fits the window
(`NamedStreamAssumption`), the least wait is not zero and the bounds of a wait fit
the integers (`RetryAssumption`). Three theorems have a hypothesis of their own,
which a run satisfies: `MaxCloses <= 1`, `Fit` and `Aligned`.

**Only model-checked.** All liveness (`ClosingCompletes`, `LossIsNoticed`,
`ReceivedCloseEnds`, `AllArrive`, `SettleTogether`, `ConfirmedIsServed`,
`OpenerEndFreesHub`, `GivesUp`, `LastingConnCompletes`): fairness and `ENABLED` are
beyond the prover. Every other property of the passing runs is stated by a
theorem above. Three theorems state what no run checks: `AcceptedIsHandled`, since
`registry_hub` is in hub mode (TLC finds it true with `HubMode = FALSE`);
`UnregisteredMeansCut`, which the run checks of the connection in `SessionLives`;
and `InStepUnlessCut`.

## 5. Not modelled

* Options, errors, certificates, protocol buffers: assignments, formatting, file
  reading, generated code. The fields that matter are constants of the modules.
* The other example programs (`hub`, `transfer_files`, `shell` and so on), which
  keep no state from one stream to the next.
* On the server, a `listen` that fails: `Connect` returns before anything that the
  module is about.
* The token's refusal in `Registry` (it is in `NamedStream`), a wall clock that is set
  during a wait in `Retry`, a failed handshake in `Resume`: see section 2.
* A retry policy of the user, and `RetryPolicy` arithmetic below the unit of time.
* yamux, TLS and TCP, except as the code uses them: a stream is a bounded queue
  of bytes that may be cut off, a connection is open or lost, `AcceptStream` and
  `Read` return what comes or end with the connection or the deadline.
* Data races as such: where the code reads shared state without a lock, the model
  reads it in one step. `NoMapRace` states the one that stops the process. The
  table that `Wire.Sessions` hands out, and the handlers that the handshake
  ranges over, are races of the same kind without a further effect to model.

## 6. Plan

Done: the session, both wires, the registry, transfer, handshake, named streams
with the hub pipe, the retry policy and the reconnect example, in that order of
importance; the abstract life of a session and that `Session` and both wires
implement it; the proofs above. What more could be proved:

1. What `Reader` delivers: the bytes of a chunk that arrives whole; so that the
   refinement holds for it as well where no chunk is split. With `TransferInv`, only
   `At` and `ReadData` differ.
2. That a stream closed between two messages adds none (`ReadEnd` with `got` empty),
   which needs that the sender closes only there: a stronger `MessageChannel`.
3. Invariants that the safety half of the liveness properties rests on: that a
   goroutine that waits has one that will wake it (`LossIsNoticed`,
   `ReceivedCloseEnds`), stated without fairness.
