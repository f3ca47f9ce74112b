# Verification of RDPFlux

TLA+ models of RDPFlux (`src/rdpflux`), TLC runs that check them on small
instances, and TLAPS proofs of what can be stated for every value of the
constants.

RDPFlux carries TCP connections and a remote-desktop control API through an RDP
virtual channel. A *client* beside the RDP client program (a plugin in mstsc, a
child process of FreeRDP) and an *agent* inside the Windows session each run a
`MuxPeer` over the channel. What goes wrong between these two peers stops every
connection of the tunnel at once, so the mux is the core of this project.

## Inventory

| Component | State it keeps | Operations | Interacts with |
|---|---|---|---|
| Handshake (`mux.py` `start`, `_handshake_loop`, `_dispatch`) | `_hello_received`, `_hello_ack_received`, `_ready` | send HELLO, repeat it, acknowledge, become ready | the other peer, over a FIFO channel that may drop its first write |
| Streams (`mux.py` `MuxStream`, `open_stream`, `_dispatch`) | stream table, next and highest IDs, credits, buffers, end-of-file and close flags, pending opens, two aggregate counters | open, accept, reject, time out, read, write, half-close, close; one handler per frame kind | applications (`bridge_socket`, control handler) through coroutines, the other peer through frames |
| Send path (`_send`, transports' `write`, `FrameDecoder`) | write lock and its FIFO of tasks, worker threads, staging buffer, decode buffer | queue, write in chunks, cancel, decode | threads of `asyncio.to_thread`, the RDP stack |
| Shutdown and keepalive (`_shutdown`, `close`, `_heartbeat_loop`) | `_closing`, `_closed`, `close_error`, tasks | end on error, EOF, idle timeout or request | everything that waits on the peer |
| Listeners (`_start_listen`, `AgentForwarder._on_listen`) | `_active_listeners`, `_inbound_requests`, `listeners` by rule and by request | listen, cancel, accept | the operating system's listening sockets |
| Transports (`transport.py`, `windows_wts.py`) | queue and byte count, closed flag, locks, reassembly buffer | feed, read, write, close | callbacks on foreign threads |
| mstsc plugin (`mstsc_plugin.py`) | runtime thread, its loop and task, events, the primary lease | start, feed, close, COM callbacks | COM threads, one runtime per channel |
| Forwarding (`forwarding.py`) | servers, tasks, the pumps of a bridge | accept, connect, pump, half-close, abort | sockets and mux streams |
| Agent and client programs | the current transport and peer | attach, wait, reconnect | all of the above |
| Control service, HTTP server, clients (`control/`) | sessions and their touch times, last delivered screenshot, shells | requests, shell commands, interrupts, uploads | a control stream, worker threads, Windows |
| Configuration, policy, paths, registry | none beyond one call | parse, validate, resolve | - |

What is hard here:

- *Interleaving.* Every peer is one event loop with many tasks. Between two
  `await`s a handler runs alone; at each `await` frames, cancellations, timeouts
  and other writers may come in.
- *Both sides at once.* Each peer opens and closes streams on its own, so
  frames cross, and a frame for a stream that is gone must be told from a frame
  for a stream that never was: the second ends the tunnel.
- *Two levels of credit.* A window per stream and a cap over all streams, each
  counted at both ends, with releases on reads, closes, aborts and
  cancellations.
- *Threads that outlive tasks.* Blocking channel calls run on worker threads
  that a cancellation does not stop.
- *Loss.* mstsc may drop the first write made on a channel.

What makes each component correct is listed with its module below; the hazards
at their lines are in `PROJECT.json`.

## Modules

### Handshake.tla

The opening handshake of two peers over a lossy channel. `PeerConstants.tla` has the
parameters of this module and of `PeerShutdown`; `MCPeer.tla` checks the two.

`Start` is `start()` up to the HELLO that is the first thing to take the write
lock; for a peer in `LossyPeers` that write may be lost, whatever it is.
`Retransmit` is one round of `_handshake_loop`. `RecvHello`, `SendAckDone`,
`RecvAck` and `RecvApp` are the branches of `_dispatch`. `RecvHello` and
`SendAckDone` are two actions because `_dispatch` awaits the write of HELLO_ACK
and calls `_maybe_ready` only after it: between them, other tasks of the peer
run. `SendApp` stands for every frame that waits for `_ready`: OPEN, LISTEN and
PING. Two checks of the HELLO payload (role, version, window, and that a
repeated HELLO has the same nonce) hold for every pair of peers built from this
code and are left out.

| Property | Meaning |
|---|---|
| `NoEarlyFrame` | "message received before handshake" never stops an honest peer |
| `ReadyIsMutual` | a ready peer's partner has its HELLO and has or will get its ACK |
| `HandshakeCompletes` (in the run: `HandshakeEnds`) | both peers end up ready, whatever first writes were lost |

Proved in `PeerProofs.tla`: the safety properties for every bound and every
set of lossy peers. `NoEarlyFrame` is not inductive. The invariant adds where the
frames stand on the wire: an ordinary frame comes only from a ready peer and
always behind a HELLO_ACK of that peer, unless the other has taken it already;
and a HELLO_ACK is only there if its sender received a HELLO. Since the wire is
FIFO, a peer that dispatches an ordinary frame has dispatched the ACK and, as
its own ACK was asked for by the other's HELLO, is ready.

### MuxStreams.tla

The streams of two peers that are past the handshake: the heart of the project.
One action is the code between two points where a task can be suspended. A frame
enters `wire[p]` when its sender joins the FIFO of `_write_lock`; from then on
its place among the frames of `p` is fixed (`FrameWriter` is about whether that
is so).

| Code | Model |
|---|---|
| `peer.streams` | `table[p]`, the IDs in the table |
| a `MuxStream` object | `st[p][s]`, a record with the object's fields, kept after the object has left the table because tasks still hold it |
| where the coroutine that owns it stands | `phase`: opening, granted/refused (future resolved, `open_stream` not resumed), accepting, open, gone |
| a write that has taken credit and waits in `_reserve_outgoing` | `held` |
| `_incoming_buffered`, `_outgoing_buffered` | `incoming`, `outgoing` |
| `open_stream` | `OpenStream`, then `OpenGranted`, `OpenRefused` or `OpenTimeout` |
| `_finish_open` | `AcceptDone`, `AcceptFail` |
| `write`, `_write_serialized` | `WriteChunk`, or `WriteHold` then `WriteResume` or `WriteAbort` |
| `read` | `Read`, `ReadEof` |
| `close` | `Close`, `CloseAgain` |
| `_dispatch` | `RecvOpen` ... `RecvClose`, `RecvLate`; a `ProtocolError` is `Fail`, which sets `err` and stops the peer |

`OpenTimeout` may happen after the result has arrived: from Python 3.12 on a
cancellation that is delivered before `open_stream` resumes wins over a resolved
future (before, the result wins, which is the behaviour without that step).
`accepting` ends with `gone` when a CLOSE cancels the handler. The open handler
itself is a choice between success and failure.

Bytes have no content. A DATA frame is the range of positions of its bytes in
what the writer has sent, a WINDOW_UPDATE the range of positions the reader has
consumed; the code sees only the lengths, and the positions let the properties
say what arrived.

| Property | Meaning |
|---|---|
| `NoProtocolError` | no interleaving of two honest peers makes either raise a `ProtocolError` |
| `AggregatesExact` | the aggregate counters are the sums over the streams in the table; nothing leaks or is released twice |
| `CleanEofIsComplete` | a clean end of file means all the data was read and the peer half-closed |
| `StreamLimit` | `max_streams` holds against opens from both sides |
| `ImplementsWindow` | each direction of each stream implements `SlidingWindow` |
| `HeldWriteEnds` | a write that waits for aggregate room proceeds or fails |
| `StreamsReleased` | what one side gives up leaves the other side's table |
| `NoOrphan` | the safety core of that: whatever will remove the entry exists already |
| `KeptForReader` | a closed stream in the table has somebody to read it (violated, see below) |

`SlidingWindow.tla` is the abstract specification: four counters, four steps.
`Direction(p, s)` instantiates it with the positions of what `p` sends on `s`, so
that `ImplementsWindow` shows in-order delivery, no duplicates, no credit for
bytes that were not read, and never more than a window outstanding.

Proved, for every number of streams, window, chunk, limit and cap: all the safety
properties of the table but the violated one, and the refinement.

- `MuxStreamsProofs.tla`: `StreamsTypeOK`, where the work is that no subtraction in the
  credit arithmetic can go below zero and every frame on the wire is well formed, and
  `StreamLimitHolds`.
- `MuxProtocolProofs.tla`: the inductive invariant `Inv`, for each ID and each of its two
  ends. None of the properties is inductive, as each depends on frames that are still
  under way. `Inv` says what a wire may hold of a stream: OPEN before everything else,
  the answer before everything else of the other end, nothing after a CLOSE or a refusal,
  no data after HALF_CLOSE, spans of data one after the other without a gap. And it says
  what this tells of the two ends: `IdOK` (whoever speaks of a stream has met its ID, and
  OPENs come in the order of the IDs), `PhaseOK` (how far an open is at both ends),
  `EndOK` (who has sent or seen the end), `DataOK`, `EofOK` and `CreditOK` (positions),
  `LocalOK` (the fields of one object). An action of an application or a task is an
  `AppStep`, one of the runner a `RecvStep`; each part of `Inv` is shown for these two
  kinds and for the two ways a stream comes into being. `CleanEofIsComplete` follows from
  `EofOK`.
- `MuxGuaranteesProofs.tla` draws the consequences. `AggregatesAreExact`: an aggregate
  counter is a sum over streams, kept exact because each action changes one stream.
  `OnlyAggregateFails`: the one check of `_dispatch` that can fail between two peers is the
  cap on received data. `NeverRefused`: nor can that one, if `Roomy`, that is, if the cap
  has room for a window of every stream the table may hold. The defaults meet it with
  equality, 128 streams of 256 KiB against 32 MiB; the run `streams_overflow` shows that
  more streams than that do fail. `NoneOrphaned`: what removes an entry exists as long as
  the entry. `StreamsAreWindows`: each direction of each stream implements
  `SlidingWindow`, step by step.
- `SlidingWindowProofs.tla`: the abstract window keeps its counters in order, and it
  bounds the receive buffer.

### FrameWriter.tla

One of the four components that `MCChannel.tla` checks, with the parameters of
`ChannelConstants.tla`; `MCFrameWriter.tla` is for the violated run alone.

`MuxPeer._send` under `_write_lock`, the transports' chunking writes on worker
threads, and `FrameDecoder`. `unit` is what one channel write takes: a chunk, in mstsc and the
WTS transport, or a whole frame, in FreeRDP's stdio. `SharedBuffer` is the WTS
transport, which copies each chunk to one buffer outside `_io_lock`; without it, chunks
are copied as they are written (mstsc). `CancelRunning` allows what `asyncio.to_thread`
allows: a task cancelled in the middle of a write, whose locks are released while the
thread goes on. The decoder is modelled by frame boundaries: the first chunk of a
frame has its header and so its length, and what follows is taken as its payload.

Any channel write may fail (`WriteFails`), and one of the WTS transport may be short. The
thread then raises in the middle of its frame, the lock is released, the sender gets the
error, and the mux goes on with the next frame on the same channel: nothing ends it,
unless the sender was the runner, the heartbeat or a handler of a request. `Torn` are
the frames that are on the channel in part and stay so. The decoder fills a torn frame
with what comes behind it, which is why two of the properties end at one: the code has
nothing that would restore the boundary, and what is left of the frames behind a torn
one stops the peer with "invalid frame magic".

| Property | Meaning |
|---|---|
| `FramesIntact` | what the decoder returns is whole frames, and it keeps the boundary, until it has filled a torn frame with what follows; no frame comes twice |
| `OrderKept` | frames come out in the order their senders entered `_send` |
| `FramesArrive` | sends that wait for the lock come to an end, whatever happens to those before them; the frames of those that neither fail nor are cancelled arrive, but for those behind a torn frame |

Proved in `ChannelProofs.tla`: `FramesIntact` and `OrderKept`, for any number of senders
and any sizes of frames, if no task is cancelled inside a write that takes chunks; the
violated run shows that this is needed. Channel writes may fail at any chunk. The
invariant is about `Sent`, the chunks that
the decoder holds with those on the channel: they are frames one after the other, each
chunk once, and a frame is cut only where it is torn, or at the end, and then its writer
is the one that is at work. A write adds the next chunk at one end, a decoded frame
leaves at the other.
For the order, the lock is given to the writers in the order in which they asked, so a
writer that is done asked before the one at work.

### PeerShutdown.tla

One turn of the agent's loop: a peer on a fresh channel, `forwarder.start()`, and
whatever ends it, until `forwarder.close()` has returned and the program opens the
next channel. The tasks around one peer, rather than what they say to the other
side: two peers in one model would add nothing, as a peer that shuts down sends
no frame.

| Code | Model |
|---|---|
| the program's main task: `start`, `wait_ready`, `wait_closed`, `close` | `main` |
| the task of `_run` | `runner`; `aborted` if a cancellation ended it without `_closed` |
| how far `_shutdown` is | `stage`: waits for the handshake task, the heartbeat, the handlers, the listeners, the channel; `_closing` is `stage > 0` |
| `close()`: `self._runner.cancel()` | `ClosePeer` sets `cancel`, `CancelDelivered` is the runner's next step |
| `_handshake`, `_heartbeat`, `_handler_tasks` | `retransmit`, `heartbeat`, `handler` |
| a listener in `_active_listeners` | `listener` |
| bridges and callers of `open_stream` | `user`; `Accepted` serve a connection of the listener |

`ShutdownFrom(k)` is `_shutdown` from one `await` that really suspends to the next:
a `gather` of no tasks does not, and neither does closing a closed transport. This
matters, because a cancellation is delivered only where the runner is suspended,
and because `close()` runs without a break from a failed `start()` when there is
nothing to wait for. `WaitForConnections` is `Server.wait_closed()` of Python 3.12.
Reading is always allowed to fail (end of file, a damaged frame), the heartbeat to
give up, handlers to listen, to spawn a bridge, to fail or to be cancelled.

| Property | Meaning |
|---|---|
| `ClosedMeansQuiet` | when `_closed` is set, the heartbeat, the repetition of HELLO and the handlers have ended, no listener accepts, nobody waits for an answer or uses a stream that looks open, the channel is closed. Not covered: a loop that `start()` creates when `_shutdown` has already looked for it (`late`), which ends by itself as it looks at `_closed`, and users in their clean-up |
| `ChannelClosedUnlessAborted` | the session leaves no open channel, unless `close()` met a runner inside `_shutdown` |
| `SessionEnds` | an ended channel or a shutdown that has begun leads to the next attempt to attach |
| `ChannelClosedBeforeNext` | the first of these without exception (violated, see below) |

Proved in `PeerProofs.tla`: type correctness, `ClosedMeansQuiet` and
`ChannelClosedUnlessAborted`, for any handlers, users and connections and both values of
`WaitForConnections`. The invariant says
what each stage leaves behind: no timer after the second (but for a `late` one), no
handler after the third, no listener and no open stream from the fourth on, no pending open and no
open channel from the fifth on. The order carries it: a handler may add a
listener or a bridge, so listeners and streams are dealt with when handlers are
gone, and a caller may still open a stream while `_shutdown` waits, so pending
opens fail in the step that closes the channel.

### ChannelRuntime.tla

The mstsc plugin: the COM callbacks of `TunnelPlugin`, the runtime thread of each
channel, and `CallbackTransport`, the queue between them. The RDP stack makes one
callback at a time; the threads run beside it.

| Code | Model |
|---|---|
| the callback that runs, and where it waits | `call`: in `_close_channel`, joining a thread, waiting for `started`, in `feed` |
| `self.runtime`, `self.channel` | `runtime`, `held`: the number of the channel |
| the thread of a runtime | `thread[k]`, from `booting` to `ended`; `Closed` is `self.closed`; `deciding` is between `closed.set()` and the look at `stopping` |
| `_incoming`, `_queued_bytes`, `_closed` | `queue`, `queued`, `eof`; 0 in the queue is the end marker |
| an item that `get` has returned, before the lock | `taken` |
| `join(5)` or `started.wait(5)` that times out | `gaveUp`, and `StartReturns` with `started` not set |

A message stands for its bytes: the queue's two limits, 4 MiB and 4096 messages, are
one limit on messages.

| Property | Meaning |
|---|---|
| `QueueKept` | the mux reads what the stack delivered, from the first message on and without a gap; `_queued_bytes` is what waits in the queue and at the reader, also when `close` empties the queue between `get` and the lock; the queue keeps to its limit |
| `NoUseAfterRelease` | a channel is released only when its thread can no longer write to it or close it, unless waiting for the thread was given up |
| `FailureCloses` | when a runtime is over, its channel gets closed, by `channel.Close()` or by the stack, unless a callback has let go of it before the thread decides |

The exception in `FailureCloses` (`LetGo`) is a divergence from `README.md:613`, "A fatal
mux or callback error closes the current virtual channel": it does for a mux error. After
a callback error (a full queue, a start that times out, data for a runtime that has just
ended) `_close_channel` sets `stopping`, so that the thread does not call
`channel.Close()` (`mstsc_plugin.py:140`), and only releases the channel
(`mstsc_plugin.py:320-321`). The callback returns E_FAIL; what the RDP stack makes of that
is not in the repository. As far as this code goes, the channel stays open until the
agent's keepalive or handshake gives up. A release is therefore not counted as closing in
the model; the stack's own `OnClose` and `Terminated` are.

Proved in `ChannelProofs.tla`: `NoUseAfterRelease`, because a thread that has
not ended is that of the runtime in place, and `QueueKept`. The invariant for the
second says where everything stands between stack and mux: the queue goes on where
the reader is, and, unless the channel is being closed, ends with the last message
delivered, or with the one before while its callback is under way. That is why a
refused message loses only the end of the data: its callback goes on to close the
queue before another callback can come.

### WtsChannel.tla

`WTSChannelTransport`: a polling reader, a writer and `close()`, each on a worker
thread, share one handle under `_io_lock`; `ChunkReassembler` puts messages together
from chunks, of which the stack may lose some. `_closed` is looked at before the
lock and again under it.

| Property | Meaning |
|---|---|
| `TransportSafe` | what `read()` returns are the messages sent, in order, when no chunk is lost; otherwise each is a whole message that was sent, or as many chunks as it has were lost; the handle is used by one thread at a time and by none once closed |
| `CloseCompletes` | `close()` closes the handle, and reader and writer come to an end |

The exception is real: chunks carry no number, and `ChunkReassembler` compares lengths.
The beginning of one message and the end of another of the same length pass for one
message if what was lost between them is as long as that message.

Proved in `ChannelProofs.tla`: `TransportSafe`, for any messages and any losses. What is
gathered and what was lost make up all chunks the stack has sent since the first of
those gathered; and the handle is open, and in use, only under `_io_lock`.

### Bridge.tla

One forwarded connection from end to end: an application's socket at each side,
`bridge_socket` at each side, and one stream between them. The stream is the one
`MuxStreams` describes, reduced to what a bridge can see: in-order delivery, credit,
end of data, close and reset. `up` and `down` are the two pumps, `bridge` where
`bridge_socket` is in its `finally` clause.

| Property | Meaning |
|---|---|
| `EndsAreTrue` | an end of data that an application is shown, or that a bridge ends with, is the end of all the data; no reset, timeout or cancellation is passed on as one |
| `ResetEndsBridge` | a reset of the stream ends the bridge that receives it, if the application there keeps reading or goes away |
| `BothEndsRelease` | when both applications have ended or are gone, and those that are there keep reading, both bridges end |

Nothing makes an application read: a `writer.drain()` on one that has stopped
(`forwarding.py:35`) is not a step that fairness covers, and the two properties have
`KeepsReading` as their premise. It is needed. A bridge that waits there does not see the
reset of its stream, and the agent's bridges have no idle timeout (`forwarding.py:401`),
so that such a bridge stays until the tunnel ends.

Proved in `ForwardingProofs.tla`: `EndsAreTrue` and the types, for any window and number
of bytes and faults. The bytes on their way from one application to the other stand at
the head of the wire, the half-close behind them; and a stream that ends without a reset
has brought everything, unless its own bridge closed it. Both are needed: the end of data
is passed on by five parties in turn, and any may be cancelled.

### Forwarding.tla

`ClientForwarder`: the connections its servers accept, by kind of rule, the streams
the agent opens for reverse rules, and `close()`, which runs while they do. A bridge
is one stage here. A cancellation arrives where a task waits, and what it leaves
open (`left`) follows from the `try` around that place.

| Property | Meaning |
|---|---|
| `TaskLimit` | the forwarder never serves more than `max_streams` connections |
| `CloseFinishes` | with the `wait_closed()` of Python before 3.12.1, `close()` returns, and no task is left after it |

Proved in `ForwardingProofs.tla`: `TaskLimit`, for any number of connections of any
kinds. It is inductive with the types; the work is that no step but the two that
count first makes a connection a task, above all none after a cancellation.

### Listeners.tla

Reverse listeners from `request_listener` at the client to `_finish_listen`,
`_handle_close` and `_cancel_listener` in the agent's peer and the tables and servers
of `AgentForwarder`. `start_server` is two steps, as it binds and then yields once;
`stray` are the servers that a cancellation between the two leaves to no table.

| Property | Meaning |
|---|---|
| `ListenersAgree` | the limit holds; the peer's table, the forwarder's tables and the bound servers agree but for what is under way; when nothing is under way the client believes in the listeners there are |
| `GivenUpIsClosed` | a rule the client has given up ends without a listener in any table |

Proved in `ForwardingProofs.tla`: `ListenersAgree`, for any number of requests and any
limit. The limit counts the requests under way together with the listeners, since a
listener enters the table while its request is still counted. The agreement needs
what the frames say of each request: its LISTEN comes before its CLOSE, a CLOSE that
was handled has doomed the task or closed the listener, and a result on the wire tells
of what is there.

### Sessions.tla

Persistent shells: the session table of `ControlHTTPServer` with its reaper,
`ShellSession` at the client and `_handle_shell` with its process at the agent.
A session is named by the request that opens it. Messages carry the request they
belong to, which the program's do not: the handlers of the model never look at it.

| Property | Meaning |
|---|---|
| `AnswersTrue`, its part `OwnResult` | a command is answered with its own output and result, unless runs overlap on a session or one was given up |
| `NoLostShell` | a shell process belongs to a session that is listed and known to the reaper, or that was closed, or to a tunnel that has ended |
| `ProcessesEnd` | the process of a closed session, or of one whose tunnel has ended, ends, even when its command does not, unless its handler was cut short |

`CutShort` is that exception. The end of a tunnel leads to `AgentForwarder.close`, which
cancels the handlers. One that is already in its `finally` clause, inside
`PersistentShell.close` and its wait of a second (`shell.py:83`), gets a CancelledError;
that is no TimeoutError, so the kill is skipped, and a command that never ends survives.
A cancellation that comes earlier is what brings the handler to its clause, and `close()`
cancels only once.

Proved in `ControlProofs.tla`, for any number of sessions and requests. `NoLostShell`: a
process starts when a command arrives, long after the request that sent it has looked
at the table, so the invariant speaks of the commands on their way; each belongs to a
session that is listed or was closed. `OwnResult` (`AnswersAreOwn`): a session where no
runs have overlapped and none was given up has at most one request that waits, and all
that is under way is of that request, in the order of the command, its output and its
result (`Alone`). A late reader, a reaper, an interrupt or a process that dies changes
none of it.

### Requests.tla

One operation each, from the bytes of the HTTP request to the answer: reading the body,
one message on a new stream, running a command or reading or writing a file at the
agent, the reply. A message is its header and the parts of its body; connection,
tunnel and process may end at any of them.

| Property | Meaning |
|---|---|
| `AnswersTrue`, its part `ReplyWhole` | a client is told ok only if the operation was carried out whole and the reply came whole; nothing is stored of a body that was cut off, and a part of a body only by a write that failed and was not answered with ok |
| `RequestsEnd` | a request that was read is answered and its process ends, whatever the command does |

`FileStore.write` is `write_bytes`, which empties the file and then writes: `WriteFails`
leaves any part of the body in it, with an error reply. A later `Read` finds that part and
answers ok, as nothing tells it from a whole file; `ReplyWhole` makes no claim about that.

Proved in `ControlProofs.tla`, for any number of requests, lengths and limits:
`ReplyWhole` (`OkIsWhole`), and with `OwnResult` the property `AnswersTrue` of the run.
What a handler has read is what was sent (`Whole`), a reply of ok is written only by a
handler that is done (`Good`), and is told only when all of it came (`Told`); a file
holds no more than the body of the request that wrote it last, and all of it if that
request is not answered with an error (`Stored`).

### Coordinates.tla and InputEvents.tla

`Coordinates` follows a position from the pixel of a screenshot to the desktop, on one
axis, with every rounding of the code (`target_size`, `scale_action`, `_absolute`),
for several clients who share the size of the last screenshot, while the screen
changes. `InputEvents` turns each action of `perform` into its sequence of `SendInput`
calls with the `try` and `finally` around them; calls of two clients interleave, and a
call may be refused or carried out in part.

| Property | Meaning |
|---|---|
| `ClickLands` | the cursor goes to the pixel that was named, unless another client's screenshot or a resize came in between |
| `NothingHeld` | when actions are over, no key or button stays down that should not, although calls in their bodies were refused |

Proved in `ControlProofs.tla`: `ClickLands`, for any number of clients, widths and
changes of the screen, when every screen begins at the primary monitor and has at most
`MaxAbsolute` (65535) pixels (`AtOrigin`; `control_offset` shows what happens on another).
The invariant: the image of the client that was delivered to last is the size the
service scales with, so that a client whose image was not replaced is scaled with its
own (`Scaled`). The rest is arithmetic: rounding to SendInput's 65535 steps and back
gives the same pixel (`RoundTrip`), and the pixel is the nearest to the one named
(`ScaledNear`).

And `NothingHeld`, for any number of clients and of refused calls. The invariant
(`HeldIsOwed`): a key that is down, and is not meant to stay so, is owed by the action of
a client who has put it down, in a call that the refusal of a try does not skip. That
every action is of this shape (`Safe`: what it puts down it releases later, nothing but
its finally follows a try, and the finally ends it) is proved of each program of
`Perform`, for modifiers, chords, texts and repeated clicks of any length.

## Runs

Components that do not share state are checked in one run, one at a time: the MC
module has a variable `part` that Init chooses, and a step of the component it
names. The properties of every component are checked in its part.

| Run | Shows |
|---|---|
| `peer` | the handshake: either or both first writes lost, up to 3 HELLOs and 2 ordinary frames per peer; and a session with 2 handlers, a user of the reverse listener and another |
| `streams_window` | one stream, window 2, chunks of up to 2, ample aggregate room, 4 bytes one way and 1 the other |
| `streams_held` | the same with window 3 and an aggregate cap of 2, so that writes wait for room; a wake by the release of another stream is not exercised |
| `streams_lifecycle` | 2 stream IDs, one opened by each side, limits 1 and 2, window 1 |
| `streams_overflow` (violated) | 2 streams whose windows together exceed the aggregate cap |
| `streams_abandoned` (violated) | one stream whose open is abandoned as it is granted |
| `channel` | the plugin with 2 channels, 3 messages and a queue of 1; the WTS transport with messages of 3, 2, 2, 1 and 4 chunks, a limit of 3, 2 writes and up to 2 lost chunks; frames of 3, 2 and 1 chunks in a shared buffer, tasks cancelled while they wait, any write failing or short; the same tasks cancelled inside a write, on a channel that takes whole frames |
| `frame_writer_cancel` (violated) | the same tasks cancelled inside a write of several chunks |
| `peer_shutdown_aborted` (violated) | the session of `peer`, and what the README of the program says of a fatal error |
| `forwarding` | a bridge with 2 bytes one way, 1 the other, window 1 and one fault; 6 connections, one of each kind and a second reverse stream, with a limit of 2; 3 reverse rules with a limit of 2 |
| `control` | shells: 2 openers and 2 users of one session, a cap of 1; 2 operations with bodies of up to 2 parts and a limit of 1; 2 clients, 2 screens and 2 widths with one resize; 2 clients' input with one refused call |
| `control_offset` (violated) | the screens of `control` replaced by one that begins left of the primary monitor |

*Bounds and why they are enough.* `peer`: HELLO and HELLO_ACK carry no
state but their kind, so a third copy of a HELLO finds the peers in a state that
the second could have found; two frames per side race each other and the ACK. In the
session nothing is counted; two handlers are needed for a listener and a bridge, and
two users for one that the listener waits for and one that it does not.
`streams_window`: chunks of one and two bytes meet a window of two, and four
bytes use every credit twice. `streams_held`: a cap below the window makes one
stream wait for room, as 129 full streams would in the program. `streams_lifecycle`: streams do not
touch each other except through the limit, the aggregate counters and the order of
the IDs, and two streams opened from opposite sides, where one side is at
its limit, meet all three. `channel`: a queue of one message is full at the second,
and the third shows what follows a refusal; two channels let one thread outlive its
channel beside the next. Messages of one to four chunks have every combination of
FIRST and LAST, and a total over the limit; two of one length can be taken for each
other. Three tasks give a frame before, a frame
in between and a frame behind. `forwarding`: the second byte meets a window of one
that is used up; one fault at any moment is what a bridge has to survive, as the
second finds it unwinding already; six connections against a limit of two fill it
while a reverse stream dials; three rules against two listeners refuse one.
`control`: a cap of one session makes opener and reaper meet; overlapping runs and a
close need two users. A client's own rounding needs one screen and two widths, of which
one enlarges; two clients replace each other's geometry. A type of two batches and one
refusal reach every place of an action.

*Fairness.* Handshake: the programs call `start()`, the runner reads on and the
timer fires. Nobody has to send an ordinary frame. Streams: the runner
dispatches, coroutines whose wait is over resume, and an application that holds
a stream keeps reading it, which `bridge_socket` and the control handler do in a
loop. Nobody has to open, write, half-close or close first. Frame writer: the
lock is handed over in FIFO order, threads run, the other end reads. Shutdown: tasks
whose wait is over resume, cancelled tasks end, timeouts fire, and a read on a
closed channel returns; the channel need not end, a running handler need not, and
connections may stay open as long as their stream does. Plugin: a callback that has
begun goes on, and so does each thread; the mux need not end. Bridges, forwarder and
listeners: one weak fairness over all steps that do not depend on an application or on
a fault; a drain on an application that does not read is not among them. This is enough because each such step can be taken only finitely often (a
byte, a frame, a stage), so that a step that stays enabled is taken when no other is
left. Control: the client half and the agent half of each request, whose waits have
timeouts; a command need not end, and a handler need not be cut short. All of it is weak fairness, but for the WTS
transport: its reader takes `_io_lock` again and again and sleeps in between, so the
writer and `close()` find it free again and again, and get it (strong fairness).

`CHECK_DEADLOCK FALSE` is set everywhere: peers that have nothing left to say,
or have used up a bound, stop.

## What the violated runs show

*`streams_overflow`.* The sender's reservation for a stream ends when it closes
the stream (`mux.py:209-211`), but after HALF_CLOSE and CLOSE the receiver keeps
the delivered bytes until they are read (`mux.py:180-188`). With more than 128
streams, which `README.md:253` allows, 32 MiB is less than the sum of the
windows, and an honest sender can exceed it at the receiver, whose
`_reserve_incoming` raises `ProtocolError`: the whole tunnel ends. With 128
streams or fewer the sum fits only as long as closed streams that still hold
data count against the receiver's table, and they do.

*`streams_abandoned`.* If `open_stream` is cancelled or times out when the result
and the peer's DATA, HALF_CLOSE and CLOSE have just been dispatched, its
`_mark_closed` returns at once because the stream is closed, so the table entry
and the buffered bytes stay for the rest of the tunnel.

*`frame_writer_cancel`.* `bridge_socket` cancels its pumps. A pump inside a
channel write releases both locks, its thread writes on, and the next frame's
chunks go in between. FreeRDP's stdio transport writes a frame in one call and is
safe (`unit` = "frame" in `channel`), though a frame whose task was cancelled may then
arrive after a later one; `OrderKept` is therefore not claimed there.

*`peer_shutdown_aborted`.* A fatal error reaches the runner while the main task is
still writing HELLO. `_shutdown` sets `_closing` and waits for the heartbeat; the
main task goes on to `wait_ready`, which raises, and `close()` cancels the runner
inside `_shutdown`, before it has closed the transport. The agent opens the next
channel with this one open, and the handshake task of the old peer, which `start()`
created in the meantime, keeps writing HELLO to it. The window is a few turns of
the event loop; in `MuxPeer` of this commit it opens when the write of HELLO takes
between one and three turns longer than the error.

*`control_offset`.* A screenshot shows the whole virtual desktop, whose origin is
negative when a monitor stands to the left of the primary one. `scale_action` turns a
position into a distance from the edge of the image, and `inject._absolute` takes it
for a desktop coordinate and subtracts the origin: the click misses by the origin.

## Proofs

Eight modules of proofs. Numbers of users, streams, channels, connections, requests,
messages, frames, bytes and limits are arbitrary, under the named assumptions of the
modules (limits are natural numbers, the sets of requests and connections are finite
where they are counted). Some theorems have a hypothesis of their own: `NeverRefused` has
`Roomy`, which the defaults of the program meet and other settings need not; the
theorems about frames exclude a cancellation inside a write that takes chunks; and
`ClicksLand` has `AtOrigin`, no monitor left of or above the primary one. Each
hypothesis has a violated run that shows what happens without it.

| Module | Theorems | Inductive invariant |
|---|---|---|
| `PeerProofs` | `NoEarlyFrame`, `ReadyIsMutual`, types of the handshake | where the HELLO_ACKs stand on the wire |
| | `ClosedMeansQuiet`, `ChannelClosedUnlessAborted`, types of a session | what each stage of `_shutdown` leaves behind; who holds the runner when `close()` comes |
| `MuxStreamsProofs` | types and credit arithmetic, `StreamLimit` | types, well-formed frames |
| `MuxProtocolProofs` | `CleanEofIsComplete` | what both ends of a stream know and what the wires carry of it |
| `MuxGuaranteesProofs` | `AggregatesExact`, `NoProtocolError`, `NoOrphan`, `ImplementsWindow` | the same, with the counters as sums, the room under the cap, and what will release each entry |
| `SlidingWindowProofs` | order of the counters, bound of the buffer | the counters in order |
| `ChannelProofs` | `NoUseAfterRelease`, `QueueKept` | whose threads run; where the queue starts and ends |
| | `TransportSafe` | what is gathered and lost since the first chunk |
| | `FramesIntact`, `OrderKept` | the chunks on their way are whole frames; whose turn it was |
| | types of the run `channel` | what is queued or read has been delivered; a staged chunk is in the buffer |
| `ForwardingProofs` | `TaskLimit` | the limit itself, with the types |
| | `ListenersAgree` | requests under way count against the limit; what frames say of requests |
| | `EndsAreTrue` | bytes, half-close and close of each direction in their places |
| | types of the run `forwarding` | those of the bridges, with the types of the others |
| `ControlProofs` | `NoLostShell` | commands on their way belong to known sessions |
| | `OwnResult` | a session without overlap has one run, and what is under way is of it |
| | `ReplyWhole`, `AnswersTrue` | what was read, carried out and stored is what was sent |
| | `ClickLands` | the latest client's image is the size that is scaled with |
| | `NothingHeld` | who owes the release of a key that is down |
| | types of the run `control` | all of these, with how much of each message there is |

The modules of the composed runs extend the components that are proved, so that a run
and a theorem speak of the same definition. A run composes components that share no
state (see Runs), so a theorem about a component holds in its part of the run.
The type invariants of `Handshake` and `PeerShutdown` are proved, not checked by a run.
The types of the composed runs are proved from the invariants of their components
(`ChannelTyped`, `ForwardingTyped`, `ControlTyped`), which they need: that the count of a
queue never leaves its limits follows from what it counts, and that a file of the agent
is no longer than a body may be from what a whole message is.

## Only model-checked, and why

Liveness (`HandshakeEnds`, `SessionEnds`, `HeldWriteEnds`, `StreamsReleased`,
`FailureCloses`, `CloseCompletes`, `FramesArrive`, `ResetEndsBridge`,
`BothEndsRelease`, `CloseFinishes`, `GivenUpIsClosed`, `ProcessesEnd`, `RequestsEnd`)
is outside what TLAPS proves with the installed backends. Every
invariant that a run checks, and the refinement `ImplementsWindow`, has a theorem.

## What is left

1. `MuxCancel`: the streams composed with the chunk writer, for a write and an OPEN
   that are cancelled inside the channel write.
2. An abstract byte channel that `FrameWriter`, `ChannelRuntime` and `WtsChannel`
   implement.

## Not modelled

Contents of payloads, JSON and field checks of control frames, logging, TLS and
authentication of RDP itself, COM registration, parsing of configuration, policy and
paths, the contents of SOCKS requests, the clipboard and service operations, and the
command line, MCP and HTTP clients of the control API: they are functions of one
input, single calls or plain I/O, with no order of events to get wrong. The capacity
of the RDP channel is not bounded by the repository, so that a deadlock of two full
directions is not modelled; neither is time, beyond the fact that a timeout may fire:
how soon the keepalive notices a blocked write is not stated. A channel write that fails
is modelled for frames (`FrameWriter`), but not for the streams and bridges above it. In
`Coordinates`, `Deliver` is one step for the service's new size and the client's receipt
of the image, so that a screenshot whose reply is lost is not covered. A cancellation inside a
channel write is modelled for frames (`FrameWriter`) but not for the stream that sent
them. `close()` of the forwarders is modelled with `Server.wait_closed()` as it was
before Python 3.12.1 in the run `forwarding`; after that it waits for every accepted
connection, and `CloseFinishes` does not hold for those that nothing ends.
