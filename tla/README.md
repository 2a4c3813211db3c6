# Verification of outpunch

outpunch gives HTTP callers access to services that run behind a NAT. A *tunnel
client* opens a WebSocket to a *server*, authenticates for a service, and from
then on receives the HTTP requests for that service, forwards them to a local
address and sends the responses back. The server core is a Rust crate; adapters
put it behind axum, Node, Rack and Rails.

This directory holds TLA+ models of that system, the TLC configurations that
check them, and TLAPS proofs of the properties that matter most.

## The system

| Component | Source | State it keeps | Operations |
|---|---|---|---|
| wire protocol | `crates/outpunch/src/protocol.rs` | none | `parse_message`, `serialize_*`, `build_tunnel_request`, `error_response` |
| core server | `crates/outpunch/src/server.rs` | `services` (name to connection handle), `pending` (request id to oneshot), `next_conn_id`; per connection two bounded channels, `incoming_tx`, the callback, a drain task | `create_connection`, `dispatch` (behind `handle_request` and `try_handle_request`), `is_connected`; `push_message`, `on_message`, `close`, `run` |
| tunnel client | `crates/outpunch-client/src/lib.rs` | the WebSocket, `in_flight` tasks, the response channel | `run`, `run_connection`, `authenticate`, `forward_request` |
| axum adapter | `crates/outpunch-axum/src/lib.rs` | read and write task per WebSocket | `handle_tunnel`, `handle_ws`, conversions of requests and responses |
| Node binding and adapter | `bindings/node/src/lib.rs`, `bindings/node/js/server.ts` | per WebSocket its event handlers, the futures of `pushMessage`, the queue of the threadsafe callback | `handleRequest`, `handleUpgrade` |
| Node dev-server plugin | `bindings/node/js/{vite,index}.ts` | none | starts the adapter in Vite |
| Ruby native binding | `bindings/ruby/ext/outpunch/src/{server,gvl}.rs` | the `outgoing` queue, tasks waited for without the GVL | `handle_request`, `push_message`, `next_outgoing`, `run`, `close` |
| Ruby client binding | `bindings/ruby/ext/outpunch/src/lib.rs` | none | runs the client |
| Rack adapter | `adapters/ruby/rack/lib/outpunch/rack/{middleware,connection}.rb` | three threads per connection, the WebSocket driver and the socket they share | `Middleware#call`, `Connection#run`, `write_loop` |
| Rack configuration | `rack.rb`, `rack/{server,hooks}.rb` | options, the memoised server, the list of hooks | `configure`, `server` |
| Rails adapter | `adapters/ruby/rails` | per request only | `TunnelController#proxy`, hooks |
| Python binding, CLI, TLS | `bindings/python`, `outpunch-client/src/{main,tls}.rs` | none | run the client |

How they interact: an adapter calls `create_connection` for each WebSocket,
registers a callback, feeds every text frame to `push_message`, calls `close`
when the socket ends and drives `run`. For each HTTP request it calls
`handle_request`, and may drop that call when its caller goes away. Inside the
core, tasks share `services` and `pending` under one lock and are otherwise
linked by channels. Client and server exchange JSON text frames.

What is hard, and makes the list of hazards in `PROJECT.json`:

- *Ordering and interleaving.* Registration, replacement, disconnection, response
  and timeout of a request meet in any order. The lock is released between
  steps that belong together: handle lookup and send, registration and the
  closing of the replaced connection, `auth_ok` and registration.
- *Waiting.* `run` waits for its drain task, which waits for every sender of the
  outgoing channel, among them each dispatch, which may wait for room.
- *Failure.* Callers go away in mid-request, callbacks panic, clients stall, a
  peer vanishes without a packet.
- *Runtimes.* An aborted tokio task, a promise nobody awaits, a Ruby thread that is
  interrupted at any step, a write that blocks: each adapter has its own way to wait and
  its own way to be stopped.
- *Limits.* Both channels of a connection hold 64 messages; an empty secret; the
  timeouts of authentication and of a request.

What makes each component correct:

- *core server*: a response reaches the caller it belongs to or nobody; a caller
  is told the truth, once, and within its timeout; only authenticated clients
  get anything; a stale connection harms nothing; connections end.
- *tunnel client*: each request read is answered once on its connection, and
  nothing of an old connection leaks into a new one; a lost connection is
  noticed and replaced.
- *adapters*: frames in order, no more after the end; every task or thread of a
  connection ends; an interrupted call is neither lost nor done twice; errors
  become the right status.
- *protocol and conversions*: what one side builds the other parses to the same
  message.

## Modules

| Module | What it is |
|---|---|
| `Protocol` | messages, frames and `parse_message` |
| `TunnelServer` | the core: actions, properties, fairness |
| `TunnelServerInvariant` | the inductive invariant `IInv` |
| `TunnelPromise` | abstract specification: what the core promises to adapters |
| `TunnelServerRefinement` | the mapping under which `TunnelServer` implements `TunnelPromise` |
| `TunnelServerInduction`, `TunnelServerProofs` | proofs about the core |
| `TunnelPromiseProofs` | the proof of the refinement |
| `TunnelClient`, `TunnelClientProofs` | the tunnel client with its server and network as environment |
| `AxumBridge`, `AxumBridgeProofs` | `handle_ws` of the axum adapter around the core |
| `RackBridge`, `RackBridgeProofs` | the three threads of a Rack connection around the core |
| `NodeBridge`, `NodeBridgeProofs` | `handleUpgrade` of the Node adapter around the core |
| `NativeCalls`, `NativeCallsProofs` | the blocking calls of the Ruby gem under Ruby's interrupts |
| `MCTunnelServer`, `MCTunnelClient`, `MCAxumBridge`, `MCRackBridge`, `MCNodeBridge`, `MCNativeCalls` | small instances for TLC |

Definitions commented `Mutant` are used by no specification. Each is a plausible
bug in the definition after it; replacing that definition by it must break the
property that `PROJECT.json` names, which shows the property can fail.

### Protocol

A text frame is a record with the members its JSON object has, or `NotJson`.
`ParseMessage` returns the kind of message, "error" where the code returns `Err`:
no or unknown `type`, or a required member missing. Members with a default
(`#[serde(default)]`) are not required. Members no code of the core looks at are
represented by one member `head`. A request id is a UUID, so a member of `Reqs`
is its own id.

### TunnelServer

State. `services[s]` is the id of the registered connection, `pending[r]` the
`conn_id` of the pending entry; 0 is absence. `runPc[c]` is where `run()` of the
connection is: `created`, `auth` (in `handle_auth`), `authed` (it returned a
service), `closeOld` (registered, the replaced handle still in hand), `relay`,
`cleanup`, `drain` (waiting for the drain task), `done`. `inTx[c]` says whether
`incoming_tx` is `Some`, `pushing[c]` the frames of `push_message` calls that hold a
clone of it, `inQ` and `outQ` the channels, `drain[c]` the drain task. `reqPc[r]` is
where `dispatch` is, `reqConn[r]` the connection whose sender it cloned, `slot[r]` the
oneshot, `result[r]` the result. `handed[c]` is a history variable: what the callback
was given.

Steps. The tokio mutex is never held across another await, so a critical section
is one action and the lock is not modelled. Every await that can suspend for
another reason starts a new action: `Register` and `CloseReplaced` are two actions,
`Dispatch`, `SendRequest` and `RecvResponse` three. `timeout()` polls its future
before its timer, but the future may become ready after that poll, so `Timeout`
and `AuthTimeout` need no condition on it. A dispatch holds its clone of
`outgoing_tx` from its critical section to its return (`InDispatch`), which is what
`HasSender` and with it `DrainEnd` depend on. `weak.upgrade()` in `run` always succeeds
in the model, because a connection in `services` is borrowed by its own `run`
until it has cleaned up (theorem `RegisteredServices`).

Environment. `PushCancelled`, `Cancel` and `CallbackPanics` are what adapters do: a
read task aborted (axum), an exception raised in a Ruby thread, a caller that
disconnected, a callback that unwinds. No adapter drops the future of `run`: axum
and Node await it and the Ruby binding closes the connection and waits. That each
adapter uses the core only as `TunnelServer` allows is a property of its own,
`UsesCore` of the three bridges: proved for all three (lemmas `AxumUsesCore`, `RackUsesCore`, `NodeUsesCore`) and
run for Rack, whose threads share most.

### TunnelPromise and the refinement

`TunnelPromise` has no channels, tasks or maps: connections claim a service and
end; a request is refused, or goes to the owner of its service, may be answered
while that connection serves, and is completed with the answer or with an error
that is true. `TunnelServerRefinement` maps `runPc` to phases, `slot` to `answered`
and shows the result of a dispatch only when it has returned.

### TunnelClient

One client over any number of reconnections. A WebSocket is two byte streams of
`WireCap` messages; the server may send anything, stop reading, close, or vanish
without a word, after which TCP reports an error only if the client has sent data
that is never acknowledged. `writing` is the message `ws_sink.send` has under way:
while it waits for room the `select!` loop does nothing else. `reader` is the server's
reading side: axum and Node queue the pong that answers a ping and read on, while Rack's reading thread writes
it inside `driver.parse` and waits for the client to read (`pongs`); when axum's core has ended, `handle_ws` aborts
its read task although its last messages may still wait to be written (`left`). `EndConnection` is the
return of `run_connection`, which drops the tasks, the channel and the socket. A task
of `in_flight` ends with one of the statuses `forward_request` can produce (200 stands
for any status of the local service, 502 and 504 for its errors).

So each end can wait for the other to read: `BothWrite`, both directions full, the client in `ws_sink.send` and the
server in a write of its reading thread, or with no reader left. TLC reaches it both ways. Neither side has
a timeout for a write, so it lasts until the connection breaks; the callers behind the server still get their
timeouts. `RequestsAnswered` says that it is the only way in which a request that was read is not answered.

### AxumBridge

`AxumBridge` extends `TunnelServer`: a step of the core is the action of that module, and
of the calls it leaves open (`push_message`, `close`, the callback) only those of
`handle_ws` remain. `bridge[c]` is where `handle_ws` is: `run`, `flush` (it waits for the
write task for at most 100 ms), `done`. `readPc` and `writePc` are the two tasks, `msgs`
the unbounded channel between callback and write task, `writing` what `ws_sink.send` has
under way. `fromClient`, `unread` and `peer` are the socket, `written` is history.

The read task waits in two places, `ws_stream.next()` (`Reading`) and `push_message`
(`ReadPushed`); an abort takes effect at either (`ReadAborted`). The write task ends when
its channel has no sender (`WriteEnds`), which is when the drain task drops the callback,
or when the socket fails (`WriteFails`). `FlushEnds` needs no condition: it is the join or
the 100 ms, and a timeout drops the handle, which detaches the task and does not abort
it. That makes the difference in `MessagesKept`: aborted there, a task could take the
refusal of a client with it.

The client sends any frame, stops reading, or closes. `ReplacedFromOutside` stands for
a second connection that takes the service: two connections with their sockets are
too large for TLC, and the replaced one meets nothing of the other but its `close`.

### RackBridge

`RackBridge` extends `TunnelServer` in the same way. `main[c]` is the thread in
`Connection#run`: `reading`, writing a `pong` or a close `reply` from inside `driver.parse`,
then `joinCore`, `joinWriter` and `done` in the ensure clause. `writer[c]` is the thread in
`write_loop`: `next` (in `next_outgoing`), `text` or `close` (in a write), `ended`, or `raised`
when an exception ended it. The third thread, `core`, is `run()` of the core itself.
`msgs` is the unbounded channel behind `next_outgoing`, `sending` the message under way,
`driverOpen` whether websocket-driver still sends, `sock` whether the io is not closed;
`fromClient`, `unread` and `peer` are the socket and the client, `written` is history.

The reading loop ends, besides, on a binary message whose data `push_message` raises on (by the version of
websocket-driver an Array, or bytes that are not UTF-8): the error is not rescued, but the ensure clause runs.

A write has three ends: the socket takes the message (`Taken`), it fails with an error that
`Connection#write` rescues and the message is dropped (`Dropped`), or with one it does not
rescue (`Raised`, a network that gave up on the client). While the socket is full it has
none: Ruby's `io.write` has no timeout and nothing aborts the thread. Messages of the driver
are written by either thread, as in the code, where only `write_loop` takes `@write_mutex`;
a write is one step, because Ruby's io writes one string under a lock of its own.
websocket-driver, the socket and the client are external.

Two remarks that are no findings. A writer that raised makes the join raise, so `close_io`
is skipped and the socket stays open until the object is collected (`Released` allows it).
And `ThreadsEnd` begins, as behind axum, where the system notices that the client is gone.

### NodeBridge

`ws[c]` is the WebSocket of the `ws` library (`closing` after `ws.close()`, `left` once the
client's close frame was read), `spawned[c]` the futures of `pushMessage` the runtime has not
polled yet, `calls[c]` the calls of the threadsafe callback queued for the JavaScript thread,
`sent` history. Event handlers are single actions: JavaScript runs them to their end. Nothing
awaits `pushMessage`, so the futures are polled in any order (`FirstPoll`) and overtake one
another, in the channel too; a future polled after `close()` drops its frame. The promise of
`run()` (`RunSettles`) and the calls of the callback (`Callback`) come through two queues and
may overtake one another. `CloseTimer` is the 30 seconds after which `ws` destroys a
socket whose closing handshake is not answered.

So in the model a refused client may read a close frame without the `auth_error` that the test
at `bindings/node/tests/server.test.ts:455` waits for: `ws.close()` comes first and the callback
then drops the message. How likely that is depends on napi and libuv, which are external, so
it is a remark and no finding. `MessagesKept` says what holds in any case: while the WebSocket is
open nothing is lost. It does not speak of this case. The adapter also leaves the `error` event of `ws` without a
listener; what Node makes of that is outside the model.

### NativeCalls

One thread per method, one connection and one request, because what is shared is only what
a call waits for. `pc[t]` follows `without_gvl`: `enter` (about to call
`rb_thread_call_without_gvl2`, which skips the function if an interrupt is pending),
`started` (inside, before the first poll), `waiting`, then `value` or, after a cancellation,
`check` (`thread_check_ints`), and `cleanup` (the second wait of `run`, with the GVL held).
`intr[t]` is the pending interrupt, `permit[t]` the `Notify` of the current call, `asked`
and `effects` are history: whether an exception was asked for, how often the call took
effect. An interrupt is an exception or "noise" that `thread_check_ints` swallows; how many
there are is bounded by `MaxInterrupts`. Of the core only the fill of its channels and the
ends of `run` and of the dispatch remain.

`CallsAssumption` says that no two threads call one method, as in the Rack adapter. The code
relies on that: a second caller of `next_outgoing` on one connection waits for the lock of
the receiver outside its `select!`, where no interrupt reaches it.

## What is checked

All runs use symmetry-free exhaustive search. The bounds: `MaxConns` connections ever
created (ids never repeat, so a bound on ids is a bound on connections),
`Pushers` concurrent `push_message` calls per connection, `InCap` and `OutCap` channel
capacities, `Frames` the frames clients send.

| Run | Instance | Checks |
|---|---|---|
| `server_core` | 2 connections, each for one of 2 services, 1 request, channels of 1, panics | `TypeOK`, `RegisteredIsRelaying`, `PendingOnLiveConnection`, `WaiterIsServed`, `ResponseFromTarget`, `RequestsArriveOnce`, `ReplacedIsClosed`, `FailureIsTrue`, `ResultIsFinal`, `StaleDisconnectHarmless`, `NothingStuck` |
| `server_live` | 1 connection, 2 requests, every kind of frame, panics | `OnlyAuthenticated`, `AuthOkFirst`, `FailFast`, `CloseEnds`, `UnauthenticatedEnds`, `RequestsReturn`, `KeepsPromise` (refinement) |
| `server_replace` | 2 connections, 1 request | `ReplacedEnds` |
| `client` | 2 requests, streams of 1 | `WritesAnswers`, `NoRequestLost`, `RequestsAnswered`, `ClosedIsNoticed`, `VanishedIsNoticed` |
| `axum_bridge` | 1 connection, 1 request, a socket of 1 | `MessagesKept`, `TasksEnd`, `SlowClientReleased`, `SocketEnds` |
| `rack_bridge` | 1 connection, 1 request, a socket of 1 | `MessagesKept`, `NoThreadStuck`, `UsesCore` (refinement), `ThreadsEnd`, `ClosedReleases` |
| `node_bridge` | 1 connection, 1 request, 2 futures at a time | `MessagesKept`, `ResponseArrives`, `BothEnd` |
| `ruby_native` | 3 threads (`push_message`; `run`; `next_outgoing` and `handle_request`), channels of 1, 2 interrupts | `CallOutcome`, `NothingLeftRunning`, `CallsEnd`, `GvlReleased` |

Why the bounds are enough. Connections interact only through a service one takes
from another and through a response to a request of another: two show each. Chains of
replacements, which take three, are covered by the proofs. Requests interact only through places in the outgoing channel and
through the drain task: two requests and one place show waiting, overtaking and
loss. With capacity 1 a channel is full after one message, so every wait for room
happens. Every run has a secret; that a server with an empty one lets nobody in
is what theorem `Authentication` says for `Secret = EmptyToken`. Two connections together with
two requests are too large for a quick run: safety is covered by the proofs, liveness by the
split into `server_live` and `server_replace`. A client that stalls needs a socket
that fills up; one message does it, as it does for the streams of `client`. Two futures
of `pushMessage` overtake one another; a third would add nothing but another order. Two
interrupts reach a call at two different steps, or two calls at once: the second one meets
the retry, the cleanup or the value the first one led to, and a third would find the thread
in a state where one was handled before. `KeepsPromise` is run with one connection; its
theorem covers several.

Deadlock is checked in every run but those of the client: `Stopped`, in the bridges together
with every task, thread, future and queue of the adapter at its end, is the only state in which
nothing can happen, all connections ended and all requests returned. (In `ruby_native` a thread can
always make another call.) It is not checked in the client runs, because there the system
really stops: a client that waits for `auth_ok` from a server that vanished has no step left (see
below).

That check only sees a standstill of the whole system. `NothingStuck` (core) and `NoThreadStuck` (Rack)
look at each connection by itself: what each of its tasks and threads awaits (`CanRun`, `CanDrain`, `CanPush`,
`CanServe`, `CanWrite`, `CanGoOn`) is compared with where the others are. A connection that has not ended has
a party that can go on, or waits for its client and for nothing else; so a circle of waits, `run()` for the
drain task and the drain task for a sender that `run()` holds, say, is a violation even while other connections
go on and timers of requests tick.

### Fairness

The liveness properties of `TunnelServer` name the fairness they need themselves
(`FailFast == TaskFairness => ...`), since they need different ones; in the other modules
it is part of the specification.

- `TaskFairness`: tokio runs every task that can make progress and fires the
  authentication timer; an adapter that called `push_message` polls it. Nothing is
  assumed of clients, of `close()` or of the request timer, so `FailFast`, `CloseEnds`
  and `ReplacedEnds` do not lean on the 25 s timeout.
- `TimerFairness`: only dispatches and their timers; a stalled drain task or client
  is allowed, so `RequestsReturn` is owed to the timeout alone.
- `ClientFairness`: the client's task runs, `connect_async` returns, a forwarded request
  ends within `request_timeout`. `select!` picks at random among ready branches, hence
  strong fairness for its branches. `TcpFairness`: TCP gives up on data that is not
  acknowledged. `ServerFairness`: a server that is open reads, unless its reader is in the write of a
  pong (Rack) or was aborted (axum); those writes end when the client reads, the aborted one's with the
  socket. The write of the last messages competes with the others for room, hence strong fairness. So
  `RequestsAnswered` does not assume that a server never waits for its client, and has to except `BothWrite`.
- `BridgeFairness`: `TaskFairness`, the tasks of `handle_ws`, and that an aborted task is not
  polled again however much it could read. Nothing is assumed of the client, which
  may hold the socket open for ever without reading: `SlowClientReleased` holds all the
  same, `SocketEnds` only says what a client gets that does not stall for good.
- `RackFairness`: `TaskFairness` and the two Ruby threads. Both write to one socket, so each
  takes the room the other waits for; strong fairness says that it does not do so for ever, as
  the system wakes those who wait for room in turn. Nothing is assumed of the client:
  `ThreadsEnd` is owed once the client is gone, `ClosedReleases` to a client that reads.
- `NodeFairness`: `TaskFairness`, the JavaScript thread, the futures. The futures wait for one
  channel, and tokio's channel serves them in order: strong fairness for `PushReturns`.
- `Fairness` of `NativeCalls`: threads, the core and the end of a dispatch. Nobody need close the
  connection, the core may have nothing to send and Ruby may never interrupt: `CallsEnd` says
  what a call may count on (`WillEnd`).

### Where code and documents disagree

Four runs are expected to fail; each checks one property that a document, comment
or test states.

- `claim_authok` (`AuthOkMeansConnected`): `handle_auth` sends `auth_ok` (server.rs:402) before
  `run` registers the service (314-324). A client that acts on `auth_ok` at once, and the
  Rack test "registers the service after a valid auth", can find it unconnected.
- `claim_pending` (`PendingHasCaller`): `dispatch` removes its entry after the await (183-185),
  not on drop. A caller that goes away leaves its entry until the client answers or
  the connection ends.
- `claim_reconnect` (`DisconnectIsNoticed`): `authenticate` (client lib.rs:135) has neither timeout
  nor pings. A server lost after it received the auth message is never noticed.
- `claim_rack` (`EndClosesSocket`): the comment at connection.rb:64-65 says that `write_loop` closes
  the socket once the core connection ends, so that the read loop returns. Before that it writes
  the last messages and the close frame (67-70), and each write waits without a timeout for the
  client to read: a client that reads nothing keeps the socket and its three threads. With
  a client that reads, `ClosedReleases` holds.

A remark that is no finding: of two live connections for one service the one that
registers *last* wins, which need not be the one created last. Another: the cleanup of the
native `run` waits for its task with the GVL held, so no other Ruby thread runs meanwhile;
`GvlReleased` shows that what it waits for needs none. A third: the server sends no pings, so
`TasksEnd` begins where TCP notices that a client is gone; until then a vanished client stays
registered and its requests run into their timeout.

## What is proved

TLAPS checks these for every number of connections, services, requests and pushers, every
capacity and every set of frames (assumptions: `ServerAssumption`, `FrameAssumption`,
`TokenAssumption`, `RequestAssumption`, and those of each module below).

**The core.** `TunnelServerProofs` proves `TypeOK`, `RegisteredIsRelaying`,
`PendingOnLiveConnection`, `WaiterIsServed`, `FailureIsTrue`, `ReplacedIsClosed`,
`OnlyAuthenticated`, `ResponseFromTarget`, `RequestsArriveOnce` and `AuthOkFirst` invariant, and the action properties
`StaleDisconnectHarmless` and `ResultIsFinal`.

The argument is one inductive invariant, `IInv` (`TunnelServerInvariant`). The safety
properties are not inductive alone; what they need besides is

- `FreshConnections`: a connection not created yet has no state, so ids are not reused;
- `QuietBeforeAuth`: nothing is sent before `handle_auth` replies, so its reply finds room
  (needed for the capacity in `TypeOK`) and is first;
- `AuthenticatedIfServed`: `auth` is fixed once the secret was checked;
- `UntouchedRequests`, `RequestTargets`: a dispatch leaves no trace before it starts, and
  its target had registered for its service;
- `DrainOutlivesSenders`: while anyone holds a sender, the drain task runs or has panicked.
  This is what makes `ConnectionLost` imply a panic.

`TunnelServerInduction` first states what each action leaves alone and splits the actions that
look something up; then it has one lemma per part of `IInv`, which names the parts it needs, and
combines them in `InvariantStep` and `Invariance`. `AuthOkFirst` needs a fact on top
(`OkOrder` in `TunnelServerProofs`): a connection that may be sent requests has `auth_ok` in
its queue or was handed it, and no request in the queue is ahead of it. `IInv` is not an invariant
of a run: each of its parts is proved.

**One request, one client.** `RequestsReachOneClient` proves `RequestsArriveOnce`: of all channels and
clients at most one ever holds a request, the one of the connection its `dispatch` chose, and it holds
it once. The danger is the time between the critical section of `dispatch` and its send, when
the connection may be replaced, close and clean up; what makes it safe is that the sender was cloned under the
lock and the send happens at most once (`SentOnce`: a trace of a request is where `reqConn` says and
belongs to a dispatch that has sent). `ResponseSource` (`ResponseFromTarget`) follows the answer back:
a response to a request is a frame of a client that was handed it (`FramesKnown`), so the entry
that an answer completes is one whose client was asked (`AnswererAsked`). The tunnel client's model
takes its environment from here: a server sends each request once (`AskedOnce`).

**Nobody waits in a circle.** `NoWaitCycle` proves `NothingStuck`: a connection that has not
ended has a task whose await is over (`Moves`), or it relays with every queue and call empty
(`Idle`) and waits for its client alone; and a dispatch that waits on an idle connection has
its request with the client. It is a deadlock freedom of each connection, whatever the others
do, where TLC's check for deadlock only sees all of them at a standstill. The argument follows the
waits: `run()` for the drain task, the drain task for whoever holds a sender (the services map, a
connection that has just replaced this one, a dispatch), the dispatch for room or the answer.
Beyond `IInv` it needs `DrainSpawned` (once `run()` has started there is a drain task, and when
it is over nothing is left to deliver) and `SentIfWaiting` (a request that is waited for is in
the channel or was handed over).

**Liveness.** `EveryRequestReturns` (`RequestsReturn`) and `UnauthenticatedReturn`
(`UnauthenticatedEnds`) are proved from the fairness the properties name and the hypothesis
`[]GuardsAreExact`: the provers cannot reason about `ENABLED`, so that a fair action is enabled exactly when
what its task awaits has come is a hypothesis. Each of its equivalences is read off the guard of one action; it
says nothing of the code and no run checks it. The run `server_live` checks `RequestsReturn` and `UnauthenticatedEnds`
themselves, without it.
While a dispatch sends or waits its timer runs, and whatever ends that makes it fail or return;
a failing one returns by its own step. A connection that does not authenticate passes through `TurnedAway`: its
answer is in the channel, then delivered, then the drain task ends, then `run()` returns. That
the drain task finds no other sender takes `HandlesRegistered` (a replaced handle belongs to a
connection that registered), so such a connection is `Unknown` to everyone but its own
`run()`.

A closed connection ends by a descent, and all of it but the last step is proved. The place of a
connection on its way is `Stage` (how far `run()` is), `Work` (the set of what its await depends on: while it
relays the pushes under way; while it waits for the drain task the senders to be dropped and what is left for
each dispatch that holds one: to send, to wait, to return) and `Queue` (the messages to take first),
compared in this order.
`ClosedNoFarther`: no step of anything takes a closed connection farther. `ClosedComesNearer`: from
every place but the end it comes nearer, under `TaskFairness` and, as above, `[]GuardsAreExact`. Which
task brings it nearer depends on the place: `run()`, the drain task, a push that finds room, a dispatch
whose sender keeps the channel open; that one of them always can is what the deadlock freedom above
comes to. `FiniteWork`: the set is finite, so the order is well-founded. The conclusion,
`CloseEnds`, is an induction over that order whose hypothesis is a temporal formula; the induction theorems cannot be instantiated with one, so
it stays with TLC.

`LostRequestsFail` is the part of `FailFast` that needs no induction: a dispatch whose connection has cleaned up
(`Abandoned`), or that waits for room after the callback panicked (`Refused`), returns
by its own steps alone, whatever the others do and without its timer. A dispatch that waits for
room while the drain task still works is the remaining case: the drain task's way through the
queue is the same induction. The other liveness properties need one as well.

**The refinement.** `TunnelPromiseProofs` proves `PromiseKept`, that `TunnelServer` implements
`TunnelPromise`: one lemma per group of actions shows that the step maps to an action
of the promise or to a stutter. Beyond `IInv` it needs `Failures` (the error of a dispatch is one
it met, and a disconnect is reported only where no answer had come) and `DrainStarted` (the
drain task is not spawned before `run()`).

**The adapters.** The lemmas `AxumUsesCore`, `RackUsesCore` and `NodeUsesCore` say that every behaviour of the
adapter around the core is one of `Spec` (its safety part; each step of a bridge conjoins a step of the core or
leaves it alone). They carry the theorems about the core over. `CallersReturn`, in each of the three, does so for
liveness, with the fairness of the bridge: behind the adapter a client that does not authenticate is turned away
and a dispatch whose connection has cleaned up or lost its channel returns, although a thread may be
blocked for ever in a write, or the client stall the flush (hypothesis as above). `NoMessageLost` of `AxumBridgeProofs` proves
`BridgeTypeOK` and `MessagesKept` by `BridgeInv`: besides the two, `DrainStarted`, and that the
write task ends only with its channel empty and the drain task over, or with the client gone
(`WriterDone`). `NoMessageLost` of `RackBridgeProofs` proves `MessagesKept` (and `RackTypes` proves `RackTypeOK`) by
`RackInv`: besides these, `CloseSeen` (a client whose close frame is under way or read is no longer `open`), which is why
no close reply of the reading thread closes the driver under the writer, and `WriterWorks`
(while the client is there the writer finds the driver and the io open, and stops only
with nothing left to come). `NoMessageLost` of `NodeBridgeProofs` proves `NodeTypeOK` and
`MessagesKept` by `NodeInv`, which adds that a connection not yet made has sent nothing
(`FreshSockets`). Assumptions: `BridgeAssumption`, `RackAssumption`.

What a client may be sent holds at the socket too, not only at the callback: `SocketsTrusted`, in
each of the three, says that only what the core handed over is written, `auth_ok` and requests only
for a client with the configured, non-empty secret, `auth_ok` before any request (behind Rack as long
as the client is there: a write that fails drops its message), and each request once, on the one socket of
the connection it was sent to. The argument is that no adapter reorders or repeats
messages, and that none skips one and goes on (`InOrder`, with `Fresh`: no request in a channel was taken from it
before or is in it twice). It rests on `AuthOkFirst` and `RequestsArriveOnce` of the core.

That nobody waits in a circle is extended to each adapter: `NoTaskWaitCycle` (axum),
`NoThreadWaitCycle` (Rack) and `NoHandlerWaitCycle` (Node) say that of a connection something can
go on until nothing is left of it, unless everything waits for a client that is there; so a client that is
gone holds nothing (`GoneClientHoldsNothing`). Each needs an invariant on how far the parties are
(`TasksInStep`, `ThreadsInStep`, `HandlersInStep`), which rests on the core going forward only
(`CoreGoesForward`). It is what lets the joins of `Connection#run` and the flush of `handle_ws` wait without
knowing of one another.

**The client.** `TunnelClientProofs` proves `TypeOK`, `NoRequestLost` and `WritesAnswers` by `CInv`: a
request that was read is in exactly one place, in flight, in the response channel, under way or
written (`OnePlace`, `SomePlace`, `QueuedOnce`, `WrittenOnce`), the server asks for it once
(`AskedOnce`), and the end of a connection empties all of them (`NothingLeft`).

**The native calls.** `NativeCallsProofs` proves `TypeOK`, `CallOutcome` and `NothingLeftRunning`
for any number of threads and interrupts by `NInv`: what a call has done at each of its steps (`Effects`), which
interrupts may be pending (`Exceptions`), and that a push waits without a sender only on a
closed connection (`Senders`). The cleanup of `run`, which waits with the GVL held, has two theorems, the
safety half of `GvlReleased`: `CleanupNeedsNoRuby` (what it waits for has come, or a task that
needs no GVL can bring it nearer) and `CleanupEndsNearer` (what is left only shrinks, and
each of those steps shrinks it). The induction over what is left stays with TLC.

Only model-checked: the liveness properties but `RequestsReturn` and `UnauthenticatedEnds`, since the provers have neither
`ENABLED` nor induction over data. The type
invariants of the adapters, the client and the native calls, and `UsesCore` of axum and Node, are proved and
not run.

## What is not modelled

- Headers, bodies, queries and their conversions (`handle_tunnel` of axum, `handleRequest` of Node,
  `error_response`, `forward_url`); `constant_time_eq` is equality. `maxBodySize`, which Node ignores,
  is a matter of data.
- Memory: every adapter empties the core's bounded channel into a queue without a bound (the unbounded channels
  behind the callbacks of axum and Rack, the threadsafe function and `ws.send` of Node), so a client that reads
  slowly lets the server's memory grow. The model keeps the queues unbounded and bounds only what is in them.
- The Rack configuration: the two races of `Outpunch::Rack.server` (`@server ||=` in several threads,
  `configure` while clients are connected) are listed as hazards; a model would be two assignments
  to one variable.
- The Rails controller: sequential, without state of its own, around one `handle_request`. What it
  relies on is that a request to a client that has left ends by itself (`FailFast`, `RequestsReturn`).
- The Ruby client binding and the Python binding: configuration objects with two calls that run
  the tunnel client. The Vite plugin, TLS and the command line: no state of their own.
- The lock's fairness and the time constants.

## Plan

1. *Done*: `Protocol`, `TunnelServer`, `TunnelPromise` and the refinement with its proof,
   `TunnelClient`, the three bridges, `NativeCalls`, and the proofs above: every safety invariant and
   action property of the passing runs, deadlock freedom of the core and of each adapter, two
   liveness properties, and the descent behind a third (`CloseEnds`).
2. `Forwarding`: the pure conversions (`forward_url`, query and header extraction, `error_response`,
   `tunnel_response_to_axum`, `constant_time_eq`) against reference definitions over small inputs.
3. `TunnelSystem`: server, bridge and client composed over a lossy WebSocket, implementing
   an end-to-end promise.
4. `RackConfig` and `RailsProxy`: memoised server under threads and `configure`; `proxy` with
   its hooks and rescue clauses.
