# CueBooth: specifications, model checking and proofs

CueBooth lets operators drive a livestream booth from tablets. A Go server
(`server/`) keeps the authoritative state, mirrors Bitfocus Companion's button
surface, presses Companion's buttons and holds the chat platform's credential.
Flutter clients (`client/lib/`) show the state and send commands over one
WebSocket each. A C# sidecar (`sidecar/`) watches PowerPoint. This directory
holds TLA+ models of the parts whose correctness depends on interleaving,
failure and order, the TLC configurations that check them, and TLAPS proofs.

## The system

| Component | State | Operations | Talks to |
| --- | --- | --- | --- |
| Store (`state/store.go`) | current state, revision | `Update`, `Snapshot`, `SnapshotInto` under one lock | observer: hub |
| Hub (`api/hub.go`) | set of connections | `add`, `remove`, broadcasts, `closeAll` | each connection's queue |
| Connection (`api/client.go`, `api/sendqueue.go`) | subscription, closing flag, held keys, two-lane send queue | three goroutines: read, write, ping; `handle*`; `close` | store, hub, surface, dispatcher, socket |
| Surface manager (`api/surface.go`) | key cache, sequence number | `onKey`, `onLayout`, `onClear`, `sendInitial`, `press` | satellite, hub |
| Satellite (`companion/satellite.go`) | session: queue, registration | dial, register, reader, writer, ping, `Press`, reconnect | Companion over TCP |
| Dispatcher (`api/dispatch.go`, `companion/client.go`) | none | command to HTTP press, then a state change | Companion over HTTP, store |
| Chat provider (`chat/restream.go`, `chat/tokenstore.go`) | token pair, pending logins, cooldown, generation, exchange count, file | `URL`, `LoginURL`, `Complete`, `Drain` | the platform, the disk |
| Chat routes (`api/chat.go`, `api/ratelimit.go`) | token bucket, callback slots | `/chat/url`, `/chat/auth/*`, `publishChatStatus` | provider, store |
| Server (`api/server.go`) | HTTP server, handler count | `serve`, shutdown | all of the above |
| Client session (`services/session.dart`) | ready flag, pending commands, resync flag | one handler per frame type | app state, surface state |
| App state (`services/app_state.dart`) | mirror and its revision | `applySnapshot`, `applyDelta`, `reset` | widgets |
| Surface state (`services/surface_state.dart`) | grid, keys, sequences | `applyLayout`, `applyKey`, asynchronous decode | widgets |
| Client transport (`services/server_connection.dart`) | socket, generation, backoff | `connect`, `disconnect`, reconnect timer | the server |
| Chat panel (`screens/chat_screen.dart`) | the answer it shows, a reload owed | fetch on opening, on a tap, when chat becomes ready | app state, `/chat/url` |
| Sidecar (`sidecar/`) | last slide told, a bounded queue | poll, re-attach, pipe accept, discard, pump | PowerPoint, (no consumer yet) |
| Poller (`state/poller.go`) | none | polls its sources into the store | store |
| Process (`main.go`, `service_windows.go`) | none | stop, wait for `serve` | server |

Hard behaviours: commands, a poller and chat handlers write the store at once;
every client reads at its own pace and is dropped when it falls behind; a
subscription changes while broadcasts go on; a surface replay races live
renders; bitmaps decode out of order; a rotating credential must survive races,
lost answers, crashes and shutdown. `PROJECT.json` lists each hazard at its
line with the properties that cover it, or the reason none does yet.

What makes each component correct, in one line: the mirror of a live client is
always one past state and ends up the current one; the surface a client settles
on is the cached one; the credential is never spent twice and is lost only to an
outside cause; no key stays down in Companion that nobody will release, and a
dead surface is always registered again; a client has one live socket or none,
and reconnects unless it was stopped; a press is performed at most once and its
answer is true; no state change and no shutdown waits for ever on a lock, and a
rejected client is told why; an authorization is good once, is not forgotten in
time and, where the configured addresses allow it, comes back to where the browser
is; a chat panel never stays on an answer older than the status it shows; once a
show comes to rest its slide is the one heard.

## Modules

| Module | Models | Proved in |
| --- | --- | --- |
| `StateMirror` | the abstract promise of the state stream: a history and views of it | |
| `StateSync` | store, hub, connections' state lane, socket, client session and mirror | |
| `StateSyncInv` | the inductive invariant `IInv` of `StateSync`, and `PatchesRebuild`, which joins it to `MergePatch` | `StateSync_proofs` |
| `StateSync_proofs` | the proofs of the invariant, of every safety property, that `StateSync` implements `StateMirror`, and of `MergePatch`'s recursion by induction | itself |
| `SurfaceLane` | the coalescing surface lane as operators on sequences | `SurfaceSync_proofs` |
| `SurfaceSync` | surface manager, hub, lanes, client surface and decodes; uses `SurfaceLane` | `SurfaceSync_proofs` |
| `SurfaceSync_proofs` | what a push does to a lane, the inductive invariant `SurfaceInv`, the proofs of the safety properties, of the lane's bound and of the order of renders | itself |
| `MergePatch` | `diff`, `FilterTopics` and `applyMergePatch` over nested JSON documents, as recursive functions | `StateSync_proofs` |
| `ChatAuth` | the chat credential: request handlers, mutex, file, platform, shutdown | `ChatAuth_proofs` |
| `ChatAuth_proofs` | its inductive invariant and the proofs of its safety properties | itself |
| `ChatLogin` | connecting the account: start, rate limit, redirects, pending states, callback slots | `ChatOperator_proofs` |
| `ChatPanel` | the clients' chat panels and the published status they follow | `ChatOperator_proofs` |
| `ChatOperator_proofs` | the proofs of `ChatLogin`'s properties, of what its lists of addresses lead to, and of `ChatPanel`'s `NotPinned` | itself |
| `SatelliteSession` | the session to Companion: dial, registration, writer, reader, ping, teardown, cancellation, and Companion itself | (through `HeldKeys`) |
| `HeldKeys` | the keys each connection holds, composed with `SatelliteSession` (it extends it) | `HeldKeys_proofs` |
| `HeldKeysInv` | the inductive invariants `IInv` and `SInv` of `HeldKeys` | `HeldKeys_proofs` |
| `HeldKeys_proofs` | lemmas on the pipe of lines, and the proofs of the invariants and of every safety property | itself |
| `ClientConnection` | the client's transport over Dart's event loop | `ClientConnection_proofs` |
| `ClientConnection_proofs` | its inductive invariant `ConnInv` and the proofs of its safety properties | itself |
| `Booth` | the abstract promise of command dispatch: one answer to a command, one performance at most, one change of the state for each ack | |
| `Dispatch` | commands of several connections: press over HTTP with retries, answer, state change | `Dispatch_proofs` |
| `Dispatch_proofs` | its inductive invariants, the proofs of `ActsOnce`, `AnswersAreTrue` and `StateFollowsBooth`, and that `Dispatch` implements `Booth` | itself |
| `ConnLifecycle` | a connection's goroutines from upgrade to end, the store's and the hub's locks, the server's shutdown | `ConnLifecycle_proofs` |
| `ConnLifecycle_proofs` | the proofs of `FinalFrameSent`, the locks' exclusion and the lanes' bound, and what an ended connection leaves | itself |
| `SlideFeed` | the slide sidecar: monitor, bounded queue, pipe server | |
| `MC*` | the values TLC needs: topic maps, symmetry, quotas, lists of addresses, and `ChatAuth`'s loads | |

How they compose: `HeldKeys` extends `SatelliteSession` and interleaves with it
on the queue that both write; `SurfaceSync` uses `SurfaceLane`; `StateSync`
implements `StateMirror` and `Dispatch` implements `Booth`. The surface manager's callbacks are the seam between
`SatelliteSession` (which checks that they come in order, `RaisedInOrder`) and
`SurfaceSync` (which assumes one reader at a time). The connection is the seam
between `ClientConnection`, whose sockets come and go, and `StateSync`, whose
clients `Connect` and `Fail` at any time. `ConnLifecycle` refines what `StateSync`
takes as one step each, `Connect`, `Update` and `Disconnect`, down to the locks,
with every frame reduced to a place in the queue. `MergePatch` is why `StateSync`
may treat a state as flat: the recursive functions act member by member, and
`StateSync_one` checks that over every pair of small nested documents and
`StateSync_proofs` proves it for every depth. `ChatLogin`
ends where `ChatAuth`'s `Complete` begins, with a state accepted for one exchange;
`ChatPanel` takes `ChatAuth`'s mint as one step that finds the credential usable
or not.

Every module has a `TypeOK`. It is proved for
`StateSync`, `SurfaceSync`, `HeldKeys` and, within its `IInv`, `Dispatch`; elsewhere it documents
the variables and can be added to a configuration's `INVARIANTS`.

Definitions labelled `Fault:` are deliberate defects, one per property, each the
slip a plausible edit of the code would make. No action uses them; substituting
one for the definition it precedes makes TLC report the property violated, which
shows that the property watches that code.

### StateSync

`Update` is `Store.Update` with the observer's broadcast, one step because both
run under the store's lock. A connection's frames are one sequence, `chan[c]`,
whose first `written[c]` elements are on the socket: the state lane and the wire
keep the same order, so one sequence says both. `Enqueue` is `clientConn.enqueue`
with its close on overflow, for the answers of a connection nothing has closed;
`Broadcast` also meets connections that are draining after a graceful close, whose
overflow only loses the delta, since `close`'s first call wins (`client.go:131`). `HandleSubscription` and `FinishSubscription` are the
two halves of `handleSubscription`: it leaves the hub, changes the subscription,
then queues a snapshot and rejoins under the store's lock; updates run in
between. `Deliver` is `Session._onFrame` with the handler of each frame type and
the `get_state` it may send. `Connect` and `Disconnect` are a connection's whole
beginning and end as the other parts see them; `Fail` is every abrupt close.
The surface lane is left out here: it never delays or drops a state frame (`pop`
takes the state lane first). Commands, pings and rejections are one request,
`other`, answered by one frame: they matter here because they fill the lane.
Server and client speak the same protocol major: the branch of `_onHello` that
refuses another (`session.dart:112`), after which a session never becomes ready,
is left out.

A state is a function from leaves to values, `Absent` for a missing key, so a
patch is a partial function and null is `Absent`. Nested objects are
`MergePatch`'s; arrays are replaced whole.

`heard`, `hist`, the `scope` of frames and mirrors, and the `rev` of frames other
than snapshots and deltas are history: no guard reads them.

### SurfaceSync

The satellite reader does one line at a time: `CacheKey` and `Rebaseline` under
the manager's mutex, then `BroadcastPending` outside it, because `onKey`,
`onLayout` and `onClear` broadcast after unlocking. `ReplayLayout`, `ReplayKey`
and `ReplayEnd` are `sendInitial`, which holds the mutex throughout while the
connection already receives broadcasts. The client's `Decoded` may happen any
time after `ApplyKey`, in any order, and after a reset, as `_decodeBitmap`'s
await allows. A decoding that fails is not modelled: the key keeps what it shows.
`Plain`, the faces without a bitmap, is empty in the run (see Observations).

### ChatAuth

One record per request handler says where it is in `URL`, `mint`, `accessToken`
or `Complete`. `Look` is the mutex-free path of `usableToken`; `FindNone`,
`FindRefreshed` and `BeginRefresh` are the three ways on under `refreshMu`. The
exchange is four steps (post, platform's answer, `adopt` in memory, `save`)
because a crash between any two matters; the file is replaced by a rename, so a
save is one step that happens or does not. `ReadStatus` and `Publish` are two
steps because `publishChatStatus` reads the status before it takes the store's
lock. The platform is external: it redeems a refresh token once, may revoke a
pair, refuse an access token early, answer with an error, or rotate and lose the
answer. `Reboot` covers a crash, a `Drain` that gave up, and a clean exit; it
restarts from the file. Left out: the pending-login map and the callback slots
(`ChatLogin`; a callback here is one whose state was accepted), an unreadable
token file.

### ChatLogin

One browser per authorization, whose `at` says where it is between the start
route, the platform's dialog and the callback. `Begin` opens the start route at
any address; `BarStart`, `Redirect`, `Limit` and `LoginURL` are the ways out of
`serveChatAuthStart` in their order, `BarCallback`, `Busy`, `Cancelled` and
`Complete` those of the callback, `Exchanged` the end of its exchange, which frees
the slot. `allow` and `deny` are the token bucket with the remainder of an
interval that it carries forward; `Kept` is the pruning and the eviction that
`LoginURL` does before it stores a state. Time is a `Tick` between steps.

Addresses are records of scheme, name and port. `Header` is what a browser sends
(it leaves out the scheme's own port), `Host` what the configured URL says. The
`Sec-Fetch-Site` guard depends on where the browser comes from and whether the
destination is trustworthy: `FromElsewhere` for the start, `Trustworthy(Primary)`
for the callback, since the platform's dialog is always another site. Reaching an
address that does not resolve is `unreachable`: it can happen to the redirect's
target and to the callback, unless the browser has been there already.

### ChatPanel

`Mint` and `Respond` are the server's part of a fetch: the credential is found
usable or not, then the status is published and the answer returned. A delta is
queued for each client that was connected when the published status changed.
`Becomes` is `_onStateChanged`, run by a delta, by a reconnection's snapshot and
by any other change of the mirror (`Notify`). `Land` is the part of `_load` after
its await. A panel's buttons are disabled while it loads: the panel is rebuilt
between two taps. `stale` is history: it remembers whether the fetch under way,
and the answer held, began before the status last became ready.

### ConnLifecycle

`at` is where each connection's handler goroutine is, from the upgrade through
`run` to the deferred removal; `loops` are its write and ping goroutines. The two
`sync.RWMutex`es are not variables: who holds one or waits for it is read off the
goroutines' places, and a waiting writer holds off new readers as in Go. `Close`
is `clientConn.close`, whose first call wins; `Enqueue` fails the connection when
the lane is full, also from inside a broadcast, under both locks. `Bridge` is the
goroutine that ends a connection with the server's context. `BeginShutdown` to
`Waited` are the end of `serve`: `Shutdown`, which waits for requests that are
not hijacked, `closeAll` over a copy of the hub, and `waitConns` with its
timeout. A message is a place in the queue; `final` is history, the frames that
are still to be written up to the answer to a malformed one.

### SlideFeed

The monitor and the pipe server (`Connect`, `Discard`, `StartPump`, `Dequeue`,
`Write`, `Recycle`) share the channel, which drops its oldest line when it is full.
A poll makes two calls into PowerPoint, and the show may move (`Move`) between
them: `ReadPosition` reads `CurrentShowPosition` into `position`, `ReadSlide` reads
`View.Slide` into `slide`, `Emit` queues the line of that slide and then counts
that position as told (`last`): these two are one step, since nobody else reads
`lastPosition`. `EmitFails` is anything that throws after the position was read,
such as a show that has ended: the position stays new for the next poll. A show
that ended and began again in between is read as if it had gone on. `told` is
history: what was last queued since the pump of this consumer began.

`NewSlideArrives` is about a show at rest: the consumer keeps the slide of the last
line, whatever was dropped, failed or re-attached on the way. The one exception it
makes, `Mistaken`, is the line for this very position that carries another slide.

### SatelliteSession and HeldKeys

`session` is where the session goroutine is: `Dial` is a successful dial with the
goroutines it starts and `setSession` (a failed dial goes back to the backoff and
changes nothing), `Register` to `RegisterTimeout` are its two `select`s, and
`Reap` and `Flushed` the deferred teardown: close the socket, wait for the
reader, clear the handles and close the queue, wait for the writer. `Offer` is
`enqueue`, whose check and send are one step under the mutex. `signalRegistration`
is one step, although its send on the buffered channel and its close of the
socket come just after the unlock: nobody else writes what they touch.

Companion is external. It judges the registration, takes presses for a
registered surface and discards others, pushes key states and pings, may hand
our device to another surface, and may fall silent or reset the connection.

`HandlePress` is `handleSurfacePress` up to the delivery: a hold is recorded
first. The delivery is two steps, `CheckRegistered` and `QueuePress`, because
`Satellite.Press` reads the registration and queues the line under two separate
locks, so a whole reconnect may lie between. `Leave` and `Release` are
`releaseHeldSurfaceKeys`. Malformed and out-of-grid presses change nothing and
are left out. `dropped` is history: releases at disconnect that were refused.

### ClientConnection

Dart runs one event at a time, so an action is one turn: an event or a microtask,
up to the next `await`. What is suspended is a record in `waiting` (for a
future) or `micro` (ready to run, in order); `Await` is Dart's rule that awaiting
null or a completed future still yields. An async function that returns resumes
its caller in the same turn. `Begin` is the start of `connect` or `disconnect`,
`Cancelled` and `Closed` the halves of `disconnect` after its awaits, `Connect`
the second half and the rest of the `connect` that awaited it, up to the end of
the dial; `Reopen` is the timer's callback, `Drop` what `_open` does to the
connection it finds, `Opened` and `Refused` its two outcomes, `Report` the end of
its `catch`. A listener may call `disconnect` from within a report
(`ReportError`). Timers fire at any time; a fired timer's callback is queued and
cannot be cancelled. A stream that is still listened to ends when the server goes
away, and also when its own socket was closed (`PeerDrops`).

Four behaviours of the code came up while modelling. They are steps of the
model, and the properties are stated so as to bound what follows from them:

* `connect` suspended in its own `disconnect` goes on to dial after a later
  `disconnect` or `dispose`.
* If that later `disconnect` awaits the close of the same channel, it goes on
  after the connect has dialled, and its `_channel = null`
  (server_connection.dart:144) forgets the channel just dialled: the state is
  `disconnected` with `_stopRequested` false, then the socket comes up and the
  state is `connected` with no channel, over a socket nobody can close. The history
  variable `crossed` records that a stop was requested behind a connect that had
  still to dial; the three safety properties and `Reconnects` are about runs in
  which it was not. Connects behind a connect, connects behind a stop and stops
  that cross anything else are all within the properties.
* `_open` checks its token before it awaits the failed socket's close and not
  after it (server_connection.dart:213): an attempt superseded meanwhile still
  reports an error and schedules a reconnection, which replaces the newer
  connection although that one is live.
* On the same path a `disconnect` that ran meanwhile is left with the state at
  `error` instead of `disconnected`.

### Dispatch

`Take` is `handleCmd` to the press: the read goroutine serves one command at a
time. A command is one of four kinds, by what its target does: `set` presses and
changes the state (camera presets, scenes, streaming, recording), `press` only
presses (mutes, slides), `noop` does neither (confirm, cancel), `bad` is rejected
before a press. `Retry` follows an answer that says the press was not performed
(5xx, 429), and nothing else: a press is a POST, and one without an answer is
never sent again (`NoAnswer`). `Acknowledge` queues the ack, `Record` is
`applyState`, a separate step. The request the server gave up on may still reach
Companion: `late`, `PerformLate`. The store is one value, as the interplay of two
commands needs no more; `overlapped` and `lost` are history.

`StateFollowsBooth` says how far the optimistic state may drift from what
Companion last performed: two commands of two connections can be performed in
one order and recorded in the other, as nothing is locked from press to record,
and an unanswered press may have been performed. Nothing else makes it drift.

`Booth` is what the protocol's `cmd` and `ack` promise (`docs/protocol.md:68`, `:223`)
without requests, retries and read goroutines: a command that is `open` gets one
answer; it is `able` until it is performed or ruled out; an ack comes only after the
performance (`noop` has none), a rejection only if there will be none or the command
is `lost`; a change is `due` from its ack on, so that the ack comes before the delta,
and everyone connected is told of it; what a closed connection left may go
unanswered. `Abstract` maps `Dispatch` to it: `open` is what is in an inbox or being
pressed, `able` what of that may still be performed together with the late requests,
`due` what is between ack and `applyState`.

## Runs

| Run | Question | Bounds |
| --- | --- | --- |
| `StateSync_one` | Does a client's mirror stay one past state, implement `StateMirror`, resynchronise only for cause, and converge? Do patches rebuild nested documents? | 1 client, 2 topics of one leaf, lane of 2, 1 frame on the wire, 2 revisions, 1 request in flight; documents of 2 levels, 2 keys, 2 leaves |
| `SurfaceSync_one` | Does a client settle on the cached surface, does nothing cleared come back, and does it settle? | 1 client, 2 keys, 2 faces, 3 renders, 1 re-baseline after the first |
| `ChatAuth_pairs` | Do two requests refused together spend one rotation and keep the credential? Does an authorization stand against a concurrent request, is everything answered, does shutdown end? | 2 requests and 2 faults, or 1 request, 1 callback and 1 fault; 3 pairs |
| `ChatAuth_connect` | Does authorizing take effect on the published status? No: violated | no fault |
| `HeldKeys_live` | Does nothing of a session reach the next, is every key down answered for, is the surface always registered again, does cancellation end everything? | 1 tablet, 1 key, queue of 2, 1 line on the wire each way, 3 sessions, 1 fault, 1 key state or ping, 3 presses |
| `ClientConnection_live` | One live socket at most, none orphaned, silence after a stop, reconnection otherwise? | 3 calls of connect and disconnect, 7 sockets, 3 faults |
| `Dispatch_two` | Is every press performed at most once and answered truly, is every command answered, does the state follow the booth, and does dispatch implement `Booth`? | 2 clients with 2 and 1 commands, 2 values, 1 retry, 2 faults |
| `ConnLifecycle_live` | Can a lock, a full queue, a silent peer or a stop at any moment leave an update, a connection or the process waiting? Is a rejected client told why? | 1 client with every kind of request, 1 meter connection, the poller, queue of 2; no other bound |
| `ChatLogin_four` | Is a state good once, and not forgotten in time? Does the limiter neither leak nor over-admit? | 4 authorizations (symmetric), 3 URL lists (plain names; TLS first; one that names its scheme's own port), 1 address `public_url` does not name, burst 2, a permit every 2 ticks, lifetime 2, room for 3, 1 slot; no bound on time |
| `ChatLogin_tls` | Is the callback served with a TLS name first? No: violated | 1 authorization, the TLS list |
| `ChatPanel_two` | Can a panel be left with an answer older than the status it shows? Do the mints, which publish what panels follow, end? | 2 panels, 6 events of operators, platform and network |
| `SlideFeed_three` | When the show comes to rest, does a consumer that is being told slides hear that one, and keep it? | 3 slides, queue of 2, 6 moves |

Why the bounds are enough. In `StateSync` a lane of two is the smallest that
holds hello and the first snapshot, and it overflows with one more frame; two
topics and two revisions give every interplay of a change inside and outside a
subscription (a delta skipped, a delta next, a gap), and a restart brings
revisions back to zero. The theorems hold for every value. In `SurfaceSync`
three renders over two keys give a key rendered twice, a render on either side
of a re-baseline, and two decodes of one key in flight. In `ChatAuth` three
pairs are an old authorization, its rotation and a new authorization; the fault
budget pays for the expiry or refusal that makes a refresh necessary and then
for a lost answer, a failed write or a crash inside it. In `HeldKeys` a queue of
two fills with one release behind a ping or a registration (the code's holds
32; only being full matters); three sessions are the one at fault, one that ends
without a fault because a queue filled by early presses refuses its
registration, and one that lives. One tablet and one key suffice there because
the theorem covers all the others. In `ClientConnection` three calls are a
connect, the call that overlaps it and the one that overlaps both; seven sockets
are more than three calls and three faults can use, so no attempt is ever
refused for want of one. In `Dispatch` two commands on one connection give an
order of answers to break, the third races them from the other; one retry tells
the last attempt from the others; two faults pay for a lost answer and a closed
connection in one behaviour. In `ConnLifecycle` one client and the poller are two
parties to each lock, one of them taking both roles; a queue of two holds hello
and the snapshot and overflows with the next frame. In `ChatLogin` the limiter's
numbers (5 at once, one per 12 s, states that live 600 s, room for 64) are scaled
so that the relation the code relies on stays tight: room for exactly the burst
and the permits of one lifetime, and four authorizations to fill it beyond. In
`ChatPanel` six events are a panel opened on each side, an authorization and a
refusal between their fetches, and two of a tap, a disconnect, a lost answer. In
`SlideFeed` three slides overflow a queue of two.

Two or more clients are beyond the runs of `StateSync`, `HeldKeys` and
`ConnLifecycle`; the theorems about these hold for any number of them.
The run of `SurfaceSync` has one client: two replays competing for the manager's
mutex are left to the theorems.

Deadlock is checked except where the system may really have nothing left to do: a
transport that was stopped or disposed (`ClientConnection_live`), a server whose
clients have sent their commands (`Dispatch_two`), panels that are closed when the
events are used up (`ChatPanel_two`), a sidecar without PowerPoint's operator or a
consumer (`SlideFeed_three`). In `ChatLogin_four` time always passes. In
`ConnLifecycle_live` it is checked: only a process that has exited rests.

### Fairness

`StateSync` and `SurfaceSync` assume weak fairness of a connection's read and
write goroutines, of the satellite reader's broadcast, of the socket and of the
client's event loop: goroutines and the loop are scheduled, and a socket that
stops moving is ended by the ping loop, which the liveness properties exclude by
their premise (the connection stays up). Nothing obliges a client to connect, an
operator to act, or Companion to render. `ChatAuth` assumes weak fairness of each
handler's own steps, since every outbound request has a deadline, and strong
fairness of taking the mutex, since a Go mutex in starvation mode hands itself to
its oldest waiter. `HeldKeys` assumes weak fairness of the session, writer and
reader goroutines, of a connection's delivery, and of Companion answering as long
as it is not silent; the two deadlines are fair only against a silent peer (an
early one is a fault), which is when Go's timers must fire. `ClientConnection`
assumes that the event loop drains its microtasks, that timers fire, that a
socket's future completes one way or the other, and that a socket that was closed
ends its stream. `Dispatch` assumes that a
connection's read goroutine runs and that a request is answered or times out
(`DefaultTimeout`). Nobody is obliged to press, leave, call, send or stop.

`ConnLifecycle` assumes weak fairness of each handler and loop, and strong
fairness of taking a lock, as Go's `RWMutex` starves neither readers nor writers.
No timeout has to expire for what must happen, except the one that ends a write
or a ping to a peer that does not answer. A write loop that is told to end
flushes until it finds its queue empty; broadcasts may refill it meanwhile, so
`TornDown` and `StopEnds` are stated of connections whose writer `KeepsUp`, that
is, finds the queue empty again and again. `ChatPanel` assumes that requests are
answered within their deadlines and that deltas arrive; operators, platform and
network do at most `MaxEvents` things, since `Quiesces` is about what happens
after they are done. `SlideFeed` assumes that the monitor's timer keeps firing,
and strong fairness of a poll's two reads and of `Emit`: a poll that again and again
finds a new slide one day gets through to the queue. `ChatLogin` states safety only.

### What the violated runs show

`ChatAuth_connect`: a request that read `needs_auth` before an authorization
completed can store it afterwards; until the next `/chat/url` request, clients
stay at the connect prompt although chat is connected.

`ChatLogin_tls`: `docs/development.md:106` has an operator who puts the server behind
TLS list the new name first and register its callback. The platform's dialog then
leads the browser to a trustworthy address, so the browser says that the request
comes from another site, and `chatGuard` (`chat.go:88`) answers 403. The
authorization that the operator has just granted never reaches `Complete`.
`NeverConnects` proves that no account is ever connected under such a list.

### Observations

Behaviours of the code that came up while modelling and that the properties are
stated so as to bound. They are steps of the models unless said otherwise.

* Revisions are global and deltas go only to the clients they concern
  (`hub.go:37`), so a client subscribed to a subset of the topics finds gaps
  although nothing was lost and asks for a snapshot it does not need
  (`protocol.md:187`, `app_state.dart:40`). Conversely, by `NoFalseGap` and
  `QuietMeansCurrent` no frame is lost on a connection that stays up.
* A connection that is draining after a graceful close stays in the hub, and a
  delta that finds its lane full is dropped without effect, because `close` has
  been called already; `flushRemaining` (`client.go:293`) may then write later
  deltas behind the gap. The client asks for a snapshot that nobody reads any more
  and shows a past state until the connection ends. `NoFalseGap` therefore speaks of
  connections nobody has closed, `MirrorFaithful` of the draining ones too.
* A key sent without a bitmap keeps the picture it had, since `applyKey` carries
  the image forward (`surface_state.dart:119`; `surface_grid.dart:182` would draw
  its glyph). The run of `SurfaceSync` therefore has faces with bitmaps only.
* `pushSurfaceLayout` keeps the queued renders above the layout's sequence
  (`sendqueue.go:113`), but in the program there are none: every layout pushed
  carries the manager's present sequence (the reader broadcasts its re-baseline
  before it takes the next line, a replay pushes its own under the mutex), so a
  layout always empties the lane (`LayoutLands`) and the older-layout return at
  line 109 is never taken. Both are a safeguard, not a behaviour. So are the
  sequence checks of `pushSurfaceKey` (`sendqueue.go:84`) and `applyKey`
  (`surface_state.dart:109`) as far as older frames go: by `Ordered` they only ever
  meet the same render queued twice, by a replay and by its broadcast: the two
  "can reach the queue out of sequence" (`sendqueue.go:77`) only if the reader
  could cache a key's next render before it has broadcast the last one.
* `Drain` may return just before a handler that was waiting for `refreshMu`,
  which `tokenCalls` does not count, starts an exchange of its own
  (`restream.go:557` against `:159`), when the server's `Shutdown` had expired.
* `releaseHeldSurfaceKeys` forgets the held set before it delivers the releases
  and ignores their errors (`client.go:470` against `:222`): a release that meets
  a full queue, or a surface not yet registered again, is lost, and the key stays
  down in Companion. `HoldCovered` shows that such a refusal is the only way.
* With a TLS name first in `public_url` (or `localhost`, which browsers trust as
  much) every callback is refused: `ChatLogin_tls`, `NeverConnects`. A start that
  was redirected from the web client's page there is refused for the same reason.
* "This cannot loop" (`chat.go:153`) is false of a first URL that names its scheme's
  own port, such as `http://pc:80`: a browser leaves that port out of the `Host`
  header, so the first address is itself redirected, for ever. The configuration
  check accepts such a URL (`config.go:303`). `NeverSettles` proves that nobody gets
  past the start then. `Trip` proves that the handshake goes through in the
  remaining case, plain http on another name that its `Host` header tells.
* A connection hijacked but not yet counted outlives `waitConns`; a `Shutdown`
  that times out makes `run` return an error; a ping can fail while the reader is
  inside a long `Dispatch`, because a pong is only read by a read.
* A mint refused just before an authorization completes leaves its panel on
  "needs reconnecting" until the next transition or tap.
* A monitor that "emits a slide-changed payload on each transition"
  (`SlideMonitor.cs:9`) reads the position and then the slide (`:154`, `:175`). If the
  show is at `s1`, moves to `s2` between the two calls and is back before the next
  poll, the line for `s1` carries `s2`, and `s1` counts as told: the consumer keeps
  the wrong slide until the next move. It takes two moves within one poll. Without
  `Mistaken`, `NewSlideArrives` fails by this behaviour.
* A slide told before a consumer connects is not sent to it, and one that changes
  while the pipe server discards is lost until the next change.
* `connect` waits for its own `disconnect` and then dials whatever was called
  meanwhile (`server_connection.dart:96`); a press may race the session's teardown
  (`satellite.go:449`), where `enqueue`'s lock decides.

## Proofs

### StateSync

The proofs hold for every set of clients, fields, topics and values, every
`TopicOf`, every lane of at least two frames and every bound, under
`ConstantsAssumption` (TLC evaluates it in every run of `MCStateSync`).

| Theorem | States |
| --- | --- |
| `Invariance` | `Spec => []IInv` |
| `TypeCorrect` | `Spec => []TypeOK` |
| `Faithful` | `Spec => []MirrorFaithful` |
| `NoGap` | `Spec => []NoFalseGap`: of connections nobody has closed |
| `Quiet` | `Spec => []QuietMeansCurrent` |
| `Monotonic` | `Spec => NeverRewinds` |
| `Refinement` | `Spec => MirrorSpec` |
| `Rebuilding` | `Rebuilds`: what `diff` makes and `applyMergePatch` applies, at any depth |
| `Rebuilt` | `Spec => []PatchesRebuild` |

None of the properties is inductive: what a mirror shows after the next frame
depends on every frame in flight. `IInv` therefore says of each connection that

* every frame in flight is *truthful* (a snapshot is the history at its
  revision, a delta is the difference of two consecutive revisions, both cut to
  the scope they were queued with);
* each frame *follows* the one before it: no revision goes back, and a delta is
  newer and keeps the scope, which is a member's subscription (`HubScope`);
* a connection begins with hello and a snapshot, and the mirror agrees with the
  last frame handled unless deltas were skipped because a snapshot is awaited;
* on a connection nobody has closed *nothing is lost* (`NothingLost`): under the
  full subscription each delta is the very next revision (`InTurn`) and the mirror
  is where the last frame left it; what the hub has not sent a member was invisible
  to it, so the newest frame queued for a member agrees with the store on its
  subscription; and an idle reader's connection is a member of the hub.

All but the last holds of a draining connection too, and is what keeps its mirror
faithful: a delta is merged only into the revision just before its own, whatever
was dropped between. The last is what `NoGap` and `Quiet` need. The mirror properties follow at once; the
refinement uses `IInv` to name the published state each observation is a view
of.

`Rebuilding` is about data, not about steps, and holds for every set of keys and of
leaves and every nesting depth, under `MergePatchAssumption`. `diff` and
`applyMergePatch` are recursive functions, and a recursive definition says nothing
until some function satisfies it. So the proof comes in two halves, each by induction
on the depth (`StepInduction`, which follows from the well-founded order of the
naturals). First, what one call makes of two values depends only on its calls one
level down (`DiffUpTo`, `MergeUpTo`); so a function that satisfies the recursion at
one level gives one at the next (`DiffExists`, `MergeExists`), and the two functions
do what the code's bodies say (`DiffIs`, `MergeIs`). Then, given that patches rebuild
one level down, `PatchEntries` says what a patch holds at each key: the keys that
differ and no others, null where one is gone, otherwise something that makes the old
value the new. This needs that an object merged into nothing, or over a leaf, is
itself (`ApplyToNothing`), which is where a null inside a document would break it: such
a null would be dropped. That documents hold none is `normalize`'s doing, and the
`omitempty` of what may be missing. `RebuiltOneLevelMore` goes from the keys to the
objects, whole or cut to a subscription.

### SurfaceSync

The proofs hold for any clients, finite set of keys, faces (with or without a
bitmap), socket buffer and bounds, under `SurfaceAssumption`.

| Theorem | States |
| --- | --- |
| `Invariance` | `Spec => []SurfaceInv` |
| `TypeCorrect` | `Spec => []TypeOK`: with the types, the bound on a lane |
| `Settled` | `Spec => []SettledSurface` |
| `Final` | `Spec => []NoResurrection` |
| `Ordered` | `Spec => []InOrder`: the renders of a key reach a client in the order they were sent, across replays too |

A client's lane is only the end of its *pipe*: the frames on its socket, then
those in its lane. `Write` does not change the pipe, `Deliver` takes its head, a
render changes one place of it or adds one (`KeyInPipe`), a layout replaces all
of it that is not on the socket yet (`LayoutLands`). `SurfaceInv` says

* of the manager (`CacheInv`): the cache is of the present era, the reader's
  frame is a render still in the cache or a layout of the present sequence, and
  with a layout waiting the cache is empty;
* of the mutex (`ReplayInv`): the connection that holds it is the one replaying;
* of every render anywhere, in a pipe, shown or being decoded (`Genuine`): it is
  no newer than the cached one, and the same face if it is of the same sequence,
  which is why the highest sequence may win and a late decode may be trusted;
* of a layout in a pipe (`LayoutInv`): everything ahead of it and the whole mirror
  is of its sequence or an older one, so the client drops all of it; everything
  behind it is of its era or a later one, so nothing from before is shown again;
  and in the lane it is in front, so replacing a render in place never moves it
  ahead of a layout;
* of a served client (`OwedInv`): each cached render is about to be broadcast,
  under way with no layout behind it, or shown with no layout to come; each
  blanked key has a layout about to be broadcast or under way with no render of
  it behind, or is blank with none to come. During a replay this is so of the
  keys it has passed, and a layout is under way or has sized the grid
  (`SizedInv`), so that the bitmap of what is shown is shown too or being decoded
  (`ImageInv`).

With nothing under way only the last of each alternative is left, which is
`SettledSurface`. `SingleInv`, one frame for a key and one layout in a lane, maps
its places one to one to the keys and the layout; their number is `TypeOK`'s bound.

`Ordered` is about a whole connection, also where a replay blanks a key and paints it
again: no frame under way is older than what the client shows of its key or than
one ahead of it. Every frame pushed is the newest of its key (`KeyInOrder`), and one
that takes an older one's place in the lane has no other of its key behind it.

### HeldKeys

The proofs hold for every set of tablets, every non-empty grid, every queue and
wire of at least one line, and every bound (`SessionAssumption`,
`PressAssumption`; TLC evaluates them in the runs of `MCHeldKeys`).

| Theorem | States |
| --- | --- |
| `Invariance` | `Spec => []IInv` |
| `TypeCorrect` | `Spec => []TypeOK` |
| `Covered` | `Spec => []HoldCovered` |
| `AnswersInvariance` | `Spec => []SInv` |
| `Known` | `Spec => []RegistrationKnown` |
| `Ordered` | `Spec => RaisedInOrder` |

`HoldCovered` speaks of a registered surface; it is not inductive, because a
press may be queued in a session that has not registered yet and be taken once
it has. `HoldInv` therefore states the same of every open session, over the
*pipe*: the lines in the queue and on the wire, in order. Whether a key ends up
down is decided by its last line in the pipe (`KeyDown`); taking a line from the
front or moving one from queue to wire changes no key's end (`KeyDownTail`,
`WritePipe`), and a line at the end decides only its own key (`KeyDownAppend`).
Companion discards presses of a surface it does not know, which is harmless only
if no key is down then: `AddInv` says that the device is added once per session,
so that before it nothing is down. `ClientInv` says that what a connection
presses it holds, and that one that is leaving only releases. `SessionInv` is
the order of the teardown: an open socket has its queue and a writer that has
not failed.

The proof sorts the session's actions by what they do to the pipe
(`SessionEffects`): leave it alone, add a line, take one. Each conjunct then has
one step per kind, and one per action of a connection.

The other direction is `SInv`, on top of `IInv`. `ReaderInv`: when a session is
dialled the readers before it have ended, and a registration ended with its
session. `ReplyInv` is about the line the reader has in hand followed by those
behind it on the wire: an acceptance comes once, before any key state, and a
rejection is the last word; so a flag that is still set after an eviction has the
rejection ahead of it, and a key state in hand finds its session's layout raised.
That Companion judges a registration once rests on `AddInv`. Two lemmas say what
the order of a sequence's members becomes when one is added or taken
(`AppendAnswer`, `TailAnswer`).

### ClientConnection

For any number of calls, sockets and faults, under `ConnectionAssumption`.

| Theorem | States |
| --- | --- |
| `Typing` | `Spec => []TypeOK` |
| `Invariance` | `Spec => []ConnInv` |
| `LiveChannel` | `Spec => []ConnectedIsLive` |
| `Ownership` | `Spec => []NoOrphan` |
| `Silence` | `Spec => []StoppedIsSilent` |

The properties look at a moment; what decides them is which suspended functions
are still to run, in which order, and on what. `ConnInv` is therefore about
continuations, `Pending` in `micro` or asleep on a future:

* `Waits`, `Runs`: who waits for which future, and that an attempt of `_open` waits
  and runs alone, so that what it captured is not disturbed within its turn;
* `Cancels`, `Closes`: the stops that wait for a subscription to be cancelled are
  the only stops there are, and the stops that wait for a close all wait for the
  present channel. So no stop goes on, after another did, with a channel that was
  dialled meanwhile;
* `Queues`, `GoalOrder`: stops run in the order of their stages, and unless one
  was crossed no other stop stands behind a connect. This is what makes a dial the
  last thing a queue of stops does (`HeadClosed`);
* `Stopping`: what has been silenced at each stage of a stop; a stop that is over
  left nothing;
* `Attempt`: an attempt whose token is the newest owns the channel, nothing is
  listened to meanwhile, and no timer has the same token;
* `Live` and `Owned`, the properties themselves.

`Core` is the conjunction and is claimed unless a stop was crossed; `Shape`, the
types and what a continuation may carry, always. The queues are dealt with first
(`LinesStop`, `LinesCancelled`, `LinesDial`, `LinesRefused`, `LinesComplete`,
`LinesShift`, `LinesKept`: what a stop, a dial, an await or a completed future make
of them), then every action for the rest. `Owned` goes through each of them by one
lemma (`OwnedKept`): a channel is given up only when it is closed or an attempt
will see it, and an attempt ends with its socket closed or listened to.

### Dispatch

For any number of connections, commands, retries and faults, under
`DispatchAssumption`.

| Theorem | States |
| --- | --- |
| `Invariance` | `Spec => []IInv` |
| `Once` | `Spec => []ActsOnce` |
| `TrueAnswers` | `Spec => []AnswersAreTrue` |
| `Follows` | `Spec => []StateFollowsBooth` |
| `Refinement` | `Spec => BoothSpec` |

A command is identified by its connection and number, and the danger is an old
one that comes back: a request the server gave up on is still on its way
(`late`) while later commands are served. `OrderInv` says that numbers ascend in
every inbox and that whatever has been taken, served, answered, performed or
given up on lies *behind* all that is still to be taken, so a command that is
taken is new to all of them. `PressInv` then follows the press: performed exactly
when the request under way says so, never while it is among the late ones, and
not answered before it is over. `FollowInv` adds, for the last change performed that
neither raced another nor was lost, that it is the only one whose record may be due,
so that no other record can come after it.

`Refinement` shows that a step of `Dispatch` is a step of `Booth` or changes nothing
there: a retry, an answer that has not been read and a press that is taken from the
inbox are such stutters. The abstract sets are unions over the connections. A step
moves one connection, and `OneChanges` turns what becomes of its own part into what
becomes of the union; that needs the parts to be disjoint, with no old command in any
of them (`Distinct`), which is `OrderInv` and `PressInv` again. `PressOver`, the end
of a press in all its forms, and one lemma for each other action do the rest.

### ChatLogin and ChatPanel

| Theorem | States |
| --- | --- |
| `Spent` | `Spec => []SpentOnce`, for every limit, list of addresses and number of authorizations |
| `Trip` | `Recognised` and `Unnamed` imply `Spec => []RoundTrip`: one redirect settles the address, nobody is lost or barred |
| `NeverConnects` | `AllNamed` implies that no browser is ever let in by the callback's guard |
| `NeverSettles` | `Unrecognised` implies that the first address is redirected like any other and that nobody gets past the start |
| `Remembered` | `Spec => []NotForgotten`, for every limit that `LoginAssumption` allows |
| `Refused` | `Spec => RefusedForARecentOne` |
| `NeverPinned` | `Spec => []NotPinned`, for any number of panels and events |

`SpendInv`: a state that is pending has not been spent, and one whose browser has
not come to the dialog yet is not pending. `TripInv`: a browser past the start
route, or after one redirect, is at the first address, by which the redirect
recognises it.

These three theorems divide the lists of addresses by their first one, since no
property of the handshake holds of all that the configuration check accepts.
`Unnamed` is plain http on a name other than localhost, `AllNamed` its opposite;
`Recognised` says that the first address is the one whose `Host` header names it,
`Unrecognised` that no browser ever sends that host. They are conditions on
`UrlLists`, and no run assumes them: `ChatLogin_four` has a list of each kind.

`Remembered` is arithmetic over time. The bucket's *level* is what its permits are
worth in ticks, the remainder of an interval included; a start takes one interval
from it, a refusal nothing, a tick adds one tick at most (`LevelCall`,
`LevelTick`). `RoomInv` pays for the pending states out of it: for every `t` up to
a lifetime, the states issued in the last `t` ticks, at one interval each, and the
present level are together no more than a full bucket and `t` ticks. With `t` a
lifetime and one more start admitted there are fewer than `MaxPending` unexpired
states (`NoEviction`), which is where `MaxPending >= Burst + TTL \div Every` is
used: the code's 64 against 5 + 600 / 12. `Refused` needs only that an empty bucket
was emptied by a start no older than its clock (`EmptyInv`).

`PanelInv`: an open panel whose status is ready has a
reload under way, owed (`again`), or done since, in every state of its fetch.

### ChatAuth

For any number of requests and callbacks, pairs and faults, under
`ChatAssumption`.

| Theorem | States |
| --- | --- |
| `Invariance` | `Spec => []CredInv` |
| `SpentNoMore` | `Spec => []NeverSpentTwice` |
| `Kept` | `Spec => []CredentialKept` |
| `Shared` | `Spec => []OneRotationEach` |
| `Current` | `Spec => []RefusalIsCurrent` |
| `Standing` | `Spec => AuthorizationStands` |

Each property looks at one moment of an exchange; what must be carried from one
moment to the next is in `CredInv`. `Carries` says what a handler has in its hands
at each of its places: it is in an exchange exactly when it holds `refreshMu`; a
refresh posts the pair that is held, and only because that pair was refused or
neared its expiry; an answered refresh brings a pair of the same authorization, an
answered callback one of the newest; a request that is being served, or about to
hold the credential off, was given a pair of the authorization held now unless the
generation has changed since. `HeldInv` says when memory and file may hold
different pairs, or one the platform has replaced: only inside an exchange that
was answered, or for a cause. `Numbered`, that the authorizations are numbered
without gaps, makes the number of the next one greater than all.

Only the handler with the mutex changes the credential, so the others are dealt
with once: `MoveStep` for a step outside an exchange, `OthersStep` for what a step
inside one leaves to the rest. `Standing` is about steps: `TokStep` shows that only
`discard`, `adopt` and a new process change the pair held, and the invariant says
of which authorization the new one is.

### ConnLifecycle

| Theorem | States |
| --- | --- |
| `Told` | `Spec => []FinalFrameSent`, for any number of connections and any send buffer |
| `Typing` | `Spec => []TypeOK`: no lane exceeds its buffer, at most one state change holds the store, and none while a connection takes its snapshot and joins the hub |
| `Clean` | `Spec => []NothingLeft`: a connection that has ended is out of the hub, its goroutines have ended and its socket is closed |

`FinalFrameSent` is about the end of a connection, but what could break it lies
before: a close that is not graceful, or a write loop that stops too early.
`LifeInv` follows each connection. A graceful close comes only from its reader, and
from then on nothing closes the socket before the handshake, since the first call
of `close` wins; while the write loop runs, the frames still to be written last
are in the queue, and it stops only when it finds the queue empty or has lost the
peer. What the other goroutines may do to a connection, which is to put a frame in
its queue or to fail it, is one lemma (`AsideFlushed`), used by every broadcast
and by the shutdown.

`Typing` and `Clean` rest on `HeldInv`, inductive relative to `LifeInv`. The locks
are not variables, so their exclusion is a fact about places: only `Update` comes to
write, when nobody holds the store, and only `Snapshot` comes to read, when nobody
writes (`ExcludedStep`); every other step, the other connections' included, leaves
the holders a subset of what they were (`NoneEnters`). This is what lets `StateSync`
and `Dispatch` take an update, with its broadcast, as one step, and a snapshot, with
its join, as another. For `NothingLeft` a socket that was closed and a close that
was recorded must stay so whoever else calls `close` or fails an enqueue
(`NeverReopened`), from `waiting`, where the reason is on record, to `ended`.

### What is only model-checked

Liveness is beyond the prover: `Converges`, `SurfaceSettles`, `Answered`,
`Drains`, `Registers`, `Stops`, `Reconnects`, `UpdatesEnd`, `TornDown`,
`StopEnds`, `Quiesces`, `NewSlideArrives`. Every other property of the runs that
pass is stated by a theorem.

## Not modelled

The web UI (static files served from the binary) and the panes and widgets
(rendering of states modelled elsewhere) have no state of their own that order or
failure could harm. Of the configuration only `chat.public_url` is modelled, in
`ChatLogin`; the rest is read and validated once, at start. The poller's ticker
and sources are left out, as the server configures none: its updates are those of
`StateSync` and `ConnLifecycle`. The service manager's status reports are left
out of the stop that `ConnLifecycle` models. The client keeps no state for the
commands it has sent: a rejection only becomes a notice.

## Plan

Done: the state stream with its proofs, refinement and nested patches, the
surface, the chat credential, its authorization and its panels, the satellite
session and held keys, the client transport, command dispatch with its refinement,
connections and shutdown, the sidecar; proofs of every safety property.
What could follow:

1. An abstract specification that `SurfaceSync` implements, as `StateSync` does
   `StateMirror` and `Dispatch` does `Booth`: a surface that every client mirrors.
