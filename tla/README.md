# TLA+ models of the HMMP Python SDK

Specifications, model-checking configurations and machine-checked proofs for the
client SDK of the HMMP protocol (`src/hmmp`). Line numbers are those of the
sources in `src/`. `PROJECT.json` links every definition to the lines it
models, every property to the run that checks it, and lists the hazards of the
code with the properties that watch them.

To check: `tlc -config X.cfg M.tla` for each run in section 3, `tlapm M.tla`
for each module of proofs (section 5).

## 1. The system

The SDK is one process on one asyncio event loop. Code between two `await`s is
atomic, so a step of a model is the code from one await to the next and the
interleavings are those of the tasks at their awaits. There are no threads.

| Component | State | Operations | Talks to |
|---|---|---|---|
| `HMMPConnection` (connection.py 45-251) | `_state` (5 values), reader/writer, stream id counter, send lock | `connect`, `close`, `send_frame`, `read_frame`, `read_frame_loop`, `set_state`, `next_stream_id` | the transport; calls the frame handler and the close handler |
| `FrameRouter` (connection.py 254-337) | table stream id -> future, notification handlers | `register_request`, `cancel_request`, `fail_all`, `route_frame` | called by the read loop and the requests; resolves futures |
| `HMMPClient`, requests (client.py 452-482) | - | `_send_request` | the current connection and the router |
| `HMMPClient`, session (client.py 132-450, 711-741) | `_conn`, `_running`, session id, nonce, CEK, read and heartbeat tasks | `connect`, `disconnect`, `_establish_connection`, handshake, `_heartbeat_loop`, `_reconnect`, redirect | replaces connections; its close handler runs inside `close()` |
| `HMMPClient`, services and configs (client.py 485-705) | change handlers, chunks under assembly | register, discover, get_config, listen, notification handlers | requests; application callbacks |
| codec.py, models.py, frame.py, governance.py, crypto.py | none | writers and readers of bodies, frames, governance blocks, encrypted bodies | the connection, the client, `AdminService` (admin.py) |
| `CircuitBreaker` (circuit_breaker.py 70-255) | state, failure/success/total counts, half-open permits, error flag, backpressure | `try_acquire`, `record_*`, `on_remote_error_flag_*`, `on_backpressure` | callers of an instance |
| `CircuitBreakerRegistry` (258-330) and `AdaptiveLoadBalancer` (load_balancer.py 43-254) | a breaker per instance that has failed once | `select_with_circuit_breaker`, `is_instance_available`, `on_service_snapshot_updated`, `record_*` | snapshots pushed by the server |
| `TrafficColorRouter` (load_balancer.py 257-348) | color tag | `set_color_tag`, `filter_instances`, `route` | the load balancer |
| `BackpressureController` (backpressure.py) | active, delay, time of the last signal | `on_backpressure_signal`, `on_normal_response`, `apply_delay_if_needed`, `reset` | the application's requests |
| `MetricsCollector` (metrics.py) | connection, error and latency counters | `increment_/decrement_connections`, `record_*`, `collect_metrics_pack` | a provider; its report comes back in snapshots |
| `ServiceSnapshotCache` (cache.py 52-133) | snapshot and fetch time per service | `get`, `put`, `invalidate` | application, which also receives pushes |
| `ConfigCache` (cache.py 136-269) | content, MD5 and time per key; a snapshot file per key | `get`, `put`, `remove`, `invalidate`, `load_from_snapshot` | file system |
| `CanaryVersionVector` (cache.py 272-333), interceptors (interceptor.py) | a dictionary; trace and color tags | | called by nobody in the SDK |

The breakers, the load balancer, the router, the caches, the backpressure
controller and the metrics collector are tools for applications: the client
itself calls none of them.

What is hard in it:

* **Interleavings at awaits.** Senders queue on a lock that is held through a
  failing `drain()`, the `close()` this starts, and the close handler, which is a
  whole reconnection. Any number of tasks can be inside `close()` at once: its
  guard only stops callers that find the state DISCONNECTED. Several tasks may
  reconnect at once, each inside nested calls of `close()`, and each replaces
  `self._conn`.
* **Stale state.** The writer is tested before the lock is taken; `_conn` is
  read again after awaits; the connection may be closed or replaced in between.
* **Reuse of ids.** Stream ids wrap round and start at 1 on every connection,
  the router is shared by all of them, and entries of requests that ended badly
  may stay in its table.
* **Time-outs against late answers**, cancellation by stream id.
* **Callbacks in the read loop**: a handler that waits there stops all reading.
* **Bytes**: frames come in pieces, length prefixes are masked to their width,
  bodies end in optional parts.
* **Late results**: calls allowed by a closed breaker end when it is half open.
* **Lazy timers**: backpressure recovers only when somebody asks.
* **Lost and overtaking pushes** (caches), **crashes and disk errors** (config snapshots).

What makes the components correct: a caller gets the answer to its own request
or an error, exactly once, and always gets one; nothing is left in the router's
table; a live connection has a live reader and a dead one has none; a client that
runs keeps trying to have one session, and after `disconnect` nothing runs on;
what is read from the stream is what was written to it; a breaker
admits no more probes than permitted and always recovers or trips again; delays
wear off; a report never makes the worse provider look better; a cache
never goes back to an older topology and catches up; what is loaded after a
crash is what was last stored. Some of this the code does not achieve: section 3 says what.

## 2. Modules

| Module | Models |
|---|---|
| `Multiplex` | connections, router and requests together (they only make sense together) |
| `RequestReply` | abstract specification of a request: one final outcome, and an answer of its own as long as connections follow one another; `Multiplex` implements it (`KeepsPromise`) |
| `MCMultiplex` | instance for TLC with the symmetry set |
| `ClientSession` | the session life cycle of the client over its connections |
| `Bytes` | numbers as bytes in big-endian order, reading from the front of a sequence of bytes |
| `Framing` | the frame header, frames as bytes: `Encode`, `Decode` |
| `Stream` | frames over a stream of bytes that comes in pieces and may end; what is in the frames is left to three operators |
| `FrameQueue` | abstract specification of a connection: frames in order, each once, until it is cut; `Stream` implements it (`KeepsFrames`) |
| `Codec` | on `Bytes`: `BinaryWriter` and `BinaryReader`, a message layout as data, filter expressions |
| `Messages` | the layout of every body the client writes or reads, by OpCode |
| `Frames` | what frames carry besides plain bodies: governance blocks, encrypted bodies |
| `Wire`, `MCWire` | `Stream` with real messages in its frames; the messages tried |
| `ConfigDelivery`, `MCConfigDelivery` | session keys, `get_config` with chunks, change notifications |
| `Breaker` | the methods of `CircuitBreaker` as operators on a record |
| `CircuitBreaker` | one breaker with concurrent callers, as its docstrings say to use it |
| `BreakerSelection` | the registry under the load balancer's selection |
| `Backpressure` | the controller and the requests it delays |
| `Metrics` | measuring, packing, weighing and routing as operators |
| `Load`, `MCLoad` | a provider whose application calls the metrics collector, and a consumer that weighs and routes; the same beside `Backpressure`, with the loads and snapshots tried |
| `SnapshotCache` | `ServiceSnapshotCache` with a server, lost pushes and the application's fetches |
| `ConfigCache`, `MCConfigCache` | `ConfigCache` with its files, crashes and disk errors |
| `MultiplexProofs`, `ClientSessionProofs`, `BreakerLemmas`, `CircuitBreakerProofs`, `SelectionProofs`, `LoadProofs`, `StreamProofs`, `CacheProofs` | TLAPS (section 5) |

### Multiplex

One task per request, one read loop per connection, and some other callers of `close()`
(`Closers`: `disconnect`, a redirect, or a read loop that closes a second time after
`read_frame` did). A task's value says at which await it is:
for a request `lock` (the asyncio lock), `drain`, `close` (`wait_closed` in the
close that a failed drain starts), `onclose` (the close handler), `wait` (the
future), then one of the outcomes. The loop is at `read`, in a handler
(`notify`), in a `close` of its own, `done`, or `killed` by the cancellation of the request its
handler waits for. Frames are abstracted to what
routing depends on: the answer to request q, or a notification. `wire[g]` holds
the requests written to connection g whose answers were not read; the server
answers any of them at any time, or never. Heartbeats and the two exchanges of
the handshake take the same path as requests and need no actions of their own.
No global handlers are registered in the code, so there are none here.

The surroundings are left as free as the client leaves them:

* A connection is established at any time, also beside one that is alive
  (`Establish`), as happens after a redirect and after a failed send, when the sender and
  the reader both reconnect. Its socket opens, or fails to, later (`Opened`).
  `trans` says how far the transport is. `alone` (history) stays TRUE as long as each
  connection was established after all that needs no more than the event loop had run on a
  predecessor without transport (`Settled`).
* `set_state` assigns without a guard, as `HMMPConnection.set_state` does: a handshake that comes late
  makes a connection AUTHENTICATED that is closing or gone (`SetState`).
* The close handler does not touch the router, and may take forever: it is a
  reconnection that tries until it succeeds.
* `HandlerRequests` are the requests made by notification handlers. A read loop has one
  connection and is not cancelled from outside here: `disconnect()`, which cancels it, is in
  `ClientSession`.

One assumption on the traffic is a definition of its own, `StreamIdAvailable`: a connection's
2^31 - 1 ids come round again only after the earlier holder of the id is through; the code has no check.

As the code stands, `_establish_connection` (client.py 210-213) creates the task
of the read loop only after the handshake, which waits for answers that only this
loop could read. Multiplex takes the connection state and the read loop as
independent (`SetState`, `StartLoop` in either order): it is about the connection
and the router once a session exists, whoever reads. The order itself is the
constant `ReaderFirst` of `ClientSession`.

### ClientSession

The state is one record `s` because a single step of the event loop runs through
several methods: a read that fails closes its connection, whose handler reconnects, up
to the next await. Every method, or the part of it between two awaits, is an
operator on the record (`Close`, `Closed`, `Send`, `Establish`, ...), and an action
composes them. A task is a record: what it was started for (`job`), at which await
it is (`at`), the connection it waits on (`g`), the connection it reads
(`own`), and how many nested `close()` calls it is inside (`depth`): a reconnection
runs inside the close that caused it, and may itself fail to send and close again.
The tasks are the application's (`connect`, `disconnect`), one that makes
requests, and a pool of background tasks for read loops, redirect handlers and heartbeat
loops. Connection objects are a pool too; one that nobody refers to is new again,
and one that was leaked with its socket open is reused last, so that leaks show.

The server is modelled as far as it matters: it issues a nonce on a connection and
accepts a handshake on that connection only (`srv`). Faults - a failing open, a failing
send, a broken read, an answer that does not come in time - are budgeted by
`MaxFaults`; calls of the application and redirects by `MaxEvents`.

`disconnect()` is three steps, as in the code: it cancels the heartbeat's task and awaits its end,
then the read task, then reads `_conn` and closes what is there. Others run in between, and may
reconnect or create a new read task. The cancelled task itself ends in the step that cancels it.

* `AutoReconnect` is the setting of that name. FALSE makes the close handler do nothing; the
  properties about coming back are stated for TRUE.
* `ReaderFirst`: FALSE is the code. Then no session ever comes to be (`cs_connect`),
  and nothing else could be said. The other run sets it TRUE: the read task is
  created before the handshake, and everything else is as in the code. It shows
  what the rest of the life cycle does once that order is right.
* `calm` (history) is TRUE as long as no send and no handshake has failed, no redirect has
  come and no `disconnect` has met a task that was reconnecting. `OneConnection` and
  `SessionIsGranted` are stated for such histories because after the others the code
  does keep two connections (section 3, disagreements 10 to 12). Failing opens, broken and
  silent connections, and requests that time out are all calm.
* `Cramped`: a task stands before the bound on tasks or connections. Liveness is
  stated up to it.

### Messages, frames and the stream

The bytes are in two layers, as in the code. Below, `Framing` has the header, the flags
the client reads or writes and the parts of a payload; the MessagePack metadata stand for
`body_type` alone. `Stream` sends one of the offered messages after another, delivers the bytes in pieces, may
cut the stream anywhere, and reads as `read_frame` does: header, then payload, closing the
connection on what does not decode. It asks nothing of a message but the frame it is sent in
(`FrameOf`), what a frame that was read becomes (`Interpretation`) and what that may be
(`MayBecome`), and it has no recursive operators: the proofs are about it.

Above, `Codec` has one constructor for each pattern of `write_` and `read_` calls in the code, and
`Write` and `Read` interpret a sequence of them; `Messages` is then a table of
layouts, each mapped to the method that writes or reads it. `Layout` has every OpCode the client
sends or receives. `Frames` has the governance block with its tags and encrypted bodies with their
additional data; `BuildGovernanceBlock` is what `build_governance_block` returns, the block with a length
prefix, before which `Encode` puts another; a message whose `built` is TRUE is sent with it. `Wire` puts these into the frames of `Stream`: `wire.cfg` gives `Frame`,
`Interpret` and `AsSent` for the three operators.

A byte has `Base` values. The run takes 16, so that a length prefix overflows at 16 already; the proofs
hold for 256 and every other number from 13 on; numbers
and lengths are written modulo their width as `struct` with the code's masks does. A `Str`
covers strings and byte blobs: UTF-8 is not modelled.

### ConfigDelivery

The session key of each side is the timestamp it was derived from: the server's is any
time up to now, which is when the request was signed, the client's is the time when the
answer comes (client.py 345-351). Each answer is a sequence of chunk frames with the
stream id of the request; `FrameRouter` gives the first to the call and, the id being no
longer registered, drops the others.

### Breakers

`Breaker` defines one operator per method. A breaker is a record; `elapsed` is the
time since the last transition in ticks, up to the waiting time. `total` is exact
up to `MaxTotal`, from where on the failure rate cannot decide any more than the
absolute threshold does (`BreakerAssumption` states the inequality). `permits` is
exact down to -1: the code only compares it with 0 after decrementing.
Backpressure scales the threshold by 3/4 rounded down, as `int(threshold * 0.75)` does.
`CircuitBreaker` runs it with callers that ask before they call and record every
result; `BreakerSelection` with the selection, in which asking *is* `try_acquire`
and only the selected instance is called.

### Load: backpressure, metrics, weights

`Backpressure` is the controller with requests that call `apply_delay_if_needed`, are
sent, answered with or without the flag, or given up. Time is in ticks; a delay and its
half are whole numbers. `silence` (history) counts from the last signal.
`Metrics` holds pure operators: how a report is packed into bits,
clipped and unpacked, the factors of the effective weight in integer units, and the
router's filter. Every factor lies in fixed bounds, so weights are compared factor
by factor (`NoHeavier`) instead of by their product. In `Load` a provider's application calls the
methods of its `MetricsCollector` in any order: connections begin and complete (a batch of `Batch` at once, so that
the 10-bit field of the report is exceeded, and also more often than they began), latencies and
requests are recorded, error counters reset. Nothing in the SDK makes these calls, so nothing is assumed of
their order. `RankedRight` compares what the provider's report weighs with
the reports of fixed loads; the consumer's color changes freely for `RouteFinds`.
The two share no state; `MCLoad` runs them in one application, in any order.

### Caches

`SnapshotCache` follows one service: a snapshot is its topology version. Its parameter, initial
state and actions are named after the snapshot (`SnapshotTTL`, `PutSnapshot`, `SnapshotSpec`), so
that `CacheProofs` can extend both caches.
`ConfigCache` takes the file name as any function of the key, since `_sanitize_filename` maps
different keys to one name. The MD5 is represented by the content it was computed from.
`Newlines` is what `read_text` makes of a content: CR and CRLF come back as LF.
A write or removal that fails or is cut short by a crash puts the file into `hurt` until its next
complete one; such a file holds what it held before, or is torn. The histories are kept per file:
`last` is what was put for a key of that file and not removed, `whole` what it last held completely.

## 3. Runs

| Run | Question | Bounds |
|---|---|---|
| `mp` | On one connection: can a caller that waits still be served, and does a race of closes take a reader away? | 4 requests (one by a handler), 2 other callers of `close`, 2 stream ids: the lock queue is longer than two, ids wrap within the connection and meet stale entries; sends fail |
| `mp_live` | Over two connections: who gets an answer, who is cancelled, has a call one outcome, and does every request and every read loop end? | 2 requests (one by a handler, which waits in the loop that would read its answer), 2 connections opened and closed at any time, ids that start again on the second: stale entries and their time-outs meet new requests with the same id |
| `mp_disconnect` | violated `DisconnectFailsPending`: nobody fails the requests of a closed connection | 1 request, 1 connection, 1 closer |
| `cs` | Is a running client ever abandoned? Does it have one connection, granted by the server? Does everything end after `disconnect`, does a lost session come back? | 4 background tasks, 3 connections, 1 fault, 2 calls or redirects: reader, heartbeat, a second reconnector and an orphan at once |
| `wire` | Is what is read what was written, whatever the pieces? | 35 layouts, each field at its edges, alone; encrypted and governed frames, blocks of `build_governance_block`; a second frame behind; pieces of 5 bytes, which is less than and not a divisor of the header; a byte of 16 values |
| `load` | Do delays stay in bounds and wear off, and are sleepers sent? Counters, report and routing under any calls of the application | 2 requests, delays 1 to 4, window 2; a batch of 1100 connections against a field of 1023; 2 latencies of 30 or 700 against 511; 2 recorded requests |
| `cb` | Thresholds, probes and decision of one breaker, and its liveness | threshold 4, rate 1/2 from 5 calls, 2 permits, 3 concurrent calls: late results of an earlier state and two probes |
| `sel` | Is a tripped instance called only as the last resort? | 2 instances in any health, threshold 2 |
| `sc` | Is the cache never older than before, and does it catch up? | 4 versions, expiration after 2 ticks |
| `cc` | Do memory and files keep what was put? | 3 keys, 2 of which share a file; 2 contents that differ in their line ends |
| `cs_connect` | violated `ConnectSucceeds`: the handshake waits for a reader that does not exist yet | 1 call, no faults |
| `cd_chunks` | violated `ChunksAreAssembled`: nobody collects the further chunks | 2 calls, 2 chunks, 1 tick, 1 notification |

Why the bounds are enough: the hazards of the request path are of two kinds. Those of one connection
need a queue at the lock, an id that wraps round while its earlier holder's entry is still there, and
closes that overlap: `mp`. Those between connections need two requests that
share a stream id over two connections, one of them made inside the loop: `mp_live`; a third connection only repeats the
second's situation. Ids do not wrap there, so that there are as many ids as requests: `StreamIdAvailable`
would otherwise let a request wait for an id for ever. In the session life cycle one fault
already gives two reconnectors (sender and reader), a redirect the second
establishment, and a `disconnect` in the middle the cancellation. All the safety properties of these two
modules are also proved for every
bound (section 5), so the bounds matter for liveness only. Frames do not influence one another except by where they end, so two in a
row are enough, and fields are varied one at a time because each is read by itself.
A breaker's hazards need a
result that arrives one state late (two concurrent calls) and one caller more than
permits. The safety properties of `cb`, `sel`, `load`, `sc` and `cc` are
proved for every bound, and those of the stream under `wire` for any number of frames of any size.
`CHECK_DEADLOCK FALSE` stands where the system may rest: requests, calls and messages
are made a bounded number of times.

### What the passing runs show

* `RightAnswer`, `KeepsPromise`: nothing removes the entries of requests that ended with their
  connection, but while connections follow one another a stale
  one is overwritten before its id is used on the new connection. Beside one another they do mix
  up answers (disagreement 4). A call's outcome is one and final in either case.
* `CancelledByOlder`: `cancel_request` knows the id only, and does reach a later request, but only
  one of a later connection than the request that timed out.
* `NoZombieReader`: close races, handler errors and late `set_state` calls do not separate a loop from
  its transport; the one way to lose a reader is that such a cancellation ends the handler it runs.
* `PendingIsReachable`: whoever waits on the newest connection is in the table, whatever older
  requests leave there or take out late, and while its transport is open the answer is still to come.
* `EveryRequestEnds`, `LoopEnds`: a request or a loop is held up for good only by a send that a silent server
  lets hang, or by a close handler, which reconnects while the lock is held: there is no timer on either. With the server
  down a failed send therefore blocks its sender and everyone who waits for that connection's lock.
* `NeverAbandoned`: however closes, cancellations and reconnections meet, some task of a client that may
  reconnect is left that reads, closes or reconnects. It holds for all histories, calm or not.
* `TasksEnd`: a reconnection that sleeps through `disconnect` does open another
  connection, but its read times out, nothing reconnects any more, and all ends.
* `NoPartialBody`: a truncated body is noticed, except for the canary context at
  its end, which reads as absent.
* `KeepsFrames`, `AllRead`: a length that does not fit its prefix garbles its own
  message; the next frame is read where it begins. A block from `build_governance_block` comes
  with a second length in it, which spoils the entries of its own frame (disagreement 5) and nothing else.
* `Survives`: a snapshot is what was last put for a key of its file, with line ends as LF: not
  what was put, byte for byte, if it had others, so its MD5 is another one than the server's. Where keys share a
  file it may be another key's content (disagreement 6).
* `ClosedIsBelowThreshold`: a closed breaker is below the threshold, halved while the error flag is
  set. The reduction by backpressure is not part of it: `on_backpressure` looks at nothing,
  and only the next failure compares with the reduced threshold.
* `NoLateSleeper`, `Rested`, `SleepersGo`, `RankedRight`, `RouteFinds`,
  `ProbesLimited`, `CanDecide`, `HalfOpenDecides`,
  `OpenIsRetried`, `OpenIsLastResort`, `NeverOlder`, `CatchesUp`: as their comments say.

### Fairness

`Multiplex!Fairness`: weak fairness for what the event loop guarantees (a ready
task runs, a timer fires) and for one thing assumed of the network: once a transport is shut, its
closing is confirmed to whoever closed it, a `drain()` on it ends one way or the other, and the read pending on it
raises. Nothing is assumed of the server, of the
application, of a read or a `drain()` on an open transport, or of a close handler, which reconnects as
long as it takes. The requests of handlers are
issued eventually because the handler that makes them runs.
`ClientSession!Fairness`: weak fairness of each task's own progress, in which the server
answers what it is asked (refusing to is one of the bounded faults); none for the
application's calls, redirects and faults. Answers and their time-outs are alternatives of
one fair action, so no run is excluded in which a time-out wins within the budget.
`Backpressure`: time passes and a task whose sleep is over is resumed; `MCLoad` keeps this beside the steps of `Load`. `CircuitBreaker`:
callers keep coming, calls end, time passes. `SnapshotCache`: time passes,
the application fetches after a miss and puts the answer; pushes have no fairness.
`ConfigDelivery`: the server answers, frames are read, the polling loop goes on.
`BreakerSelection!FairSpec` is not used by a run: `HalfOpenDecides` fails there (disagreement 8).

### Where code and documentation disagree

With a run:

1. `connect()` cannot succeed: the handshake waits for answers before the task that
   reads them exists (client.py 175 against 210-213; `cs_connect`).
2. `get_config` never returns a configuration of several chunks (client.py 624 against
   626; specification 7.2.6; `cd_chunks`).
3. Nothing fails pending requests on a disconnect (connection.py 261, 289 against client.py 405-410;
   `mp_disconnect`).

Met while modelling, without a run of their own; the models contain 4 to 6, and say what holds all the same:

4. A second connection beside a live one shares its router and its stream ids, and mixes up answers
   (connection.py 259 against client.py 136, 190, 737-741). `RightAnswer` without `alone` fails.
5. `build_governance_block` returns a block with a length prefix and `FrameEncoder.encode`
   adds another (governance.py 235 against 268 and frame.py 214): a reader of such a frame finds entries
   in the inner prefix. `AsSent` leaves those open.
6. Two config keys can share one snapshot file (cache.py 221 against 264). `Survives` is about the keys
   of a file together.
7. A notification handler that issues the GetConfig the protocol tells it to
   (specification 7.3.7) waits inside the loop that would read the answer, until its
   time-out (connection.py 328).
8. Selecting with circuit breakers takes permits from instances it does not call
   and leaves their breakers half open without permits: they refuse everything, and only a
   call that happens to be made as the last resort can still decide them
   (circuit_breaker.py 42, 304 against load_balancer.py 131-141; `HalfOpenDecides` of `BreakerSelection` fails).
9. An expired snapshot of an unchanged service is never served again
   (cache.py 56 against 96: an equal version is rejected and does not renew the fetch time).
10. After a failed send the sender, inside `close()`, and the reader both reconnect
   (connection.py 178, client.py 405); each overwrites `_conn`, the loser's connection stays
   open, and its read time-out later makes it reconnect once more and replace the healthy one.
   The heartbeat loops add up (client.py 376 tests whatever connection is current).
11. A redirect closes the connection, whose handler reconnects to the old place, and
   then establishes a second connection (client.py 737-741); a failure there is
   swallowed and leaves the client without a session until the orphan's read times out.
12. A reconnection that sleeps through `disconnect()` establishes its connection
    all the same (client.py 420).
13. Client and server derive the encryption key from different timestamps (client.py 346
    against specification 7.2.4: "Both client and server MUST derive the identical CEK"), and
    the key of an earlier session stays when the new one has none.
14. `TrafficColoring.to_bytes` cuts at 255 bytes, maybe inside a character (governance.py 77).
15. Eight operations of `AdminService` name an OpCode that `OpCode` does not define and raise
    before anything is sent (admin.py 360, 387, 433, 459, 477, 509, 539, 612).
16. Bit 31 of the metrics pack scales the delay by ten; `_compute_effective_weight` ignores it
    (load_balancer.py 156-235). The error flag is set from 50% on; specification 9.5 says "> 50%" (metrics.py 203).
17. After a silence in which nobody asked, the first signal of a new escalation doubles the last
    delay instead of the base delay (backpressure.py 69).
18. `GovernanceFrameInterceptor._circuit_breaker_open_services` is never filled (interceptor.py 89).

## 4. Seeded mistakes

Some definitions have a variant just before them, without a comment of its own,
that makes a plausible mistake: in `Multiplex`, `NextStreamIdLate` wraps one too late,
`LoopAgainOnce` reads one frame only, `TimeoutNever` waits without a timer, `TimeoutLatest`
cancels the id that was issued last,
`AddresseeFirst` gives every answer to the smallest id in use, `ReadFailContinues` goes on reading;
in `ClientSession`, `EndKeepsTask` forgets to clear `_read_task`, `ClosedSilently` closes
without its handler, `ClosedLeaky` keeps the socket, `SetStateEarly` counts a connection as
authenticated too early, `UnwindForever` reconnects without looking at `_running`;
`ReadStrUnchecked` takes what is left of a short string, `EncodeLong` counts the
header into the payload length, `GovernanceReadShort` reads one entry;
`SignalUncapped`, `RecoverLate`, `StartAnyway`, `WakeReview`, `CollectUnclipped`,
`FilterStrict` and `CompleteUnclamped` do the like in the regulation of load,
`ToHalfOpenShort`, `RipeNever`, `AllowedWide`, `RecordSuccessNoFloor`,
`ErrorFlagSetLazy` and `PickRegardless` in the breakers,
`AcceptsAny`, `AcceptsNextOnly`, `InvalidateKeepsTime`, `RemoveMemoryOnly` and
`LoadKeepsMd5` in the caches. No specification uses them. Putting one in the place
of its definition makes the property it is paired with in PROJECT.json fail, which
shows that the property depends on that code.

## 5. Proofs

All proofs are of `Spec` (for `Load` and `SnapshotCache`: `LoadSpec`, `SnapshotSpec`) without fairness and for every value of the constants that
satisfies the module's assumption.

`MultiplexProofs`
* `TypeCorrect`: `Spec => []TypeOK`.
  Types alone are not inductive: that the lock released or the stream id cancelled
  exists needs `Placed` (a request that started has a connection and an id) and
  `OnWire` (what is on a connection was issued there).
* `AnswersAreRight`: `Spec => []RightAnswer`. `RightAnswer` says
  nothing of the table, so `IInv` adds `Registered`: on the newest connection the
  id of a request that is still live leads to that request or nowhere. On older
  connections this is false (their entries may be overwritten), which does no
  harm while connections follow one another because of `OldSilent`: then a replaced connection has no
  transport and reads no more. The lemmas follow the kinds of steps: those that only end something
  (`ConnEnds`, `CloserEnds`, `ReqEnds`, `EndsKeep`), `EstablishKeeps`, `IssueKeeps` (where
  `StreamIdAvailable` is used), `AnswerKept` and `ReadKeepsRight`.
* `ImplementsPromise`: `Spec => KeepsPromise`: a request is a request of
  `RequestReply`. The mapping reads the call's status and reply off `task` and `answer`; a step that only
  moves a task between its awaits is a stutter (`MapStays`, `MapMoves`), registration is
  `Ask`, the other steps are `Fails`, `Answered` or `Overlaps` (`MapAsk`, `MapFails`, `MapAnswered`,
  `MapEstablish`; `MapConn` and `MapReq` go through the actions). `Answered` needs that a future with a result has an
  answer (`HasResult`), and that it is the call's own while `alone` holds, which is `RightAnswer`.
* `OnlyOlderCancel`: `Spec => CancelledByOlder`, however connections overlap. `cancel_request` pops
  what is registered under its id, and `NewestWins` says whose that is: an entry belongs to the request of the
  newest connection among those under way with its id. `Tracked` is the converse: an unresolved request of the
  newest connection is registered. Together with `IInv` they are `TableInv`.
* `ReadersLive`: `Spec => []NoZombieReader`, from `ConnInv` (an open transport belongs to a
  connected connection whose loop no close has ended; since `set_state` cannot disconnect, a late one does
  no harm), `Futures` (a cancelled future has its culprit) and `KilledBy`.
* `CallersAreReachable`: `Spec => []PendingIsReachable`, from these and `Written`: what was
  sent on the newest connection and is unanswered is still to be read there while its transport is open.

`ClientSessionProofs`
* `TypeCorrect` (`TypeOK`), `NobodyAbandons` (`NeverAbandoned`), `OneAtATime` (`OneConnection`),
  `SessionsAreGranted` (`SessionIsGranted`), for any numbers of tasks, connections, faults and
  events and either value of `ReaderFirst` and `AutoReconnect`, from `SessionInvariant`, which says that the
  state satisfies `Inv`. It has three parts. `Sound` is the type, what each task may be doing where it is
  (`Shape`), what `_read_task` and the heartbeat's task refer to, and that a task is
  never deeper in nested closes than the faults spent, plus one: this bounds the depth. `Keep` is `NeverAbandoned` made
  inductive: the task that is left is inside a close or reads a live connection. `Calm`
  holds of calm histories: one task *drives* the connection (reads, closes, sleeps, opens), it is the application
  or the task in `_read_task`, and every open socket is that of the current connection and is driven.
  Without the driver, `OneConnection` is not inductive: nothing else says that the reconnection that
  sleeps is the only one.
* A step runs through several methods, so the lemmas are about operators on states and not about
  actions. In the middle of a step the acting task's place means nothing;
  `SoundBut`, `KeepBut` and `Mid` say what then holds of the others and of what that task carries
  along. `RestSound`, `RestKeep` and `RestCalm` lead from there to `Inv` where the task next awaits. One
  lemma per method follows (`EstablishInv`, `ReadNextInv`, `BaseInv`, `UnwindInv`, `ClosedInv`,
  `CloseInv`, `SendInv`, `BeatNextInv`, `EstablishedInv`), and then one per action.

`CircuitBreakerProofs`
* `TypeCorrect`, `ClosedStaysBelow`, `ProbesAreLimited`, `AlwaysDecidable`, from one
  invariant. Its strengthening is `Accounts`: during a half-open episode the calls
  admitted and the permits left (0 if the count is negative) add up to `Permits`.

`SelectionProofs`
* `TypeCorrect`: `Spec => []TypeOK`, for any number of instances; the lemmas of
  `BreakerLemmas` say that each method maps breakers to breakers (field by field:
  `FieldTypes`, `TransitionType`, `MethodTypes`).
* `LastResort`: `Spec => OpenIsLastResort`. `AcquireState` says that the answer of
  `try_acquire` agrees with the state it leaves behind: who is allowed is not left
  open, who is refused is not left closed. `AskedStates` lifts that to all the
  candidates asked, and `SelectStep` goes through the three outcomes of a selection;
  the second needs that the smallest of a nonempty set of numbers is a member (`MinIsMember`).

`LoadProofs`
* `TypeCorrect`, `AlwaysRested`, `NeverLate` from `IInv`, whose strengthening is
  `Counting`: while the window of a signal is open, `since` and `silence` agree. A request
  that falls asleep then sleeps at most `MAX_DELAY` of what remains of `Longest`.
* `LoadTypeCorrect`: `LoadSpec => []LoadTypeOK`, for any batch size and bounds: a clamp that is reached,
  because more was completed than begun, does not take the counters out of their ranges.
* `RanksRight`: `LoadSpec => []RankedRight`, for any loads. `RoundTrip` says that unpacking a
  packed report gives the report with each field clipped and quantized (`FieldsApart`: no field
  reaches into the next), and `WeightsFall` that weights do not grow with a quantized field.
  `MeasuredOK`, the type of what the provider measures, is all that is needed of the state.
* `RoutesRight`: `LoadSpec => []RouteFinds`, for any snapshots and tags. The router works on the positions
  of the listed instances and picks the first, which exists by well-foundedness of the order (`FirstExists`).

`StreamProofs`, for any messages, any number of them and any pieces
* `FramesSurvive`: `Decode(Encode(f))` is `f`, for every frame `FrameEncoder.encode` takes. A
  number comes back from its digits (`NumberOfDigits`, by `Positional`, for every `Base` from 13 on, which is
  one more than the largest length the code writes as a constant), hence bytes from behind their length
  (`ReadStrOfDigits`), the header (`HeaderRead`) and the parts of the payload, of
  which none reaches into the next (`PayloadParts`).
* `Invariance`: `Spec => []IInv`. What is read is not inductive: nothing in it says where the next frame
  begins. `IInv` adds to it that there are a sequence `whole` and positions `at` such that `whole` is
  all the bytes ever written and `at` tells where each frame ends in it (`Written`), and that
  header, buffer and flight are consecutive pieces of `whole` that begin at the end of the last frame read and, as long as
  the stream is open, reach its end (`Carried`). There is one lemma per action. From there the
  first `HEADER_SIZE` bytes are the header of the next frame (`HeaderArrived`), and with the bytes it
  announces they are that frame (`FrameArrived`), so that the read loop
  never meets a bad frame, however the bytes were cut.
* `ReadInOrder`: `Spec => []ReadAsSent`: what was read are the interpretations of
  the first frames that were sent, in order. `AllIsRead`: `Spec => []AllRead`.
* `FramesKept`: `Spec => KeepsFrames`, provided the interpretation of a message's frame is
  among what the message may become. This hypothesis is about bodies and not about the stream. For
  `Wire` it says that a body whose lengths fit is read as it was written, which is what
  remains for the run `wire` to check.

`CacheProofs`
* Of `ConfigCache`: `ConfigTypeCorrect` (`TypeOK`), and `SnapshotsSurvive`: `Spec => []Survives`, whichever
  keys share files and whatever `read_text` does to line ends. The memory part and the file part of a
  method are separate lemmas (`RememberStep`, `RewriteStep`). `Held` is `Survives` for the files
  themselves, before anything is read: it also says what a file holds that is not in `hurt`, which the next
  write that fails falls back to.
* Of `SnapshotCache`: `SnapshotTypeCorrect` (`SnapshotTypeOK`, an invariant by itself) and
  `GoesForward`: `SnapshotSpec => NeverOlder`.

Every safety property that the passing runs check is stated by a theorem, except one. Only model-checked are:

* `NoPartialBody` of `Wire`, and the hypothesis of `FramesKept` for its messages: what the codec computes
  is recursive over the layout. That needs induction over data, and tlapm takes no
  recursive operators.
* Liveness (`EveryRequestEnds`, `LoopEnds`, `TasksEnd`, `ComesBack`, `SleepersGo`,
  `HalfOpenDecides`, `OpenIsRetried`, `CatchesUp`): fairness is out of the prover's reach.

## 6. Not modelled

* `CanaryVersionVector` and the interceptors: a dictionary and tags, with one
  assignment per method, that no code of the SDK calls. What they do in one step is all they do.
* `exceptions.py`, `__init__.py`: declarations.
* Reading `/proc` and the preheat timer (metrics.py): inputs of the model. Cryptographic
  primitives: taken for what they promise. UTF-8, MessagePack beyond `body_type`, floats (a
  float is four bytes), logging.
* `ServiceSnapshotCache._detect_metadata_hash_changes` keeps what it logs and nothing reads.
* Global frame handlers of the router: nothing registers one.
* The parsing of notifications in the client's handlers is the layouts' reading; what an
  application's handler does is a request of its own in `Multiplex`.
