# gcm-client in TLA+

gcm-client is an Android VPN client.  The app (Java) captures traffic with a
TUN device and hands it to a local SOCKS5 server (Go, `src/golib`), which
carries every client connection as a *stream* over a small pool of WebSocket
connections to a worker.  Frames on a WebSocket have a two-byte header: type and
stream ID.  This directory holds the TLA+ modules written from that code, the
TLC runs that check them on small instances, and the proofs that TLAPS checks.

## 1. Inventory

Paths are relative to `src/golib` unless they start with `app/`.

| Component | State | Operations | Talks to |
|---|---|---|---|
| Stream manager `pool/stream_manager.go` | per WebSocket: stream table, 256-bit allocation bitmap, round-robin hint, counters in the `ConnItem` | `AllocateStream`, `RegisterHandler`, `UnregisterStream`, `DispatchMessage`, `HandleConnectionClose` | called by the pool (message loop, close path) and by tunnels; calls the tunnels' `OnMessage` and `OnClose` |
| Connection pool `pool/connection.go` | idle list `pool`, `managerByConn`, `targetToConn`, `pendingConnections`, `activeConnections`, `pendingHeartbeats`, per connection `closed` and `active` | `createConnection*`, `GetConnectionWithStream`, `RegisterStreamHandler`, `UnregisterStreamHandler`, `ReleaseConnection`, `RetireConnection`, `maintainPool`, `cullOldConnections`, `sendHeartbeat`, `Reconnect`, `Close` | SOCKS5 server, DoH transport, relay manager, ECH manager |
| SOCKS5 server `socks5/server.go` | per tunnel: `closed`, `connected`, the downstream queue, the connect timer | `handleConnection`, `createTunnel`, `createDirectTunnel` | pool, routing matcher, DNS |
| DoH transport `pool/proxy_transport.go` | per request: stream, connection, read queue, `closeChan` | `RoundTrip`, `tunnelConn.Read`, `Close` | pool |
| Relay manager `relay/manager.go` | `allNodes` and `optimalRelays` with scores and loads | `Init`, `rescoreAll`, `ForceRescore`, `GetNextRelayWithLoadBalance`, `UpdateNodeLoad` | pool, DNS cache |
| ECH manager `ech/manager.go`, and `getTLSConfig` and `handleDialError` of the pool | cached ECH configuration, failure count, fallback window | `GetECHConfig`, `Refresh`, automatic refresh | DoH, pool |
| DNS cache and DoH client `dns/` | TTL cache, `lastServerIdx`, the warm-up's semaphore | `ResolveAny`, `LookupIPs`, `Resolve`, `GetECHConfig`, cleanup, `Warmup` | relay, ECH, SOCKS5 |
| Quality monitor `pool/quality_monitor.go` | per connection samples and score | `RecordSuccess`, scoring | pool |
| Routing matcher `routing/matcher.go` | sorted ranges and suffixes, immutable once loaded | `Match` | SOCKS5 |
| Wire protocol `protocol/message.go` | none | encode, decode | pool, tunnels |
| Logger `logger/logger.go` | ring of recent lines, log file and its rotation | `Log`, rotate | everybody |
| Android bridge `android.go` | the global server, pool and managers under `lifecycleMu` | `StartSocksProxy`, `StopSocksProxy`, `Reconnect` | VPN service |
| VPN service `app/…/TProxyService.java` | service state, network callback | start, stop, reconnect on network change | Android bridge |
| User interface `app/…/ProfileListActivity.java` and others | stored preferences | start and stop button, status receiver | VPN service |
| Configuration `config/` | none after loading | load, defaults, validation | everybody |

How they interact.  A tunnel goroutine asks the pool for a connection and a
stream in one critical section of `p.mu`; registers its handler in another one;
writes CONNECT without a lock; then waits for the message loop of that
connection to call its `OnMessage`.  The end of a tunnel (`cleanup`, guarded by a
compare-and-swap) unregisters the stream and releases the connection in two
separate critical sections.  The end of a connection may be noticed by its
message loop, by a failed write of any tunnel, by a tunnel whose CONNECT timer
fires, by the heartbeat, by the culler, or it is ordered by `Reconnect` or
`Close`; every path but the culler's and `Close`'s goes through
`handleConnectionClose`, which removes the connection from every index under
`p.mu` and then calls `StreamManager.HandleConnectionClose` without it.  That one
calls each tunnel's `OnClose`, which is `cleanup` again.

What is hard here, and what makes each component correct:

* **Stream manager.**  A stream is known by its bare ID, which anybody may
  unregister, and `RoundTrip` does so twice; bitmap, table and counters are updated by
  separate statements; `HandleConnectionClose` drops its lock for the callbacks, so owners
  unregister what it is about to wipe and subtract.  Correct: an ID has one
  owner; bitmap and table agree; counters are exact; nobody with a handler is
  wiped without notice; IDs are reused as late as possible, because frames carry
  nothing but the ID.
* **Connection pool.**  A connection goes through two critical sections of its
  creator with a gap in between; tunnels arrive and leave in two steps each; six
  goroutines may retire the same connection.  Correct: the limit holds; no stream
  or connection leaks; a connection that dies ends its tunnels; a dead connection
  is forgotten; without multiplexing a connection has one user; `Close` closes
  everything; nobody waits for ever.
* **SOCKS5 server.**  Five goroutines and two timers share a queue, two flags and
  the client's socket.  Correct: data in order, no hole that was not declared, at
  most one frame on a stream that was given back, and an end once either side is
  gone, even if the client never reads.
* **Dialing** (relay manager, ECH manager, `handleDialError`, `Warmup`).  Counters that
  outlive what they count, a list that is replaced while it is counted on, a key
  that rotates while queries for it are under way, DoH that needs the pool which
  is being dialed and has no timeout of its own.  Correct: loads are what is in use;
  a dial and the warm-up end, unless a worker is silent or the pool spins; a key that
  is gone leaves the cache, although the refresh may hang.
* **Resolution** (DNS cache, DoH client, DoH transport).  Concurrent resolutions move
  the starting server; a request holds a stream and a connection across many
  exits; the warm-up waits for slots of a semaphore.  Correct: one working server is
  enough; streams and connections are given back; only a silent peer or a pool that
  spins can make a resolution hang; bytes arrive in order.
* **Lifecycle.**  The start, stop, monitor and reconnect threads, `onRevoke` and
  `onDestroy` run the same cleanup on fields without a lock.  Correct: the Go side is
  there completely or not at all, everything is released, a dead tunnel ends its
  session, a start always ends.

`PROJECT.json` lists each component with its status, and each hazard with the
line where it bites and the properties that watch it.

## 2. Modules

| Module | Models |
|---|---|
| `StreamLease` | abstract: owners hold IDs, exclusively, from an open service |
| `StreamManager` | one `pool.StreamManager` and the order in which the pool calls it |
| `MCStreamManager` | `StreamManager` with a history variable: how long ago an ID was used |
| `ConnectionPool`, `MCConnectionPool` | `pool.ConnectionPool` and the goroutines that share it; the targets and the symmetry of its runs |
| `StreamHandler` | abstract: a handler is registered once, and then either taken back or told, once, that it is over |
| `BytePipe` | abstract: a client reads frames in order, and without a hole unless the pipe says so |
| `SocksTunnel` | one `handleConnection` of the SOCKS5 server |
| `TunnelConn` | the bytes of one `ProxyTransport` request |
| `Dialing`, `MCDialing` | how a WebSocket is dialed: relays, ECH, failures, `Warmup`; the configurations of its run |
| `Resolver`, `MCResolver` | DNS cache, DoH client and `RoundTrip`; the configurations of its run |
| `Lifecycle` | VPN service, start and stop button, and the Go entry points |
| `StreamManager_proofs`, `MCStreamManager_proofs`, `ConnectionPool_proofs`, `ConnectionPoolUse_proofs`, `SocksTunnel_proofs`, `Resolver_proofs`, `Lifecycle_proofs`, `Dialing_proofs` | theorems, for TLAPS |

How they fit together.  `SocksTunnel` is one tunnel in detail, with the pool reduced
to what a tunnel sees of it (a connection that may fail or be retired, a handler
that is registered or not); `ConnectionPool` is the pool in detail, with many
tunnels reduced to what the pool sees of them; `StreamManager` is the table of one
connection, whose owners are the tunnels.  `Dialing` is what `ConnectionPool` calls
dialing, and `Resolver` with `TunnelConn` is the other client of the pool.
Where the first two meet, at the `StreamHandler` that a tunnel registers with the
pool, `StreamHandler` says what each may rely on: the pool keeps it towards every
tunnel (proved in `ConnectionPoolUse_proofs`), and the tunnel keeps its side
(`ImplementsHandler`), so that the reduced tunnel and the reduced pool are the same
interface seen from its two ends.

`SocksTunnel` and `TunnelConn` are held against the same abstraction, `BytePipe`: one
implements it and the other does not.

Definitions named `Bug...` are seeded faults: the wrong version of the definition
below them.  No action uses them; each stands for a plausible bug that must break
a property.

### StreamManager

Each action is one critical section of `sm.mu`.  `streams` is the table with the
owner and the presence of a handler, `allocBitmap` the set of set bits,
`connStreams` and `activeStreams` the two counters in the `ConnItem`.  `lease[o]` is
the local variable `streamID` of owner `o`.  `closing`, `toNotify`, `notified` and
`remaining` are the progress and locals of `HandleConnectionClose`.  `IsFreeBit`
follows `findFreeBit`: the first clear bit at or after the hint, cyclically;
`NumIds` stands for 256, and the hint wraps at it like the byte it is.
`lease` and `step` say which ID an owner is still to unregister and what it has done
with it.  Owners are of two kinds: those in `Requests` run `RoundTrip`, whose branch for
a bad status unregisters the ID and leaves the deferred function to do so again
(`GivesUp`, step "again").  `UnregisterStream` looks at nothing but the ID, so the second
call frees whoever has got it meanwhile; that owner is then `robbed`, and its own
cleanup may free yet another one's.  `robbed` is read by properties only.
`UnregisterDetached` is a cleanup that reaches the pool after
`handleConnectionClose` has dropped the manager: `UnregisterStreamHandler` finds no
manager and does nothing, and the stream is left to the wipe.

`ExclusiveLease` is therefore about everything but this: an ID has one owner, and only
a second unregister, or the cleanup of an owner that was robbed, takes a stream from
its holder.  The comment of the deferred function (proxy_transport.go 265: it makes sure
that the stream is always released correctly) says more than the code keeps to:
owners do get robbed in the run.  `ReuseDistance` says what that takes: 251 streams
opened on the connection between the two calls, with the default limit of 5.

`DispatchMessage` changes no state of the manager and is left out, as are the
flow-control window, RTT and state fields of `Stream`.  `tryAllocateStream` fails
without effect, so its failure is not an action.

`StreamManager` implements `StreamLease` under `held[o] = lease[o]` as long as the
table has that stream for `o`: an owner that has been wiped or robbed holds nothing,
although its goroutine has not noticed yet.

### ConnectionPool

A *conn* is one call of `createConnection`, `createConnectionSync` or
`createConnectionWithRelay`, and the `ConnItem` it makes; the three share the same
order of steps: reserve a slot, dial, index the connection and start its message
loop, add it to the idle pool, release the slot (`create[c]`).  A *tunnel* is one
call of `createTunnel` (`pc[t]`).  `closer[a]` is the run of
`handleConnectionClose` by actor `a`: the message loop of a connection, a tunnel
(its timer, or a failed write), the janitor (the heartbeat and `Reconnect`) or
`Close`.  An action is one critical section of `p.mu`, or one step without it.
`mu` is `NoTunnel` except while a tunnel spins (section 5).

| Code | Actions |
|---|---|
| `createConnection*` | `Reserve`, `DialFails`, `DialSucceeds`, `AddToPool`, `ReleaseSlot` |
| `GetConnectionWithStream` | `TakeIdle` (step 1), `Spin`, `ShareBusy` (steps 2 and 3), `Refuse`, `Retry` (step 4), `AcquireTimeout` |
| `createTunnel` | `RegisterStreamHandler`, `WriteConnect`, `Connected`, `BeginCleanup`, `UnregisterStreamHandler`, `ReleaseConnection`, `RetireByTunnel` |
| `messageLoop`, `WriteMessage`, `sendHeartbeat`, `Reconnect` | `ReadFails`, `WriteFails`, `RetireByJanitor` |
| `handleConnectionClose`, `RetireConnection` | `Detach`, `OnClose`, `FinishClose` |
| `cullOldConnections` | `Cull`, `CullClose` |
| `Close` | `Close`, `CloseItem`, `Panic` |

`Capacity` and `ExclusiveUse` are about the limit and the sharing of connections;
`NoStreamLeak` and `NoStrandedConnection` say that each exit of a tunnel gives back
its stream and its connection; `TunnelsEnd`, `DeadIsForgotten` and `CloseClosesAll`
are about the end of connections.  `NobodyForgotten` is the safety behind
`TunnelsEnd`: at every moment, a tunnel that waits for its peer is in the table that
the message loop of its connection will empty, or in the list of a goroutine that is
calling `OnClose`.  `CloseClosesAll` does not say that `Close` waits (it does not): it
says that every WebSocket it leaves open has somebody about to close it.  Two comments
on `ConnItem` (connection.go 44 and 45) say more than the code keeps to and are not
stated as properties: that `active` means "taken from the idle pool and counted",
although a connection shared between its creator's two critical sections is in use
without the mark, and that a dead connection cannot enter the pool again, although
`AddToPool` puts it there when it dies before.  `GetConnectionWithStream` and the
culler cope with both.

Abstractions, and why they lose nothing the properties tell apart:

* Stream IDs are left to `StreamManager`; a stream is named by its tunnel.  So nobody
  is robbed here: a tunnel of the SOCKS5 server unregisters once.
* The close of a manager is `Detach` (the snapshot), `OnClose` (callbacks) and
  `FinishClose`.  The wipe happens to a manager that is no longer indexed, so
  `Detach` empties `streams[c]` at once: what remains visible is what
  `UnregisterStreamHandler` would find, which is nothing.
* `Detach` also does `markIdle`, which in the code follows the critical section:
  nobody marks a closed connection active, so nothing can come in between.
* `OnClose` of a tunnel that has begun its cleanup returns at once; of another
  tunnel it is the cleanup, and the closer waits for it (`calling`, `Returned`).
* A tunnel runs `RetireConnection` at most once.  A retire that would start after
  the cleanup has ended is left out: it finds the connection closed and unindexed.
* `requestQueue` is always empty, since nothing calls `GetConnection`; the branch
  that serves it is left out.
* `ReleaseConnection` inserts by quality score: at any position.
* TTLs, heartbeat ages and dial results are not modelled as numbers: any live idle
  connection may be past its TTL, any indexed one may miss a heartbeat.
* `Reserve` is free to happen at any time: `Warmup`, `maintainPool`, `Reconnect` and
  step 4 of `GetConnectionWithStream` all ask for connections, and the capacity
  check is the same.

### SocksTunnel, BytePipe and TunnelConn

`SocksTunnel` is a whole `handleConnection`: negotiation, the choice between
`createTunnel` and `createDirectTunnel`, and everything up to the return.

| Goroutine | State | Actions |
|---|---|---|
| `handleConnection`, `createTunnel`, `waitForTunnel` | `pc`, `reply` | `HandleAuth`, `HandleRequest`, `Acquire`, `WriteConnect`, `ConnectFails`, `WriteReply`, `ReplyFails`, `TimerFires`, `TimedOut`, `TunnelClosed`, `Leave` |
| message loop: the tunnel's `OnMessage`, `enqueueDownstream` | `loop`, `taken`, `connected`, `signal` | `Dispatch…`, `OnConnected`, `Signal`, `Enqueue`, `DropClosed`, `EnqueueBlocks`, `EnqueueTimesOut`, `OnFarClose` |
| downstream writer | `queue`, `writer`, `delivered` | `TakeFrame`, `WriterEnds`, `WriteClient`, `WriteClientFails` |
| upstream reader | `up`, `late` | `ReadClient`, `ReadClientFails`, `WriteUp`, `WriteUpFails`, `UpRetired` |
| `cleanup`, entered by whoever wins the compare-and-swap | `cleaner`, `spawned` | `GoCleanup`, `OnClose`, `CleanupSendsClose`, `CleanupCutsClient`, `CleanupGivesBack`, `CleanupEnds` |
| `createDirectTunnel` and its two copies | `pc`, `writer`, `up` | `DialTarget`, `CopyDown`, `CopyDownEnds`, `CopyUpEnds`, `DirectReturns` |
| client, worker or target, WebSocket | `client`, `far`, `sent`, `ws` | `ClientLeaves`, `FarConnects`, `FarSends`, `FarCloses`, `WsFails`, `WsRetired` |

Frames carry their number and nothing else.  A Go `select` with several ready cases
takes any of them: the writer may see `closed` before it has drained the queue, and
the frames it leaves there are the end of the stream, not a hole.  A frame that
`enqueueDownstream` gives up after its timeout is a hole in the middle as long as the
writer runs on; `lost` declares it, and `ConnectionEnds` says that such a tunnel is on
its way out.  The refinement mapping gives `BytePipe` the delivered frames, whether
the reply was "granted", whether the client's socket is shut, and `lost`.

`Attended` is the bookkeeping of the five goroutines: a registered stream has somebody
who will give it back, a retired connection a cleanup or an `OnClose` to come, and an end
that is lost a cleanup that is due.

`TunnelConn` is the same direction of a DoH request: the handler of `RoundTrip`, the
queue, `tunnelConn.Read` with a buffer smaller than a frame, and the two ways in
which the tunnel is closed.  It does not implement `BytePipe` (section 5).

### Dialing

`dial[d]` is one call of `createConnection` (`Dials`) or `createConnectionSync`
(`Warmers`) from the capacity check to its end: `Choose` (check and relay), `AddLoad`,
`GetTLSConfig`, `FetchAcquires`, `FetchAnswered`, `FetchCached`, `FetchFails` (a query
for the key), `DialSucceeds`, `ResetFailures`, or one of `EchError`, `RelayError`,
`OtherError`, `EnableFallback` (the branches of `handleDialError`), and `Unload`.
`refresh[r]` is a run of `Refresh`, by the automatic loop or by the third failure;
`RescoreAll`, `RescoreEnds`, `ForceRescore`, `ForceEnds`, `CooldownEnds` are the relay
manager's loop and `handleConnectionFailure`; `StartBatch`, `Collect`, `EndBatch` are
`Warmup`.

* A query is "asking" until it has its stream and is told CONNECTED, and then, if
  DoH goes through the pool (`proxied`), in the "exchange": TLS and HTTP over a stream,
  where neither the request's context nor any deadline applies, and which
  `getTLSConfig` waits for outside the dial's own timeout.  It ends with an answer, an
  error, or the loss of the connection (`ConnectionLost`), if any of these comes.
  `Resolver` has `RoundTrip` in detail; here it is what a dial sees of it.
* `PoolSpins` is the loop without exit of section 5, with `p.mu` held: nobody
  reserves a slot, pools a connection, gets or gives back a stream (`spinning`), until
  the connections are lost.
* Keys are numbered as the worker issues them; the worker accepts its current key
  and plain TLS.  `cache = 0` is an empty cache.
* `FetchAnswered` and `FetchCached` are two steps, because the answer is stored after
  the query without a look at what has been stored meanwhile.
* A rescore copies the nodes, tests the copies and puts them in the place of the
  list.  An update of a load in between goes to the old objects and is lost, as is
  one for a node that is no longer optimal.  `torn` is the set of nodes to which
  that has happened; nothing is claimed of their loads any more (they are kept at 0
  to have fewer states), so `LoadAccounting` is about all the other nodes, through any
  number of rescores.
* Latencies are left out: a test keeps any subset of the nodes, the weighted choice
  takes any optimal one (the code: any of the best five).
* `Expire` deletes an entry at the end of its TTL, or the periodic cleanup does.  It is
  what `OldKeyForgotten` rests on, since the refresh that would overwrite an old key
  may never return from its exchange.

`DialsEnd` says where a dial can stay: in the exchange, or behind a pool that spins.  A
query over a pool that has no connection yet is not such a place: it gives up
after ten seconds, and the dial goes on with plain TLS.

### Resolver

`call[r]` is one call of `ResolveAny`, `LookupIPs`, `GetECHConfig` or a task of `Warmup`:
its progress, type, first server, offset and attempt.  `Hit`, `Miss`, `Store`, `GiveUp`,
`AskSystem`, `Expire` are the cache; `NextServer`, `AfterError` and `Returned` the loops of
`DoHClient.Resolve` over formats, attempts and servers; `DirectRequest` an exchange
without the proxy.  `Acquire` to `ReleaseConnection` are `RoundTrip`: stream, CONNECT,
the wait for CONNECTED, TLS and HTTP (`exchange`), and its exits with what each
deferred function gives back.  `Dispatch`, `WarmupLate`, `StopEarly`, `WarmupEnd` are
the warm-up and its semaphore.

One domain and one WebSocket at a time are modelled: domains share nothing but the
servers, and connections nothing but the pool, which `ConnectionPool` models with many.
A WebSocket may die at any moment and be dialed anew.  A dial puts it into
`managerByConn` (`Redial`) and into the idle list in a second critical section
(`AddToPool`, while `pooling`).  With multiplexing a request may take a stream in
between; `early` remembers that.  Then the connection is idle with streams on it, may
be in the idle list twice (`idle`), and if its streams reach `limit` the next request
goes round it for ever with `p.mu` held (`Spin`, `mu`), as in `ConnectionPool`.  What needs
`p.mu` waits for `MuFree`.  `IdleUnused` and `KnownHangs` name this exception, and no other:
without multiplexing, or as long as nobody was early, the connection that is idle is
unused and in the list once, and nothing spins.  `working` are the
servers that answer every direct request; others may or may not answer, and the
set changes between resolutions, never during one (`ServersChange`), or
`AnyServerServes` would say nothing.

### Lifecycle

A thread is a role and the session it works for.  `StartStep` is `startVpn` from
`Establish` to `Started`, `CleanupStep` is `cleanupRuntime` and the report after it,
in whichever thread; `Watch` and `Wake` are `monitorNativeTunnel`; `StartCommand`,
`StopCommand`, `Revoke`, `SystemDestroys`, `OnDestroy`, `StopService` are what main
and the system do; `Event`, `ScheduleReconnect` and `Reconnect` the network and screen
callbacks; `Deliver` the status receiver of the activity.  `parts` are the loops and
listeners the Go side has running, `GoFails`, `GoStarts` and `StopSocksProxy` the
entry points of `android.go`.

* The three entry points hold `lifecycleMu` throughout and are one step each.
* A receiver is what the system calls (`registered`) and what a field of the service
  holds (`known`); the two are set and reset in separate statements, in the order of
  the code.  So `cleanupRuntime` is `runtimeRunning = false` (`Unregister`), then for each
  receiver the field (`DropScreen`, `DropNetwork`, which under `networkLock` clears the
  pending flag too) and then the system (`RemoveScreen`, `RemoveNetwork`).  A callback is
  two critical sections of `networkLock`: its decision (`Event`) and the scheduling
  (`ScheduleReconnect`), which may come after everything has been unregistered.
* With these steps apart two reconnect threads can sleep at once: `onRevoke` passes
  `runtimeRunning = false`, the start thread sets it again and registers, a callback
  schedules, the cleanup clears the flag, and another callback schedules.  It takes
  an intervention, and `TypeOK` says so: `naps > 1 => interrupted`.  It does no more harm
  than a second `Reconnect`.
* hev-socks5-tunnel is external: it may refuse to start and die at any time.
* `interrupted`: at most once, at any moment, another VPN takes the interface or the
  system destroys the service.  The two liveness properties about stops do not hold
  after such an intervention in the middle of a start (section 5); they are stated
  without it, and the safety properties and `StartEnds` with it.

## 3. Runs

| Run | Instance | Shows |
|---|---|---|
| `streams` | 4 IDs, 2 streams, 3 owners, one of which may unregister twice | type, bitmap = table, one owner per ID and who may free it, exact counters, nobody wiped unnotified, the close ends, IDs come back after `NumIds - MaxStreams` other allocations, `StreamLease` is implemented |
| `pool_shared` | 1 connection with 2 streams, 3 tunnels; read, write errors, heartbeat, culling | type, `NoStreamLeak`, `NoStrandedConnection`, `NobodyForgotten` |
| `pool_exclusive` | 2 connections over time, limit 1, 2 tunnels, no multiplexing; read errors, culling, `Close` | `Capacity`, `ExclusiveUse`, `CloseClosesAll` |
| `pool_live` | 1 connection, 2 tunnels; read, write errors and culling; fairness | `TunnelsEnd`, `DeadIsForgotten` |
| `socks` | queue of 2, 4 frames; fairness | type, `LateDataBound`, `Attended`, `ImplementsPipe`, `ImplementsHandler`, `ConnectionEnds`, `LoopNotBlocked` |
| `dial` | 2 keys and 2 dials, or 1 dial with a pool that may spin or with direct DoH; or 1 dial, 1 relay and a warm-up of one connection; fairness | type, `LoadAccounting`, `DialsEnd` (dials and the warm-up), `OldKeyForgotten` |
| `resolve` | 2 resolvers: 2 servers, or 1 server and a warm-up of 2 domains with one slot, or through the pool, with one or two streams on a connection, with and without multiplexing; fairness | type, `AnyServerServes`, `IdleUnused`, `ReturnedOrStranded`, `KnownHangs` (resolutions and the warm-up) |
| `session` | 2 sessions, one intervention of the system; fairness | type, `AllOrNothing`, `PendingHasThread`, `EndedIsReleased`, `StopReleases`, `DeadTunnelEnds`, `StartEnds` |
| `pool_spins`, `pool_panics`, `doh_reorders`, `stop_in_time` | smallest instances | the findings of section 5 |

Bounds.  `streams`: the bitmap is full with two of four IDs free of streams, the hint
wraps, the third owner finds the table full, an ID that one owner has given up is
another's when it is unregistered again, and each owner may use the manager any number
of times; nothing but `NumIds`, `MaxStreams` and the set of owners bounds the run.
Pool runs: each conn and each tunnel lives once; two connections over time with a
limit of one is what it takes for a slot to be freed and taken again, two tunnels for
any race of one's exit with the other's arrival or exit, and three tunnels for one of
them to find both streams taken.  All tunnels go to one target, when affinity and
sharing meet most often.  `Faults` says what may end a connection in a run besides its
tunnels.  `socks`: two frames in the queue, one with the writer and one that the
message loop holds are four; a frame that is given up has room for others before and
after it.  `MaxData` bounds only what the far end sends.  `dial`: two keys are an old
and a new one, two dials and two refreshers are four writers to the cache besides its
expiry; dials repeat without bound; `MaxPoolSize` 2.  A spin stops everybody who needs
the pool, so one dial is enough to meet it.  ECH and relays share nothing but the
dial, and are run apart because together they have too many states (the theorems have
them together).  `resolve`: two servers and two resolvers are what it takes for one to
move the starting point of the other; a connection is full with one request or with
both; resolutions repeat without bound.  `session`: the second session is the one that
finds what the first has left.  The proofs remove all these bounds for the properties
they cover.

`CHECK_DEADLOCK FALSE`: a manager that is closed, a pool whose tunnels have all
ended, a tunnel that has returned and a phone on which nobody starts the VPN have
nothing left to do.  (In `Dialing` and `Resolver` dials and resolutions that are not
configured in a setting may leave nothing to do either.)

Fairness.  Everywhere it is assumed of goroutines and threads that they take the
steps that are their own, and of nothing else: not of the network, the worker, the
servers, the clients, the user, or of when a culler, a heartbeat or `Close` comes.

* `StreamManager`: the goroutine in `HandleConnectionClose` goes on, because `sm.mu` is
  held for bounded times.
* `ConnectionPool`: a dial ends, because `createConnection` waits for it with an outer
  timeout; the wait for CONNECTED ends, because `waitForTunnel` has a timer; a read
  from a closed socket fails.
* `SocksTunnel`: both timers fire; a write to the client ends at the latest when
  either side has closed its socket (the write deadline is not relied upon); the
  message loop of a failed connection retires it.
* `Dialing`: a dial has a timeout, a direct query too, and a proxied one until it is in
  its exchange; nothing is assumed of the exchange, nor that a pool that spins ever
  stops.  Entries of the cache expire.  The warm-up's own timeout is not relied upon
  (`Continue`), nor that any dial succeeds.
* `Resolver`: goroutines go on as long as `p.mu` is not held for ever (`MuFree`); a
  read from a closed tunnel ends; a slot of the semaphore that is free again and again
  is taken (strong fairness of `Dispatch`: a Go channel serves those that wait in
  order, so that the loop of `Warmup` gets its turn); nothing of the peer of an
  exchange or of the pool, which is why `KnownHangs` has to name these cases.
* `Lifecycle`: threads and callbacks run, broadcasts are delivered, and the system
  destroys a service that has stopped itself.

Elsewhere weak fairness is enough, because a step that is possible stays possible or
is taken by someone else.

## 4. Proofs

Every theorem is about `Spec`, without fairness (a run with fairness checks fewer
behaviours of the same steps), but for the one about `MCStreamManager`, which has its
own specification.  The theorems assume what the modules' ASSUMEs say:
finite sets, natural limits, and actors that are different from each other.  Each
proof module proves its `IInv` inductive, action by action, and reads the properties
off it; an invariant that a later property needs is added on top of it.

**`StreamManager_proofs`**, for every `NumIds >= 1`, `MaxStreams` and finite set of
owners: and every choice of those that may unregister twice: `TypeOK`,
`BitmapMatchesTable`, `ExclusiveLease`, `CountersExact`, `WipeOnlyNotified`, and that
`StreamLease` is implemented.  `IInv` joins them with two facts about the close: while
the callbacks run, the owner of every registered stream is still to be notified or has
been (`NotifyInv`); once wiped the table stays empty, and `remaining` is non-zero only
between the wipe and the correction of the counters (`WipeInv`).  Exclusivity needs
that the ID found is not in the table, which is `BitmapMatchesTable` and `IsFreeBit`,
so that its new owner is nobody's victim and no ID has two holders that were not
robbed; and that what an owner frees by its first unregister is its own stream unless
it was robbed.  The counters need that a stream leaves the table once:
`Cardinality(DOMAIN streams)` drops by one exactly where `connStreams` does, so the
floor of `conn.Streams` is never reached.  `ClosedIsClean` is what that gives for the
end of a close: no stream and no count is left.

**`MCStreamManager_proofs`**: `ReuseDistance`, for the same constants.  What is
inductive is a trade of age for distance (`OldEnough`): the age of an ID, plus the
number of free IDs that the search would find before it, is at least
`NumIds - MaxStreams`.  An allocation takes the first free ID from the hint, moves the
hint behind it and so takes one free ID from before every other, but makes all of
them one older.  The ID it has taken is of age zero and last in the search, behind all
that are free: `NumIds` less the streams in use, which are at most `MaxStreams`
(`WithinMax`).  A release only adds a free ID.  The ID that is found has no free ID
before it, so its age alone has to be enough.

**`ConnectionPool_proofs`**, for all finite sets of connections and tunnels, all limits,
both values of `EnableMultiplex` and every set of faults: `TypeOK`, `Capacity`,
`NoStreamLeak`.  `Capacity` speaks of live connections and slot holders, and a
reservation counts a connection twice while it is both, so the bound cannot be read
off the guard.  The proof bounds `Claimed` instead: the calls that hold a slot, and the
connections whose message loop runs and that are open.  Every step but `Reserve` can
only shrink it, because a connection never reopens (`ClosedStays`), and what starts
to be open held a slot before.  At `Reserve` the guard suffices because all that is
claimed is counted (`CountInv`, `IndexInv`).  `TypeOK` needs `MadeInv` for the connections
that tunnels name.  `NoStreamLeak` needs `StreamInv`: a connection that is not indexed
has no streams, and a tunnel that has detached its connection has no stream left
anywhere, so `createTunnel` may return without cleanup when CONNECT fails.

**`ConnectionPoolUse_proofs`** builds on that invariant and proves, with the same
generality, `NoStrandedConnection`, `ExclusiveUse` and `CloseClosesAll`.  `UseInv`
adds: a tunnel that retires its connection has closed it (`RetireInv`); a connection
that has been pooled is in the pool or used from then on (`PlaceInv`); an active one
is used or about to be detached (`ActiveInv`); without multiplexing pooled connections
are unused, and so is one between its creator's two critical sections, which is the
gap through which a second tunnel could come (`AloneInv`); every open WebSocket has an
open item or somebody about to close it, and `Close` has noted those with an open item
(`SocketInv`).  The lemmas about `p.pool` say that `KeepAt`, `InsertAt` and `RemoveAt`
lose and double nothing; that the n-th smallest element of a finite set exists
(`NthInSet`) follows from counting: ranks are an injection between sets of the same
size.

Three more invariants stand on these, and speak of the time until `Close`, which drops
the indexes without telling the managers it finds:

* `HandlerInv` is for `NobodyForgotten` (`NobodyLost`).  A message loop that has taken its
  streams away finds no new one in the table, as `RegisterStreamHandler` registers only
  for a stream that is there; and a handler leaves the table only with its tunnel's
  own cleanup, or into the list of whoever detached the connection.
* `OnceInv` is for the refinement of `StreamHandler` (`KeepsContract`): a handler
  belongs to a tunnel that has been given its connection, and who takes it takes it
  alone, so that the message loop, a retiring tunnel, the heartbeat and the culler
  cannot call `OnClose` twice between them, nor can a handler be registered after it.
* `DeadIsAttended` and `Forgotten` are the two safety halves of the liveness property
  `DeadIsForgotten`.  A dead connection in `managerByConn` is on somebody's way out
  (`DeadAttended`), even where `RegisterStreamHandler` has indexed it again: the tunnel that
  did so will fail to write CONNECT, and retire it.  And once it has left the index and
  the active count, with nobody about to register on it, it does not come back
  (`ForgottenForGood`).  What is left to fairness is that those who are on their way arrive.

`RequestsEndAlone` is about a finding of section 5: without multiplexing, idle connections
are unused (`AloneInv`), so that none is full, and a request does not spin.  The loop
without exit needs a shared connection.

**`SocksTunnel_proofs`**, for every queue size and number of frames: `TypeOK`,
`LateDataBound`, `Attended`, and that `BytePipe` and `StreamHandler` are implemented.
`Order`: what has been delivered, what the writer holds, the queue and what the
message loop holds are increasing in this order.  `Contig`: as long as nothing was
given up and somebody still delivers, they are also without a hole and end with the
last frame taken.  `Phases` relates the program counters; it has to say that the
client's socket is shut before the stream is given back, from which `LateDataBound`
follows, as a reader that has sent one late frame cannot read another.  `Attended`
needs `Early`, that nothing can be lost before there is a stream, and `Owned`: what is
registered when its connection is retired is found there, and only `cleanup`, which
one goroutine enters, gives it back.  The same facts make `KeepsContract`: a handler
is registered once, and after `OnClose` is due nobody unregisters it.

**`Resolver_proofs`**, for any number of resolvers, servers and domains and every set
of settings: `TypeOK`, `AnyServerServes`, `IdleUnused`, `ReturnedOrStranded`.  For the
first two: `SlotInv`, the slots in use are as many as the tasks that run; `Blames`, of
the servers `start`, `start + 1`, … modulo their number all those before `offset` do
not work, so that after the last one none does (`AllVisited`: the offsets reach every
server). Others may move `lastServerIdx` at will, since a request keeps its own
`start`.  For the last two: `StreamInv`, a request that has its stream is on the open
connection, and until it has unregistered it only such requests have one; and
`PoolingInv`, only with multiplexing is a request early, and as long as none has been,
the connection that a dial is about to append is not in the list and nobody is on it.
`IdleUnused` then has its one exception, the gap between the dial's two critical
sections.

**`Lifecycle_proofs`**, for any number of sessions, with and without interventions:
`TypeOK`, `AllOrNothing`, `PendingHasThread`.  The last two need that one start is under
way at a time (`OneStart`), and that before it has set `runtimeRunning` nothing has, and
no thread of an earlier session sleeps (`EarlyQuiet`).

`EndedIsReleased` needs to know who will release what, at every moment of a session that the
system does not disturb (`Calm`).  Before `stopping` is set nobody cleans up, and what
there is has a start thread, a monitor or the stop thread (`Attended`); from then
on each thing that is left is ahead of some thread in `cleanupRuntime`, which has not
come to it yet, and nobody acquires anything more (`Releasing`).  The step between
the two is where it could break: the thread that sets `stopping` starts at the first
release, while no other is past it.  Of a receiver, `Releasing` says who will reset its
field, or, once that is done, who will tell the system, because whoever finds the
field reset passes on.  `Releasing` is a theorem of its own
(`StopIsReleasing`).  When no thread is left, nothing can be ahead of one, so that all
is released (`EndedReleased`).

That two reconnect threads do not sleep at once, which `TypeOK` says of such a session, is
proved on top of this (`Naps`): a sleeping thread is pending or `runtimeRunning` is
reset, since whoever is about to clear the flag has reset it, and by `Releasing` no start
thread comes to set it again.

By the same argument as `EndedIsReleased`, `StoppedIsDown`, a finding of section 5,
holds as long as the system does not intervene (`StoppedIsDownUndisturbed`): the finding
needs `onRevoke` or an `onDestroy` that the service did not ask for.

**`Dialing_proofs`**, for any number of dials, relays and keys, with ECH and relays in
any combination, and any batch size: `TypeOK` and `LoadAccounting`.  `LoadInv`: of a
node that is not torn, the load and, while a rescore is under way, the copy that will
replace it both equal what is counted; an update in between tears the node.
`WarmupInv`: what was created and what is under way do not exceed the target, what
failed and what is under way not the size of the batch, and a warmer outside the batch
is idle, so that a batch is counted once.  The number of batches that fail in a row is
at most three whenever another one starts.  `GoneForGood` is the safety half of
`OldKeyForgotten`: keys only grow, the worker answers with the one it has, and a
cached value that is read is not stored again, so that an old key that is neither in
the cache nor in an answer that is still to be stored cannot return.

Only model-checked: liveness under fairness (`CloseCompletes`, `TunnelsEnd`,
`DeadIsForgotten`, `ConnectionEnds`, `LoopNotBlocked`, `DialsEnd`, `OldKeyForgotten`,
`KnownHangs`, `StopReleases`, `DeadTunnelEnds`, `StartEnds`), which is out of the
prover's reach, as fairness brings in ENABLED; for `CloseCompletes`, `TunnelsEnd`,
`DeadIsForgotten`, `OldKeyForgotten` and `StopReleases` the theorems have the safety
they rest on.  Every invariant and every action property that the passing runs check
is proved, and so is every refinement they check.  Of the four properties
that the code violates, two have a theorem that says what it takes.  `NoPanic` and the
refinement of `TunnelConn` have their refutation and no theorem.

## 5. What the code does differently from what it says

* `RequestEnds` (run `pool_spins`).  Step 1 of `GetConnectionWithStream` pops an idle
  connection from the tail and, if it has no free stream, puts it back at the head
  of the same list; when every live idle connection is full the loop has no exit and
  `p.mu` is held.  A connection can be idle and full: it is indexed, and so shared,
  before `createConnection` pools it.
* `NoPanic` (run `pool_panics`).  `Close` sets `managerByConn` to nil without waiting
  for creators and tunnels, which then assign to an entry of a nil map.
* `ImplementsPipe` of `TunnelConn` (run `doh_reorders`).  `tunnelConn.Read` puts the
  part of a frame that its caller's buffer has no room for back at the tail of the
  queue, behind frames that have arrived meanwhile.
* `StoppedIsDown` (run `stop_in_time`).  A revocation or destruction of the service
  during a start cleans up what the start thread has made so far; the thread goes on
  and leaves the native tunnel or the proxy running in a service that reports to be
  stopped.

## 6. Not modelled

* Quality monitor: `Start` has no caller, so that none of its state lives.  For the same
  reason: `GetConnection` and the request queue, `ReportFailure`, `UpdateNodeQuality`,
  `GetBestRelayExcluding`, `GetNextRelay`, the HTTPS entries of the DNS cache, and the
  blocking flow-control methods of `Stream`.
* Routing matcher and wire protocol: pure functions covered by the repository's tests.
  `SocksTunnel` takes either answer of the matcher.
* Logger: nothing depends on it.
* Configuration, the parsers of DNS, JSON, YAML and preferences: conversions that happen
  once, before anything runs, or that have no state.
* `maintainPool`, `adjustPoolSize` and the statistics of the pool: they only decide how many
  connections are asked for, and `Reserve` may ask at any time.  The book of outstanding
  heartbeats: `RetireByJanitor` may retire any connection at any time.
* A start command while threads of the last session are still running on the same
  instance, and the activity's 60-second timeout for a start: both make several
  sessions share fields that do not say whose they are.
* More than one intervention of the system in the life of `Lifecycle`.
* The other activities: event handlers of the platform without concurrent state.

What a continuation would add, in this order: that the bytes `tunnelConn.Read` returns
are each from one frame and none is returned twice, proved; the progress invariant
behind `KnownHangs` (whoever waits for a slot or a response has somebody who holds
it); the start command during the last session's threads; the heartbeat's book with
its three-byte keys; `adjustPoolSize` as a function against its intent; the logger's
ring and rotation.
