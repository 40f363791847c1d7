# TLA+ models of the pyHMSSQL geo-routing sidecar

These modules model the Rust code under `src/rustcore`. The main subject is the
geo-routing sidecar (`geo_sidecar/src/{main,routing,metrics,geo}.rs`), which
chooses the replica that serves each query. The hybrid logical clock crate
(`hlc/src/lib.rs`) is a separate, smaller subject. TLC checks each model with
the configurations listed below. `PROJECT.json` lists the same components,
runs, mutants, source map, findings and hazards in machine-readable form.

## 1. Inventory

### Components and their state

| Component | Source | State | Operations |
|---|---|---|---|
| Routing engine | `routing.rs` | `replicas: DashMap<node_id, ReplicaInfo>`, `zone_replicas: DashMap<zone, Vec<node_id>>` | `update_replicas` (clear both maps, insert the input one replica at a time), `route_request` (healthy filter, leader filter for writes, `min_by` over the score), read-only counters |
| Table lock | `main.rs:110, 326-334` | `parking_lot::RwLock<RoutingEngine>` | `read()` for route, `write()` for update |
| Metrics collector | `metrics.rs` | six `AtomicU64`: total, successful, failed, latency sum, min (starts at `u64::MAX`), max | `record_request` (three `fetch_add`s and two `compare_exchange_weak` retry loops), `get_snapshot` (six separate loads), `reset` (six separate stores; public, no caller in the sidecar) |
| Connection manager | `main.rs:112, 164-248` | `active_connections: DashMap<id, SystemTime>` | admission check on `len()`, insert on accept, remove when the task ends, a `retain` sweep every 60 s that drops records older than 300 s |
| Listeners and connection loop | `main.rs:131-347` | one task per connection; the TCP and Unix accept loops and the metrics tick share one task through `tokio::select!`, which ends `run()` when any of them returns | bind, accept (either may fail), frame read (4-byte big-endian length, limit 1 MiB), `process_request` dispatch (route / update / ping / metrics), `record_request`, frame write |
| Geo resolver | `geo.rs` | a read-only MaxMind reader or none | `resolve(ip)` (falls back to the default location), haversine `calculate_distance` |
| Hybrid logical clock | `hlc/src/lib.rs` | `last_physical`, `logical_counter` (`AtomicU64`) | `now`, `update(remote)`, `compare`, byte conversion |

### How the components interact

Every accepted connection becomes its own tokio task. These tasks run in
parallel on the worker threads.

- Each task reads framed requests and calls `process_request`.
- A route request takes the table's read lock and calls `route_request`, which
  calls the geo resolver.
- An update request takes the write lock and calls `update_replicas`.
- Every request ends with `record_request` on the shared metrics atomics.
- When a task ends, it removes its own record from `active_connections`.

The accept loops and the periodic task run inside the same task, so an
admission check and a sweep never overlap.

### What makes it hard

The hard behaviour comes from concurrent tasks sharing three structures:

- **The routing table.** It is rebuilt in many steps, so it is correct only
  because of the lock.
- **The metrics atomics.** They use lock-free read-modify-write loops, and the
  snapshot reads them without synchronisation.
- **The connection map.** Its keys can collide, and a sweep based on time
  removes records of connections that are still live.

Selection itself has one more hazard: ties are broken by the hash order of
the `DashMap` iteration. Within a connection, requests are handled strictly one
after another. The HLC performs separate loads and stores on two atomics.

### Correctness properties per component

- **Routing:** a write never goes to a non-leader; a route never goes to an
  unhealthy node; the answer has minimal score; a route sees either the whole
  old table or the whole new one (§8 table atomicity), the new one being what
  the update's own list builds (last write wins); each answer is for the
  request's own client location and query type; the zone index agrees
  with the primary map; the lock starves neither routes nor updates.
- **Metrics:** no min/max update is lost; once no call is in flight,
  `total = N`, `successful + failed = N` and min/max/sum are exact (§8); a
  `reset` racing recorders loses at most the calls it overlaps; a snapshot is
  coherent.
- **Connections:** every record belongs to a live connection; every live
  connection keeps its record until it ends or is swept; admission enforces the
  limit.
- **Connection loop:** framing errors close only that connection; request
  errors produce an error response; one response per request, in order.
- **HLC:** timestamps strictly increase in real-time order; `update` returns a
  timestamp greater than the remote one; each call behaves as one atomic step
  of the hybrid-logical-clock rule.

The hazards, each at its source line, are listed in `PROJECT.json` under
`"hazards"`.

## 2. Modules and how they map to the code

### `RoutingTableSpec` (abstract)

This module states what the table promises:

- Every call has an input while it is pending: `input[w]`, the replica list
  of writer `w` (`CallUpdate`), and `ask[r]`, the client address and query
  type of router `r` (`CallRoute`). `NoResp` marks no pending call.
- `Update(w)` replaces `table` in one step by `Build(input[w])`, a fold in
  which the last occurrence of a node_id wins.
- `Route(r)` answers from `table` with an answer in
  `Answers(table, Locate(geo, ask[r].ip), ask[r].q)`: the two spec failures,
  or a candidate of minimal `SpecScore` (leaders only for writes) for that
  client's location.

`SpecScore` is written from spec §4.2, not from the code. `Locate` is the
§4.1 contract of `resolve`: the database's coordinates for an address it
locates, the default (0,0) otherwise. `geo` is the database the service
started with, or none.

### `GeoResolver`

Operators, no state (the resolver is read-only after construction):

- `NewResolver(path)` is `GeoResolver::new` for each state of the configured
  path (`DbPaths`): none, a missing file (warn, no reader), a file
  `open_readfile` rejects (`Err`, the service does not start), a readable
  database.
- `Resolve(reader, ip)` is `resolve`: no reader or a lookup error gives
  `DefaultPoint`; a City without location gives (0,0); each missing
  coordinate is 0 on its own (`OrZero`).

A location is its `<<latitude, longitude>>` point: only the coordinates reach
`calculate_distance`. The name and time-zone fields fall back the same way and
are display-only.

### `RoutingEngine` (detailed)

The module has two kinds of task:

- **Routers**: `RequestRoute`, then `AcquireRead`, then `Route`.
- **Writers**: `RequestUpdate`, `AcquireWrite`, `ClearReplicas`, `ClearZones`,
  one `InsertReplica` per element of the input, then `ReleaseWrite`.

Each action is one statement of `update_replicas` or of the `process_request`
arm. `Route` evaluates `RouteRequest`, which translates `route_request`:

- It filters the healthy replicas, keeping the iteration order.
- For a write it keeps only leaders (`SelectBestLeader`); for any other query
  type it keeps all candidates (`SelectBestReplica`).
- `MinBy` is `Iterator::min_by`, in which the first minimum wins.
- The iteration order of the `DashMap` is any permutation (`SetToSeqs`).

Data is abstracted as follows:

- A ReplicaInfo is a record of the fields the score reads.
- Locations are `<<latitude, longitude>>` points in whole degrees, and a
  route request carries a `client_ip` that `Route` resolves with
  `GeoResolver`'s `Resolve` against `geo`, the reader `Init` takes from any
  `NewResolver` outcome that starts the service.
- `Distance` is a table of haversine results in km.
- `load_score` and `latency_ms` are integers.

The lock follows parking_lot's task-fair policy: a reader is not admitted while
a writer is queued. The history variable `prevTable` records the table at the
moment the write lock is taken. The refinement mapping is
`table <- VisibleTable`, which is the maps when no writer holds the lock and
`prevTable` otherwise, `geo <- geo`, `ask <- req` (a router's request from
its arrival to its answer) and `input <- PendingInput` (a writer's `batch`
from its arrival until `ReleaseWrite`). Tying each abstract step to the
caller's own input is what makes the check see an insert loop that keeps the
first record of a node_id, or a `resolve` that ignores the database or
answers for another address.

### `Metrics`

Each recorder (a connection task) runs `record_request` as its statements:

- `AddTotal`, `AddLatency` and `CountOutcome`;
- `LoadMin`, then the retry loop (`CasMinSucceed`, `CasMinFail`, `MinDone`);
- `LoadMax` and its loop (`CasMaxSucceed`, `CasMaxFail`, `MaxDone`);
- `Return`.

`CasMinFail` and `CasMaxFail` also cover a spurious failure of
`compare_exchange_weak`. The periodic task runs `get_snapshot` as six
`SnapLoad` steps in source order, followed by `SnapReturn`. `reset()` is
`ResetBegin` (its first store) and five `ResetStore` steps, storing
`ResetValue` into each counter (`Store`) in source order; `MaxResets` bounds
the calls. `MetricsCollector` is exported by the crate (`lib.rs`), so any
holder of the `Arc` may call `reset` while connection tasks record, though
the sidecar itself never does.

The history variables `doneLats`, `doneOk`, `doneFail` and `doneSum` record
the calls that have returned since the last reset began; `cleanLats`,
`cleanOk`, `cleanFail` and `cleanSum` record those among them that began
with no reset running (`clean`). Before any reset both histories are every
returned call. `U64Max` stands for `u64::MAX`.

The atomics use Relaxed ordering, and the model treats it as sequentially
consistent. This is sound for the properties checked here: each property reads
one atomic at a time, and on one location Relaxed RMWs are totally ordered. The
snapshot violation below happens even under sequential consistency.

### `HLC`

The clock's two `AtomicU64`s are `last_physical` and `logical_counter`. Each
thread runs one call at a time, and every SeqCst access is one action:

- `now()`: `NowBegin` reads the system clock through `PhysicalTime`
  (`get_physical_time`, with `unwrap_or_default`), then `NowLoad`, then
  either `NowStorePhysical` and `NowStoreLogical`, or `NowFetchAdd`.
- `update(remote)`: `UpdBegin` takes `max_physical`, then `UpdLoad`, then one
  of three branches: `UpdStorePhysical` and `UpdStoreLogical`;
  `UpdLoadLogical` and `UpdStoreMax`; or `UpdFetchAdd`.
- `Tick` moves the system clock to any other value, including one before the
  epoch (`-1`).

Logical arithmetic wraps at `LogicalMax`, as `u64` does in a release build.
The history variables are `issued` (every timestamp returned) and `floor`
(what had been returned when the current call began). `TsLess` is
`HLCTimestamp::compare` and `CCompare` is `hlc_timestamp_compare`. `ToBytes`
and `FromBytes` are `to_bytes`/`from_bytes` (with their C wrappers): the
physical then the logical part, each as 8 little-endian bytes (`LeBytes`,
`FromLeBytes`); they apply to every issued timestamp.

### `HLCSpec` (abstract) and the refinement

`HLCSpec` states what the clock promises, with each call atomic. `CallNow`
and `CallUpdate` read the call's physical bound (the system clock, or for
`update` the larger of it and the remote physical time); `Return` moves the
clock's timestamp `last` to one that exceeds it (and the remote), whose
physical part is the larger of the bound and `last`'s, and returns it. This
is the hybrid-logical-clock rule the crate's module comment refers to.

`HLC` instantiates it as `Atomic` with `last <- ClockTs`, `busy <-` the
threads inside a call, `bound <- pn` and `arg <- remote`. `ClockTs` is
`<<last_physical, logical_counter>>`, except between a call's two stores
(`Storing`), when `last_physical` already holds the new value while the
call has not yet taken effect. The mapping exists for one thread only: with
two, the interleaving of `hlc_threads` has no atomic equivalent.

### `ConnectionTable`

`conns` is `active_connections`. Each task (a connection) is `free`, `live`,
`closed` (its `handle_connection` is returning Err), `done` or `rejected`.

- `AcceptTcp` and `AcceptUnix` build the id (`tcp:` with the peer address, or
  `unix:` with the current microsecond). `Accept` does the length check, the
  insert and the spawn as one step. This is sound because the accept loops and
  the periodic task are one tokio task (`select!`), with no await between the
  check and the insert.
- `Disconnect` and `End` are the spawned task's error return and its remove.
- `Sweep` is the periodic `retain`, with `Keep` as its closure.
- The ghost `swept` records which running connections lost their record to
  the sweep.

### `ConnectionLoop`

This module is `handle_connection` for one connection. The peer's stream is a
sequence of frames, each with a 4-byte header, a declared length and a body
that the peer sends completely or never finishes. The peer may hang up at any
time (`Hangup`). The steps are:

- `ReadHeader`, which includes `FromBeBytes` (`u32::from_be_bytes`) and the
  `> 1024*1024` check;
- `ReadBody`, which waits for the whole body or fails once the peer is gone;
- `Process`, which is `process_request`: parse errors and a bad `client_ip`
  give an error response, a route may fail, and an update bumps `version`;
- `Record`, which is `record_request`;
- `WriteHeader`, `serde_json::to_vec` then `write_all` of the length as
  `u32::to_be_bytes` (`ToBeBytes`), and `WriteBody`, `write_all` of the body
  and the flush. Either fails once the peer is gone.

`wire` holds what was written: header bytes, and each body as one chunk
carrying the response and its serialized length (`RespLen`, a constant of
the model: the JSON text is abstracted to its length). `PeerDecode` reads
`wire` the way the protocol frames it (4-byte big-endian length, then that
many bytes), and is how the peer sees the responses.

The table and the metrics are abstracted to counters here. `RoutingEngine` and
`Metrics` model them in detail.

### `Sidecar` (composition)

`run()`: one `tokio::select!` over the TCP listener, the Unix listener and the
metrics task, composed with `ConnectionTable` through `INSTANCE` (its
variables are shared). Each listener is `bind`, then `accepting`:

- `Bind` is `TcpListener::bind`, or the stale-socket `remove_file` and
  `UnixListener::bind`; `BindFail` is either failing.
- `Accept` is `ConnectionTable`'s accept on a listener that is accepting.
- `AcceptFail` is `listener.accept().await?` returning an error.
- `UnixPanic` is a Unix accept that passes the limit check while the clock
  reads before the epoch (`Epoch`, a constant of `ConnectionTable`):
  `current_timestamp_micros` unwraps the `Err` of `duration_since` and panics
  in `run()`'s own task, which unwinds `main`. `ConnectionTable` registers
  Unix connections only from the epoch on.
- `Return` is the select! taking the failed branch: the other listener's
  future is dropped, `run` and `main` return (`exited`), and nothing else
  happens. The metrics task never returns.

## 3. Runs

| Run | Config | Expect | What it shows |
|---|---|---|---|
| routing_safety | `MC_RoutingEngine.cfg` | pass | A router racing a writer always answers its own request from one complete table with an answer the spec allows (`RefinesTableSpec`: atomicity, the table the writer's own list builds with last-write-wins, leader-only writes, healthy-only, minimal score, and the router's own client located as §4.1 says, with and without a database). The zone index matches the primary map between updates (`ZoneIndexConsistent`). |
| routing_liveness | `MC_RoutingEngine_live.cfg` | pass | Every route and update request that has arrived is answered (`RequestsAnswered`), with two routers that can overlap indefinitely. |
| metrics_safety | `MC_Metrics.cfg` | pass | With a `reset` racing two recorders, no min/max update of a call that ran after the reset is lost (`NoLostExtremum`). Whenever nothing is in flight, each counter lies between what the calls that ran wholly after the last reset and the calls that returned after it began contributed, and min/max are latencies of the latter (`QuiescentAccounted`); with no reset, the counters equal the history exactly. |
| routing_tie_break | `MC_RoutingEngine_tiebreak.cfg` | violation | Between equal scores the answer depends on the `DashMap` iteration order, not on node_id order (`TieBreakByNodeId`, defined in `MC_RoutingEngine` with the node_id order `NodeRank`). |
| hlc_single | `MC_HLC.cfg` | pass | With one thread and a clock that jumps both ways, every call returns more than everything returned before it (`RealTimeMonotonic`), and `update` exceeds the remote timestamp (`UpdateExceedsRemote`). Timestamps written and read back through the C byte API compare as the originals do (`ExchangedOrderPreserved`). Each call is one atomic step of `HLCSpec` (`ImplementsAtomicClock`): the clock never runs ahead of the times it has read. |
| hlc_threads | `MC_HLC_threads.cfg` | violation | With two threads, an `update()` stores an older physical time over a newer one, and a later call returns a timestamp below one already returned (`RealTimeMonotonic`). |
| hlc_overflow | `MC_HLC_overflow.cfg` | violation | A remote logical of `u64::MAX` wraps, and `update` returns less than the remote timestamp (`UpdateExceedsRemote`). |
| connections_safety | `MC_ConnectionTable.cfg` | pass | With the system clock stepping forwards and back, `active_connections` never keeps a record of a connection whose task has ended (`RecordsOnlyForRunning`), through accepts, id reuse, ends and sweeps. |
| connections_isolation | `MC_ConnectionTable_isolation.cfg` | violation | A reused id lets one connection's end delete another running connection's record (`AccountingIsolated`). |
| sidecar_transports | `MC_Sidecar.cfg` | violation | An accept error on the TCP listener (or a panic registering a Unix connection before the epoch) ends `run()`, dropping the other listener (`TransportsIndependent`). |
| connection_loop | `MC_ConnectionLoop.cfg` | pass | Exactly the frames of at most 1 MiB are read (`FrameLimitExact`), and every request read is answered, including error requests, unless the peer hangs up (`RequestsAnswered`). The peer, decoding the written bytes, reads back exactly the responses in request order, and never a frame cut short by a failed write (`ResponsesRoundTrip`). |
| metrics_snapshot | `MC_Metrics_snapshot.cfg` | violation | A completed snapshot can report an average above its maximum (`SnapshotAvgInRange`). |

### Bounds

- **routing_safety:**
  - three node_ids and two zones;
  - four replica records: a Tokyo leader with load, a Paris follower, a second
    record for the same node_id that is a follower in the other zone, and an
    unhealthy leader;
  - input lists of up to two records (21 inputs);
  - four client addresses: one the database locates in Tokyo, one in Paris,
    one whose City record has no location, and one it does not hold;
  - a service started with the database or without one;
  - read and write requests;
  - one router and one writer, about 485k states.

  These bounds reach every case that matters: empty, duplicate and unhealthy
  tables; writes with and without a healthy leader; and the leader-bonus
  trade-off of spec scenarios A/B. With one router, that router can still
  interleave with every step of the writer.
- **routing_liveness:** two routers (needed for overlapping readers), one
  writer, two records, lists of length up to one.
- **metrics:** two recorders, one call each, latencies {1, 2}, and one
  `reset`. The reset can overlap every step of either call, and a call can
  start after it, so straddling and clean calls meet in one run; the two calls
  race each other's CAS loops. A second call per recorder with a reset grows
  the space past 15 million states. The recorders are interchangeable (model
  values with identical code), so the run uses `SYMMETRY`; no checked
  property names a recorder. The run also uses `VIEW RecorderView`, which
  leaves out the values the snapshot task has loaded (`snap`): nothing but
  `SnapshotAvgInRange`, which this run does not check, reads them. About
  860k distinct states. The snapshot run keeps `MaxResets = 0`.

- **HLC:** physical times 0..2 plus one before the epoch, and remotes behind,
  equal to and ahead of that range. The passing run has one thread and four
  calls; the threads run has two threads and two calls each. `LogicalMax` is
  1000 in the passing runs, where it cannot be reached, and 3 in the overflow
  run, where the remote's logical part is that maximum.
- **connections:** three connections, one TCP peer address, a limit of two,
  clock 0..3 stepping both ways and a retention window of 2 ticks. These bounds reach a
  rejection at the limit, reuse of a TCP address, two Unix accepts at one
  clock value, and records both younger and older than the window. The
  connections are interchangeable, so the passing run uses `SYMMETRY`.
- **sidecar:** two connections, one TCP peer, the connection bounds above
  with a forward clock, and `Epoch = 1`, so the process may start with the
  clock before the epoch. The violation needs only a bind and a failed accept.
- **connection loop:** up to two frames from eleven kinds:
  - well-formed 5-byte requests of every request kind;
  - a request of exactly 1,048,576 bytes, and declared lengths of 1,048,577
    and 2^24;
  - `5 * 256`, whose header `<<0, 0, 5, 0>>` reads as 327,680 if decoded
    little-endian (still under the limit; the little-endian mutant is
    caught by the 1 MiB frame, whose header `<<0, 16, 0, 0>>` then reads
    as 4,096, and by the oversized ones);
  - a body the peer never finishes.

  The headers are real big-endian bytes of these lengths. Responses are 312
  bytes for a routed request (past 255, so two header bytes are non-zero)
  and 72 to 96 bytes otherwise.

### Fairness

`RoutingEngine` has the following fairness:

- After a request has arrived, its task keeps running: `Route` and the writer's
  steps are weakly fair.
- Acquiring the lock is strongly fair. parking_lot's RwLock queues waiters and
  documents that it starves neither readers nor writers.
- The arrival of requests has no fairness, because clients need not send
  anything.

`Metrics`, `HLC` and `ConnectionTable` check only safety and assume no
fairness. `ConnectionLoop` makes every step of the connection task weakly fair.
A tokio task whose read has data, or whose write can proceed, is polled again.
`Hangup` has no fairness, and neither does a peer that stalls mid-body.
`MC_ConnectionLoop.cfg` sets `CHECK_DEADLOCK FALSE`: a connection whose task
has returned really stops.

## 4. Findings

- **metrics_snapshot** (spec gap, `metrics.rs:77`). `get_snapshot` loads the
  counters one by one while recorders run. TLC finds a snapshot with total 1,
  sum 1 and max 0, which means an average of 1 µs above a maximum of 0 µs.
  Spec §4.4 defines the average and extremes without
  saying that a snapshot is not a consistent cut. The sidecar only logs the
  snapshot, and the `metrics` request returns a placeholder (`main.rs:344`).

- **Zone index duplicates** (`routing.rs:64`, not a run). `update_replicas`
  overwrites `replicas` by node_id but pushes every node_id onto its zone's
  `Vec`. A repeated node_id is therefore listed twice, or under both of its
  zones. `ZoneIndexConsistent` checks only membership in both directions, which
  holds. Nothing reads `zone_replicas`, so routing answers are unaffected.
- **routing_tie_break** (spec/code divergence, `routing.rs:134`). Two Paris
  followers `n1` and `n2` with equal scores: when the `DashMap` yields `n2`
  first, `min_by` answers `n2`. Spec §4.2 step 5 asks for a deterministic
  tie-break in a stable order such as node_id. `DashMap` uses a randomly seeded
  hasher, so the choice can differ between processes.

- **hlc_threads** (code bug, `hlc/src/lib.rs:66`). TLC's trace, with the
  system clock at 0:
  1. t1 calls `update(<<1, 0>>)` and t2 calls `update(<<2, 1>>)`; both load
     `last_physical = 0` and take the "physical time advanced" branch.
  2. t2 stores `last_physical = 2`; t1 then stores 1 over it.
  3. t2 stores `logical_counter = 2` and returns `<<2, 2>>`.
  4. t2 calls `now()`, loads `last_physical = 1`, `fetch_add`s and returns
     `<<1, 3>>`, below the `<<2, 2>>` it returned before.

  The doc comment calls `now()` thread-safe, and `test_hlc_now` asserts that a
  later call is greater. `now()` (lines 41-42) and the `max + 1` store of
  `update` (line 82) have the same load-then-store shape.
- **hlc_overflow** (code bug, `hlc/src/lib.rs:68`). `remote_ts.logical + 1`
  is unchecked. A remote `<<1, u64::MAX>>` gives `<<1, 0>>` in a release
  build, which is below the remote timestamp. A debug build panics instead.
  `test_hlc_update` asserts the opposite.
- **connections_isolation** (spec/code divergence, `main.rs:190`, `215`).
  TLC finds one of two shortest traces, depending on the order its workers
  explore states:
  1. A connection from `p1` (or a Unix connection at clock 1) is accepted
     and then disconnects.
  2. A new connection from `p1` (or a second Unix connection at the same
     clock value) is accepted before the old task runs, under the same id.
  3. The old task's `remove("tcp:p1")` (or `remove("unix:1")`) deletes the
     new connection's record. Spec §4.3
  registers under a unique id, and §7 says one connection's failure cannot
  affect another. The lost record also lets admission exceed the limit.
- **sidecar_transports** (spec/code divergence, `main.rs:165`). TLC's
  trace: the TCP listener binds, its `accept()` fails, `select!` returns that
  branch and drops the Unix listener while it is still starting. EMFILE and
  ENFILE are accept errors, and `max_connections` defaults to 1000, close to
  the usual 1024-descriptor limit. Spec §4.5 accepts on two independent
  transports, and the service is to run until terminated externally; here one
  transport's error ends the process and every connection. A second path to
  the same end: with the system clock before 1970, the next Unix accept
  panics in `current_timestamp_micros` (`main.rs:352`, `unwrap` of
  `duration_since(UNIX_EPOCH)`), unwinding `run()` and `main`.
- **Sweep after a clock step-back** (spec/code divergence, `main.rs:247`,
  not a standing run). With `PROPERTY SweepOnlyExpired` added to
  `MC_ConnectionTable.cfg` (whose clock steps back), TLC finds it violated: a record
  registered at time 1, the clock steps back to 0, and on the next sweep
  `duration_since` fails and `map_or(false)` drops the record of a running
  connection. Spec §4.3 says only entries older than the window are removed.
  With a forward clock the property only restates the retain closure, so no
  passing run checks it.

## 5. Not modelled, and why

- **Haversine distance.** `calculate_distance` is floating point; the model
  uses the `Distance` table of rounded results. The distance properties of §8
  (symmetry, identity) are properties of floating-point code that TLC cannot
  evaluate. A City record with only one of its coordinates resolves to a
  point with the other at 0; the database of the runs has none, since §4.1
  does not say what such a record should give.
- **Floating-point scores.** A score that overflows to infinity compares
  equal to another infinite score; in the model that is a tie, which the
  tie-break run covers. NaN cannot arrive through `serde_json`.
- **What a reset overlapping a call leaves.** `QuiescentAccounted` bounds
  the counters after such a reset but does not claim they are exact, because
  they are not (a straddling call can be in `total` and in neither
  `successful` nor `failed`). Spec §3 says reset is not exposed in the
  sidecar, so this is the contract of a library function, not a finding.
- **`hlc_free`** and the raw-pointer C wrappers: memory management, no
  behaviour TLC can check.
- **Unused accessors** `get_replica_count`, `get_healthy_replica_count`,
  `get_leader_count`: read-only and never called.
- **JSON encoding.** `serde_json` text is abstracted to its length; the
  length prefix and both writes are modelled.
- **A stalled peer** (`main.rs:283`). `read_exact` has no timeout, and
  `ReadBody` waits forever for a body the peer never finishes. No property
  claims the connection ends: spec §5 carries this as a known weakness.
- **An update answered by a failed write** (`main.rs:305`). It stays applied
  and counted; the spec asks nothing else, so only the peer's side
  (`ResponsesRoundTrip`) is checked.
- **Argument parsing, tracing and lib.rs re-exports.** `Sidecar` models the
  rest of the bootstrap (`run`, the binds, `main` returning).

## 6. Plan

1. **Done:** `RoutingTableSpec`, `RoutingEngine` with refinement and lock
   liveness.
2. **Done:** `Metrics`, covering the CAS loops and the snapshot.
3. **Done:** the tie-break violation run.
4. **Done:** `ConnectionTable`, covering admission, ids, removal and the sweep
   with a clock that may step back.
5. **Done:** `ConnectionLoop`, covering framing at the 1 MiB boundary with
   real big-endian headers, error responses and a peer that hangs up.
6. **Done:** `HLC`, covering `now`/`update` by concurrent threads, clock
   regressions and u64 wrap.
7. **Done (part):** `Sidecar`, composing `ConnectionTable` with `run()`'s
   `select!`, binds, accept errors and the pre-epoch panic. **Next:** add
   `ConnectionLoop` instances per connection.
8. **Done:** `HLCSpec` and the refinement of the single-threaded `HLC`.
9. **Done:** `GeoResolver` (`new`, `resolve` with every fallback), feeding the
   routing engine, with §4.1 in `RoutingTableSpec`.
10. **Done:** `reset` in `Metrics`, and the response side of the frame codec
    in `ConnectionLoop`.
