# TLA+ models of g3proxy

This directory holds TLA+ models of the parts of g3proxy (`src/`) whose
behaviour depends on interleavings, timers, counters or the order of
configuration keys. The models are checked with TLC. `PROJECT.json` lists
every component, run, mutant, finding and hazard. Its `map` names the
source lines each definition translates.

## The system and its parts

| Part | Source | What it does |
|---|---|---|
| proxy_http escaper, HTTP CONNECT | `src/g3proxy/src/escape/proxy_http/http_connect/mod.rs` | Dials the next proxy, sends `CONNECT`, reads the response through a `BufReader`. On 2xx it either hands back a TCP tunnel (crediting the bytes already buffered) or runs an origin TLS handshake over it under its own timer. |
| proxy_float https peer, HTTP CONNECT | `src/g3proxy/src/escape/proxy_float/peer/https/http_connect/mod.rs` | Does the same, but first runs a TLS handshake with the proxy. It counts tunnel bytes with a `LimitedReader` *above* the `BufReader`. |
| Server stats emission | `src/g3proxy/src/stat/metrics/server.rs` | The stat thread alternates `sync_stats` (register live servers with a zero snapshot) and `emit_stats` (send `wrapping_sub` deltas, some groups gated on a key counter, then drop entries whose `Arc::strong_count` is 1). Worker tasks hold clones of the stats `Arc` and bump its atomic counters at any time. |
| Log config | `src/lib/g3-daemon/src/log/config.rs` | Parses a driver name, a YAML string or a YAML map (driver, channel size, thread number, io-error sampling offset) into a `LogConfig`, then builds the logger's drain from it. |
| Unaided runtime config | `src/lib/g3-runtime/src/unaided/yaml.rs` | Folds YAML keys into the worker-runtime config, then applies the mapped CPU affinity if asked. |
| Plain QUIC port config | `src/g3proxy/src/config/server/plain_quic_port.rs` | Parses and checks the port's config. On reload, `diff_action` says: no action, update in place with LISTEN/QUINN flags, or spawn new. |
| g3bench h3 options | `src/g3bench/src/target/h3/opts.rs` | Declares the h3 target's arguments (clap), parses them into `BenchH3Args`, and builds QUIC/H3 connections. |
| proxy_https escaper stats, IP-locate config, rustls ext, msgpack/geoip values, g3tiles `build.rs` | various | Counter forwarding, setters, string conversions, build-time checks. |

How the parts interact:

- **The escapers.** The task's future races tokio timers. The peer may
  pipeline tunnel bytes behind the `CONNECT` response. The caller reads
  through layered wrappers that charge bytes to per-task and per-user
  sinks.
- **The stats emitter.** It runs on its own thread, concurrently with every
  worker task.
- **The config parsers.** They run at start-up and on reload. A reload
  compares the running config with the new one and acts on the result.

## Modules

Each model has a main module and an `MC_` module that extends it for TLC.
Their actions follow the code's control flow. Each action is one await,
one call of a callback, or one handler. Data is abstracted to what the
properties tell apart.

### `HttpConnectEscaper` (and `MC_HttpConnectEscaper`)

One HTTP CONNECT attempt. The CONSTANT `Setups` is the set of
<<escaper, entry point>> pairs to explore. The escaper is `ProxyHttp` or
`ProxyFloatHttps`. The entry point is `tcp` for `*_tcp_connect_to` or `tls`
for `*_tls_connect_to`.

The variables are:

- `variant` and `flow`: the escaper and the entry point.
- `phase`: the await the future is suspended at.
- `now`, `dialDoneAt` and `hsStart`: an integer clock and the timer starts.
- `err`: the returned `TcpConnectError`.
- `logged`: `EscapeLogForTlsHandshake` records.
- `rbuf`: residual bytes in the `BufReader`.
- `sock`: bytes in flight on the socket.
- `sent`: bytes the far end has written into the tunnel.
- `delivered`: bytes handed to the caller.
- `taskRead`: the task read sink. The user sinks get the same updates.

The actions are:

1. **Dial.** `DialConnected`, `DialRefused` and `DialTimedOut`.
2. **Proxy TLS leg** (float only). `PeerTlsDone`, `PeerTlsFailed` and
   `PeerTlsTimedOut`. The leg has its own handshake timer, armed when the
   dial completes (spec §4.F flow 4: each TLS layer carries its own
   timeout). The model gives it the same `HandshakeTimeout` as the origin
   leg.
3. **Request.** `RequestSent` and `RequestWriteFailed`.
4. **Response.** `ResponseFailed(e)`.
5. **Negotiation timer.** `NegotiationTimedOut`. It is the
   `tokio::time::timeout` around the whole of
   `http_connect_tcp_connect_to`.
6. **After a 2xx response.**
   - `TcpTunnelReady(r)`: the residual `r` is credited once, the wrapper is
     reset, and the stream is split.
   - `TlsHandshakeStarted(r)`: `into_inner()`, then the handshake timer
     starts.
   - `TlsClientBuildFailed`: the TLS client cannot be built.
7. **Origin handshake.** `HandshakeDone`, `HandshakeFailed` and
   `HandshakeTimedOut`. The last two write the log record.
   `HandshakeTimedOut` is the `Err(_)` arm of the `tokio::time::timeout`
   match.
8. **Relay.** `FarEndSends`, `ReadBuffered`, `ReadSocket` and
   `CallerCloses`.
9. **Cancellation.** `Cancel`: the future is dropped at any await.

`Charge` chooses among `HttpTunnelCharge`, `FloatTunnelCharge` and
`TlsTunnelCharge`. These three operators are where the two escapers differ.

The dial internals, the proxy TLS handshake, the relay and cancellation are
outside `src/`. They are modelled from the spec and marked `spec_modelled`.

### `EgressCall`: what an egress call promises

An abstract specification of one call of the egress API (spec §6, §4.E,
§8.2, §8.3, §8.5). Its variables are `status` (pending, tunnel, error,
cancelled, closed), `received` (bytes taken off the network), `delivered`
and `charged` (bytes credited to the read sinks). Its actions are
`Return`, `Fail`, `Cancel`, `Transfer` and `Close`. Every step keeps the
counts monotone and `delivered <= charged <= received`: a sink may be
credited ahead of delivery (bytes already buffered), never for a byte
that did not arrive, and no byte reaches the caller uncredited.
`WF_vars(Fail)` says that a call nobody answers is ended by its deadline.

`HttpConnectEscaper` defines `Egress == INSTANCE EgressCall WITH ...`:

- `status` from `phase` (every await is pending; `Relay` is tunnel);
- `received` is `sent - sock` once the tunnel is returned, 0 before;
- `delivered` is `delivered`, `charged` is `taskRead`.

`EgressCallRefined == Egress!Spec` is checked as a PROPERTY. It holds for
the setups of `escaper_pass`. It fails for proxy_float's plain tunnel,
where the double count makes `charged` exceed `received`.

### `ServerStatsEmitter` (and `MC_ServerStatsEmitter`)

One server's entry, the worker tasks and the stat thread. The thread's
`pc` runs sync → emit → check. The actions are:

- `SyncStats`
- `EmitServerStats` (`emit_server_stats` with all of its gated groups)
- `EmitNothing`
- `RetainCheck` (the `strong_count` test)
- `Acquire`, `AddCount` and `Release` (worker tasks)
- `StopServer`

Counters are u64, modelled modulo `Modulus`. The eight counters stand for
the five gate groups: conn, forbidden, tcp io, udp io and untrusted.

`CountsEventuallyEmitted` takes its group keys from `GateKey`, written
apart from the gates of `EmittedFields`. A count may wait only while its
group's key counter and snapshot both read 0 (`KeyIdle`). With out_bytes
bumped before any in_bytes, the count waits and is emitted in full, as
one delta, in the round after in_bytes moves. A gate that tested only the
snapshot would hold the tcp group back forever.

### `LogConfigYaml` (and `MC_LogConfigYaml`)

`LogConfig::parse_yaml` as built on Linux. The variables are:

- `doc`: a driver name (`with_driver_name`), a string, a map of up to
  `MaxEntries` distinct keys, or another YAML type.
- `config`: starts at `new_discard`.
- `pos` and `result`.
- `logger`: the logger built from an accepted config, as a set of at most
  one record (drain, registered, sampling mask).

The actions are:

- `FoldEntry`: one call of the `foreach_kv` closure. `KeyRejected` is its
  error arms and `SetKey` its assignments.
- `FoldDone`, `ParseString` (YAML string or driver name) and
  `ParseOtherType`.
- `BuildLogger`: `build_logger`'s match on the driver (`LoggerOf`). Every
  drain but discard is registered; journal, syslog and fluentd are
  wrapped in `ReportLogIoError` with the sampling mask.

### `UnaidedRuntimeYaml` (and `MC_UnaidedRuntimeYaml`)

`UnaidedRuntimeConfig::parse_yaml`, with the `openssl-async-job` feature.
The actions are:

- `FoldEntry` per key.
- `FoldDone`.
- `Finish`: `set_mapped_sched_affinity` after the fold when a
  `sched_affinity: true` was seen. Whether the host's CPUs can be mapped
  is the environment's choice.
- `ParseNotAMap`.

The setters live outside `src/` and are modelled as field assignments.

### `PlainQuicPortReload` (and `MC_PlainQuicPortReload`)

A running PlainQuicPort server and up to `MaxReloads` reloads. Each reload
is `parse` and `check`, then `diff_action`.

The variables are:

- `cur`: the running config snapshot.
- `bound`, `inWorker` and `quinn`: what the UDP listener and the quinn
  endpoint currently use.

The actions are:

- `ReloadRejected`: `check` fails.
- `ReloadInPlace`: `NoAction` or `UpdateInPlace(flags)`.
- `ReloadOtherType`: `SpawnNew`.

Only the listener-mode question is run (`quic_listen_mode`). It is a
violation run, so the module's `TypeOK` is stated but not checked.

The runtime's reaction to the flags is outside `src/` and is modelled from
the spec's hot-reload note: the snapshot is swapped, LISTEN rebinds the
socket, and QUINN rebuilds the TLS config.

### `H3BenchArgs` (and `MC_H3BenchArgs`)

The h3 target's command line. The actions are:

- `ClapMatch`: the declarations of `add_h3_args`. The uri is required, and
  `connection-pool` conflicts with `no-multiplex`.
- `ParseH3Args`: `parse_h3_args`, with every early return, in one step.
- `ResolveTargetAddress`, `NewQuicConnection`, `NewH3Connection` and
  `BuildPreRequestHeader`: the connection setup, each of whose network
  steps may fail (`NetFail`, exit code 2). `BuildPreRequestHeader` may
  also fail on a value the `Uri` builder or `HeaderValue::from_str`
  refuses (`request_error`). `NewQuicConnection` records
  the arguments of its connect call in `dialled`: the bind address given
  to `Endpoint::client`, the peer, and the TLS server name.

Every combination of argument values is enumerated in `Init`. Addresses
and server names are symbols: `lip` for a given `--local-address`, `any`,
`peer`, and `target` for the URL's host.

## Runs and what they show

| Run | Expect | Checks | Shows |
|---|---|---|---|
| escaper_pass | pass | TypeOK, ReadAccounting, EgressCallRefined | Over proxy_http tcp and tls and proxy_float tls: no attempt is suspended past the sum of its negotiation and handshake timeouts; the task read sink equals the bytes delivered plus those still buffered; every attempt implements `EgressCall` (ordered lifecycle, crediting between delivery and arrival, and resolution under the timers). |
| http_tls_residual | violation | NoTunnelByteLost | Over both origin-TLS flows (proxy_http and proxy_float; each alone violates it too), the TLS flow calls `buf_stream.into_inner()` and the bytes the proxy sent after its 200 are gone (spec §9: "hand the buffered reader to the TLS engine without unwrapping"). |
| float_tcp_accounting | violation | ReadAccounting | proxy_float credits the residual, then counts it again through the `LimitedReader` above the `BufReader`. |
| http_negotiation_budget | violation | NegotiationHasOwnBudget | The negotiation timeout also covers the dial: a 2-tick dial leaves the CONNECT exchange 1 tick of its 3. |
| stats_pass | pass | TypeOK, EmittedConsistent, CountsEventuallyEmitted, EntryEventuallyDropped | StatsD never receives more than was counted, and deltas sum to the counter modulo 2^64 across wrap-around. Every pending count, conn, in_bytes and out_bytes alike, is eventually emitted; the only wait allowed is the early return of its group while the key counter (in_bytes for the tcp group) reads 0 against a 0 snapshot. A dead entry is eventually dropped. |
| stats_final_race | violation | FinalMetricsEmitted | Emit, then the last task bumps a counter and drops its clone, then the `strong_count` test drops the entry. The final count is never sent, although the comment says "we should emit the final metrics before drop it". |
| log_pass | pass | TypeOK, MapParsedAsWritten | A map is accepted iff every key and value is. The result is then the last-key-wins reading with aliases, checked against a declarative reference built on `SelectLastInSeq`. The logger built from it samples io errors with that mask exactly for the drains a map can select. |
| unaided_pass | pass | TypeOK, AffinityAsWritten | The mapped affinity is applied exactly when the document's `sched_affinity` is `true`, whatever the key order. |
| unaided_job_size | violation | UsizeKeysAsWritten | `openssl_async_job_max_size` sets the init size. The max size is never set. |
| quic_listen_mode | violation | ListenModeMatchesConfig | A reload that flips only `listen_in_worker` gets `UpdateInPlace(0)` from `diff_action`. The snapshot is swapped, but a runtime that acts on the flags keeps the listener in its old mode (spec §9: the diff is a bitmask of what changed). |
| h3_pass | pass | TypeOK, ArgsDecideExit | A run ends with an argument error exactly when its command line is one the spec refuses (a non-http(s) or hostless URL, a bad duration, a pool with no-multiplex, spec S6), and nothing is dialled for such a line; every connection-setup step, and each of its failures, is reached. |
| h3_quic_dial | violation | QuicDialAsConfigured | `new_quic_connection` calls `Endpoint::client(peer)`, binding the local socket to the target's address, never reads `--local-address`, and passes `""` as the TLS server name (spec §6: local-address is the bind IP; §4.F flow 3: SNI is the host). |

Each property of a passing run has a mutant in `PROJECT.json`: a plausible
bug in a mapped definition, which TLC then reports. Examples:

- a residual credit dropped
- a saturating instead of wrapping delta
- an off-by-one `strong_count` test
- a missing snapshot update
- a timer polled one tick late
- a copy-pasted `thread_number` arm
- a dropped `conflicts_with`

Some properties are stated in the modules but are not in the runs:

- `SamplingOffsetBelowMax` (LogConfigYaml). An offset of 16 is accepted,
  although the error text says "less than 16".
- `PoolArgPositive` (H3BenchArgs). `--connection-pool 0` is accepted and
  means no pool, although the spec says the value is positive.

TLC finds `PoolArgPositive` violated under `h3_pass.cfg`'s constants, and
`SamplingOffsetBelowMax` with an offset of 16 in `Nums`. Both are recorded
as hazards. `log_pass` keeps offsets off 16, so that `MapParsedAsWritten`
does not take sides between the code's bound and its error text.

### Bounds

Escapers:

| Bound | Value | Why |
|---|---|---|
| `ConnectTimeout` | 2 | A dial may outlast one tick. |
| `NegotiationTimeout` | 3 | More than `ConnectTimeout`, so either timer can be the one that fires. |
| `HandshakeTimeout` | 2 | The handshake timer can race a completion. |
| `MaxResidual` | 2 | A residual of 0, 1 or 2 bytes. |
| `MaxBytes` | 3 | The far end sends after the header. |
| `MaxRead` | 2 | Reads can split. |

Stats:

| Bound | Value | Why |
|---|---|---|
| `Modulus` | 4 | A counter wraps between two emissions. |
| `MaxTotal` | 4 (5 for `stats_final_race`) | Enough added to one counter for a wrap, to 0 exactly; with conn, in and out bumped this keeps the run under a minute. |
| `MaxAdd` | 2 | At most 2 added per step. |
| Workers | 2 | One task can hold the stats while the other releases them. |
| `AddFields` | conn, in, out (conn for `stats_final_race`) | An always-emitted counter, a gate key and a gated counter: out can be bumped while in is still 0. |

Config parsers:

| Bound | Value | Why |
|---|---|---|
| Keys per document | up to 3 | Every pair of keys, aliases included, appears in both orders with a third key. |
| Log offsets and sizes | 1, 17 | Below and above the bound. 16 is left out: the code accepts it, its error text refuses it. |
| Quic port values | two per field | Each field can change on a reload. |
| Pool sizes | 0 and 8 (8 for `h3_quic_dial`) | The zero case and a positive one. |

The mutants show that these bounds are enough to break each property.

### Fairness

Tokio timers fire, so `Tick`, `DialTimedOut`, `PeerTlsTimedOut`,
`NegotiationTimedOut` and `HandshakeTimedOut` are weakly fair. The peer, the proxy and the caller get
no fairness, because they may stall.

The stat thread is a dedicated interval loop, so its four actions are
weakly fair. Workers and the server are free to stop.

The parsers and the reload model check only invariants. Their cfgs set
CHECK_DEADLOCK FALSE, because parsing returns and the reload budget ends.
The escaper cfgs also set it, because an attempt that returns an error or
closes has nothing left to do.

No run that checks liveness uses SYMMETRY.

## Plan

Done: `HttpConnectEscaper` with its abstraction `EgressCall` and the
refinement, `ServerStatsEmitter`, `LogConfigYaml` (with `build_logger`),
`UnaidedRuntimeYaml`, `PlainQuicPortReload` and `H3BenchArgs` (with the
connection setup).

Open questions, in order:

1. **The sync gap in `ServerStatsEmitter`** (`server.rs:67`). A server
   started and stopped between two `sync_stats` calls never enters
   `SERVER_STATS_MAP`, so its counts are never emitted. The model already
   reaches this trace, since `StopServer` may precede the first `SyncStats`.
   A property that no added count is lost when the stats are freed is
   violated first by this trace, and so it would hide the final race that
   `stats_final_race` shows. It needs a question of its own.
2. **Several servers**, with the listen stats map as a second map.
3. **The write-side accounting of the escapers**, and several tasks sharing
   one user sink.
4. **An abstract last-key-wins parser** that `LogConfigYaml`,
   `UnaidedRuntimeYaml` and the geoip `as_ip_location` fold all refine.

## Not modelled

- Byte copying, socket I/O, the TLS state machines and the StatsD wire
  format. Only the outcomes the control flow sees are modelled.
- The text of log records and error messages. Only their count, or the
  error/ok outcome, matters to a property.
- These parts have no state or control worth checking:
  - `build.rs`
  - the msgpack and geoip string conversions
- The geoip `as_ip_location` map parser. It is a `foreach_kv` fold with
  the same control as `LogConfigYaml` (last key wins, first error
  aborts), and its result is decided by `IpLocationBuilder::build`, which
  is outside `src/`. A model of it would repeat `LogConfigYaml` with other
  key names.
  - the IP-locate config setters
  - the proxy_https escaper stats forwarding
- The rustls `set_session_cache` / `set_session_ticketer` setters
  (`lib/g3-types/src/net/rustls/ext.rs`). Each is a single assignment;
  the hazard is a sequence of calls (disabling tickets sets
  `send_tls13_tickets = 0`, and enabling them again does not restore it),
  but the builders that call them are outside `src/`, so which sequences
  occur cannot be read from this repository.
