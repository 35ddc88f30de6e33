# Verification of tobira

tobira is a VMess relay daemon. Clients connect over TCP or gRPC, the daemon
reads the 16-byte VMess auth ID, finds the subscription node whose UUID made it,
and forwards the untouched bytes to that node, over TCP or over a pooled HTTP/2
connection. Nodes come from subscriptions that are fetched, cached, processed and
reloaded while relays run. An HTTP server hands out the node list as links.

This directory holds TLA+ modules for the parts of the daemon whose steps can go
wrong, TLC configurations for small instances, and TLAPS proofs for every value of
the constants. `PROJECT.json` lists components, runs, mutants, hazards, theorems
and, for every definition, the source lines it stands for. Paths below are
relative to `src/src/`.

## 1. The system and its parts

| Part | Code | State | Operations | What is hard | Module |
|---|---|---|---|---|---|
| gRPC pool | `relay/transport/grpc.rs` 24-299 | map endpoint -> slot, slot mutex, cached connection, last use | get_or_create, evict, prune_to_endpoints, prune_idle, driver clean-up | mutex held across a handshake, slots removed while held, late drivers | `GrpcPool` |
| Daemon | `main.rs` | shared config, relay settings, validator, HTTP state, two reload channels, quit flag | start, reload_full, reload_subs, watch_file, timer, SIGUSR1, shutdown | reloads against edits and quit, partial failure | `Daemon`, `Published` |
| Subscription manager | `subscription/manager.rs` | cache file, node lists | fetch, load and save cache, reload, build_validator | failure of one source, crash while saving, fall-back | `Subscription` |
| Processing | `subscription/process.rs` | none | pipeline steps, deduplicate_nodes | steps in order, names that collide | `Process`, `Processing` |
| Validator | `vmess/validator.rs`, `vmess/auth.rs` | routing table | new, match_auth_id | duplicates, time window | `Validator` |
| Relays | `relay/core.rs`, `relay/outbound/`, `relay/activity.rs`, fast path of `relay/inbound/grpc.rs` | two pumps or one copy, response headers, activity clock | handle_stream, relay_tcp, relay_grpc, wait_grpc_relay, relay_grpc_to_grpc_fast | half-close, idle reaping, eviction, deadlines | `Relay` |
| gRPC inbound to TCP | `relay/inbound/grpc.rs`, `relay/outbound/tcp.rs` | three tasks, two duplex pipes | read_initial_auth, relay_grpc_via_core, relay_tcp | cascaded selects and aborts | `CoreRelay` |
| gRPC framing | `relay/transport/grpc.rs` 324-539 | reassembly buffer | encode, decode, GrpcFrameReader | frames cut anywhere | `GrpcFraming` |
| Buffer pool | `buf.rs` | free lists per size class | get, put | capacity changes in use | `BufPool` |
| HTTP server | `http/server.rs` | rendered state | authenticate, route, render | reload during a request | `HttpServer`, `Links` |
| Parser | `subscription/parser.rs` | none | three link formats | keys that differ by format | `Links` |
| Config | `config.rs` | none | load | defaults | partly: `Daemon` |
| Glue | `tls.rs`, `error.rs`, `relay/runtime.rs`, `mod.rs` files | none | - | - | - |

How they meet: main builds validator, pool and HTTP state and starts the listeners
(`Daemon`). A full reload reads the file, has the subscriptions fetched
(`Subscription`, which uses `Process` and `Validator`), replaces the settings and the
validator, prunes the pool (`GrpcPool`'s reload task) and replaces the HTTP state
(`HttpServer!Reload`, which renders with `Process`). An accepted connection looks the
validator up, and either takes a connection from the pool and runs a gRPC relay
(`Relay`), or runs a TCP relay (`Relay`, or `CoreRelay` when the client speaks gRPC). Frames are those of `GrpcFraming`, buffers those of
`BufPool`.

What each part has to get right, in words:

- pool: one handshake per slot at a time, connections of the right endpoint, dead
  connections leave, nothing in use is closed, everyone who waits is served;
- daemon: what is in force stems from one configuration, links name the listener that
  is bound, nodes are accepted before they are handed out, every edit is read, the
  process ends when told;
- subscriptions: a failing source keeps its nodes, every node handed out is routed to
  itself;
- relays: bytes in order and complete, ends passed on last, no task left behind, only
  idle relays reaped;
- buffers: no task finds another one's bytes in a buffer;
- framing: what is written is read, however it was cut;
- HTTP: one configuration per answer, only what the user may see, links that the
  parser reads back.

## 2. Modules

Conventions: an action is a whole handler or, where the code awaits, the piece
between two awaits. Definitions marked `(mutant)` are wrong variants of the definition
that follows them; the specifications do not use them. They record which mistake each
property would notice.

### GrpcPool

`conns` is the DashMap, `cached` and `lastUsed` the contents of a slot's mutex, `lock`
the queue of tasks at that mutex (tokio's mutex is FIFO; the head holds it, `try_lock`
needs the empty queue). A slot outlives its map entry, as an Arc does. Tasks are the
relays, one driver per connection, the reload and the idle pruner; `pc`, `slot`, `key`,
`using`, `retried` are their locals. `Lookup`, `AskLock`, `Reuse`, `Dial`, `DialOk`,
`DialErr` are get_or_create; `ReadyOk`, `ReadyErr`, `ReadyErrAgain`, `Evict` are
open_grpc_tunnel with its retry; `DriverWakes`, `DriverClear` the driver;
`PruneScan` to `PruneDone` prune_to_endpoints; `IdleScan` to `IdleDone` prune_idle.
`madeFor` and `dialled` are history.

### Daemon and Published

A configuration has a listener part, a timer flag and a body; a node list is the body
it was fetched for and the number of the fetch. main's `pc` walks through the awaits of
both reloads, so other tasks see every intermediate state. Edits, other events in the
directory, signals and timer ticks come without limit, only the queue they wait in is
bounded; after `MaxFetches` fetches the further ones fail. `Published` is the abstract
promise: a node list is accepted, then served, and is then replaced by a newer one;
links name the bound listener. `Publishes` maps the daemon's variables to it.

### Subscription, Process, Validator

`Subscription` runs reload after reload: `Start` (load_cache, if the configuration names
a cache file: `path`), `FetchOk`/`FetchErr` per source, `NotSaved` (no cache file, or it
cannot be opened) or `Truncate` and `Save`/`SaveErr` (fs::write truncates first), `Merge`,
then `BuildErr`, or `ComeUp` of a starting daemon, or `WriteValidator` and `WriteHttp` of a
running one, which awaits the prune of the pool between the two writes; and `Crash`, which
leaves only the file. `fetched` (the
sources this reload has fetched), `lastGood` (the nodes each source last saved) and `lost`
are history. `Process` has the pipeline
and the deduplication as operators; a pattern is the set of texts it matches, or does
not compile. `Processing` calls apply_pipeline on a list of nodes and deduplicate_nodes on
its result, and states what both must return. `Validator` builds the routing table and looks an auth ID up: a UUID is a
text with the key it parses to, and an auth ID matches the entries with its key. The URI
of a gRPC endpoint may be refused for its SNI or its service name (`Refused`).

### Relay

One connection, in three shapes: `tcp` (relay_tcp), `raw` (relay_grpc) and `fast`
(relay_grpc_to_grpc_fast). The relay's `pc` walks through handle_stream: auth ID or its
deadline, drain of an unknown one, connect and send, response headers, relay, reaping.
Each direction has a pump (`task`): in a gRPC relay it reads pieces up to the end of a
frame and sends them, in a TCP relay it copies through a buffer. The sources and sinks
may end, reset or fail at any time, and so may the upstream's HTTP/2 connection (`conn`)
and, in the fast relay, the client's (`ended` is "broken"). `idle` is the clock RelayActivity keeps, `quiet` the
time since anything really moved; both stop at the timeout.

### CoreRelay

A gRPC request for a TCP upstream: decode task, relay task, and the encode loop in the
handler, connected by two bounded pipes; every branch of the two selects is an action.
The auth ID is the first `Auth` pieces, cut into frames in every way. The idle timeout
of relay_tcp is one of the errors that may happen at any time.

### GrpcFraming

A byte is below `2 * Cont`: a digit below `Cont` and the continuation bit. `Cont` is 128 in
the code and 2 in the run, so that varints of several bytes appear at small lengths.
Writers encode messages; DATA chunks of every size arrive; the reader reassembles and
decodes.

### BufPool

Free lists per size class. A buffer is the capacity it has left and whose bytes are in it.
Its user fills it, splits frames off its front (split_to takes the capacity along), lets it
grow, and gives it back, cleared (GrpcFrameReader) or not (raw_to_grpc, drain_and_close). The
allocation behind a buffer, which a split leaves alive, is left out.

### HttpServer and Links

Rendering with `Process`, authentication, routing and answers; a request copies the
state and answers from the copy while reloads go on. Requests do not affect each other,
so there is one. `Links` has the three builders of `http/server.rs` and the parser of
`subscription/parser.rs` as operators on what Url::parse sees. Names are sequences of
characters, because the formats escape them differently; the other texts are words. The
`insecure` mark of the v2rayN format is left out, since the parser does not read it.

## 3. Runs

All runs finish within two minutes on two cores.

| Run | Instance | What it shows |
|---|---|---|
| `pool_safe` | 2 relays, 2 endpoints, 2 slots, 2 connections | right endpoint, one handshake per slot, a driver for every cached connection, late drivers and pruning touch only what is theirs |
| `pool_live` | 2 relays, 1 endpoint, fair scheduling | dead connections leave the pool; nobody waits for a slot for ever |
| `pool_idle` | as before, with a clock of 2 ticks | idle pruning spares what was used within the timeout |
| `pool_orphan` | 1 relay, 1 endpoint; a violation is expected | see section 6 |
| `daemon` | 2 configurations, 2 fetches, channels of 1, 1 queued event; edits, signals and ticks without limit, fair scheduling | settings, validator and HTTP state agree between reloads; refinement of `Published`; edits are read, the process ends, refetches happen |
| `subs` | 2 sources, 4 reloads with or without a cache file, 1 crash, torn writes | fall-back of failing sources; every served node is routed to itself |
| `process` | all lists of up to 3 nodes (deduplication) or 2 (pairs of steps) | deduplication against a reference definition; steps keep the order, change only what they may, and leave unselected nodes alone |
| `relay` | 3 modes, frames of 2 pieces, 3 pieces each way, timeout of 1 tick | ends last, no task left, half-close, reaping, every connection ends |
| `core` | auth ID of 2 pieces, 6-piece request, 2-piece response, pipes of 1 | upload and response complete, no task left, half-close, the handler returns |
| `framing` | 2 messages of 7 kinds, chunks of up to 8 bytes, end anywhere | reassembly, promptness, reading to the end |
| `buf` | 2 users, 2 classes of 2 buffers, capacities up to 3 | no task finds another one's bytes in its buffer |
| `http` | 4 configurations, 64 requests | one configuration per answer, only what is granted, links read back |

Why the bounds are enough for the cases that matter:

- pool: two relays and one further task suffice for a held lock with a waiter behind it;
  two slots and connections, for an endpoint that is removed and comes back;
- daemon: channels of capacity 1 fill at once; with two fetches a reload replaces the node
  list the daemon started with, and any number of later reloads fail at their fetch; while
  the watcher is blocked on a full channel one more event waits behind the one it has taken.
  The safety properties are proved for all of these bounds;
- subscriptions: a fetch, a failure, a crash and another failure are four reloads;
- buffers: capacity 3 lies above both classes, and a buffer of 2 that lost one piece falls
  into the smaller class;
- relay: three pieces are a frame and half of the next; a timeout of one tick already
  tells a mark from none, because movement and time interleave in every way;
- core: with a two-piece auth ID in frames of one or two pieces every cut occurs, and six
  pieces fill pipe and buffers with some left over;
- framing: with two-bit bytes, payloads of 0, 1, 2, 6 and 10 bytes need varints of one to
  four bytes; one payload looks like a frame, one frame exceeds the limit. Two messages
  are enough for a chunk that spans frames.

Deadlock is checked in the pool and the buffer pool. Elsewhere the system may stop: the
daemon ends, a connection closes, the bound of reloads is reached.

Every property has a mutant: a wrong variant of a definition under which TLC finds the
property violated on the same instance.

## 4. Fairness

- `pool_live`: each task that can move moves (tokio polls tasks that are ready, its
  mutex is FIFO), and connect_h2 ends within its three timeouts. New relays, deaths of
  connections and reloads need not happen.
- `daemon`: main, watcher, timer and signal tasks are polled; fetches end, because the
  HTTP client has timeouts. Edits, signals and quit need not happen, and they may happen
  for ever. What that can starve is stated in the properties: `ProcessEnds` promises the end
  of the watcher's thread only when the directory falls quiet at last, because watch_file
  looks at its quit channel after 200 ms without an event (`main.rs` 514-546), and
  `RefetchHappens` serves a timer message only when full reloads do not keep coming, because
  the select is biased (`main.rs` 107); those reloads fetch too, unless reading the file
  fails for ever.
- `relay`: pumps and the relay are polled when they can move, deadlines pass, time goes
  on. Nothing is assumed of the two sides, but each writes at most `MaxPieces`: a relay
  whose sides write for ever goes on for ever, as it should. So `RelayEnds` excepts the two waits that have
  no deadline in the code: for a stream and for the response headers of a gRPC upstream.
- `core`: the three tasks and the handler are polled, and the client reads what it is
  sent or goes away, and a connection attempt ends; the upstream need not answer. The
  request and the response are finite (`CoreRelay.cfg`).
- `framing`: the reader is polled; the stream is finite.

Liveness is model-checked only; TLAPS does not do fairness.

## 5. Proofs

Eight modules hold theorems. They hold for all values of the constants that satisfy the
named assumptions of the component's module, which say that bounds are natural numbers,
sets are of the right kind, size classes ascend up to `MaxCap`, and the lengths in frame
headers fit their field (`FramingAssumption`). `HttpAssumption` says what the types and the
parser of the code guarantee: nodes have a UUID, a natural alter_id and one of the three
packet encodings (build_node), ports are of 16 bits, the network is TCP or gRPC, a renaming
rule turns names into names, and Url::parse refuses the empty host. `EveryAssumption` says
that the value for "no output named" is not a name. `CasesAssumption` says
that nodes and steps come in lists.

**Pool** (`GrpcPoolLocks` for types and lock queues, `GrpcPoolProofs` for the rest). The properties are not inductive: that a cached connection belongs to
the slot's endpoint depends on who may write a slot, hence on who holds its lock, hence on
where each task stands in each queue. The invariant is
`IInv == TypeOK /\ LockInv /\ SlotInv /\ KeyInv /\ ConnInv /\ SnapshotCurrent`. `LockInv`:
a task is in exactly the queue its state says, once, and at the head where it acts;
`SlotInv`, `KeyInv`: slots and map entries stay with the endpoint they were made for;
`ConnInv`: every connection in a slot was dialled there and has a driver that has not
cleaned up. From it follow `OneHandshakePerSlot`, `DriversGuardTheCache`,
`RelaysReachTheirEndpoint`, `SnapshotStaysCurrent`, and the action properties
`DriversClearTheirOwn` and, with `TimeInv` (no reading of the clock is later than the
clock), `IdlePruningSparesUsed`.

**Daemon** (`DaemonProofs`).
`IInv == TypeOK /\ LocalsCurrent /\ ListsOrdered /\ ListenerKept /\ InForce`: the locals of a
reload that is under way are what it read, node lists grow newer in the order fetched,
accepted, served, and what is in force stems from the configuration in memory except for
the writes the reload has yet to do. It gives `ListenerStays`, `AcceptedBeforeServed`,
`ReloadsSettle`, `SubsReloadsChangeNodesOnly`, and `ImplementsPublished`: Init maps to
`Published`'s Init and every step to a step or a stutter.

**Relay** (`RelayProofs`).
`IInv == TypeOK /\ Flow /\ Phase /\ Kind /\ Clock /\ EndComesLast`. `Flow`
says what a pump's state means for its counters: one that reads has only a begun frame in
hand, so that an end it passes on comes last. `Phase` says which pumps a phase has, so
that ending a relay ends them. `Kind`: only relay_tcp copies. `Clock`: unless a frame is
under way, the activity clock is no later than the last movement, which makes
reaping by that clock right. It gives `NoTaskOutlivesItsRelay`, `EndsComeLast`,
`HalfClosesAreRespected` and `ReapingSparesTheActive`.

**Buffer pool** (at the end of `RelayProofs`). `BufTypeOK /\ OwnBytes` is inductive: a free
buffer may hold anyone's bytes, get empties it or allocates (`BufferFacts`, `PopFacts`), and
what a user does to its own buffer leaves the others alone (`Replaced`). It gives
`BuffersAreClean`.

**CoreRelay** (`CoreRelayProofs`). The invariant accounts for every piece: what the client
sent is, in order, what the decode task holds, the pipe, the relay's buffer and what the
upstream got, and likewise for the response; and it says which ends may be seen before
which. It gives `UploadsAreIntact`, `UploadsEndComplete` (an upload that ends in order has
arrived whole), `ResponsesAreComplete` and `NoTaskOutlivesTheHandler`.

**Subscriptions** (`SubscriptionProofs`). `IInv` follows the nodes a source last
saved (`lastGood`) through the cache file, the copy a reload works on and new_source_map
(`DiskHas`, `CacheHas`, `NewHas`; `NodesTagged`: with the source's name in them), and says
that the routing table in force was built from the list that is served or, between the two
writes of a reload, from the one that is about to be (`TableServed`, `Installed`). It gives
`FallbacksAreComplete` and `ServedNodesAreReachable`. What the pipeline and the
deduplication compute is left open: the theorems hold whatever they return.

**Framing** (`GrpcFramingProofs`). Two facts about the format: `ReadBack`, read_varint of
what write_varint wrote gives the number and the number of bytes, whatever follows; and
`FrameFacts`, an encoded frame has the length its header says and decodes to its payload.
`IInv` says that there is a number of delivered messages such that the frames of the others
are exactly what the peer has on the wire, what is in the reader's buffer, and what the
peer cut off. It gives `TypeCorrect`, `StreamsAreReassembled` (what is delivered is a
beginning of what was sent, however it was cut) and `WholeFramesAreDelivered`. Induction on
lengths is by least members of sets of numbers (`LeastMember`, `Induction`), because the
library's induction theorems take an operator.

**Node processing** (first half of `HttpServerProofs`). The facts are about what the loops of
`subscription/process.rs` compute for lists of any length; each is by induction on the
position the loop has reached, again by least members. `PickFacts` says what a filter
returns: the chosen positions in ascending order. `PipelinesAreFaithful` is about
apply_pipeline, by induction on the steps. For deduplicate_nodes, `BestFacts` says that the
scan with a strict comparison ends at the first of the best, `KeptWins` and `OneWinner` that
the index it keeps is the one that wins over all others of its name, and
`DedupRenameFacts` that the counter of a name is the number of earlier nodes with that
name. Together they are `DedupKeepsTheWinners`. `ProcInv` (the results are those of the calls,
by stage) turns them into the invariants of the run: `PipelinesSpareTheUnselected` and
`DedupIsTheReference`.

**Links** (`HttpServerProofs`). `DecodingUndoesEncoding`: query_pairs undoes
percent_encode_query_component, for names of any length. One lemma per format
(`V2raynReads`, `StandardReads`, `ShadowrocketReads`) follows each field from the builder
through its key to the parser; together they are `LinkReads`, for every node, output and
relay. `PipelineMakesNodes` says that a pipeline leaves nodes of the kind the builders
expect.

**HTTP server** (`HttpServerProofs`). `IInv` says that the state
in force is the one rendered by the last reload, that a running daemon has met no host
that no URL can have, and that the copy of a request under way is
that of a reload since it came. It gives `AnswersAreOfOneGeneration`;
`OnlyTheGrantedIsServed` follows from what a single configuration answers (`DispatchFacts`),
that is from authenticate's choice of the first matching entry, the two filters and
flat_map. `NamedOutputsAreServed` has the hypothesis `PlainNames`, because route neither
decodes escapes nor tells an output named like a format from that format.
`LinksAreReadBack` puts `LinkReads` under the list of nodes of every output: it needs the
part of `IInv` about hosts, because a standard link with the empty host is never written.

So every safety invariant and action property that a passing run checks is also a theorem.
Only model-checked: all liveness, because TLAPS does not do fairness, and the violation,
which is a counterexample.

## 6. Findings and known deviations

One run ends in a violation of what a comment of the code says.

`pool_orphan`: prune_to_endpoints removes an endpoint's slot, but a relay
that has already cloned the slot's Arc (`relay/transport/grpc.rs` 68) can lock it
afterwards, dial and cache a connection there that no pruning finds again, although line
106 says "Drop cached connections that are no longer present in the active routing
table."

The following are modelled as the code has them. The properties are stated so that they
allow for them:

- evict does nothing while the slot is locked, and get_or_create does not look whether a
  cached connection is alive, so the one retry of open_grpc_tunnel may meet the
  connection that just failed (`ReadyErrAgain`). `DeadIsCleared` says only that it leaves
  the pool in the end.
- evict goes by endpoint. A relay that found its connection dead may evict after the driver
  has cleared that connection and another relay has dialled a new one, which is alive and
  leaves the pool (`relay/transport/grpc.rs` 96: "Remove a dead connection from the pool.").
  The driver compares ids (line 266), evict cannot. The fast relay's t1 also reads from the
  client's HTTP/2 connection, and when that breaks it evicts the upstream connection, which
  may be up (`relay/inbound/grpc.rs` 256; `Evicts`). In both cases only a handshake is lost:
  the tunnels on the connection go on.
- put files a buffer under the class above the capacity it has left, and get does not look
  at the capacity, so it may return less than "at least `min_size` capacity" (`buf.rs` 56);
  the users extend their buffers, so only an allocation is lost. A buffer that had grown for
  a large frame may go to a small class and keeps its block of memory alive there.
- The HTTP state is written after the validator, with the prune of the pool between them.
  In that time the server still hands out nodes the reload has dropped, which the relay
  no longer routes; `ServedIsAccepted` and `EveryNodeReachable` say what does hold then.
- When the relay of a gRPC client fails, dropping its half of the pipe looks like the end
  of the response to the encode loop, and if the select takes that branch first, a response
  that is cut short ends with a clean END_STREAM (`relay/inbound/grpc.rs` 487).
  `ResponseComplete` speaks of responses whose end the relay has copied.
- Activity is marked per frame of up to 16 MiB, not per piece, so a slow relay in the
  middle of a frame can be reaped (`config.rs` 89: "Relay idle timeout in seconds."). Hence
  the exception in `ReapsOnlyIdle`.
- The wait for response headers has no limit and precedes the idle check. Hence the
  exception in `RelayEnds`.
- The subscription timer keeps the interval the daemon started with (`config.rs` 141: "0 or
  absent disables the timer.").
- The file watch is set up after the first fetch; edits made meanwhile raise no event.
  `EditIsRead` speaks of edits the watch sees.
- fs::write truncates the cache file before it writes. `FallbackComplete` excepts sources
  that a torn write has `lost`.
- A source's own pipeline runs before its name is in the nodes, so its filter_source sees
  the empty text (`README.md` 201-206 of the repository shows such a step).
- The duplicate check of Validator::new compares UUIDs as text, routing compares keys
  (`vmess/validator.rs` 52: "Returns `Err` if any UUID is duplicated."). `subs` has a UUID
  in two spellings, and `EveryNodeReachable` excepts a node whose key another served node
  spells differently.
- Patterns that do not compile are dropped, and a filter without patterns selects every
  node. The suffix of a repeated name may collide with a name that is there. An IPv6
  address in brackets ranks as a domain.
- route does not decode percent escapes, so an output whose name needs them cannot be
  requested by name; `http` uses names that need none and are no format words.
- A host that no URL can have makes `expect("vmess URL is always valid")`
  (`http/server.rs` 434) end the daemon (`Panics`). The daemon's `up` turns false.
- The parser does not undo the escapes of a fragment: a name with a space comes back
  from a standard link as `a%20b` (`ReadBack`). An output port of 0 is accepted and makes
  every link unreadable.

## 7. Not modelled

- Key derivation, AES and CRC of `vmess/auth.rs`: arithmetic without interleaving; an auth
  ID is the key it was made with and its time.
- The TOML schema and defaults of `config.rs`, TLS set-up, error types and re-exports:
  declarations. What a reload does with a configuration is in `Daemon`.
- Text formats below the level of fields: base64, JSON, HTTP headers, log wording, and
  regular expressions, which are the sets of texts they match.
- Lines of a subscription that are not vmess links or do not decode; the parser skips them.
- The FIN of a socket that is dropped after an error: `EndComesLast` is about the ends that
  are passed on explicitly.
- A mark between the reaper's look at the activity clock and its abort: the two are one
  step, though another thread may mark in between. The window is a few instructions long.
- Lengths near 2^64 in the gun payload: decode_gun_payload's additions
  (`relay/transport/grpc.rs` 388-390) and read_varint's limit of 64 bits (line 350) are
  arithmetic on natural numbers in `GrpcFraming`, whose peers write well-formed frames.
- HTTP/2 flow control beyond "a piece is taken or not", and TLS records: external.
- The accept loops: each starts an independent task per connection.
- The whole daemon as one module: the parts meet through the validator, the pool and the
  HTTP state, which `Daemon` and the reload actions of `GrpcPool` and `HttpServer` replace
  in one step as the code does under its locks; a product of all parts is out of TLC's
  reach.
- The benchmark.
