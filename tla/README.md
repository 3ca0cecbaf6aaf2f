# Falcon: TLA+ models and proofs

Falcon is an in-memory cache server in Rust. This directory holds TLA+ modules
of its core, TLC configurations that check them on small instances, and TLAPS
proofs of the properties that matter most for every value of the parameters.
Line numbers refer to `src/crates/...`; `cache.rs` is
`falcon-storage/src/cache.rs`; `conn.rs`, `codec.rs`, `protocol.rs` and `lib.rs`
are those of `falcon-wire/src`; `server.rs` and `rest/` are in
`falcon-api/src`; `keyspace.rs`, `node.rs`, `resources.rs`, `config.rs` and
`profile.rs` in `falcon-core/src`; `serve.rs`, `client.rs` and `config_cmd.rs`
in `falcon-cli/src`.

## 1. Inventory

| component | state | operations | what makes it correct |
|---|---|---|---|
| Cache shard (`CacheEngine`, cache.rs) | map behind an `RwLock`, `bytes` and `ttl_keys` counts, their lock-free hints, access clock, counters | `insert`, `lookup`, `remove`, `evict_shard`, `reap_shard`, `notify_removed` | reads see the newest live write; counts never drift; the budget is overrun only by writes in flight; the listener hears of each drop once; eviction spares recent keys |
| TTL sweep (`spawn_maintenance`, `reap_some`, `SweepPacer`) | cursor, delay | wake, visit shards, observe | every shard is reached; nothing dead stays for ever; the pace stays within its limits |
| Sizing (resources.rs, `Node::build`, `CacheEngine::with_options`) | none: computed once | detect, auto-size, split among keyspaces and shards | together the caches fit the machine; shards share out a capacity |
| Process lifecycle (`serve`, `shutdown_signal`) | how far startup is, readiness, broadcast channel | start servers, catch signal, broadcast, drain, exit | a signal ends the process; requests in flight are answered |
| Wire accept loop (lib.rs) | semaphore, listener | bind, acquire, accept, handshake, release | the connection cap is neither exceeded nor leaked; it stops when told |
| Wire connection (conn.rs, codec.rs, protocol.rs) | read buffer, batch, `authed`, remembered keyspace, response buffer | read, decode, dispatch, write | each request is decoded as it was encoded and every request served is answered at its own position, however bytes are cut; nothing passes the gate or the limits; nothing read is left waiting; memory and progress do not depend on what the peer pipelines |
| HTTP server (server.rs) | listener, requests in flight, the layers its settings call for | accept, route, authenticate, limit the body, respond, drain | drains on shutdown; nothing is done or told without the key |
| REST handlers (rest/) | none | translate HTTP to `Keyspace` calls | each request gets the answer to itself |
| Keyspace (keyspace.rs) | default TTL | choose `expires_at`, forward | an entry dies exactly when its writer asked: absent, zero and huge TTLs |
| Config and profile (config.rs, profile.rs) | one TOML file, unlocked | load, set, save, build a configuration | no setting takes another's value; a finished save is what the next command finds; the file's mode does not let others read the key |
| Auth, TLS helpers | none | compare a key, load certificates | |
| Command line (config_cmd.rs, client.rs) | none | `config set`, `serve`, one-shot HTTP calls, printing | a client finds the node that read what it read, and carries its key |

Interactions. HTTP handlers and wire connections call `Keyspace`, which calls
`CacheEngine`; calls on different shards share nothing. Each engine has one
maintenance task that sweeps it. The main task, the signal task and the two
servers share a broadcast channel whose messages reach only receivers that
exist when they are sent. The accept loop and its connections share a
semaphore. Nothing is written to disk except the profile, so a crash loses the
cache and nothing else.

What is hard here: stamps, clock readings and size hints taken outside the
lock and used under it; the budget enforced after the lock has been released;
four paths that may drop one dead entry; the gap between subscribing and
sending at startup; permits held across handshakes and errors; a batch that
stops in the middle of what has been read; frames that end anywhere in a read;
two ends of a connection that each wait for the other to make room; a file that
several commands rewrite in place. `PROJECT.json` lists these hazards
with their lines and the properties that cover each.

## 2. Modules and their correspondence to the code

**Shard** models one shard. A step is what a thread does between two points
where another thread can see or change shared state: taking a stamp
(`InsertBegin`), a section under the lock (`InsertLocked`, `SlowRemove`,
`Remove`), reading a hint (`EvictHint`, `ReapHint`), one round of eviction
(`EvictRound`), one entry of a sweep (`ReapDrop`), one listener call
(`Notify`). `writer` and `readers` are the `RwLock`, kept from step to step
only where the code holds it over several of the model's steps. The value
bytes are the `id` of the insert that wrote them. The random start of an
eviction window and the hash map's bucket order are a free choice of window.
`MaxRam` bounds the charge of one entry. `calls`, `drops` and `reported` are
history.

**CacheContract** is the abstract specification: a put takes effect once
between call and return, a get answers with the newest put that is neither
deleted, dead nor evicted at one instant of the call, an entry is forgotten
only when dead, or while the cache is over budget and a put that caused it
has not returned. **ShardContract** maps a shard's state to it
(`StoreView`, `AskView`); `ImplementsContract` is the refinement.

**Sweep** models the maintenance task: `Wake` moves the wrapping cursor by
`per_tick`, `Visit` is `reap_shard` on the next shard, `Observe` tells the
pacer. Durations are exact microseconds. Entries die (`Expire`) or are
removed by others (`Disappear`) between any two visits.

**Sizing** models detection of the memory ceiling (`detect_memory_limit`),
`auto_capacity_bytes`, `resolve_capacity`, `shard_count`, and `Node::build` as
a loop with one step per configured keyspace. `claimed` is history: what the
shards of self-sized engines may hold between them.

**Lifecycle** models `serve` up to and past the HTTP server, the signal task,
the broadcast channel, the accept loop of the wire server and the connections,
each peer opening at most one of a kind. A connection may end at any time, also
in the middle of a request (`CloseWire`). Dropping the runtime cuts what is
still running.

**WireConn** models `handle_conn` for one peer: a frame arrives in two pieces,
`Decode` fills the batch, `Drained` decides between reading and dispatching,
`DoAuth`, `DoUnauthorized`, `DoKv` and `DoOther` are the arms of the dispatch
loop, `Write` sends the batch's responses. A single key is enough: the
keyspaces are what the memo can mix up. `Answer` is what position i of the
stream deserves from a server that knows no batches, no memo and no connection
state, and with auth off it follows protocol.rs:24-25, by which AUTH is then
always OK. `AnswersInOrder` compares every response with it, and names the two
places where the code departs: a token refused with auth off
(`RefusedWithAuthOff`, conn.rs:174), and the BadRequest of a malformed frame
that stands where the first request `Dropped` with its batch would have been
answered (conn.rs:125-135).

**Codec** is the wire format as operators on sequences of bytes:
`encode_request`, and what `decode_one` computes from a buffer (`keyspace_len`,
`key_len`, `val_len`, `frame_end`), when it waits for more, refuses
(`Malformed`) or splits off a frame (`Complete`, `Decoded`). `Base` is how many
values a byte has, 256 in the code; nothing else depends on it, so an instance
with two values has lengths that reach the ends of their fields.

**Framing** joins a peer and a connection through two bounded socket buffers.
The peer encodes requests and writes them back to back, and reads the responses
either as it goes or only once it has written everything (`patient`);
`handle_conn` reads any part of what has arrived (`Read`), decodes (`Decode`,
`Refuse`, `Drained`) and writes a batch's responses (`Write`), reading nothing
meanwhile. A response is a number of bytes here, what it says is WireConn's
subject; WireConn in turn takes a frame as one thing that is complete,
incomplete or malformed, which Framing and `RoundTrip` justify.

**Profile** models the profile file and the commands that share it. A save is
four steps (`SetBegins`: load and change; `Truncate` and `Write`: the two halves
of `fs::write`; `MakePrivate`), and other commands run between any two of them.
The text is small enough that one call reads it and one call writes it, so a
reader sees the file empty or whole; but a save that writes after another one
has written leaves the tail of a longer text behind, which may make the file
unreadable (`Wrote`). A command may die between any two steps (`SaveDies`), and
since nothing calls fsync the machine may come back with the file as it was,
as it is, or with its length reset (`disk`, `Flush`, `PowerLoss`). `Serve`
builds a node's configuration from the profile and its flags and refuses an
unreadable file; `ClientStarts` takes one for the defaults, as the code does.
Values are the texts that matter, with every name a setting is known by; the
trimming and case folding of booleans is not modelled. `expected`, `acked`,
`asked`, `overlapped`, `cut`, `torn`, `seen` and `wanted` are history.

**RestApi** models the two doors to a keyspace over one cache: the layers and
routes of the HTTP server (`Unauthorized`, `PayloadTooLarge`, `Probe`), the
handlers (`StartWrite`, `StartRead`, `Delete`, `BadRequest`,
`UnknownKeyspace`), and `put_with_ttl`'s choice of expiry (`TtlMs`,
`Saturated`, `ExpiresAt`), at the width of u64 (`MaxMillis`). The cache is
`INSTANCE CacheContract`: a handler's call is the contract's `CallPut`,
`CallGet` or `Delete` with the arguments the handler computes, and the
contract's other steps (`CacheAnswers`, `Background`) run in between. So a
request is several steps, and writes, ticks, evictions and other clients come
between the clock reading and the put. `writes` is history.

How the modules meet: ShardContract shows that Shard implements CacheContract;
RestApi builds on CacheContract; WireConn shows which wire requests are let
through, and RestApi takes those as its requests at the door "wire".

Definitions whose name begins with `Bad` are the mistakes the properties are
tested against: replacing the definition of the same purpose by one must make
a run fail. No specification uses them.

## 3. Runs

| run | instance | question and result |
|---|---|---|
| shard_contract | 2 clients, sweeper, 2 keys, 3 calls | type, `Accounting`, `BoundedOverrun`, `EachDropReportedOnce`, `CountersCoverDrops` and the refinement of CacheContract hold |
| shard_live | 2 clients, sweeper, 2 keys that do not both fit, expiries, 3 calls | every call returns; every dead entry leaves; stamps never tie; sampled eviction spares the newest entry |
| sweep | 16 shards, 2 per tick, a cursor that wraps at 32 | every turn visits every shard; nothing dead waits longer than a turn at the slowest pace |
| sizing | 4 core counts, 6 readings of each memory source, up to 2 keyspaces, 6 explicit settings | self-sized caches leave the headroom alone; shards share out a capacity; the shard count equals a reference definition |
| lifecycle | 3 peers, 2 permits, TLS and wire on or off | permits are conserved; a plain server drains; shutdown completes |
| wire_conn | 3 requests of 14 kinds, batches of 2 | answers and effects are those of a server that serves one request at a time, but for the two departures `AnswersInOrder` names; nothing read is left waiting |
| framing | 3 requests of 4 kinds, batches of 2, bytes of 2 values, buffers of 30 and of 1 or 3 bytes | requests are decoded as they were encoded; less than one frame waits; every pipeline the peer reads along with is answered |
| profile | 3 commands, 2 sets, 2 starts, 1 fault | no setting takes another's value; quiet saves hold; the file's mode lets others read the key only while it is being created; a client finds its node |
| rest_api | 2 clients, 3 requests of 12 kinds, 48 starts (16 settings, 3 clocks) | deadlines are those asked for; only live values are served; nothing without the key |
| lifecycle_lost_signal | as lifecycle | **violated**: a signal broadcast before the HTTP server subscribes is lost, and the process never exits |
| lifecycle_tls_drain | as lifecycle | **violated**: with TLS on, requests in flight are cut on shutdown |
| profile_key_lost | as profile, no fault | **violated**: a node started while a setting is saved runs without the key |

The violated properties state what a comment or a document says; section 6
quotes them.

Bounds, and why they are enough.

* *Shard.* Two clients and the sweeper give every pair of concurrent paths
  (insert, lookup's fast and slow path, remove, evict, sweep), and a third
  actor between them. In shard_contract one key is so long that its entry is
  larger than the whole budget, so an insert evicts itself and another writer's
  entry; one clock tick makes entries die between a reading and its use, and
  expiries 0 and 1 give entries that never die. Three calls are needed to have
  an overwrite of an entry a slow lookup is about to bury. shard_contract
  samples one entry, the weakest eviction. shard_live samples two, and its two
  keys together are one byte over the budget, so that every second insert
  evicts while entries also die.
* *Sweep.* Sixteen shards are the smallest count with more than one shard per
  tick. Entries die in three shards: the watched one, one just before it in the
  cursor's order, and one far from it, so a tick may find none, one or several
  and the pacer moves both ways. The offsets are the two ends of the jitter.
* *Sizing.* Memory is counted in units of 64 KB, and its values sit on the
  edges of every branch; the core counts include one above what 512 shards
  serve. `PowersOfTwo` reaches past the largest capacity in megabytes and past
  four times the core counts, so every power the code would find is among them.
* *Lifecycle.* With two permits and three peers, one waits while all are out.
* *WireConn.* Three requests and batches of two make a batch boundary with
  requests on both sides; each cut of the bytes into reads is explored.
* *Framing.* Three requests make a batch of two and one more behind it. Lengths
  have 2 and 4 digits of base 2; MAX_FRAME is the longest keyspace, and the
  requests have empty fields, full ones, a value that is too long and a keyspace
  that does not fit its length field. The buffer towards the node takes two
  whole frames, so reads end at every byte and also behind a frame; the one
  towards the peer takes one response, or all three.
* *Profile.* Two sets and a third command are the least with which a save lands
  between the halves of another while somebody reads. One fault is enough for
  each property, as the second would find the file in a state the first can
  leave. The arguments have a long and a short value, a second name of a
  setting, a value that does not parse and a name nobody knows.
* *RestApi.* Two requests write and read a key, the third comes in between or
  overwrites; the TTLs are absent, zero, one that ends on a clock reading, and
  one that passes `MaxMillis`, which is 5000 so that the clock's readings and
  the TTLs reach it. The key is in the header, in the query or nowhere, and the
  body above or below each limit.

Deadlock checking is off in every configuration: clients stop after
`MaxCalls`, the loop of `Node::build` ends, processes exit, connections
close, and commands are finite in number. `CallsReturn`, `ShutdownEnds`,
`ReadIsAnswered` and `PipelineFlows` rule out that anything stops earlier than
it should.

## 4. Fairness

* *Shard.* `WF(Continue(t))` for every thread: the operating system and tokio
  do not suspend a thread for ever in the middle of a call, and the lock
  is given to somebody who waits for it. It is a `std::sync::RwLock`, which
  promises no order among them, and none is assumed: weak fairness is enough
  because calls are finite in number, so that whoever waits is alone in the
  end. `WF(Tick)`: time passes. Starting a call is not fair.
* *Lifecycle.* `WF` of the main task, the signal task and the accept loop, and
  of answering a request in flight: handlers never block on anything but the
  peer, and the peer is assumed to read. Nothing makes a peer hang up or
  finish a handshake, so `WireStopsAccepting` excepts the state where every
  permit is out: there the accept loop waits outside its `select!`
  (lib.rs:86-94) and does not hear the shutdown.
* *WireConn.* `WF(Serve)`: the task runs and the peer takes its responses.
  Nothing makes the peer send.
* *Framing.* `WF(Serve)`: the task runs whenever it is not waiting for a byte or
  for room. `WF(PeerWrites)` and `WF(PeerReads)`: the peer goes on writing what
  it has encoded while there is room, and reading what has arrived, unless it
  is a `patient` one that has not written everything. That exception is what
  `PipelineFlows` is about: a peer that reads as it writes is always answered,
  however small the buffers; a patient one only if the buffer towards it takes
  every response. Without that hypothesis the property fails: both sides wait
  for room, and no timeout ends it (conn.rs:209).

The shard models take the system clock to move forward. A clock that steps
back makes entries live again; the code has no defence against that and
claims none.

## 5. Proofs

TLAPS checks these for any values of the constants (keys, sizes, budgets,
samples, clients, caps, requests, machines, configurations) that satisfy the
named assumptions of the modules; within those the bounds, such as `MaxCalls`,
may be anything. Together they state every invariant and action property the
passing runs check, and the refinement.

**ShardProofs.** The inductive invariant `Core` is `TypeOK` with
`Accounting`, and three parts neither follows without:

* `Mirror`: the lock-free hints equal the counts they mirror, which every
  section that changes a count restores before it ends;
* `LockInv`: who is at a place in the code that holds the lock is who `writer`
  and `readers` say, and an entry a reader is about to touch is still there;
* `Finite`: what a thread has removed is a finite set, so that counters stay
  natural numbers.

`Accounting` speaks of sets of bytes, so that a sum over the map is a
cardinality and its changes follow from the library's facts about finite
sets: `ResidentSplit` says what emptying one slot takes off the total,
`ResidentReplace` what overwriting it changes, `ExpiringReplace` the same for
the TTL count. `EntryRemoved` and `EntryInserted` carry them to the actions,
and `CoreStep` has one lemma per action. The theorems are `TypeCorrect`,
`AccountingCorrect` and, with `RoundsInv` (a thread in the eviction loop has
rounds enough to empty the shard, so it leaves the loop within budget),
`OverrunBounded`: a shard is over its budget by at most one largest entry for
each insert still in flight. `OverrunBounded` is what makes "hard bound"
(cache.rs:325) true as soon as inserts have returned.

Two more parts carry what is about identity and order. `StampInv`: a stamp a
thread has taken and not stored yet is older than the counter and differs from
every stamp stored or held, so storing it late ties with nothing
(`StampsDistinct`). `IdInv` and `HandoverInv`: an insert's id is with one thread,
one resident entry or one drop, and a drop is with the thread that made it until
the listener has it (`EveryDropReportedOnce`). `QuietStep` disposes of the
actions that touch none of this. `NewestAlwaysSurvives` is an action property:
with `StampInv` the sample's minimum is one entry, and a sample of two holds an
entry newer than it. `CountersAlwaysCover` counts drops by cause (`CountInv`).

`ContractImplemented` is the refinement `Spec => Contract!Spec`, with a lemma
for each kind of action: the locked section of an insert is the contract's
`Put`; reading the map is `GetHit`, `GetMiss` or, when a slow lookup buries the
entry, `GetExpired`; a removal is `Delete`, an entry of a sweep `Expire`, one of
an eviction `Evict`; beginning and returning from a call are the contract's, and
all else leaves `StoreView` and `AskView` as they were. Beside `Core` it needs
`PlaceInv`: a client is never where only the sweeper goes, its call says which
kind it is, and its clock reading is never ahead of the clock.
`NoValueAssumption` says that the contract's "no value" is no value.

**LifecycleProofs.** `PermitsAlwaysConserved` from `PermitsInv`
(`WireStartsOff`: nobody is connected before the server exists), and
`PlainDrainCorrect` from `DrainInv` (`RequestsFollowServer`: no request is in
flight before the HTTP server is up, or, without TLS, after it has drained).
The permits of a cap of any size and any number of peers are counted with the
library's facts on adding to and removing from a finite set.

**RestApiProofs.** Four theorems read off one inductive invariant `Inv`, for
any requests, settings, clients, clock readings below `MaxMillis` and cache
size. Its parts: `Shape`, the types, with every recorded clock reading below
`MaxMillis`; `Stored`, every remembered value is what the write its id names
asked for; `Calling`, so is the value a call in progress carries, and an answer
on its way was alive at the reading the request began with; `Answered`, so is
an answer given; `KeysShown`, every recorded write and every call in progress
came through an admitted request. The arithmetic is in `ExpiryExact`: a
saturated expiry is passed at exactly the times the unbounded sum is, as long
as the clock itself has not reached u64::MAX. The cache underneath is any that
CacheContract allows.

**ProfileProofs.** Types (`TypeCorrect`: what `Parsed` lets through is of the
setting's type, and so is everything copied from it); `NothingEverUnasked`, by
an invariant that every profile in the file, on the disk and in memory is
`Sourced`; `PublicOnlyBriefly`, with the disk's mode (the mode of the
file; its directory's is left out); and two that need
strengthening. `QuietSavesAlwaysHold` needs `Unmixed` (a save that opened the
file still finds it empty, unless somebody wrote in between) and `Ledger` (what
a command is about to save is the sets so far with its own on top, and the disk
is the file or an older one): the property itself says nothing about a command
in the middle of its save. `ClientAlwaysFindsNode` needs `Readers`: two
commands that read at the same change of the file read the same. All hold for
any number of commands, sets and faults and any values.

**FramingProofs.** `U16Exact` and `U32Exact`: reading back the digits of a
length gives the length, in any base. `EncodedBytes` lays out a frame,
`FieldArrived` says what a buffer that begins as a frame holds of it, and so
`CompleteIsSent` and `MalformedTooLong`: what the decoder takes is the request,
what it refuses is too long. `RoundTrip` is the theorem for a reader: decoding
undoes encoding whatever follows. On top of it `AlwaysDecodedAsSent` for the
state machine, from the invariant `Aligned`: there are frame ends in the stream
such that, as long as the requests decoded so far fit their fields, what has
been split off ends at the end of the last of them. The ends are existentially
quantified, which avoids a recursive definition of where the i-th frame ends.
`MemoryBounded` needs only that a wait for bytes begins where no frame is
complete and none is malformed (`PartialIsShort`).

**WireConnProofs.** Four theorems from one inductive invariant `WireInv`, for any
stream of requests, any keyspaces, limits and batch size: `BatchInv`, the batch
is the frames decoded and not dispatched, in order, none of them malformed;
`RepliesInv`, the responses written and pending are those of the requests
dispatched (`Answered`), and a refused connection, whose next frame is malformed,
wrote at most a BadRequest after them (`Refused`). `AlwaysInOrder` follows: the
last response of a refused connection answers the malformed frame itself if
nothing was dropped with it, and otherwise takes the place of the first request
dropped. `MemoryInv`, `authed`
and the remembered keyspace say what the stream so far says, which is why the
memo may be used instead of a lookup; `EndInv`, a connection reads, or finds the
peer gone, only when its batch is empty and no complete frame waits.
`ValueAfter`, what a server without batches, gate or memo would hold after n
requests, is a choice over earlier writes and not a recursion, and
`StoreAlwaysFollows` goes from one n to the next.

**SweepProofs.** For any number of shards the share of a tick divides, and any
cursor width the number of shards divides (`TurnAssumption`; the code's counts
are powers of two). The properties say nothing about a shard before its turn, so
`SweepInv` adds how far ahead of the cursor each shard is: asleep (`Due`),
`per_tick * since[s] + Ahead(s, cursor) < NShards`; awake (`Passing`), the shards
passed are fresh and the others have one tick more. The bound on the delay is
carried by `waiting <= Slowest * since[Watched]`.

**SizingProofs.** The lemmas are about the operators: `NextPower` and `PrevPower`
(the choices exist and are the nearest powers), `BelowTwice` (the powers below
2n are those up to the next power of n), `ShardCount` (the last rounding in
`shard_count` changes nothing), `ShardsShare`, `ShardsPay` and
`AutoLeavesHeadroom`. `SizeInv` says that each engine is the one its entry and
the machine call for and that those that sized themselves have claimed one share
each. `PowerAssumption` is what the proofs know of powers of two; the numbers
1, 2, 4, ... satisfy it. `AutoBudgetAlwaysFits` needs the number of keyspaces to
be at most sixteen million (`ConfigAssumption`): beyond that a share is less
than a byte for each shard, and the minimum of one byte exceeds it.

Only model-checked, because liveness and `ENABLED` are beyond the proof system:
`CallsReturn`, `ExpiredReclaimed`, `ShutdownEnds`, `WireStopsAccepting`,
`ReadIsAnswered` and `PipelineFlows`. Every other property of the passing runs
is a theorem. Every invariant named here was first checked with TLC on the
instance of the run. What ties the modules to each other (that WireConn may take
a frame as one thing, that RestApi may use CacheContract for a cache of many
shards) is argued in section 2 and not proved.

## 6. Where the code and its documents differ

With a run:

* serve.rs:171-179 subscribes the HTTP server after spawning the task that
  sends: `lifecycle_lost_signal`. The window is a few instructions wide and
  needs the signal task to run on another worker; the consequence is a process
  that no SIGTERM ends.
* server.rs:176 returns from the TLS loop without draining, against
  server.rs:125-126 and docs/operations.md:75: `lifecycle_tls_drain`.
* `Profile::save` empties the file and then writes it (profile.rs:184), and an
  empty file reads as all defaults. A node that starts in between, or after a
  save was interrupted there, runs without the key that had been set, against
  config.rs:76-77: `profile_key_lost`. Writing beside the file and renaming it
  would close the gap for readers; `QuietSavesHold` says what is true as it is.

Met while modelling, without a run:

* `expired` counts lookups, not drops: two lookups of one dead entry both count
  it (cache.rs:704-708 against the comment at 198). `CountersCoverDrops` states
  the direction that holds.
* resources.rs:199 falls back to 256 MB also when a limit was detected and is
  merely small, against README.md:259-261 ("auto-sizing already leaves headroom
  below the container limit"). `AutoBudgetFits` is about the sizes that are
  computed.
* `tls_enabled` with the certificate or the key missing serves plaintext and
  says nothing (`TlsConfig::is_enabled`, config.rs:51-55).
* The client subcommands speak plain HTTP only, so they do not reach a node with
  TLS (client.rs); `ClientFindsNode` excepts it.
* protocol.rs:3-6 says a client can send many requests back to back without
  waiting for replies. One that reads no reply until it has sent everything
  stalls once the responses fill the socket buffers (section 4, Framing).
* `encode_request` cuts the length of a keyspace to 16 bits (protocol.rs:92);
  the node then reads the rest of the name as other fields. `DecodedAsSent`
  speaks of requests that fit.
* A clock before the epoch reads as 0, at which an entry looks *live*; the
  comment at cache.rs:416-418 says expired. `now_millis` models the code.
* docs/cache.md:226-227 speaks of a sweep every 5 seconds; the pacer runs
  between 250 ms and 30 s, and `ReclaimedInTime` bounds the wait of a dead
  entry by five minutes.
* protocol.rs:24-25 says AUTH is always OK when auth is disabled; conn.rs:174
  compares it with the empty key and refuses every other token. `Answer` is what
  the comment says, and `AnswersInOrder` excepts the refusal by name
  (`RefusedWithAuthOff`): without the exception it fails.
* A malformed frame discards complete requests decoded before it in the same
  batch (conn.rs:125-135). `NothingLeftUnanswered` bounds the loss by one
  batch. Its BadRequest comes where the first of them would have been answered,
  so a peer that counts responses, as protocol.rs:13-15 has it do ("no request
  IDs are needed"), takes it for the answer to a request that was well formed;
  and how many are dropped depends on how the stream was cut into reads, against
  conn.rs:46-50, by which the limit of a batch "changes batch granularity, never
  semantics". `AnswersInOrder` allows this response, as the last one of a refused
  connection, and nothing else out of its place.
* docs/cache.md:89-90 says each shard has at least 1 MB; below 4 MB of
  capacity the minimum of four shards wins.
* Wire connections in flight are cut when the process exits
  (lib.rs:61-63 speaks of letting them finish; nothing waits for them).
* Readiness is cleared after the drain (serve.rs:187), not before it as
  node.rs:105-106 suggests.
* The profile's `log_level` is not read by `serve`.
* config/default.toml:44-45 says `max_value_bytes = 0` disables the cap; on REST
  it only removes Falcon's own layer (server.rs:38-40), and axum's default of
  2 MB then applies. `BodyLimit` models the code.
* `max_key_bytes` is enforced on the wire (conn.rs) and not by the REST
  handlers.
* POST takes the empty key; GET and DELETE refuse it (rest/simple.rs:121-127).
* A bearer header with a wrong key hides a right key in the query
  (server.rs:106-109).

## 7. Not modelled, and why

* What axum refuses before a handler runs (unknown routes, malformed JSON or
  query strings), and the base64 form in which REST shows a value that is not
  UTF-8: no state is touched.
* The capacities of a connection's two buffers (`MIN_READ_SPACE`,
  `BUF_RECLAIM_ABOVE`, conn.rs): they are the bytes library's and change what is
  allocated, never what is read or written.
* The mode of the profile's directory. `save` makes it 0700 before it writes the
  file (profile.rs:179-182), so on Unix others cannot reach a file whose own mode
  is still open; `PublicOnlyWhileSaving` speaks of the file's own mode, which is
  what is left where somebody widened the directory afterwards.
* A part of the profile's text on a full disk: the text fits one block, so a disk
  with no room for it leaves the file empty, which is `SaveDies` after `Truncate`.
* TOML syntax, `--config` files, redaction and all printing, argument parsing, the text of HTTP calls, certificate
  loading: input and output.
* The listener's code: none exists outside tests, so a panic in it is not
  modelled.
* The engine's read-only reports (`stats`, `tracked_ttl_keys`), metrics and
  tracing: nothing depends on them.

## 8. Plan

Done, in this order: Shard with CacheContract and ShardContract, ShardProofs,
Sizing, Sweep, Lifecycle with LifecycleProofs, WireConn, RestApi with
RestApiProofs, Profile with ProfileProofs, Codec and Framing with
FramingProofs; then the refinement of CacheContract and the rest of Shard's
properties, WireConnProofs, SweepProofs and SizingProofs.

Next, by importance:

1. Invariants the theorems rest on that say something to a user of the code by
   themselves (`Mirror`: the lock-free hints; `LockInv`) stated as theorems.
2. A safety part of the liveness properties that the proof system can state:
   for `CallsReturn`, that no two threads wait for each other's lock.
