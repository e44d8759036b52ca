# TLA+ models of tinycache

This directory holds TLA+ specifications of tinycache (`src/src`), a TCP
key-value server. It also holds the TLC configurations that model-check them,
and TLAPS proofs about them.

## The system

| part | source | state | operations |
|------|--------|-------|------------|
| cache shard | `db/cache.rs` | `shards[i]: HashMap<CacheKey, CacheItem>`, `lru_queues[i]: VecDeque<CacheKey>` | `insert` (with `evict_shard`: reaping, then LRU / LFU / LFRU eviction), `get`, `update_key_value`, `delete`, `incr_key_value` |
| engine `TinyCache` | `db/db.rs` | registry `databases: DashMap<String, Arc<RwLock<Cache>>>`, `active_connections` | every write logs to the WAL, then takes `cache.write()` and applies; `drop_db`, `stats`, `view_data` |
| WAL and recovery | `persistance/persistance.rs` | per-database `WalManager` (file, size, op count, last sync), segment files `wal-<db>-<secs>.log` | `append` (sync policy, rotation), `log_operation`, `cleanup_old_segments`, `recover` / `replay_operation`, `recover_all` |
| auth and sessions | `security/auth.rs` | `sessions: RwLock<HashMap<String, Session>>` | `authenticate`, `create_session`, `validate_session` then `refresh_session`, `cleanup_expired_sessions` |
| client handler | `requests/client.rs` | the connection counter | accept, handshake, authentication, request loop |
| dispatcher | `requests/requests.rs` | none | parses commands (the QUERY tokens, the key-value commands) and calls the engine or `aggregate` |
| query engine | `query/query.rs`, `query/middleware.rs` | the working set of one query | middleware check, then `aggregate`: FILTER, COUNT, SUM, AVG, GROUPBY, MIN, MAX, DISTINCT, TOPN, BOTTOMN, MEDIAN, STDDEV, SORT, JOIN |
| config, CLI, logs, responses | `security/config.rs`, `cli/`, `utils/logs.rs`, `utils/response.rs` | start-up constants | formatting and I/O |

How the parts interact:

- Each client connection is a tokio task. It authenticates, and the
  connection string selects a database. Its commands go through the
  dispatcher to the engine.
- The engine keeps one `Cache` per database, behind a `tokio::RwLock`.
- Every write follows the same sequence:
  1. Append a WAL entry. This uses the per-database WalManager lock.
  2. Take the cache write lock.
  3. Call the `Cache` method, which locks the shard and its queue.
- Reads (`get_key_value`) also take the cache write lock. So within one
  database the cache operations are serialized. What interleaves between
  clients is the WAL append of one write and the cache step of another.
- At start-up, `recover_all` replays every segment file through the
  engine's public methods.

Hard behaviours found in the code:

- An insert into a full shard drops its shard locks, evicts and relocks
  (`cache.rs` 165-171). This runs under the database lock.
- Clock reads are in whole seconds and expiry is strict (`now > e`).
- Writes to a key already in the shard push it onto the queue a second time.
- The eviction loop has no way out for LFU and LFRU on an empty shard.
- The WAL has sync policies, rotation, retention and replay. Replay logs
  each entry again.
- The connection counter has early returns.

## Modules

### CacheShard (`CacheShard.tla`, checked through `MCCacheShard.tla`)

The model covers one shard of one database's `Cache`.

- **Map.** `shard` maps each key to a `CacheItem` record (value, expiry,
  last access, frequency) or to `NoItem`. `created_at` is only displayed, so
  it is left out.
- **Queue.** `recency` is the `VecDeque` as a set of `<<position, key>>`
  entries with positions `1..n`:
  - `push_back` adds position `n+1`;
  - `retain` and `pop_front` renumber the survivors by rank (`Compact`);
  - a key can occur several times, as in the code.

  A set of entries, rather than a sequence, keeps the queue operations
  non-recursive, so TLAPS can reason about them.
- **Clock.** `now` is `compute_now_timestamp()`. `Tick` advances it up to
  `MaxTime`.
- **Policy.** `policy` is the configured `eviction_policy`.
- **Pending insert.** `pending` records an insert that found the shard full.
  Such an insert takes three steps:
  1. `Insert` checks the cap and reaps expired items (241-255).
  2. One `EvictOne` step per iteration of the `while` loop (258-330).
  3. `InsertFinish` stores the item (173-189).

  The engine holds the database lock across the whole insert, so no other
  operation runs in between (`Idle`). Only the clock moves.
- **Answer.** `resp` is what the last operation reported: the key, and
  whether it was found.

Each remaining operation is one action:

- `Get`: miss, expired-and-removed, or hit.
- `Update`: UPDATE_KEY passes `ttl = None`, which clears the expiry.
- `Delete`.
- `Incr`: a decrement passes `-amount`.
- `Clear`: `drop_db`.

How the eviction victims are chosen:

- **LFU.** `LFUVictims` is the minimum by frequency.
- **LFRU.** `LFRUVictims` follows the sort of lines 284-291 (frequency
  ascending, then last access descending). It picks the first candidate
  that is infrequent and older than the threshold, else the first
  infrequent one, else the first one.
- **Ties.** Where HashMap iteration order breaks a tie, any tied key may
  be chosen.
- **No victim.** An iteration that finds no victim changes nothing. It is a
  stuttering step of `EvictOne`, which is how the code spins.

What is abstracted:

- **Values.** Values are `{0, 1, Txt}`, where `Txt` does not parse as a number.
- **TTL.** The TTL is a small set. The engine passes either `default_ttl`
  or `compute_expiry()`; only the comparison `now > exp` matters.
- **Thresholds.** The thresholds are constants, 5 and 3600 s in the code.
  The runs scale them to 2 and 1 s.
- **Frequency.** Frequency is bounded by `MaxFreq`: a hit at the bound is
  not explored.
- **Queue length.** `MaxQueue` bounds the queue length, because repeated
  SETs of one key grow the queue without limit in the code.

### Engine (`Engine.tla`, checked through `MCEngine.tla`)

The model covers one database as `TinyCache` (`db/db.rs`) and the
`PersistenceManager` (`persistance/persistance.rs`) handle it.

- **Cache.** `cache` maps each key to an integer value or `NoItem`.
  Expiry and eviction are left to CacheShard: `create_key_value` gives a
  week or more of TTL, and these runs stay below the cap. Values are
  integers; the code's `f64` amounts are exact at these sizes.
- **Log.** `wal.log` is every `WalEntry` ever appended, in order. The
  segment files are cuts of it:
  - `wal.starts[i]` is where file `i` begins;
  - files `1..wal.gone` have been removed by `cleanup_old_segments`;
  - `wal.cur` counts the entries of the current file (the code counts
    bytes; `SegmentSize` is in entries);
  - `wal.mgr` says whether a `WalManager` exists.
- **Commands.** `Requests` is the set of writes that
  `process_key_value_requests` (`requests/requests.rs`) hands to the
  engine: SET, SET_EX and STORE create, UPDATE_KEY, DELETE_KEY, INCR_KEY,
  DECR_KEY, plus CLEAR_DB. Parse errors return before any state changes,
  so they are not steps.
- **Clients.** `pc[c]` is where client `c` is inside a write:
  1. `LogRequest`: `log_operation` = `ensure_wal` (`Ensure`), `append`
     with rotation (`Written`), `cleanup_old_segments` (`Cleanup`).
  2. For DECR only, `LogDecrementIncrement`: `decrement_key_value` calls
     `increment_key_value`, which logs an `Increment` of `-amount`.
  3. `ApplyRequest`: `cache.write().await`, then the `Cache` method.

  The WAL lock is released between 1 and 3, so clients interleave there.
- **History.** `expected` applies each command when it is logged. It is
  what the log, read in order, says the database holds.
- **Crash and recovery.** `Crash` empties the cache, ends every task and
  drops the `WalManager`; the files stay. `StartRecovery` lists the files
  (`recover`), `ReadSegment` reads the next one, `ReplayEntry` replays one
  entry through the engine (which logs it again, `Relog`), and
  `FinishRecovery` lets clients in. If a listed file has been removed by
  a cleanup that replay triggered, `File::open` fails, `recover` returns
  the error, `recover_all` only logs it, and the server starts with what
  was replayed so far (second disjunct of `ReadSegment`).
- `ReadKey` is `get_key_value`: it takes the write lock and changes
  nothing here. It is the step a server with idle clients keeps taking.

Properties:

- `DurableState`: whenever the server is up and no write is half done,
  the cache equals `expected`, across crashes and recoveries. This is the
  WAL's stated purpose.
- `CurrentSegmentLive`: while a `WalManager` exists, the file it appends
  to has not been removed.
- `WalLogRefined`: the engine implements `WalLog` (below) under the
  mapping `Durable`.

#### WalLog (`WalLog.tla`): what the log promises

`WalLog` states the write-ahead log without files, managers or the
recovery cursor. It has one sequence `log`, and `removed`, the length of
the prefix that retention has deleted. Its steps:

- `Write`: a client command appends one entry, and retention may remove
  more of the prefix.
- `Crash`, then `Recover`: recovery will replay the kept entries, from
  `removed + 1` up to `limit`, the end of the log at the crash.
- `Replay`: one entry is replayed, in log order, and written again (once,
  or twice for a replayed DECR).
- `Finish`: every entry up to `limit` has been replayed.
- `GiveUp`: recovery stops early. It is allowed only when retention has
  reached the entry it would read next.

The mapping `Durable` (end of `Engine.tla`):

- `log` is `wal.log`, and `mode` is `up`.
- `removed` is `RemovedUpTo(wal)`, the last entry of the last removed file.
  `EndOf(w, i)` is the last entry of file `i`.
- `next` is `ReplayPos`, the position of `rec.buf`'s head in the log.
- `limit` is the end of file `rec.last`, the newest file `recover` listed.

Engine steps that change none of these, such as `Ensure`, `ReadSegment`
of a file or `ApplyRequest`, are stutters of `WalLog`.

### Connections (`Connections.tla`, checked through `MCConnections.tla`)

The model covers the handler task of each TCP connection
(`requests/client.rs`) and the session store of `AuthManager`
(`security/auth.rs`).

- `count` is `active_connections`. `lock` is the task holding its write
  lock; it only matters on the rejection path, where the lock is held
  across the socket write.
- `phase[c]` is where the task of connection `c` stands. Each action
  runs from one await point to the next:
  - `Admit`: lock, compare with `max_connections`, increment (19-34);
  - `RejectSent`: the error line written, the guard dropped (22-31);
  - `CheckConfig`: `config.validate()` (37-45);
  - `Authenticate`: read the connection string and `authenticate`
    (52-115), which creates a session and sweeps expired ones;
  - `SendAuthOk`: the `AUTH OK` write (62-87);
  - `Request`: one turn of the request loop (121-154);
  - `Hangup`: the client closes or the read fails;
  - `Release`: the final decrement (117-118).
- `sessions[c]` is the `expires_at` of the session of `c`. It is refreshed
  by each valid request, and removed only by the sweep in a later
  `authenticate`.
- `Faults` says which failures the environment produces: read errors,
  refused credentials, failed writes. `ConfigValid` is the fixed result
  of `config.validate()`.

Properties:

- `CountMatchesLive`: the counter equals the number of live tasks. It
  fails as soon as a client is refused (`conn_leak`); it is proved to
  hold when no early return can be taken (`CountExact`, below).
- `CountCoversLive`: the counter is never below the number of live tasks.
- `ClosingReleases`: a connection whose request loop ended eventually
  gets its slot back.

Fairness. Under `Spec`, the steps a task takes without waiting on its
client are weakly fair: the configuration check, the `AUTH OK` write,
the decrement and the rejection write. Tokio polls every runnable task,
and these writes are a few bytes into a fresh socket buffer. Reads wait
for the client, so they are not fair. The rejection write holds the lock,
but it is 31 bytes into the empty send buffer of a freshly accepted
socket, which the kernel takes without the peer reading, so it does not
wait on the client. `Release` waits for the counter lock, which
another task may take; weak fairness is enough because tokio's `RwLock`
queues waiters in FIFO order. `CHECK_DEADLOCK FALSE` is
set because every connection ends: the server then waits in `accept`.

### Admission (`Admission.tla`): what the connection limit promises

An abstract specification with one variable, `conn[c]`, which is
`"waiting"`, `"in"` or `"out"`. A waiting connection enters only while
fewer than `MaxConnections` hold a slot (`Enter`), may be refused
(`Refuse`), and a holder leaves for good (`Leave`).

`Connections` implements it. The refinement mapping `AbsConn` sends the
phase `"new"` to waiting, every live phase to in, and every other phase
to out. `Abs == INSTANCE Admission WITH conn <- AbsConn`, and
`AdmissionRefined == Abs!Spec` is a property of `conn_main`. Under the
mapping:

- an `Admit` that accepts is an `Enter`: the counter's limit check
  becomes the bound on holders, since the counter covers the live tasks;
- an `Admit` that rejects is a `Refuse`;
- every early return of a live task, and `Release`, is a `Leave`;
- the other steps stutter.

### Query (`Query.tla`, checked through `MCQuery.tla`)

One QUERY command, from the raw tokens to the reply:

- `Middleware`: `query_security_middleware` (middleware.rs 18-82). The
  token sets `DbRefTokens` and `SuspectTokens` stand for the lowercase
  substring tests.
- One parse action per arm of the token loop of `process_valid_requests`
  (requests.rs 100-341): `ParseCount`, `ParseField` (SUM, AVG, GROUPBY,
  MIN, MAX, MEDIAN, STDDEV and the keyword `DISCTICT`, spelled as in the
  code), `ParseFilter`, `ParseRanked` (TOPN, BOTTOMN), `ParseSort`,
  `ParseJoin`, `ParseUnknown`, `ParseEmpty`. Each error arm returns its
  tag and ends the query (`Fail`).
- `Collect`: `aggregate` gathers the JSON documents of the database in
  HashMap order. The order is arbitrary, so every order is a possible
  start.
- One action per operation (`RunFilter` ... `RunJoin`), then `Finish`.
  `apply_filter` is an operator. GROUPBY and DISTINCT produce sets,
  because their order comes from a HashMap or a HashSet. SORT, MEDIAN,
  TOPN and BOTTOMN sort stably (`StableSort`). When TOPN or BOTTOMN
  compares numbers with strings, the comparison is not a total order,
  so any arrangement is allowed.

Data abstraction:

- A document is an object over `Fields`. A field holds an integer, a
  float (serde_json keeps `30` and `30.0` apart), a string (numeric, or
  a word), null, or nothing.
- A field token is a JSON pointer only when it is in `DOMAIN Pointer`.
  `#age` is not a pointer: `pointer()` returns None for it. SORT strips
  the `#`, which still leaves no pointer.
- AVG and MEDIAN are exact quotients; f64 is exact on the small
  integers used. STDDEV is the variance quotient; its square root is
  left out.
- The text operators `contains`, `startsWith`, `endsWith`, `regex` and
  `like` are not modelled. The parser never makes an array, so `in`,
  `notin` and `between` are always false.

The documents do not change during a query: `aggregate` holds the
cache's read lock until it returns, and every write takes the write lock.

Other things seen while modelling (each in the model, none in a run):

- The parser matches `DISCTICT`, so the documented `DISTINCT` gives
  `UNKNOWN_OPERATION`.
- FILTER `eq` with a number never matches an integer field: the parser
  makes a float.
- BOTTOMN sorts descending like TOPN. Spec 9.2 documents and flags this.

### Planned module (later work)

**WalSegments.** The WalManager:

- size and op count, and the sync policy, including the `/1000`
  everysec bug;
- retention by prefix over two databases (the `a` vs `a-b` overlap);
- the `ensure_wal` race between two first writes;
- recovery ordering by file name, and a crash that loses unsynced
  entries.

## Runs

The CacheShard runs use `MCCacheShard` with keys `{k1,k2,k3}`, values `{0,1,Txt}`,
TTLs `{1}`, amounts `{1}`, `MaxTime = 2` and `MaxFreq = 2`.

| run | cfg | expect | what it shows |
|-----|-----|--------|---------------|
| shard_main | `MCCacheShard.cfg` | pass | Cap 2, all three policies, `MaxQueue = 3` (~300k states). It checks: `TypeOK`; `RecencyMatchesMap` (the queue and the map hold the same keys after every step, including reaping, eviction, and get of an expired item); `CapacityBound` (no more than `Cap` items between operations); and `InsertCompletes` (every evicting insert finishes). |
| shard_zero_cap_spin | `MCCacheShardZeroSpin.cfg` | violation | Cap 0: an LFU or LFRU insert on the empty shard spins forever (`InsertCompletes`). |
| shard_lru_order | `MCCacheShardLruOrder.cfg` | violation | Cap 3, `MaxQueue = 5`, LRU. SET k1, SET k2 at t=0; at t=1 SET k1 again, SET k3; then a fourth SET evicts k1 (last access 1) and keeps k2 (last access 0) (`LruEvictsLeastRecent`). |
| shard_expired_served | `MCCacheShardExpired.cfg` | violation | An update, incr or delete reports a key whose expiry has passed as present (`ExpiredNeverServed`, spec 4.1). |

The Engine runs use `MCEngine` with values `{1,2}`, amount `{1}` and at
most two crashes.

| run | cfg | expect | what it shows |
|-----|-----|--------|---------------|
| engine_single_writer | `MCEngine.cfg` | pass | One client, two keys, CREATE/UPDATE/DELETE/DROPDB, files of two entries, no retention, logs of up to 4 client entries (~700k states). Crashes strike only while the server is up (`CrashInRecovery = FALSE`); a crash during a recovery is the run `engine_recovery_crash`. `DurableState` holds: with one writer, no DECR, no retention and no interrupted recovery, a completed recovery (which relogs everything) rebuilds the cache exactly, after each of two crashes. |
| engine_retention | `MCEngineRetention.cfg` | pass | Two clients, every command, files of two entries, `wal_max_segments = 2`, crashes also during recovery (~1.1M states). `TypeOK`, `CurrentSegmentLive` and `WalLogRefined` (the log only grows, retention only removes a prefix, and recovery replays the kept entries in order up to the last one written before the crash). Every action fires, including the aborted recovery. |
| engine_two_writers | `MCEngineTwoWriters.cfg` | violation | Two clients SET k1 to 1 and 2. Both log, then they apply in the opposite order: the cache holds 1, the log says 2 (`DurableState`). |
| engine_decr_replay | `MCEngineDecr.cfg` | violation | A DECR is logged as a Decrement and an Increment of `-amount`, and recovery applies both. TLC may report any of several traces; one is SET k1 1, DECR k1 1, crash: recovery ends at -1 instead of 0. |
| engine_recovery_crash | `MCEngineRecoveryCrash.cfg` | violation | One client, one key, SET and DELETE only, no retention, crashes also during recovery. SET k1 1, DELETE k1, crash; recovery replays the SET, which logs it again, and a second crash strikes; the next recovery replays SET, DELETE, SET and k1 comes back (`DurableState`). Spec 4.4 calls the re-logging benign because replay completes before new writes; a crash during the replay is what makes it harmful. |

Engine bounds:

- **Log length.** `MaxLog = 4` bounds client
  writes only. Relogging during recovery is bounded by `MaxCrashes`.
- **Files.** Files of one or two entries make rotation, and with it
  retention, happen within those few writes.
- **Crashes.** Two crashes reach a crash during a recovery that follows
  a crash.

The Connections runs use three connections, `max_connections = 2`, a
session TTL of 1 and a clock up to 2.

| run | cfg | expect | what it shows |
|-----|-----|--------|---------------|
| conn_main | `MCConnections.cfg` | pass | Every client fault (read errors, refused credentials, failed writes). `TypeOK`, `CountCoversLive` (the counter never undercounts the live tasks), `ClosingReleases` and `AdmissionRefined` (the handler implements `Admission`) hold. |
| conn_leak | `MCConnectionsLeak.cfg` | violation | One client sends wrong credentials: its task returns at line 100 and the counter stays 1 with no live task (`CountMatchesLive`). |

The Query run uses `MCQuery`: two entries (each a document or not
JSON), one field whose value is any of the eight scalars or missing,
and 26 token sequences. These cover every operation, every parser
error, and the specification's acceptance test 4.

| run | cfg | expect | what it shows |
|-----|-----|--------|---------------|
| query_sum_numbers | `MCQuery.cfg` | violation | A document `{"age": 2}` and `SUM /age` give a sum of 0 (`SumAddsNumbers`). SUM only parses strings, and a numeric FILTER only keeps JSON numbers. So acceptance test 4 (`FILTER /age gte 30 COUNT SUM /age` over 20, 30 and 40, expecting 70) gets 0, and its key is `sum__age`. The specification disagrees with itself here: spec 4.8 (`spec.md:202`) and 9.3 (`spec.md:312`) document the string-only coercion as the behaviour, while acceptance test 4 (`spec.md:293`) and the module comment at `query.rs:19-21` expect numbers to be summed. The run records the conflict with the acceptance test. |

Connections bounds: three connections over a limit of two give one
rejection while two are live. A TTL of one tick and two ticks of clock
make a session expire both while idle and between requests.

Why these bounds are enough (CacheShard):

- **Three keys over a cap of two.** A third insert must evict. Every key
  position can be a victim, and a key can be rewritten while two others
  are present.
- **MaxTime = 2 with TTL 1.** An item can be stored at t=0, expire at t=2,
  and be seen expired. The LFRU age threshold of 1 s is crossed (age 2 > 1).
- **MaxFreq = 2 with threshold 2.** Both the infrequent and the frequent
  LFRU branches are reached.
- **Cap 0.** This is the value the code computes when `max_entries` is
  smaller than the power-of-two shard count, e.g. `max_entries = 100` with
  128 worker threads. `Config::validate` accepts this configuration.

Fairness. Engine has none: it checks safety only. In CacheShard, `EvictOne` and `InsertFinish` are weakly fair. The engine task
awaits `insert` to its end: nothing else can take the database lock, and a
tokio task that is runnable keeps being polled. No other action is fair:
clients may stop sending commands.

Mutants:

- Every passing property is also checked against a mutant, a plausible
  slip in the code. Each mutant is defined in the module just before the
  definition it replaces:
  - a new item starting at frequency 0;
  - a delete that forgets the queue;
  - the `>` instead of `>=` cap check;
  - LFRU without its last fallback;
  - (Engine) recovery missing the newest file (breaks `DurableState`,
    and `WalLogRefined` on `engine_retention`);
  - cleanup without `saturating_sub`;
  - a new `WalManager` that opens no new file;
  - (Connections) the counter incremented before the limit check;
  - a rejection that decrements;
  - a rejection that keeps the lock;
  - an admission check of `count > max` instead of `>=` (breaks `AdmissionRefined`).
- TLC finds each mutant's property violated.

## Proofs

`CacheShard_proofs.tla` proves, with TLAPS, `THEOREM TypeCorrect ==
Spec => []TypeOK` for every value of the constants. It relies on the
assumptions declared in `CacheShard`:

- `Keys` is finite and non-empty;
- the TTLs are naturals;
- `MaxFreq >= 1`.

The argument is:

- **Queue lemmas.**
  - `CompactOK`: renumbering a finite queue puts every position in
    `1..n`. The position of an entry is the size of a non-empty subset
    of the queue. So the result is a subset of the finite
    `(1..n) \X Keys`, by `FS_Interval`, `FS_Product` and `FS_Subset`.
  - `RetainOK` and `PushBackOK` follow, by `FS_Subset` and
    `FS_AddElement`.
- **Step lemmas.** `RemoveKeyOK`, `StoreOK`, `HitOK` and `ReapOK` show
  that each shared step keeps the shard and the queue well typed. `HitOK`
  uses the guard `freq < MaxFreq`.
- **Frame lemma.** `FrameOK` closes each case. The inductive step has one
  case per action, split by the disjuncts of the action.

TypeOK is inductive as it stands. It includes `IsFiniteSet(recency)`,
which the cardinalities in `PushBack` and `Compact` need.

`CacheShard_proofs.tla` also proves two safety theorems, for every value
of the constants:

- `RecencyCorrect == Spec => []RecencyMatchesMap`. The keys in the
  recency queue are exactly the keys of the item map.
  - Lemmas about the keys of a queue: `KeysCompact` (renumbering keeps
    them), `KeysRetain` (retain removes exactly the dropped keys) and
    `KeysPushBack` (append adds one).
  - Each shared step moves the map and the queue together: `StoreKeys`,
    `HitKeys`, `RemoveKeys`, `ReapKeys`.
  - `RecencyStep` has one case per action. Together with `TypeOK`, the
    invariant is inductive.
- `CapacityCorrect`: assuming `Cap >= 1`, `Spec => []CapacityBound`.
  - The inductive invariant is `CapInv == TypeOK /\ RecencyMatchesMap /    Size <= Cap /\ BreakEmpty`.
  - `BreakEmpty` says that an insert past the LRU `break` has an empty
    queue. By `RecencyMatchesMap` its shard is then empty, so the store
    that follows leaves one item, and `1 <= Cap`.
  - `CardMono` and `CardAdd` bound the size after a store or a removal.
  - With `Cap = 0` the theorem is false: the store after the break
    leaves one item in a shard with cap zero. The cap of zero is
    reachable (see the bounds above).

`Connections_proofs.tla` proves `Refinement == Spec => AdmissionRefined`:
the handler implements `Admission`.

- The initial phases map to all-waiting.
- `NextRefines` shows `IInv /\ [Next]_vars => [Abs!Next]_AbsConn`, with
  one case per action:
  - `Admit` maps to `Enter`. Its guard `count < MaxConnections` bounds the
    number of holders, because `IInv` contains `CountCoversLive` and
    `HoldingLive` equates the holders with the live tasks.
  - An early return or a release maps to `Leave`. A rejection maps to
    `Refuse`. Every other step changes no category (`AbsSame`).
- The theorem is the usual `Init`, `[][Next]` and `PTL` combination.


`Connections_proofs.tla` proves three theorems about the connection
counter, for every set of connections, limit, TTL and clock bound:

- `TypeCorrect == Spec => []TypeOK`;
- `CountCovers == Spec => []CountCoversLive`: the counter is never below
  the number of live tasks;
- `CountExact`: assuming `Faults = {}` and `ConfigValid`,
  `Spec => []CountMatchesLive`.

The argument:

- **Cardinality lemmas.** A handler step changes the phase of one task.
  The set of live tasks then stays the same (`CardStay`), gains that task
  (`CardEnter`) or loses it (`CardLeave`). These follow from
  `FS_AddElement`, `FS_RemoveElement` and `FS_Subset` of the library.
- **Inductive invariant.** `TypeOK` alone is not inductive: the final
  decrement needs `count >= 1`. The strengthening is
  `IInv == TypeOK /\ CountCoversLive`. A task that leaves the live phases
  by an early return lowers the live count and leaves the counter alone;
  the final decrement lowers both, and `CardLeave` gives the live count
  `>= 1` there.
- **Exactness.** Under the two assumptions no early return is enabled, so
  `count <= Cardinality(LiveConns)` is preserved as well
  (`NextAtMost`), and the two bounds give equality.

`Engine_proofs.tla` proves two theorems about the engine and its
write-ahead log. They hold for every set of clients, keys, values and
amounts, every `wal_segment_size >= 1`, every `wal_max_segments` (0
included), with or without crashes during recovery:

- `TypeCorrect == Spec => []TypeOK`;
- `SegmentLive == Spec => []CurrentSegmentLive`: `cleanup_old_segments`
  never removes the file the `WalManager` appends to.

The argument:

- **Log lemmas.** `WalOK(w)` says the log is well formed:
  - every file starts at an entry of the log or just past its end;
  - no more files are gone than exist;
  - every entry names a key of the database, unless it drops the
    database;
  - a live manager's file is on disk.

  `CleanupOK`, `EnsureOK`, `WrittenOK`, `LoggedOK` and `RelogOK` show
  that each step of `log_operation` keeps `WalOK`. They also show that
  `ensure_wal` leaves a manager. The key case is `Cleanup`: it keeps
  `wal_max_segments >= 1` files, and the manager's file is the newest one.
- **Inductive invariant.** `IInv` extends `TypeOK` with:
  - `WalOK(wal)`;
  - well-keyed pending requests and recovery buffer (`FileEntriesOK`
    covers the buffer `ReadSegment` fills);
  - `rec.last <= Len(wal.starts)`;
  - a client between DECR's two logs holds a Decrement.

  `TypeOK` alone is not inductive, for two reasons:
  - `LogDecrementIncrement` would log an Increment of a key it cannot
    show is a key;
  - `ReplayEntry` would apply an entry whose key it cannot show is a key.

  TLC checked `IInv` as an invariant of the `engine_retention`
  instance (1.09M states) before it was proved. `StepIInv` has one case
  per action.

`Engine_refinement.tla` proves `Refinement == Spec => WalLogRefined`,
for every value of the constants: the engine's log, retention and
recovery implement `WalLog`.

- **Log shape.** `WalShape(w)` says that the file starts are sorted, that
  there is no entry before the first file, and that fewer files are gone
  than exist. `Grows(w, v)` says that `v` extends `w`'s log and files and
  removes no fewer files. `OpensFile` says that `ensure_wal` without a
  manager opens a file at the end of the log. The lemmas `CleanupShape`,
  `EnsureShape`, `WrittenShape`, `LoggedShape` and `RelogShape` show that
  each step of `log_operation` keeps the shape and grows the log.
- **File ends.** `EndOf` is monotone in the file (`EndMono`), kept when
  the log grows past it (`EndStable`, `EndKept`), and bounded by the log
  (`EndBounds`). Cleanup moves `RemovedUpTo` forward only
  (`RemovedGrows`). `FileRead` says that the entries `ReadSegment` puts
  into `rec.buf` are the log's entries of that file.
- **Inductive invariant.** The proof needs `RInv`. It is `IInv` of
  `Engine_proofs` and `WalShape(wal)`, plus:
  - no manager while the server is down;
  - while recovering, `RecOK`: the cursor `rec.rd` is at most
    `rec.last + 1`; a manager exists exactly when replay has opened a
    file after `rec.last`; and `rec.buf` is the log from `ReplayPos` on.

  The last part is what makes a replayed entry equal to `log[next]`.
  Without it, nothing ties the buffer to the log. TLC checked `RInv` on
  the `engine_retention` and `engine_decr_replay`
  instances before it was proved.
- **Steps.** `StepRefines` shows `RInv /\ [Next]_vars =>
  [Durable!Next]_Durable!vars`, with one case per action:
  - `LogRequest` and `LogDecrementIncrement` map to `Write`;
  - `ReplayEntry` maps to `Replay` (`ReplayMoves`);
  - `Crash` maps to `Crash`, and `StartRecovery` to `Recover`;
  - `FinishRecovery` maps to `Finish`;
  - the aborted `ReadSegment` maps to `GiveUp`: the file it cannot open
    has been removed, so the position it would read is at most
    `removed + 1`;
  - every other step is a stutter.

Only model-checked:

- **Liveness.** `InsertCompletes` and `ClosingReleases` need fairness
  and ENABLED, which TLAPS cannot handle.
- **Failing properties.** A violated property has nothing to prove.
- **Engine durability.** `DurableState` holds only under the
  restrictions of `engine_single_writer`. It is model-checked there and
  not proved. Its inductive form says that the cache equals the log,
  folded from its start. Preserving that across a replay needs a lemma
  about the fold of every log, which is induction over sequences. The
  installed provers cannot instantiate the library's induction theorems.
  The refinement above proves the part of durability that needs no fold:
  recovery replays exactly the kept entries, in order.

## Not modelled

- **Shard selection.** `get_shard_index` hashes with `DefaultHasher`, and
  shards do not interact.
- **Metrics, logging, CLI, response framing.** They produce output only.
- **`mongo_config.rs`.** The file is entirely commented out.
- **`stats` and `view_data`.** They are read-only over the cache.
- **Configuration.** Start-up parsing is left out. Its effect enters as
  the constants `Cap` and `Policies`.
