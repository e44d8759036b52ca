----------------------------- MODULE CacheShard -----------------------------
(***************************************************************************)
(* One shard of a tinycache database cache (src/src/db/cache.rs): the map  *)
(* CacheKey -> CacheItem together with its recency queue lru_queues[i],    *)
(* the insert path with its eviction loop (evict_shard, policies LRU, LFU  *)
(* and LFRU) and the key-value operations get, update_key_value, delete    *)
(* and incr_key_value.                                                     *)
(*                                                                         *)
(* Every operation runs under the database's Cache write lock taken by the *)
(* engine (src/src/db/db.rs: cache.write().await), so operations on one    *)
(* shard never interleave; only the wall clock advances between the steps  *)
(* of an insert.  An insert into a full shard is three steps: the check    *)
(* and reaping of expired items (cache.rs 165-168, 241-255), one step per  *)
(* iteration of the eviction loop (258-330), and the final store (173-189).*)
(*                                                                         *)
(* The VecDeque of keys is represented by a set of <<position, key>>       *)
(* entries whose positions are exactly 1..n: push_back adds position n+1,  *)
(* retain and pop_front renumber the survivors by rank.  Keys may appear   *)
(* in it more than once, as they can in the code.                          *)
(***************************************************************************)
EXTENDS Integers, FiniteSets

CONSTANTS
    Keys,               \* the CacheKeys that map to this shard
    Values,             \* DataValues: integers and the members of Texts
    Texts,              \* values that do not coerce to a number
    TTLs,               \* TTLs (seconds) the engine passes to insert
    NoTTL,              \* ttl = None (update_key_value from UPDATE_KEY)
    NoExpiry,           \* expiry = None
    NoItem,             \* the key is not in the map
    None,               \* no insert in progress / no answer yet
    Cap,                \* max_size / shard_count (cache.rs 165, 258)
    Policies,           \* the eviction_policy strings the config may hold
    FrequencyThreshold, \* frequency_threshold (5 in Cache::new)
    TimeThreshold,      \* time_threshold in seconds (3600 in Cache::new)
    Amounts,            \* increments passed to incr_key_value
    MaxTime,            \* bound: the last second the model lets the clock reach
    MaxFreq,            \* bound: the largest frequency an item may reach
    MaxQueue            \* bound: the longest recency queue the model explores

ASSUME KeysAssumption == IsFiniteSet(Keys) /\ Keys # {}
ASSUME CapAssumption == Cap \in Nat
ASSUME TTLAssumption == TTLs \subseteq Nat /\ NoTTL \notin Nat
ASSUME ThresholdAssumption ==
    FrequencyThreshold \in Nat /\ TimeThreshold \in Nat
ASSUME BoundAssumption ==
    MaxTime \in Nat /\ MaxFreq \in Nat \ {0} /\ MaxQueue \in Nat
ASSUME PolicyAssumption == Policies \subseteq {"LRU", "LFU", "LFRU"}
ASSUME AmountAssumption == Amounts \subseteq Int
ASSUME ValueAssumption == Values \subseteq Int \cup Texts /\ Texts \cap Int = {}
ASSUME SentinelAssumption ==
    /\ NoItem \notin [val : Values, exp : Nat \cup {NoExpiry},
                      last : Nat, freq : Nat]
    /\ NoExpiry \notin Nat

VARIABLES
    shard,    \* shards[i]: key -> CacheItem, or NoItem
    recency,  \* lru_queues[i] as a set of <<position, key>> entries
    now,      \* compute_now_timestamp(), Unix seconds
    policy,   \* eviction_policy of this Cache
    pending,  \* the insert that is running its eviction loop, or None
    resp      \* what the last operation reported: [key, hit], or None

vars == <<shard, recency, now, policy, pending, resp>>

-----------------------------------------------------------------------------
(* CacheItem (cache.rs 42-48).  created_at is only displayed by view_data *)
(* and is left out.                                                        *)
Item == [val : Values, exp : Nat \cup {NoExpiry}, last : 0..MaxTime,
         freq : 1..MaxFreq]

Entry == Nat \X Keys

Pending == [key : Keys, val : Values, ttl : TTLs, at : Nat,
            phase : {"evict", "break"}]

Present == {k \in Keys : shard[k] # NoItem}

Size == Cardinality(Present)

\* item.expiry.map_or(false, |e| now > e)   (cache.rs 205, 248)
Expired(item, t) == item.exp # NoExpiry /\ t > item.exp

\* compute_expiry_using_ttl (utils.rs 26-35)
ExpiryFor(ttl, t) == IF ttl = NoTTL THEN NoExpiry ELSE t + ttl

\* DataValue::String(s) => s.parse::<f64>(), DataValue::Json(j) => j.as_f64()
Numeric(v) == v \notin Texts

-----------------------------------------------------------------------------
(* The VecDeque<CacheKey> operations the code uses.                        *)

QueueKeys(R) == {e[2] : e \in R}

\* renumber the entries 1..n keeping their order
Compact(R) == {<<Cardinality({f \in R : f[1] <= e[1]}), e[2]>> : e \in R}

\* lru_queue.retain(|k| k != key)
Retain(R, k) == Compact({e \in R : e[2] # k})

\* lru_queue.push_back(key)
PushBack(R, k) == R \cup {<<Cardinality(R) + 1, k>>}

\* the entry lru_queue.pop_front() returns
Front(R) == CHOOSE e \in R : \A f \in R : e[1] <= f[1]

\* retain followed by push_back: move the key to the tail
Touch(R, k) == PushBack(Retain(R, k), k)

-----------------------------------------------------------------------------
(* Victims of one iteration of the eviction loop.  Where the code picks    *)
(* the first of several equal candidates in HashMap iteration order, the   *)
(* model lets any of them be picked.                                       *)

\* shard.iter().min_by_key(|(_, item)| item.frequency)   (cache.rs 270)
LFUVictims == {k \in Present : \A j \in Present : shard[k].freq <= shard[j].freq}

\* the sort of cache.rs 284-291: frequency ascending, then last_access
\* descending; j sorts before k
SortsBefore(j, k) ==
    \/ shard[j].freq < shard[k].freq
    \/ shard[j].freq = shard[k].freq /\ shard[j].last > shard[k].last

FirstOf(S) == {k \in S : ~\E j \in S : SortsBefore(j, k)}

\* now.saturating_sub(last_access)
Age(k, t) == IF t >= shard[k].last THEN t - shard[k].last ELSE 0

Infrequent == {k \in Present : shard[k].freq < FrequencyThreshold}

Stale(t) == {k \in Infrequent : Age(k, t) > TimeThreshold}

\* Fault variant for mutation analysis: the final fallback of cache.rs
\* 320-326 left out, so a shard whose items are all frequent evicts nothing.
LFRUVictimsNoFallback(t) ==
    CASE Stale(t) # {}     -> FirstOf(Stale(t))
      [] Infrequent # {}   -> FirstOf(Infrequent)
      [] OTHER             -> {}

\* cache.rs 296-326: infrequent and stale first, then infrequent, then the
\* first of the sorted candidates
LFRUVictims(t) ==
    CASE Stale(t) # {}     -> FirstOf(Stale(t))
      [] Infrequent # {}   -> FirstOf(Infrequent)
      [] OTHER             -> FirstOf(Present)

\* the keys one LFU or LFRU iteration may remove; evict_shard reads the clock
\* once, when the insert found the shard full
ScanVictims ==
    IF policy = "LFU" THEN LFUVictims ELSE LFRUVictims(pending.at)

-----------------------------------------------------------------------------
(* Steps shared by several operations.                                    *)

Idle == pending = None

\* shard.remove(&key); lru_queue.retain(|k| k != &key);
RemoveKey(k) ==
    /\ shard' = [shard EXCEPT ![k] = NoItem]
    /\ recency' = Retain(recency, k)

\* Fault variant for mutation analysis: a new item starts at frequency 0.
StoreFreqZero(k, v, ttl) ==
    /\ shard' = [shard EXCEPT ![k] = [val |-> v, exp |-> ExpiryFor(ttl, now),
                                      last |-> now, freq |-> 0]]
    /\ recency' = PushBack(recency, k)

\* cache.rs 173-189: build the item and push the key to the tail
Store(k, v, ttl) ==
    /\ shard' = [shard EXCEPT ![k] = [val |-> v, exp |-> ExpiryFor(ttl, now),
                                      last |-> now, freq |-> 1]]
    /\ recency' = PushBack(recency, k)

\* cache.rs 241-255: remove every item expired at time t
Reap(t) ==
    LET dead == {k \in Present : Expired(shard[k], t)}
    IN  /\ shard' = [k \in Keys |-> IF k \in dead THEN NoItem ELSE shard[k]]
        /\ recency' = Compact({e \in recency : e[2] \notin dead})

\* a hit: frequency += 1, last_access = now, move the key to the tail
Hit(k, item) ==
    /\ shard[k].freq < MaxFreq
    /\ shard' = [shard EXCEPT ![k] = [item EXCEPT !.freq = @ + 1, !.last = now]]
    /\ recency' = Touch(recency, k)

Report(k, hit) == resp' = [key |-> k, hit |-> hit]

-----------------------------------------------------------------------------
(* Operations.                                                             *)

Init ==
    /\ shard = [k \in Keys |-> NoItem]
    /\ recency = {}
    /\ now = 0
    /\ policy \in Policies
    /\ pending = None
    /\ resp = None

\* Fault variant for mutation analysis: `shard.len() > cap` as the guard.
InsertOffByOne(k, v, ttl) ==
    /\ Idle
    /\ Cardinality(recency) < MaxQueue
    /\ \/ /\ Size <= Cap
          /\ Store(k, v, ttl)
          /\ UNCHANGED pending
       \/ /\ Size > Cap
          /\ Reap(now)
          /\ pending' = [key |-> k, val |-> v, ttl |-> ttl, at |-> now,
                         phase |-> "evict"]
    /\ resp' = None
    /\ UNCHANGED <<now, policy>>

\* Cache::insert (cache.rs 160-190) entered: a shard below the cap stores
\* at once; a full one reaps expired items and enters the eviction loop.
Insert(k, v, ttl) ==
    /\ Idle
    /\ Cardinality(recency) < MaxQueue
    /\ \/ /\ Size < Cap
          /\ Store(k, v, ttl)
          /\ UNCHANGED pending
       \/ /\ Size >= Cap
          /\ Reap(now)
          /\ pending' = [key |-> k, val |-> v, ttl |-> ttl, at |-> now,
                         phase |-> "evict"]
    /\ resp' = None
    /\ UNCHANGED <<now, policy>>

\* One iteration of `while shard.len() >= self.max_size / self.shard_count`
\* (cache.rs 258-330).  An LFU or LFRU iteration that finds no victim (an
\* empty shard) removes nothing and the loop goes round again.
EvictOne ==
    /\ pending # None
    /\ pending.phase = "evict"
    /\ Size >= Cap
    /\ \/ /\ policy = "LRU"
          /\ recency # {}
          /\ RemoveKey(Front(recency)[2])
          /\ UNCHANGED pending
       \/ /\ policy = "LRU"
          /\ recency = {}
          /\ pending' = [pending EXCEPT !.phase = "break"]
          /\ UNCHANGED <<shard, recency>>
       \/ /\ policy \in {"LFU", "LFRU"}
          /\ \E k \in ScanVictims : RemoveKey(k)
          /\ UNCHANGED pending
       \/ /\ policy \in {"LFU", "LFRU"}
          /\ ScanVictims = {}
          /\ UNCHANGED <<shard, recency, pending>>
    /\ UNCHANGED <<now, policy, resp>>

\* the loop has ended: re-lock and store (cache.rs 169-189)
InsertFinish ==
    /\ pending # None
    /\ pending.phase = "break" \/ Size < Cap
    /\ Store(pending.key, pending.val, pending.ttl)
    /\ pending' = None
    /\ UNCHANGED <<now, policy, resp>>

\* Cache::get (cache.rs 193-222)
Get(k) ==
    /\ Idle
    /\ \/ /\ shard[k] = NoItem
          /\ Report(k, FALSE)
          /\ UNCHANGED <<shard, recency>>
       \/ /\ shard[k] # NoItem
          /\ Expired(shard[k], now)
          /\ RemoveKey(k)
          /\ Report(k, FALSE)
       \/ /\ shard[k] # NoItem
          /\ ~Expired(shard[k], now)
          /\ Hit(k, shard[k])
          /\ Report(k, TRUE)
    /\ UNCHANGED <<now, policy, pending>>

\* Cache::update_key_value (cache.rs 370-408); UPDATE_KEY passes ttl None
Update(k, v) ==
    /\ Idle
    /\ \/ /\ shard[k] = NoItem
          /\ Report(k, FALSE)
          /\ UNCHANGED <<shard, recency>>
       \/ /\ shard[k] # NoItem
          /\ Hit(k, [shard[k] EXCEPT !.val = v, !.exp = ExpiryFor(NoTTL, now)])
          /\ Report(k, TRUE)
    /\ UNCHANGED <<now, policy, pending>>

\* Fault variant for mutation analysis: delete removes the map entry but
\* leaves the key in the recency queue.
DeleteNoRetain(k) ==
    /\ Idle
    /\ \/ /\ shard[k] = NoItem
          /\ Report(k, FALSE)
          /\ UNCHANGED <<shard, recency>>
       \/ /\ shard[k] # NoItem
          /\ shard' = [shard EXCEPT ![k] = NoItem]
          /\ Report(k, TRUE)
          /\ UNCHANGED recency
    /\ UNCHANGED <<now, policy, pending>>

\* Cache::delete (cache.rs 224-235)
Delete(k) ==
    /\ Idle
    /\ \/ /\ shard[k] = NoItem
          /\ Report(k, FALSE)
          /\ UNCHANGED <<shard, recency>>
       \/ /\ shard[k] # NoItem
          /\ RemoveKey(k)
          /\ Report(k, TRUE)
    /\ UNCHANGED <<now, policy, pending>>

\* Cache::incr_key_value (cache.rs 410-443); decrement passes -amount
Incr(k, a) ==
    /\ Idle
    /\ \/ /\ ~(shard[k] # NoItem /\ Numeric(shard[k].val))
          /\ Report(k, FALSE)
          /\ UNCHANGED <<shard, recency>>
       \/ /\ shard[k] # NoItem
          /\ Numeric(shard[k].val)
          /\ shard[k].val + a \in Values
          /\ Hit(k, [shard[k] EXCEPT !.val = @ + a])
          /\ Report(k, TRUE)
    /\ UNCHANGED <<now, policy, pending>>

\* TinyCache::drop_db clears every shard and recency queue (db.rs 192-203)
Clear ==
    /\ Idle
    /\ shard' = [k \in Keys |-> NoItem]
    /\ recency' = {}
    /\ resp' = None
    /\ UNCHANGED <<now, policy, pending>>

\* the wall clock advances, whatever the shard is doing
Tick ==
    /\ now < MaxTime
    /\ now' = now + 1
    /\ UNCHANGED <<shard, recency, policy, pending, resp>>

Next ==
    \/ \E k \in Keys, v \in Values, ttl \in TTLs : Insert(k, v, ttl)
    \/ EvictOne
    \/ InsertFinish
    \/ \E k \in Keys : Get(k) \/ Delete(k)
    \/ \E k \in Keys, v \in Values : Update(k, v)
    \/ \E k \in Keys, a \in Amounts : Incr(k, a)
    \/ Clear
    \/ Tick

\* The engine awaits every insert to its end: the eviction loop and the
\* final store are taken whenever they can be.
Fairness == WF_vars(EvictOne) /\ WF_vars(InsertFinish)

Spec == Init /\ [][Next]_vars /\ Fairness

-----------------------------------------------------------------------------
(* Properties.                                                             *)

TypeOK ==
    /\ shard \in [Keys -> Item \cup {NoItem}]
    /\ recency \subseteq Entry
    /\ IsFiniteSet(recency)
    /\ now \in 0..MaxTime
    /\ policy \in Policies
    /\ pending \in Pending \cup {None}
    /\ resp \in [key : Keys, hit : BOOLEAN] \cup {None}

\* Spec section 8: the keys of the map are exactly the keys in the recency
\* queue.  Broken by any path that removes from one and not the other
\* (get on an expired item, eviction, delete, reaping).
RecencyMatchesMap == QueueKeys(recency) = Present

\* Between operations a shard never holds more than max_size/shard_count
\* items: the insert guard (cache.rs 165) and the loop (258) keep it there.
CapacityBound == Idle => Size <= Cap

\* Spec 4.1: a key whose expiry has passed is treated as absent.  No
\* operation reports an item present that was already expired when it ran.
ExpiredNeverServed ==
    [][\A k \in Keys :
         (resp' # None /\ resp'.key = k /\ resp'.hit) =>
             ~(shard[k] # NoItem /\ Expired(shard[k], now))]_vars

\* Spec 4.1 and the glossary: the LRU policy pops the head of the recency
\* queue, the least recently used key.  Every key an LRU eviction step
\* removes was accessed no later than any other key in the shard.
LruEvictsLeastRecent ==
    [][(policy = "LRU" /\ pending # None /\ pending' # None) =>
         \A v \in Present \ Present' :
             \A j \in Present : shard[v].last <= shard[j].last]_vars

\* Every insert that enters the eviction loop finishes: each iteration
\* removes an item until the shard is below the cap (spec section 8).
InsertCompletes == pending # None ~> pending = None

=============================================================================
