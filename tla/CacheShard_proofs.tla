-------------------------- MODULE CacheShard_proofs --------------------------
(***************************************************************************)
(* Proofs about CacheShard that hold for every value of the constants.     *)
(***************************************************************************)
EXTENDS CacheShard, FiniteSetTheorems, TLAPS

\* a well-formed recency queue: finitely many <<position, key>> entries
QueueOK(R) == R \subseteq Entry /\ IsFiniteSet(R)

-----------------------------------------------------------------------------
(* The queue operations keep a queue well formed.                          *)

\* Renumbering the entries of a finite queue by rank gives positions in
\* 1..n and a finite queue.
LEMMA CompactOK ==
    ASSUME NEW R, QueueOK(R)
    PROVE  /\ Compact(R) \subseteq (1..Cardinality(R)) \X Keys
           /\ QueueOK(Compact(R))
<1>1. Cardinality(R) \in Nat
    BY FS_CardinalityType DEF QueueOK
<1>2. ASSUME NEW e \in R
      PROVE  Cardinality({f \in R : f[1] <= e[1]}) \in 1..Cardinality(R)
    <2> DEFINE S == {f \in R : f[1] <= e[1]}
    <2>1. IsFiniteSet(S) /\ Cardinality(S) <= Cardinality(R)
        BY FS_Subset DEF QueueOK
    <2>2. e \in S
        BY DEF QueueOK, Entry
    <2>3. Cardinality(S) # 0
        BY <2>1, <2>2, FS_EmptySet
    <2>4. Cardinality(S) \in Nat
        BY <2>1, FS_CardinalityType
    <2> QED
        BY <1>1, <2>1, <2>3, <2>4
<1>3. Compact(R) \subseteq (1..Cardinality(R)) \X Keys
    <2> SUFFICES ASSUME NEW x \in Compact(R)
                 PROVE  x \in (1..Cardinality(R)) \X Keys
        OBVIOUS
    <2>1. PICK e \in R : x = <<Cardinality({f \in R : f[1] <= e[1]}), e[2]>>
        BY DEF Compact
    <2>2. e[2] \in Keys
        BY DEF QueueOK, Entry
    <2> QED
        BY <2>1, <2>2, <1>2
<1>4. IsFiniteSet((1..Cardinality(R)) \X Keys)
    <2>1. IsFiniteSet(1..Cardinality(R))
        BY <1>1, FS_Interval
    <2> QED
        BY <2>1, FS_Product, KeysAssumption
<1> QED
    BY <1>3, <1>4, FS_Subset DEF QueueOK, Entry

\* lru_queue.retain keeps a queue well formed
LEMMA RetainOK ==
    ASSUME NEW R, QueueOK(R), NEW k
    PROVE  QueueOK(Retain(R, k))
<1>1. QueueOK({e \in R : e[2] # k})
    BY FS_Subset DEF QueueOK
<1> QED
    BY <1>1, CompactOK DEF Retain

\* lru_queue.push_back of a key keeps a queue well formed
LEMMA PushBackOK ==
    ASSUME NEW R, QueueOK(R), NEW k \in Keys
    PROVE  QueueOK(PushBack(R, k))
<1>1. <<Cardinality(R) + 1, k>> \in Entry
    BY FS_CardinalityType DEF QueueOK, Entry
<1>2. IsFiniteSet(R \cup {<<Cardinality(R) + 1, k>>})
    BY FS_AddElement DEF QueueOK
<1> QED
    BY <1>1, <1>2 DEF QueueOK, PushBack

-----------------------------------------------------------------------------
(* The shared steps keep the shard and its queue well typed.               *)

ShardOK(s) == s \in [Keys -> Item \cup {NoItem}]

\* Removing a key (shard.remove and lru_queue.retain) keeps both well typed.
LEMMA RemoveKeyOK ==
    ASSUME TypeOK, NEW k, RemoveKey(k)
    PROVE  ShardOK(shard') /\ QueueOK(recency')
BY RetainOK DEF TypeOK, RemoveKey, ShardOK, QueueOK

\* The final store of Cache::insert keeps the shard and queue well typed.
LEMMA StoreOK ==
    ASSUME TypeOK, NEW k \in Keys, NEW v \in Values, NEW ttl \in TTLs,
           Store(k, v, ttl)
    PROVE  ShardOK(shard') /\ QueueOK(recency')
<1>1. ExpiryFor(ttl, now) \in Nat \cup {NoExpiry}
    BY TTLAssumption DEF ExpiryFor, TypeOK
<1>2. [val |-> v, exp |-> ExpiryFor(ttl, now), last |-> now, freq |-> 1] \in Item
    BY <1>1, BoundAssumption DEF Item, TypeOK
<1> QED
    BY <1>2, PushBackOK DEF Store, TypeOK, ShardOK, QueueOK

\* A hit in get, update_key_value or incr_key_value keeps frequency within
\* its bound and the queue well formed.
LEMMA HitOK ==
    ASSUME TypeOK, NEW k \in Keys, NEW item \in Item,
           item.freq = shard[k].freq, Hit(k, item)
    PROVE  ShardOK(shard') /\ QueueOK(recency')
<1>1. [item EXCEPT !.freq = @ + 1, !.last = now] \in Item
    <2>1. item.freq \in 1..MaxFreq
        BY DEF Item
    <2>2. item.freq < MaxFreq
        BY DEF Hit
    <2>3. item.freq + 1 \in 1..MaxFreq
        BY <2>1, <2>2, BoundAssumption
    <2>4. now \in 0..MaxTime
        BY DEF TypeOK
    <2> QED
        BY <2>3, <2>4 DEF Item
<1>2. QueueOK(recency')
    BY RetainOK, PushBackOK DEF Hit, Touch, TypeOK, QueueOK
<1> QED
    BY <1>1, <1>2 DEF Hit, TypeOK, ShardOK

\* Reaping expired items in evict_shard keeps the shard and queue well typed.
LEMMA ReapOK ==
    ASSUME TypeOK, NEW t, Reap(t)
    PROVE  ShardOK(shard') /\ QueueOK(recency')
<1>1. QueueOK({e \in recency : e[2] \notin {k \in Present : Expired(shard[k], t)}})
    BY FS_Subset DEF TypeOK, QueueOK
<1> QED
    BY <1>1, CompactOK DEF Reap, TypeOK, ShardOK

\* A step that keeps the shard, its queue and the answer well typed and
\* leaves the clock, the policy and the running insert alone keeps TypeOK.
LEMMA FrameOK ==
    ASSUME TypeOK, ShardOK(shard'), QueueOK(recency'),
           resp' \in [key : Keys, hit : BOOLEAN] \cup {None},
           UNCHANGED <<now, policy, pending>>
    PROVE  TypeOK'
BY DEF TypeOK, ShardOK, QueueOK

\* Report(k, hit) for a key of the shard gives a well-typed answer
LEMMA ReportOK ==
    ASSUME NEW k \in Keys, NEW hit \in BOOLEAN, Report(k, hit)
    PROVE  resp' \in [key : Keys, hit : BOOLEAN] \cup {None}
BY DEF Report

-----------------------------------------------------------------------------
(* Every reachable state of the shard is well typed.                       *)
\* The initial state of the shard is well typed.
LEMMA TypeInit == Init => TypeOK
BY FS_EmptySet, BoundAssumption DEF Init, TypeOK, Entry

\* Every step of the shard keeps it well typed.
LEMMA TypeStep == TypeOK /\ [Next]_vars => TypeOK'
<1> SUFFICES ASSUME TypeOK, [Next]_vars PROVE TypeOK'
    OBVIOUS
<1>1. ASSUME NEW k \in Keys, NEW v \in Values, NEW ttl \in TTLs,
             Insert(k, v, ttl)
      PROVE  TypeOK'
    <2>1. CASE Size < Cap /\ Store(k, v, ttl) /\ UNCHANGED pending
        BY <2>1, <1>1, StoreOK, FrameOK DEF Insert
    <2>2. CASE Size >= Cap /\ Reap(now)
               /\ pending' = [key |-> k, val |-> v, ttl |-> ttl, at |-> now,
                              phase |-> "evict"]
        <3>1. ShardOK(shard') /\ QueueOK(recency')
            BY <2>2, ReapOK
        <3>2. pending' \in Pending
            BY <2>2 DEF TypeOK, Pending
        <3> QED
            BY <3>1, <3>2, <1>1 DEF Insert, TypeOK, ShardOK, QueueOK
    <2> QED
        BY <2>1, <2>2, <1>1 DEF Insert
<1>2. CASE EvictOne
    <2>1. CASE RemoveKey(Front(recency)[2]) /\ UNCHANGED pending
        <3>1. ShardOK(shard') /\ QueueOK(recency')
            BY <2>1, RemoveKeyOK
        <3>2. UNCHANGED <<now, policy, pending, resp>>
            BY <2>1, <1>2 DEF EvictOne
        <3> QED
            BY <3>1, <3>2, FrameOK DEF TypeOK
    <2>2. CASE pending' = [pending EXCEPT !.phase = "break"]
               /\ UNCHANGED <<shard, recency>>
        <3>1. pending' \in Pending
            BY <2>2, <1>2 DEF EvictOne, TypeOK, Pending
        <3> QED
            BY <3>1, <2>2, <1>2 DEF EvictOne, TypeOK
    <2>3. CASE (\E k \in ScanVictims : RemoveKey(k)) /\ UNCHANGED pending
        <3>1. PICK k \in ScanVictims : RemoveKey(k)
            BY <2>3
        <3>2. ShardOK(shard') /\ QueueOK(recency')
            BY <3>1, RemoveKeyOK
        <3>3. UNCHANGED <<now, policy, pending, resp>>
            BY <2>3, <1>2 DEF EvictOne
        <3> QED
            BY <3>2, <3>3, FrameOK DEF TypeOK
    <2>4. CASE UNCHANGED <<shard, recency, pending>>
        BY <2>4, <1>2, FrameOK DEF EvictOne, TypeOK, ShardOK, QueueOK
    <2> QED
        BY <2>1, <2>2, <2>3, <2>4, <1>2 DEF EvictOne
<1>3. CASE InsertFinish
    <2>1. pending \in Pending
        BY <1>3 DEF InsertFinish, TypeOK
    <2>2. ShardOK(shard') /\ QueueOK(recency')
        BY <2>1, <1>3, StoreOK DEF InsertFinish, Pending
    <2> QED
        BY <2>2, <1>3 DEF InsertFinish, TypeOK, ShardOK, QueueOK
<1>4. ASSUME NEW k \in Keys, Get(k) PROVE TypeOK'
    <2>1. CASE UNCHANGED <<shard, recency>>
        BY <2>1, <1>4, ReportOK, FrameOK DEF Get, TypeOK, ShardOK, QueueOK
    <2>2. CASE RemoveKey(k)
        BY <2>2, <1>4, ReportOK, RemoveKeyOK, FrameOK DEF Get
    <2>3. CASE shard[k] # NoItem /\ Hit(k, shard[k])
        <3>1. shard[k] \in Item
            BY <2>3 DEF TypeOK
        <3> QED
            BY <3>1, <2>3, <1>4, ReportOK, HitOK, FrameOK DEF Get
    <2> QED
        BY <2>1, <2>2, <2>3, <1>4 DEF Get
<1>5. ASSUME NEW k \in Keys, Delete(k) PROVE TypeOK'
    <2>1. CASE UNCHANGED <<shard, recency>>
        BY <2>1, <1>5, ReportOK, FrameOK DEF Delete, TypeOK, ShardOK, QueueOK
    <2>2. CASE RemoveKey(k)
        BY <2>2, <1>5, ReportOK, RemoveKeyOK, FrameOK DEF Delete
    <2> QED
        BY <2>1, <2>2, <1>5 DEF Delete
<1>6. ASSUME NEW k \in Keys, NEW v \in Values, Update(k, v) PROVE TypeOK'
    <2>1. CASE UNCHANGED <<shard, recency>>
        BY <2>1, <1>6, ReportOK, FrameOK DEF Update, TypeOK, ShardOK, QueueOK
    <2>2. CASE shard[k] # NoItem
               /\ Hit(k, [shard[k] EXCEPT !.val = v, !.exp = ExpiryFor(NoTTL, now)])
        <3>1. [shard[k] EXCEPT !.val = v, !.exp = ExpiryFor(NoTTL, now)] \in Item
            BY <2>2 DEF TypeOK, Item, ExpiryFor
        <3>5. [shard[k] EXCEPT !.val = v, !.exp = ExpiryFor(NoTTL, now)].freq = shard[k].freq
            BY <2>2 DEF TypeOK, Item
        <3>2. ShardOK(shard') /\ QueueOK(recency')
            BY <2>2, <3>1, <3>5, HitOK
        <3>3. resp' \in [key : Keys, hit : BOOLEAN] \cup {None}
            <4>1. PICK h \in BOOLEAN : Report(k, h)
                BY <1>6 DEF Update
            <4> QED
                BY <4>1, ReportOK
        <3> QED
            BY <3>2, <3>3, <1>6, FrameOK DEF Update
    <2> QED
        BY <2>1, <2>2, <1>6 DEF Update
<1>7. ASSUME NEW k \in Keys, NEW a \in Amounts, Incr(k, a) PROVE TypeOK'
    <2>1. CASE UNCHANGED <<shard, recency>>
        BY <2>1, <1>7, ReportOK, FrameOK DEF Incr, TypeOK, ShardOK, QueueOK
    <2>2. CASE shard[k] # NoItem /\ shard[k].val + a \in Values
               /\ Hit(k, [shard[k] EXCEPT !.val = @ + a])
        <3>1. [shard[k] EXCEPT !.val = @ + a] \in Item
            BY <2>2 DEF TypeOK, Item
        <3>5. [shard[k] EXCEPT !.val = @ + a].freq = shard[k].freq
            BY <2>2 DEF TypeOK, Item
        <3>2. ShardOK(shard') /\ QueueOK(recency')
            BY <2>2, <3>1, <3>5, HitOK
        <3>3. resp' \in [key : Keys, hit : BOOLEAN] \cup {None}
            <4>1. PICK h \in BOOLEAN : Report(k, h)
                BY <1>7 DEF Incr
            <4> QED
                BY <4>1, ReportOK
        <3> QED
            BY <3>2, <3>3, <1>7, FrameOK DEF Incr
    <2> QED
        BY <2>1, <2>2, <1>7 DEF Incr
<1>8. CASE Clear
    <2>1. ShardOK(shard') /\ QueueOK(recency')
        BY <1>8, FS_EmptySet DEF Clear, ShardOK, QueueOK
    <2> QED
        BY <2>1, <1>8, FrameOK DEF Clear
<1>9. CASE Tick
    BY <1>9, BoundAssumption DEF Tick, TypeOK
<1>10. CASE UNCHANGED vars
    BY <1>10 DEF vars, TypeOK
<1> QED
    BY <1>1, <1>2, <1>3, <1>4, <1>5, <1>6, <1>7, <1>8, <1>9, <1>10
    DEF Next

\* Every reachable state of the shard is well typed.
THEOREM TypeCorrect == Spec => []TypeOK
BY TypeInit, TypeStep, PTL DEF Spec

-----------------------------------------------------------------------------
(* The map and the recency queue hold the same keys.                       *)
(*                                                                         *)
(* Every step of the shard changes the keys of the map and the keys of    *)
(* the queue in the same way: both gain the key that is stored or hit,    *)
(* both lose the key that is removed, both lose the reaped keys, and      *)
(* drop_db empties both.  Renumbering (Compact) never changes the keys.   *)

\* the keys present in a map
Pres(s) == {k \in Keys : s[k] # NoItem}

\* No CacheItem is the absent marker.
LEMMA ItemNotNoItem == NoItem \notin Item
BY SentinelAssumption DEF Item

\* Renumbering keeps the keys of the queue.
LEMMA KeysCompact ==
    ASSUME NEW R
    PROVE  QueueKeys(Compact(R)) = QueueKeys(R)
<1>1. ASSUME NEW x \in QueueKeys(Compact(R)) PROVE x \in QueueKeys(R)
    <2>1. PICK e \in Compact(R) : x = e[2]
        BY <1>1 DEF QueueKeys
    <2>2. PICK f \in R : e = <<Cardinality({g \in R : g[1] <= f[1]}), f[2]>>
        BY <2>1 DEF Compact
    <2>. QED BY <2>1, <2>2 DEF QueueKeys
<1>2. ASSUME NEW x \in QueueKeys(R) PROVE x \in QueueKeys(Compact(R))
    <2>1. PICK f \in R : x = f[2]
        BY <1>2 DEF QueueKeys
    <2>2. <<Cardinality({g \in R : g[1] <= f[1]}), f[2]>> \in Compact(R)
        BY DEF Compact
    <2>. QED BY <2>1, <2>2 DEF QueueKeys
<1>. QED BY <1>1, <1>2

\* retain(|x| x != k) takes k out of the keys of the queue.
LEMMA KeysRetain ==
    ASSUME NEW R, NEW k
    PROVE  QueueKeys(Retain(R, k)) = QueueKeys(R) \ {k}
<1>1. QueueKeys({e \in R : e[2] # k}) = QueueKeys(R) \ {k}
    BY DEF QueueKeys
<1>. QED BY <1>1, KeysCompact DEF Retain

\* push_back(k) adds k to the keys of the queue, and so does a touch.
LEMMA KeysPushBack ==
    ASSUME NEW R, NEW k
    PROVE  /\ QueueKeys(PushBack(R, k)) = QueueKeys(R) \cup {k}
           /\ QueueKeys(Touch(R, k)) = QueueKeys(R) \cup {k}
<1>1. ASSUME NEW S PROVE QueueKeys(PushBack(S, k)) = QueueKeys(S) \cup {k}
    <2>1. QueueKeys(S \cup {<<Cardinality(S) + 1, k>>})
            = QueueKeys(S) \cup {<<Cardinality(S) + 1, k>>[2]}
        BY DEF QueueKeys
    <2>. QED BY <2>1 DEF PushBack
<1>2. QueueKeys(Touch(R, k)) = (QueueKeys(R) \ {k}) \cup {k}
    BY <1>1, KeysRetain DEF Touch
<1>. QED BY <1>1, <1>2

\* Storing a CacheItem at k adds k to the present keys.
LEMMA PresStore ==
    ASSUME NEW s \in [Keys -> Item \cup {NoItem}], NEW k \in Keys, NEW x \in Item
    PROVE  Pres([s EXCEPT ![k] = x]) = Pres(s) \cup {k}
BY ItemNotNoItem DEF Pres

\* Removing any key takes it out of the present keys.
LEMMA PresRemove ==
    ASSUME NEW s \in [Keys -> Item \cup {NoItem}], NEW x
    PROVE  Pres([s EXCEPT ![x] = NoItem]) = Pres(s) \ {x}
BY DEF Pres

\* the new CacheItem built by the final store of insert
LEMMA StoreItem ==
    ASSUME TypeOK, NEW v \in Values, NEW ttl \in TTLs
    PROVE  [val |-> v, exp |-> ExpiryFor(ttl, now), last |-> now, freq |-> 1] \in Item
<1>1. ExpiryFor(ttl, now) \in Nat \cup {NoExpiry}
    BY TTLAssumption DEF ExpiryFor, TypeOK
<1>. QED BY <1>1, BoundAssumption DEF Item, TypeOK

\* the item a hit writes back
LEMMA HitItem ==
    ASSUME TypeOK, NEW k \in Keys, NEW item \in Item, item.freq = shard[k].freq,
           shard[k].freq < MaxFreq
    PROVE  [item EXCEPT !.freq = @ + 1, !.last = now] \in Item
<1>1. item.freq + 1 \in 1..MaxFreq
    BY BoundAssumption DEF Item
<1>. QED BY <1>1 DEF Item, TypeOK

\* The final store adds k to both the map and the queue.
LEMMA StoreKeys ==
    ASSUME TypeOK, NEW k \in Keys, NEW v \in Values, NEW ttl \in TTLs,
           Store(k, v, ttl)
    PROVE  /\ Pres(shard') = Present \cup {k}
           /\ QueueKeys(recency') = QueueKeys(recency) \cup {k}
BY StoreItem, PresStore, KeysPushBack DEF Store, TypeOK, Present, Pres

\* A hit keeps k in the map and moves it to the tail of the queue.
LEMMA HitKeys ==
    ASSUME TypeOK, NEW k \in Keys, NEW item \in Item, item.freq = shard[k].freq,
           Hit(k, item)
    PROVE  /\ Pres(shard') = Present \cup {k}
           /\ QueueKeys(recency') = QueueKeys(recency) \cup {k}
<1>1. [item EXCEPT !.freq = @ + 1, !.last = now] \in Item
    BY HitItem DEF Hit
<1>2. shard' = [shard EXCEPT ![k] = [item EXCEPT !.freq = @ + 1, !.last = now]]
    BY DEF Hit
<1>3. Pres(shard') = Pres(shard) \cup {k}
    BY <1>1, <1>2, PresStore DEF TypeOK
<1>4. QueueKeys(recency') = QueueKeys(recency) \cup {k}
    BY KeysPushBack DEF Hit
<1>. QED BY <1>3, <1>4 DEF Present, Pres

\* Removing a key takes it from both.
LEMMA RemoveKeys ==
    ASSUME TypeOK, NEW x, RemoveKey(x)
    PROVE  /\ Pres(shard') = Present \ {x}
           /\ QueueKeys(recency') = QueueKeys(recency) \ {x}
BY PresRemove, KeysRetain DEF RemoveKey, TypeOK, Present, Pres

\* Reaping takes the expired keys from both.
LEMMA ReapKeys ==
    ASSUME TypeOK, NEW t, Reap(t)
    PROVE  LET dead == {k \in Present : Expired(shard[k], t)}
           IN  /\ Pres(shard') = Present \ dead
               /\ QueueKeys(recency') = QueueKeys(recency) \ dead
<1>. DEFINE dead == {k \in Present : Expired(shard[k], t)}
<1>1. Pres(shard') = Present \ dead
    BY DEF Reap, Pres, Present
<1>2. QueueKeys({e \in recency : e[2] \notin dead}) = QueueKeys(recency) \ dead
    BY DEF QueueKeys
<1>3. QueueKeys(recency') = QueueKeys(recency) \ dead
    BY <1>2, KeysCompact DEF Reap
<1>. QED BY <1>1, <1>3

\* Present after a step is Pres of the new map.
LEMMA PresentDef == Present' = Pres(shard')
BY DEF Present, Pres


\* Every step of the shard keeps the keys of the map and of the queue equal.
LEMMA RecencyStep ==
    TypeOK /\ RecencyMatchesMap /\ [Next]_vars => RecencyMatchesMap'
<1>. SUFFICES ASSUME TypeOK, RecencyMatchesMap, [Next]_vars
              PROVE  RecencyMatchesMap'
    OBVIOUS
<1>1. ASSUME NEW k \in Keys, NEW v \in Values, NEW ttl \in TTLs,
             Insert(k, v, ttl)
      PROVE  RecencyMatchesMap'
    <2>1. CASE Store(k, v, ttl)
        BY <2>1, StoreKeys, PresentDef DEF RecencyMatchesMap
    <2>2. CASE Reap(now)
        BY <2>2, ReapKeys, PresentDef DEF RecencyMatchesMap
    <2>. QED BY <1>1, <2>1, <2>2 DEF Insert
<1>2. CASE EvictOne
    <2>1. CASE \E x : RemoveKey(x)
        BY <2>1, RemoveKeys, PresentDef DEF RecencyMatchesMap
    <2>2. CASE UNCHANGED <<shard, recency>>
        BY <2>2 DEF RecencyMatchesMap, Present
    <2>. QED BY <1>2, <2>1, <2>2 DEF EvictOne
<1>3. CASE InsertFinish
    <2>1. pending \in Pending
        BY <1>3 DEF InsertFinish, TypeOK
    <2>. QED BY <1>3, <2>1, StoreKeys, PresentDef DEF InsertFinish, Pending, RecencyMatchesMap
<1>4. ASSUME NEW k \in Keys, Get(k) PROVE RecencyMatchesMap'
    <2>1. CASE UNCHANGED <<shard, recency>>
        BY <2>1 DEF RecencyMatchesMap, Present
    <2>2. CASE RemoveKey(k)
        BY <2>2, RemoveKeys, PresentDef DEF RecencyMatchesMap
    <2>3. CASE shard[k] # NoItem /\ Hit(k, shard[k])
        <3>1. shard[k] \in Item
            BY <2>3 DEF TypeOK
        <3>. QED BY <2>3, <3>1, HitKeys, PresentDef DEF RecencyMatchesMap
    <2>. QED BY <1>4, <2>1, <2>2, <2>3 DEF Get
<1>5. ASSUME NEW k \in Keys, Delete(k) PROVE RecencyMatchesMap'
    <2>1. CASE UNCHANGED <<shard, recency>>
        BY <2>1 DEF RecencyMatchesMap, Present
    <2>2. CASE RemoveKey(k)
        BY <2>2, RemoveKeys, PresentDef DEF RecencyMatchesMap
    <2>. QED BY <1>5, <2>1, <2>2 DEF Delete
<1>6. ASSUME NEW k \in Keys, NEW v \in Values, Update(k, v)
      PROVE  RecencyMatchesMap'
    <2>1. CASE UNCHANGED <<shard, recency>>
        BY <2>1 DEF RecencyMatchesMap, Present
    <2>2. CASE shard[k] # NoItem
               /\ Hit(k, [shard[k] EXCEPT !.val = v, !.exp = ExpiryFor(NoTTL, now)])
        <3>1. /\ [shard[k] EXCEPT !.val = v, !.exp = ExpiryFor(NoTTL, now)] \in Item
              /\ [shard[k] EXCEPT !.val = v, !.exp = ExpiryFor(NoTTL, now)].freq
                   = shard[k].freq
            BY <2>2 DEF TypeOK, Item, ExpiryFor
        <3>. QED BY <2>2, <3>1, HitKeys, PresentDef DEF RecencyMatchesMap
    <2>. QED BY <1>6, <2>1, <2>2 DEF Update
<1>7. ASSUME NEW k \in Keys, NEW a \in Amounts, Incr(k, a)
      PROVE  RecencyMatchesMap'
    <2>1. CASE UNCHANGED <<shard, recency>>
        BY <2>1 DEF RecencyMatchesMap, Present
    <2>2. CASE shard[k] # NoItem /\ shard[k].val + a \in Values
               /\ Hit(k, [shard[k] EXCEPT !.val = @ + a])
        <3>1. /\ [shard[k] EXCEPT !.val = @ + a] \in Item
              /\ [shard[k] EXCEPT !.val = @ + a].freq = shard[k].freq
            BY <2>2 DEF TypeOK, Item
        <3>. QED BY <2>2, <3>1, HitKeys, PresentDef DEF RecencyMatchesMap
    <2>. QED BY <1>7, <2>1, <2>2 DEF Incr
<1>8. CASE Clear
    BY <1>8 DEF Clear, RecencyMatchesMap, Present, QueueKeys
<1>9. CASE Tick \/ UNCHANGED vars
    BY <1>9 DEF Tick, vars, RecencyMatchesMap, Present
<1>. QED BY <1>1, <1>2, <1>3, <1>4, <1>5, <1>6, <1>7, <1>8, <1>9 DEF Next

\* Spec section 8: in every reachable state the keys of a shard's map are
\* exactly the keys in its recency queue, through inserts with their
\* eviction loop, expired-item removal in get, delete, update, incr,
\* reaping and drop_db.
THEOREM RecencyCorrect == Spec => []RecencyMatchesMap
<1>1. Init => TypeOK /\ RecencyMatchesMap
    BY TypeInit DEF Init, RecencyMatchesMap, Present, QueueKeys
<1>2. TypeOK /\ RecencyMatchesMap /\ [Next]_vars
        => (TypeOK /\ RecencyMatchesMap)'
    BY TypeStep, RecencyStep
<1>. QED BY <1>1, <1>2, PTL DEF Spec


-----------------------------------------------------------------------------
(* Between operations a shard holds at most its cap.                       *)
(*                                                                         *)
(* The count of items stays within the cap at every step, not only       *)
(* between operations: an insert below the cap adds one item, an insert  *)
(* at the cap reaps and evicts before it stores, and every other         *)
(* operation keeps or removes items.  The one store that is not guarded  *)
(* by the count is the one after the LRU loop broke on an empty queue;   *)
(* then the queue is empty, so (RecencyMatchesMap) the shard is empty    *)
(* and the store leaves one item, within any cap of at least one.        *)

\* after the LRU loop broke, the queue is empty until the store
BreakEmpty == (pending # None /\ pending.phase = "break") => recency = {}

CapInv == TypeOK /\ RecencyMatchesMap /\ Size <= Cap /\ BreakEmpty

\* a set of keys has a natural number of elements; a subset has no more,
\* and one more key adds at most one
LEMMA CardMono ==
    ASSUME NEW Q \in SUBSET Keys, NEW P \in SUBSET Q
    PROVE  Cardinality(P) \in Nat /\ Cardinality(Q) \in Nat
           /\ Cardinality(P) <= Cardinality(Q)
<1>1. IsFiniteSet(Q)
    BY KeysAssumption, FS_Subset
<1>. QED BY <1>1, FS_Subset, FS_CardinalityType

LEMMA CardAdd ==
    ASSUME NEW Q \in SUBSET Keys, NEW k
    PROVE  Cardinality(Q \cup {k}) <= Cardinality(Q) + 1
<1>1. IsFiniteSet(Q) /\ Cardinality(Q) \in Nat
    BY KeysAssumption, FS_Subset, FS_CardinalityType
<1>2. CASE k \in Q
    <2>1. Q \cup {k} = Q
        BY <1>2
    <2>. QED BY <1>1, <2>1
<1>3. CASE k \notin Q
    BY <1>1, <1>3, FS_AddElement
<1>. QED BY <1>2, <1>3

\* Size before and after a step, in terms of Pres
LEMMA SizeDef ==
    /\ Size = Cardinality(Pres(shard)) /\ Size' = Cardinality(Pres(shard'))
    /\ Present = Pres(shard)
    /\ Pres(shard) \in SUBSET Keys /\ Pres(shard') \in SUBSET Keys
BY DEF Size, Present, Pres

\* Every step keeps the shard within its cap, given a cap of at least one.
LEMMA CapStep ==
    ASSUME Cap >= 1
    PROVE  CapInv /\ [Next]_vars => (Size <= Cap /\ BreakEmpty)'
<1>. SUFFICES ASSUME CapInv, [Next]_vars PROVE Size' <= Cap /\ BreakEmpty'
    OBVIOUS
<1>0. /\ TypeOK /\ RecencyMatchesMap /\ Size <= Cap /\ BreakEmpty
      /\ Size \in Nat /\ Cap \in Nat
    <2>1. Cardinality(Pres(shard)) \in Nat
        BY SizeDef, CardMono
    <2>. QED BY <2>1, SizeDef, CapAssumption DEF CapInv
\* a step that only keeps or removes items, and leaves pending alone
<1>1. ASSUME Pres(shard') \subseteq Present, UNCHANGED pending,
             pending = None \/ pending.phase = "evict"
      PROVE  Size' <= Cap /\ BreakEmpty'
    <2>1. Cardinality(Pres(shard')) <= Cardinality(Pres(shard))
          /\ Cardinality(Pres(shard')) \in Nat
        BY <1>1, SizeDef, CardMono
    <2>2. Size' <= Cap
        BY <1>0, <2>1, SizeDef
    <2>. QED BY <1>1, <2>2 DEF BreakEmpty
<1>2. ASSUME NEW k \in Keys, NEW v \in Values, NEW ttl \in TTLs,
             Insert(k, v, ttl)
      PROVE  Size' <= Cap /\ BreakEmpty'
    <2>1. CASE Size < Cap /\ Store(k, v, ttl) /\ UNCHANGED pending
        <3>1. Pres(shard') = Present \cup {k}
            BY <1>0, <2>1, StoreKeys
        <3>2. Cardinality(Pres(shard')) <= Cardinality(Pres(shard)) + 1
            BY <3>1, SizeDef, CardAdd
        <3>3. Size' <= Cap
            BY <1>0, <2>1, <3>2, SizeDef
        <3>. QED BY <1>2, <2>1, <3>3 DEF Insert, Idle, BreakEmpty
    <2>2. CASE Reap(now) /\ pending'.phase = "evict"
        <3>1. Pres(shard') \subseteq Present
            BY <1>0, <2>2, ReapKeys
        <3>2. Cardinality(Pres(shard')) <= Cardinality(Pres(shard))
              /\ Cardinality(Pres(shard')) \in Nat
            BY <3>1, SizeDef, CardMono
        <3>3. Size' <= Cap
            BY <1>0, <3>2, SizeDef
        <3>. QED BY <2>2, <3>3 DEF BreakEmpty
    <2>. QED BY <1>2, <2>1, <2>2 DEF Insert
<1>3. CASE EvictOne
    <2>0. pending # None /\ pending.phase = "evict"
        BY <1>3 DEF EvictOne
    <2>1. CASE \E x : RemoveKey(x) /\ UNCHANGED pending
        BY <1>0, <2>0, <2>1, <1>1, RemoveKeys
    <2>2. CASE pending' = [pending EXCEPT !.phase = "break"]
               /\ UNCHANGED <<shard, recency>> /\ recency = {}
        <3>1. Size' <= Cap
            BY <1>0, <2>2 DEF Size, Present
        <3>. QED BY <2>2, <3>1 DEF BreakEmpty
    <2>3. CASE UNCHANGED <<shard, recency, pending>>
        BY <1>0, <2>0, <2>3, <1>1 DEF Pres, Present
    <2>. QED BY <1>3, <2>1, <2>2, <2>3 DEF EvictOne
<1>4. CASE InsertFinish
    <2>0. /\ pending \in Pending /\ pending # None /\ pending' = None
          /\ Store(pending.key, pending.val, pending.ttl)
          /\ Pres(shard') = Present \cup {pending.key}
          /\ pending.key \in Keys
        BY <1>0, <1>4, StoreKeys DEF InsertFinish, TypeOK, Pending
    <2>1. BreakEmpty'
        BY <2>0 DEF BreakEmpty
    <2>2. CASE Size < Cap
        <3>1. Cardinality(Pres(shard')) <= Cardinality(Pres(shard)) + 1
            BY <2>0, SizeDef, CardAdd
        <3>. QED BY <1>0, <2>1, <2>2, <3>1, SizeDef
    <2>3. CASE pending.phase = "break"
        <3>0. recency = {}
            BY <1>0, <2>0, <2>3 DEF BreakEmpty
        <3>1. Present = {}
            BY <1>0, <3>0 DEF RecencyMatchesMap, QueueKeys
        <3>2. Pres(shard') = {pending.key}
            BY <2>0, <3>1
        <3>3. Size' = 1
            BY <3>2, SizeDef, FS_Singleton
        <3>. QED BY <2>1, <3>3
    <2>. QED BY <1>4, <2>2, <2>3 DEF InsertFinish
\* a hit on a present key keeps the present keys
<1>5. ASSUME NEW k \in Keys, shard[k] # NoItem, Pres(shard') = Present \cup {k}
      PROVE  Pres(shard') \subseteq Present
    BY <1>5 DEF Present
<1>6. ASSUME NEW k \in Keys, Get(k) PROVE Size' <= Cap /\ BreakEmpty'
    <2>0. pending = None /\ UNCHANGED pending
        BY <1>6 DEF Get, Idle
    <2>1. CASE UNCHANGED <<shard, recency>>
        BY <2>0, <2>1, <1>1 DEF Pres, Present
    <2>2. CASE RemoveKey(k)
        BY <1>0, <2>0, <2>2, <1>1, RemoveKeys
    <2>3. CASE shard[k] # NoItem /\ Hit(k, shard[k])
        <3>1. shard[k] \in Item
            BY <1>0, <2>3 DEF TypeOK
        <3>. QED BY <1>0, <2>0, <2>3, <3>1, <1>5, <1>1, HitKeys
    <2>. QED BY <1>6, <2>1, <2>2, <2>3 DEF Get
<1>7. ASSUME NEW k \in Keys, Delete(k) PROVE Size' <= Cap /\ BreakEmpty'
    <2>0. pending = None /\ UNCHANGED pending
        BY <1>7 DEF Delete, Idle
    <2>1. CASE UNCHANGED <<shard, recency>>
        BY <2>0, <2>1, <1>1 DEF Pres, Present
    <2>2. CASE RemoveKey(k)
        BY <1>0, <2>0, <2>2, <1>1, RemoveKeys
    <2>. QED BY <1>7, <2>1, <2>2 DEF Delete
<1>8. ASSUME NEW k \in Keys, NEW v \in Values, Update(k, v)
      PROVE  Size' <= Cap /\ BreakEmpty'
    <2>0. pending = None /\ UNCHANGED pending
        BY <1>8 DEF Update, Idle
    <2>1. CASE UNCHANGED <<shard, recency>>
        BY <2>0, <2>1, <1>1 DEF Pres, Present
    <2>2. CASE shard[k] # NoItem
               /\ Hit(k, [shard[k] EXCEPT !.val = v, !.exp = ExpiryFor(NoTTL, now)])
        <3>1. /\ [shard[k] EXCEPT !.val = v, !.exp = ExpiryFor(NoTTL, now)] \in Item
              /\ [shard[k] EXCEPT !.val = v, !.exp = ExpiryFor(NoTTL, now)].freq
                   = shard[k].freq
            BY <1>0, <2>2 DEF TypeOK, Item, ExpiryFor
        <3>. QED BY <1>0, <2>0, <2>2, <3>1, <1>5, <1>1, HitKeys
    <2>. QED BY <1>8, <2>1, <2>2 DEF Update
<1>9. ASSUME NEW k \in Keys, NEW a \in Amounts, Incr(k, a)
      PROVE  Size' <= Cap /\ BreakEmpty'
    <2>0. pending = None /\ UNCHANGED pending
        BY <1>9 DEF Incr, Idle
    <2>1. CASE UNCHANGED <<shard, recency>>
        BY <2>0, <2>1, <1>1 DEF Pres, Present
    <2>2. CASE shard[k] # NoItem /\ shard[k].val + a \in Values
               /\ Hit(k, [shard[k] EXCEPT !.val = @ + a])
        <3>1. /\ [shard[k] EXCEPT !.val = @ + a] \in Item
              /\ [shard[k] EXCEPT !.val = @ + a].freq = shard[k].freq
            BY <1>0, <2>2 DEF TypeOK, Item
        <3>. QED BY <1>0, <2>0, <2>2, <3>1, <1>5, <1>1, HitKeys
    <2>. QED BY <1>9, <2>1, <2>2 DEF Incr
<1>10. CASE Clear
    <2>1. pending = None /\ UNCHANGED pending /\ Pres(shard') = {}
        BY <1>10 DEF Clear, Idle, Pres
    <2>. QED BY <2>1, <1>1
<1>11. CASE Tick \/ UNCHANGED vars
    BY <1>0, <1>11 DEF Tick, vars, Size, Present, BreakEmpty
<1>. QED BY <1>2, <1>3, <1>4, <1>6, <1>7, <1>8, <1>9, <1>10, <1>11 DEF Next

\* With a per-shard cap (max_size / shard_count) of at least one, a shard
\* never holds more items than its cap between operations: the insert guard
\* (cache.rs 165), the eviction loop (258) and the break on an empty LRU
\* queue (264-266) keep it there.  The cap of zero is excluded: there the
\* store after the break leaves one item in a shard whose cap is zero.
THEOREM CapacityCorrect ==
    ASSUME Cap >= 1
    PROVE  Spec => []CapacityBound
<1>1. Init => CapInv
    <2>1. Init => Size = 0
        BY FS_EmptySet DEF Init, Size, Present
    <2>. QED BY <2>1, TypeInit, CapAssumption
             DEF Init, CapInv, RecencyMatchesMap, Present, QueueKeys, BreakEmpty
<1>2. CapInv /\ [Next]_vars => CapInv'
    BY TypeStep, RecencyStep, CapStep DEF CapInv
<1>3. CapInv => CapacityBound
    BY DEF CapInv, CapacityBound
<1>. QED BY <1>1, <1>2, <1>3, PTL DEF Spec

=============================================================================
