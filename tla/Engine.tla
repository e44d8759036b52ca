------------------------------- MODULE Engine -------------------------------
(***************************************************************************)
(* One tinycache database as the engine (src/src/db/db.rs) and the         *)
(* write-ahead log (src/src/persistance/persistance.rs) handle it: every   *)
(* write first appends a WalEntry through log_operation, then takes the    *)
(* database's cache write lock and applies the operation.  Clients are     *)
(* tokio tasks that interleave between those two steps.  The server may    *)
(* crash at any time; at start-up recover_all reads the segment files     *)
(* oldest first and replays every entry through the public engine methods, *)
(* which log it again.                                                     *)
(*                                                                         *)
(* The log is kept as the sequence of every entry ever appended, cut into  *)
(* segment files: starts[i] is the position of the first entry of file i,  *)
(* and files 1..gone have been removed by cleanup_old_segments, which      *)
(* always removes the oldest ones.  The cache of this database is a map    *)
(* from keys to integer values: create_key_value gives an expiry a week or *)
(* more ahead and the models of this module keep below the shard cap, so   *)
(* neither expiry nor eviction removes an item here (see CacheShard).      *)
(***************************************************************************)
EXTENDS Integers, Sequences

CONSTANTS
    Clients,        \* concurrent client connections writing to the database
    Keys,           \* keys of the database
    Values,         \* values a SET or UPDATE writes
    Amounts,        \* amounts of INCR and DECR
    Ops,            \* the commands clients send: subset of OpNames
    NoItem,         \* the key is not in the cache
    NoKey,          \* the key field of a DropDb entry
    SegmentSize,    \* wal_segment_size, counted in entries
    MaxSegments,    \* wal_max_segments (0 = keep every segment)
    CrashInRecovery,\* whether the server may also crash while recovering
    MaxLog,         \* bound: clients write while the log is shorter
    MaxCrashes      \* bound: number of crashes explored

OpNames == {"Create", "Update", "Delete", "Increment", "Decrement", "DropDb"}

ASSUME ConstantsAssumption ==
    /\ Ops \subseteq OpNames
    /\ Values \subseteq Int /\ Amounts \subseteq Int
    /\ NoItem \notin Int /\ NoKey \notin Keys
    /\ SegmentSize \in Nat \ {0} /\ MaxSegments \in Nat
    /\ CrashInRecovery \in BOOLEAN
    /\ MaxLog \in Nat /\ MaxCrashes \in Nat

VARIABLES
    cache,    \* the database's Cache: key -> value, or NoItem
    wal,      \* [log, starts, gone, cur, mgr]: the segment files and WalManager
    pc,       \* per client: "idle", "decr2" (between DECR's two logs), "apply"
    req,      \* per client: the WalOperation its command logged first
    up,       \* "up", "down" or "recovering"
    rec,      \* recovery cursor: [rd, last, buf]
    crashes,  \* crashes so far
    expected  \* the state the acknowledged log order defines (history)

vars == <<cache, wal, pc, req, up, rec, crashes, expected>>

-----------------------------------------------------------------------------
(* WalOperation (persistance.rs 100-123), with the key and the value or   *)
(* amount it carries.                                                      *)
Entry == [op : OpNames, key : Keys \cup {NoKey}, arg : Int]

Mk(op, k, x) == [op |-> op, key |-> k, arg |-> x]

EmptyCache == [k \in Keys |-> NoItem]

\* the effect of one operation on the cache (cache.rs insert, delete,
\* update_key_value, incr_key_value; drop_db clears every shard); a
\* decrement reaches the cache as an increment (see Effect)
Apply(m, e) ==
    CASE e.op = "Create"    -> [m EXCEPT ![e.key] = e.arg]
      [] e.op = "Delete"    -> [m EXCEPT ![e.key] = NoItem]
      [] e.op = "Update"    -> IF m[e.key] # NoItem
                               THEN [m EXCEPT ![e.key] = e.arg] ELSE m
      [] e.op = "Increment" -> IF m[e.key] # NoItem
                               THEN [m EXCEPT ![e.key] = @ + e.arg] ELSE m
      [] e.op = "DropDb"    -> EmptyCache

-----------------------------------------------------------------------------
(* The write-ahead log.                                                    *)

\* the files still on disk
FileCount(w) == Len(w.starts) - w.gone

\* the entries of file i
FileEntries(w, i) ==
    SubSeq(w.log, w.starts[i],
           IF i < Len(w.starts) THEN w.starts[i + 1] - 1 ELSE Len(w.log))

\* mutant: the count of files to remove without saturating_sub
CleanupNoSaturate(w) ==
    IF MaxSegments = 0 THEN w
    ELSE [w EXCEPT !.gone = Len(w.starts) - MaxSegments]

\* cleanup_old_segments (persistance.rs 550-616): keep the newest
\* wal_max_segments files; 0 disables the cleanup
Cleanup(w) ==
    IF MaxSegments = 0 \/ FileCount(w) <= MaxSegments THEN w
    ELSE [w EXCEPT !.gone = Len(w.starts) - MaxSegments]

\* mutant: a new WalManager that keeps appending to the last listed file
EnsureNoFile(w) ==
    IF w.mgr THEN w ELSE [w EXCEPT !.cur = 0, !.mgr = TRUE]

\* ensure_wal (persistance.rs 325-347): the first write after start-up
\* creates a WalManager, which opens a new segment file
Ensure(w) ==
    IF w.mgr THEN w
    ELSE [w EXCEPT !.starts = Append(@, Len(w.log) + 1), !.cur = 0,
                   !.mgr = TRUE]

\* WalManager::append (188-262): write the line, count it and rotate to a
\* new file once the segment is full (rotate, 265-300)
Written(w, e) ==
    LET w1 == [w EXCEPT !.log = Append(@, e), !.cur = @ + 1]
    IN  IF w1.cur >= SegmentSize
        THEN [w1 EXCEPT !.starts = Append(@, Len(w1.log) + 1), !.cur = 0]
        ELSE w1

\* log_operation (350-384): ensure_wal, append, then cleanup_old_segments
Logged(w, e) == Cleanup(Written(Ensure(w), e))

\* what the engine method a replayed entry calls appends to the log:
\* decrement_key_value logs Decrement and then, through
\* increment_key_value, an Increment of -amount (db.rs 341-357)
Relog(w, e) ==
    IF e.op = "Decrement"
    THEN Logged(Logged(w, e), Mk("Increment", e.key, -e.arg))
    ELSE Logged(w, e)

\* the cache effect of a command; DECR applies through
\* increment_key_value with -amount
Effect(m, e) ==
    IF e.op = "Decrement" THEN Apply(m, Mk("Increment", e.key, -e.arg))
    ELSE Apply(m, e)

-----------------------------------------------------------------------------
(* Actions.                                                                *)

Init ==
    /\ cache = EmptyCache
    /\ wal = [log |-> <<>>, starts |-> <<>>, gone |-> 0, cur |-> 0,
              mgr |-> FALSE]
    /\ pc = [c \in Clients |-> "idle"]
    /\ req = [c \in Clients |-> Mk("DropDb", NoKey, 0)]
    /\ up = "up"
    /\ rec = [rd |-> 1, last |-> 0, buf |-> <<>>]
    /\ crashes = 0
    /\ expected = EmptyCache

\* the writes process_key_value_requests (requests.rs 347-497) dispatches:
\* SET, SET_EX and STORE (create), UPDATE_KEY, DELETE_KEY, INCR_KEY and
\* DECR_KEY with an amount that parses, and CLEAR_DB (drop_db, requests.rs
\* 84); the TTL of SET_EX is left out, this model has no clock
Requests ==
    {Mk(op, k, v) : op \in Ops \cap {"Create", "Update"}, k \in Keys,
                    v \in Values}
    \cup {Mk(op, k, a) : op \in Ops \cap {"Increment", "Decrement"},
                         k \in Keys, a \in Amounts}
    \cup {Mk(op, k, 0) : op \in Ops \cap {"Delete"}, k \in Keys}
    \cup (IF "DropDb" \in Ops THEN {Mk("DropDb", NoKey, 0)} ELSE {})

\* the first half of every write in db.rs (create_key_value 230-244,
\* update 359-372, delete 295-303, increment 317-329, decrement 341-355,
\* drop_db 187-190): the WalEntry is appended; the command counts as
\* acknowledged in log order
LogRequest(c, e) ==
    /\ up = "up"
    /\ pc[c] = "idle"
    /\ Len(wal.log) < MaxLog
    /\ wal' = Logged(wal, e)
    /\ req' = [req EXCEPT ![c] = e]
    /\ pc' = [pc EXCEPT ![c] = IF e.op = "Decrement" THEN "decr2" ELSE "apply"]
    /\ expected' = Effect(expected, e)
    /\ UNCHANGED <<cache, up, rec, crashes>>

\* decrement_key_value calls increment_key_value, which logs again
\* (db.rs 356, 323-329)
LogDecrementIncrement(c) ==
    /\ up = "up"
    /\ pc[c] = "decr2"
    /\ wal' = Logged(wal, Mk("Increment", req[c].key, -req[c].arg))
    /\ pc' = [pc EXCEPT ![c] = "apply"]
    /\ UNCHANGED <<cache, req, up, rec, crashes, expected>>

\* the second half: get_cache, cache.write().await and the Cache method
\* (db.rs 246-258, 305-313, 331-338, 374-381, 192-203)
ApplyRequest(c) ==
    /\ up = "up"
    /\ pc[c] = "apply"
    /\ cache' = Effect(cache, req[c])
    /\ pc' = [pc EXCEPT ![c] = "idle"]
    /\ UNCHANGED <<wal, req, up, rec, crashes, expected>>

\* get_key_value (db.rs 289-293) takes the cache write lock and reads; on
\* this cache it changes nothing
ReadKey(c, k) ==
    /\ up = "up"
    /\ pc[c] = "idle"
    /\ UNCHANGED vars

\* The process dies: the caches and the tasks are gone, the WalManagers
\* with them; what was written to the segment files stays.
Crash ==
    /\ \/ up = "up"
       \/ up = "recovering" /\ CrashInRecovery
    /\ crashes < MaxCrashes
    /\ up' = "down"
    /\ cache' = EmptyCache
    /\ pc' = [c \in Clients |-> "idle"]
    /\ wal' = [wal EXCEPT !.mgr = FALSE, !.cur = 0]
    /\ crashes' = crashes + 1
    /\ UNCHANGED <<req, rec, expected>>

\* mutant: the listing misses the newest file
StartRecoveryMissNewest ==
    /\ up = "down"
    /\ up' = "recovering"
    /\ rec' = [rd |-> wal.gone + 1, last |-> Len(wal.starts) - 1, buf |-> <<>>]
    /\ UNCHANGED <<cache, wal, pc, req, crashes, expected>>

\* TinyCache::new calls recover_all (db.rs 94, persistance.rs 619-662),
\* which lists the files wal-<db>-*.log and sorts them (recover, 387-416)
StartRecovery ==
    /\ up = "down"
    /\ up' = "recovering"
    /\ rec' = [rd |-> wal.gone + 1, last |-> Len(wal.starts), buf |-> <<>>]
    /\ UNCHANGED <<cache, wal, pc, req, crashes, expected>>

\* recover opens and reads the next listed file (429-431); when cleanup
\* has removed it since the listing, File::open fails, `?` ends the
\* recovery of the database with an error that recover_all only logs, and
\* the server starts with what was replayed so far
ReadSegment ==
    /\ up = "recovering"
    /\ rec.buf = <<>>
    /\ rec.rd <= rec.last
    /\ \/ /\ rec.rd > wal.gone
          /\ rec' = [rec EXCEPT !.buf = FileEntries(wal, rec.rd),
                                !.rd = @ + 1]
          /\ UNCHANGED up
       \/ /\ rec.rd <= wal.gone
          /\ up' = "up"
          /\ UNCHANGED rec
    /\ UNCHANGED <<cache, wal, pc, req, crashes, expected>>

\* replay_operation (505-547) calls the engine method of the entry, which
\* logs it again and applies it
ReplayEntry ==
    /\ up = "recovering"
    /\ rec.buf # <<>>
    /\ wal' = Relog(wal, Head(rec.buf))
    /\ cache' = Effect(cache, Head(rec.buf))
    /\ rec' = [rec EXCEPT !.buf = Tail(@)]
    /\ UNCHANGED <<pc, req, up, crashes, expected>>

\* every listed file replayed: TinyCache::new returns and the server
\* accepts clients (main.rs)
FinishRecovery ==
    /\ up = "recovering"
    /\ rec.buf = <<>>
    /\ rec.rd > rec.last
    /\ up' = "up"
    /\ UNCHANGED <<cache, wal, pc, req, rec, crashes, expected>>

Next ==
    \/ \E c \in Clients, e \in Requests : LogRequest(c, e)
    \/ \E c \in Clients : LogDecrementIncrement(c) \/ ApplyRequest(c)
    \/ \E c \in Clients, k \in Keys : ReadKey(c, k)
    \/ Crash
    \/ StartRecovery
    \/ ReadSegment
    \/ ReplayEntry
    \/ FinishRecovery

Spec == Init /\ [][Next]_vars

-----------------------------------------------------------------------------
(* Properties.                                                             *)

Wal == [log : Seq(Entry), starts : Seq(Nat \ {0}), gone : Nat,
        cur : Nat, mgr : BOOLEAN]

TypeOK ==
    /\ cache \in [Keys -> Int \cup {NoItem}]
    /\ wal \in Wal
    /\ wal.gone <= Len(wal.starts)
    /\ pc \in [Clients -> {"idle", "decr2", "apply"}]
    /\ req \in [Clients -> Entry]
    /\ up \in {"up", "down", "recovering"}
    /\ rec \in [rd : Nat \ {0}, last : Nat, buf : Seq(Entry)]
    /\ crashes \in 0..MaxCrashes
    /\ expected \in [Keys -> Int \cup {NoItem}]

\* The write-ahead log is the durable record of the database (persistance.rs
\* header: "WAL-only approach ... maintaining durability"; recovery restores
\* every database).  Whenever the server is up and no command is half done,
\* the cache holds exactly the state that the logged commands, taken in log
\* order, define, before and after any number of crashes and restarts.
DurableState ==
    (up = "up" /\ \A c \in Clients : pc[c] = "idle") => cache = expected

\* cleanup_old_segments never removes the segment file the WalManager is
\* appending to: while a manager exists, its current file is on disk.
CurrentSegmentLive == wal.mgr => wal.gone < Len(wal.starts)
-----------------------------------------------------------------------------
(* Refinement of the write-ahead log promise (WalLog.tla).  The segment   *)
(* files cut the log at starts; EndOf(w, i) is the position of the last    *)
(* entry of file i (0 for the files before the first).  The removed prefix *)
(* ends with the last removed file, and recovery is at the entry that      *)
(* comes before what is left of the buffered file.                         *)

EndOf(w, i) == IF i < Len(w.starts) THEN w.starts[i + 1] - 1 ELSE Len(w.log)

RemovedUpTo(w) == EndOf(w, w.gone)

ReplayPos == EndOf(wal, rec.rd - 1) + 1 - Len(rec.buf)

Durable == INSTANCE WalLog WITH
    log <- wal.log, removed <- RemovedUpTo(wal), mode <- up,
    next <- IF up = "recovering" THEN ReplayPos ELSE 0,
    limit <- IF up = "recovering" THEN EndOf(wal, rec.last) ELSE 0

\* The segment files, their rotation, cleanup_old_segments, ensure_wal after
\* a restart and the file-by-file reading of recover implement one log that
\* only grows at its end, loses only a prefix to retention, and is replayed
\* after a crash from the first kept entry to the last one written before
\* the crash, each entry once and in order.
WalLogRefined == Durable!Spec
=============================================================================
