---------------------------- MODULE Engine_proofs ----------------------------
(***************************************************************************)
(* TLAPS proofs about Engine: every reachable state is well typed, and    *)
(* the retention of cleanup_old_segments never removes the segment file   *)
(* the WalManager appends to.                                              *)
(***************************************************************************)
EXTENDS Engine, SequenceTheorems, TLAPS

\* an entry whose key is a key of the database unless it drops the database
GoodEntry == {e \in Entry : e.op # "DropDb" => e.key \in Keys}

\* a well-formed write-ahead log: each file starts at an entry of the log
\* or just past its end, and the manager's file is on disk
WalOK(w) ==
    /\ w \in Wal
    /\ w.gone <= Len(w.starts)
    /\ w.log \in Seq(GoodEntry)
    /\ \A i \in 1..Len(w.starts) : w.starts[i] <= Len(w.log) + 1
    /\ w.mgr => w.gone < Len(w.starts)

\* the inductive invariant
IInv ==
    /\ TypeOK
    /\ WalOK(wal)
    /\ \A c \in Clients : req[c] \in GoodEntry
    /\ \A c \in Clients : pc[c] = "decr2" => req[c].op = "Decrement"
    /\ rec.buf \in Seq(GoodEntry)
    /\ rec.last <= Len(wal.starts)
-----------------------------------------------------------------------------
(* The log operations keep the log well formed. *)

\* cleanup_old_segments removes files, never the newest wal_max_segments
LEMMA CleanupOK ==
    ASSUME NEW w, WalOK(w)
    PROVE  /\ WalOK(Cleanup(w))
           /\ Cleanup(w).starts = w.starts
           /\ Cleanup(w).log = w.log
           /\ Cleanup(w).mgr = w.mgr
<1>1. CASE MaxSegments = 0 \/ FileCount(w) <= MaxSegments
    BY <1>1 DEF Cleanup
<1>2. CASE ~(MaxSegments = 0 \/ FileCount(w) <= MaxSegments)
    <2>1. Cleanup(w) = [w EXCEPT !.gone = Len(w.starts) - MaxSegments]
        BY <1>2 DEF Cleanup
    <2>2. /\ w \in Wal
          /\ Len(w.starts) \in Nat
          /\ w.gone \in Nat
          /\ w.gone <= Len(w.starts)
        BY DEF WalOK, Wal
    <2>3. /\ Len(w.starts) - MaxSegments \in Nat
          /\ Len(w.starts) - MaxSegments <= Len(w.starts)
          /\ Len(w.starts) - MaxSegments < Len(w.starts)
        BY <1>2, <2>2, ConstantsAssumption DEF FileCount
    <2>4. Cleanup(w) = [log |-> w.log, starts |-> w.starts,
                        gone |-> Len(w.starts) - MaxSegments,
                        cur |-> w.cur, mgr |-> w.mgr]
        BY <2>1, <2>2 DEF Wal
    <2>5. Cleanup(w) \in Wal
        BY <2>2, <2>3, <2>4 DEF Wal
    <2>. QED BY <2>1, <2>3, <2>4, <2>5 DEF WalOK
<1>. QED BY <1>1, <1>2

\* appending the start of a new file at the end of the log keeps the
\* starts within the log
LEMMA NewStart ==
    ASSUME NEW st \in Seq(Nat \ {0}), NEW n \in Nat,
           \A i \in 1..Len(st) : st[i] <= n + 1
    PROVE  /\ Append(st, n + 1) \in Seq(Nat \ {0})
           /\ Len(Append(st, n + 1)) = Len(st) + 1
           /\ \A i \in 1..Len(Append(st, n + 1)) : Append(st, n + 1)[i] <= n + 1
<1>1. n + 1 \in Nat \ {0}
    OBVIOUS
<1>. QED BY <1>1, AppendProperties

\* a new WalManager opens a new file at the end of the log
LEMMA EnsureOK ==
    ASSUME NEW w, WalOK(w)
    PROVE  /\ WalOK(Ensure(w))
           /\ Ensure(w).mgr
           /\ Ensure(w).log = w.log
           /\ Len(Ensure(w).starts) >= Len(w.starts)
<1>1. CASE w.mgr
    BY <1>1 DEF Ensure
<1>2. CASE ~w.mgr
    <2>1. /\ w \in Wal
          /\ w.starts \in Seq(Nat \ {0})
          /\ w.log \in Seq(GoodEntry)
          /\ w.gone \in Nat
          /\ w.gone <= Len(w.starts)
          /\ \A i \in 1..Len(w.starts) : w.starts[i] <= Len(w.log) + 1
        BY DEF WalOK, Wal
    <2>2. Ensure(w) = [log |-> w.log,
                       starts |-> Append(w.starts, Len(w.log) + 1),
                       gone |-> w.gone, cur |-> 0, mgr |-> TRUE]
        BY <1>2, <2>1 DEF Ensure, Wal
    <2>3. /\ Append(w.starts, Len(w.log) + 1) \in Seq(Nat \ {0})
          /\ Len(Append(w.starts, Len(w.log) + 1)) = Len(w.starts) + 1
          /\ \A i \in 1..Len(Append(w.starts, Len(w.log) + 1)) :
                Append(w.starts, Len(w.log) + 1)[i] <= Len(w.log) + 1
        BY <2>1, NewStart
    <2>4. Ensure(w) \in Wal
        BY <2>1, <2>2, <2>3 DEF Wal
    <2>. QED BY <2>1, <2>2, <2>3, <2>4 DEF WalOK
<1>. QED BY <1>1, <1>2

\* WalManager::append writes one entry and may rotate to a new file
LEMMA WrittenOK ==
    ASSUME NEW w, WalOK(w), NEW e \in GoodEntry
    PROVE  /\ WalOK(Written(w, e))
           /\ Written(w, e).mgr = w.mgr
           /\ Len(Written(w, e).starts) >= Len(w.starts)
<1>1. /\ w \in Wal
      /\ w.log \in Seq(GoodEntry) /\ w.starts \in Seq(Nat \ {0})
      /\ w.cur \in Nat /\ w.gone \in Nat /\ w.gone <= Len(w.starts)
      /\ \A i \in 1..Len(w.starts) : w.starts[i] <= Len(w.log) + 1
      /\ w.mgr => w.gone < Len(w.starts)
    BY DEF WalOK, Wal
<1>2. /\ Append(w.log, e) \in Seq(GoodEntry)
      /\ Len(Append(w.log, e)) = Len(w.log) + 1
    BY <1>1, AppendProperties
<1>3. /\ Append(w.log, e) \in Seq(Entry)
      /\ \A i \in 1..Len(w.starts) : w.starts[i] <= Len(Append(w.log, e)) + 1
    BY <1>1, <1>2 DEF GoodEntry
<1>4. CASE w.cur + 1 >= SegmentSize
    <2>1. Written(w, e) =
              [log |-> Append(w.log, e),
               starts |-> Append(w.starts, Len(Append(w.log, e)) + 1),
               gone |-> w.gone, cur |-> 0, mgr |-> w.mgr]
        BY <1>1, <1>4 DEF Written, Wal
    <2>2. /\ Append(w.starts, Len(Append(w.log, e)) + 1) \in Seq(Nat \ {0})
          /\ Len(Append(w.starts, Len(Append(w.log, e)) + 1)) = Len(w.starts) + 1
          /\ \A i \in 1..Len(Append(w.starts, Len(Append(w.log, e)) + 1)) :
                Append(w.starts, Len(Append(w.log, e)) + 1)[i]
                    <= Len(Append(w.log, e)) + 1
        BY <1>1, <1>2, <1>3, NewStart
    <2>3. Written(w, e) \in Wal
        BY <1>1, <1>3, <2>1, <2>2 DEF Wal
    <2>. QED BY <1>1, <1>2, <2>1, <2>2, <2>3 DEF WalOK
<1>5. CASE ~(w.cur + 1 >= SegmentSize)
    <2>1. Written(w, e) =
              [log |-> Append(w.log, e), starts |-> w.starts,
               gone |-> w.gone, cur |-> w.cur + 1, mgr |-> w.mgr]
        BY <1>1, <1>5 DEF Written, Wal
    <2>2. Written(w, e) \in Wal
        BY <1>1, <1>3, <2>1 DEF Wal
    <2>. QED BY <1>1, <1>2, <1>3, <2>1, <2>2 DEF WalOK
<1>. QED BY <1>4, <1>5

\* log_operation: ensure_wal, append, cleanup
LEMMA LoggedOK ==
    ASSUME NEW w, WalOK(w), NEW e \in GoodEntry
    PROVE  /\ WalOK(Logged(w, e))
           /\ Logged(w, e).mgr
           /\ Len(Logged(w, e).starts) >= Len(w.starts)
BY EnsureOK, WrittenOK, CleanupOK DEF Logged

\* the Increment that decrement_key_value logs is a well-keyed entry
LEMMA NegatedOK ==
    ASSUME NEW e \in GoodEntry, e.op = "Decrement"
    PROVE  Mk("Increment", e.key, -e.arg) \in GoodEntry
BY DEF GoodEntry, Entry, Mk, OpNames

\* a replayed entry logged again, twice for a decrement
LEMMA RelogOK ==
    ASSUME NEW w, WalOK(w), NEW e \in GoodEntry
    PROVE  /\ WalOK(Relog(w, e))
           /\ Relog(w, e).mgr
           /\ Len(Relog(w, e).starts) >= Len(w.starts)
<1>1. CASE e.op = "Decrement"
    <2>1. Mk("Increment", e.key, -e.arg) \in GoodEntry
        BY <1>1, NegatedOK
    <2>2. /\ WalOK(Logged(w, e))
          /\ Len(Logged(w, e).starts) >= Len(w.starts)
          /\ Len(Logged(w, e).starts) \in Nat /\ Len(w.starts) \in Nat
        BY LoggedOK DEF WalOK, Wal
    <2> DEFINE w2 == Logged(Logged(w, e), Mk("Increment", e.key, -e.arg))
    <2>3. /\ WalOK(w2)
          /\ w2.mgr
          /\ Len(w2.starts) >= Len(Logged(w, e).starts)
        BY <2>1, <2>2, LoggedOK
    <2>4. Len(w2.starts) \in Nat
        BY <2>3 DEF WalOK, Wal
    <2>. QED BY <1>1, <2>2, <2>3, <2>4 DEF Relog
<1>2. CASE e.op # "Decrement"
    BY <1>2, LoggedOK DEF Relog
<1>. QED BY <1>1, <1>2

\* the cache of a database maps every key to an integer or to nothing
CacheType == [Keys -> Int \cup {NoItem}]

LEMMA ApplyOK ==
    ASSUME NEW m \in CacheType, NEW e \in GoodEntry, e.op # "Decrement"
    PROVE  Apply(m, e) \in CacheType
<1>1. e.op \in OpNames /\ e.arg \in Int
    BY DEF GoodEntry, Entry
<1>2. CASE e.op = "DropDb"
    BY <1>2 DEF Apply, EmptyCache, CacheType
<1>3. CASE e.op # "DropDb"
    <2>1. e.key \in Keys
        BY <1>3 DEF GoodEntry
    <2>2. CASE e.op = "Create"
        BY <2>1, <2>2, <1>1 DEF Apply, CacheType
    <2>3. CASE e.op = "Delete"
        BY <2>1, <2>3 DEF Apply, CacheType
    <2>4. CASE e.op = "Update"
        BY <2>1, <2>4, <1>1 DEF Apply, CacheType
    <2>5. CASE e.op = "Increment"
        <3>1. m[e.key] # NoItem => m[e.key] \in Int
            BY <2>1 DEF CacheType
        <3>. QED BY <2>1, <2>5, <1>1, <3>1 DEF Apply, CacheType
    <2>. QED BY <1>1, <1>3, <2>2, <2>3, <2>4, <2>5 DEF OpNames
<1>. QED BY <1>2, <1>3

\* the effect of a command on the cache keeps it well typed
LEMMA EffectOK ==
    ASSUME NEW m \in CacheType, NEW e \in GoodEntry
    PROVE  Effect(m, e) \in CacheType
<1>1. CASE e.op = "Decrement"
    <2>1. Mk("Increment", e.key, -e.arg) \in GoodEntry
        BY <1>1, NegatedOK
    <2>. QED BY <1>1, <2>1, ApplyOK DEF Effect, Mk
<1>2. CASE e.op # "Decrement"
    BY <1>2, ApplyOK DEF Effect
<1>. QED BY <1>1, <1>2

\* recover reads the entries of a file of the log
LEMMA FileEntriesOK ==
    ASSUME NEW w, WalOK(w), NEW i \in 1..Len(w.starts)
    PROVE  FileEntries(w, i) \in Seq(GoodEntry)
<1>1. /\ w.log \in Seq(GoodEntry) /\ w.starts \in Seq(Nat \ {0})
      /\ \A j \in 1..Len(w.starts) : w.starts[j] <= Len(w.log) + 1
    BY DEF WalOK, Wal
<1> DEFINE hi == IF i < Len(w.starts) THEN w.starts[i + 1] - 1 ELSE Len(w.log)
<1>2. w.starts[i] \in Int /\ w.starts[i] >= 1
    BY <1>1
<1>3. hi \in Int /\ hi <= Len(w.log)
    <2>1. CASE i < Len(w.starts)
        <3>1. i + 1 \in 1..Len(w.starts)
            BY <2>1
        <3>2. w.starts[i + 1] \in Nat /\ w.starts[i + 1] <= Len(w.log) + 1
            BY <1>1, <3>1
        <3>. QED BY <2>1, <3>2
    <2>2. CASE ~(i < Len(w.starts))
        BY <1>1, <2>2
    <2>. QED BY <2>1, <2>2
<1>4. \A j \in w.starts[i]..hi : w.log[j] \in GoodEntry
    BY <1>1, <1>2, <1>3
<1>. QED BY <1>2, <1>3, <1>4, SubSeqProperties DEF FileEntries

\* every command a client sends is a well-keyed entry
LEMMA RequestsGood == Requests \subseteq GoodEntry
BY ConstantsAssumption DEF Requests, GoodEntry, Entry, Mk, OpNames

-----------------------------------------------------------------------------
(* The inductive invariant. *)

LEMMA InitIInv == Init => IInv
<1> SUFFICES ASSUME Init PROVE IInv
    OBVIOUS
<1>1. Mk("DropDb", NoKey, 0) \in GoodEntry
    BY DEF Mk, GoodEntry, Entry, OpNames
<1>2. WalOK(wal)
    BY DEF Init, Wal, WalOK
<1>3. TypeOK
    <2>1. Mk("DropDb", NoKey, 0) \in Entry
        BY <1>1 DEF GoodEntry
    <2>2. EmptyCache \in [Keys -> Int \cup {NoItem}]
        BY DEF EmptyCache
    <2>3. rec \in [rd : Nat \ {0}, last : Nat, buf : Seq(Entry)]
        BY DEF Init
    <2>4. crashes \in 0..MaxCrashes
        BY ConstantsAssumption DEF Init
    <2>. QED BY <1>2, <2>1, <2>2, <2>3, <2>4 DEF Init, TypeOK, WalOK
<1>. QED BY <1>1, <1>2, <1>3 DEF Init, IInv

\* the facts of IInv the step proofs use, with the cache type named
LEMMA IInvFacts ==
    ASSUME IInv
    PROVE  /\ TypeOK /\ WalOK(wal)
           /\ \A c \in Clients : req[c] \in GoodEntry
           /\ \A c \in Clients : pc[c] = "decr2" => req[c].op = "Decrement"
           /\ rec.buf \in Seq(GoodEntry)
           /\ rec.last <= Len(wal.starts)
           /\ cache \in CacheType /\ expected \in CacheType
           /\ Len(wal.starts) \in Nat
           /\ rec \in [rd : Nat \ {0}, last : Nat, buf : Seq(Entry)]
           /\ pc \in [Clients -> {"idle", "decr2", "apply"}]
           /\ req \in [Clients -> Entry]
BY DEF IInv, TypeOK, CacheType, WalOK, Wal

\* a log operation with a well-keyed entry keeps the log well formed and
\* never shortens the list of files
LEMMA LogStepOK ==
    ASSUME NEW w, WalOK(w), NEW e \in GoodEntry, NEW w2, w2 = Logged(w, e)
    PROVE  /\ WalOK(w2) /\ Len(w2.starts) >= Len(w.starts)
<1>1. WalOK(Logged(w, e)) /\ Len(Logged(w, e).starts) >= Len(w.starts)
    BY LoggedOK
<1>. QED BY <1>1

LEMMA StepIInv == IInv /\ [Next]_vars => IInv'
<1> SUFFICES ASSUME IInv, [Next]_vars PROVE IInv'
    OBVIOUS
<1>0. /\ TypeOK /\ WalOK(wal)
      /\ \A c \in Clients : req[c] \in GoodEntry
      /\ \A c \in Clients : pc[c] = "decr2" => req[c].op = "Decrement"
      /\ rec.buf \in Seq(GoodEntry)
      /\ rec.last <= Len(wal.starts)
      /\ cache \in CacheType /\ expected \in CacheType
      /\ Len(wal.starts) \in Nat
      /\ rec \in [rd : Nat \ {0}, last : Nat, buf : Seq(Entry)]
      /\ pc \in [Clients -> {"idle", "decr2", "apply"}]
      /\ req \in [Clients -> Entry]
    BY IInvFacts
<1>a. Seq(GoodEntry) \subseteq Seq(Entry)
    BY DEF GoodEntry
<1>1. ASSUME NEW c \in Clients, NEW e \in Requests, LogRequest(c, e)
      PROVE  IInv'
    <2>1. e \in GoodEntry
        BY RequestsGood
    <2>2. WalOK(wal') /\ Len(wal'.starts) >= Len(wal.starts)
        <3>1. wal' = Logged(wal, e)
            BY <1>1 DEF LogRequest
        <3>. QED BY <1>0, <2>1, <3>1, LogStepOK
    <2>3. Len(wal'.starts) \in Nat
        BY <2>2 DEF WalOK, Wal
    <2>4. expected' \in [Keys -> Int \cup {NoItem}]
        BY <1>0, <1>1, <2>1, EffectOK DEF LogRequest, CacheType
    <2>5. /\ req' \in [Clients -> Entry]
          /\ \A d \in Clients : req'[d] \in GoodEntry
          /\ pc' \in [Clients -> {"idle", "decr2", "apply"}]
          /\ \A d \in Clients : pc'[d] = "decr2" => req'[d].op = "Decrement"
        BY <1>0, <1>1, <2>1 DEF LogRequest, GoodEntry
    <2>6. UNCHANGED <<cache, up, rec, crashes>>
        BY <1>1 DEF LogRequest
    <2>. QED BY <1>0, <2>2, <2>3, <2>4, <2>5, <2>6 DEF IInv, TypeOK, WalOK
<1>2. ASSUME NEW c \in Clients, LogDecrementIncrement(c)
      PROVE  IInv'
    <2>1. req[c] \in GoodEntry /\ req[c].op = "Decrement"
        BY <1>0, <1>2 DEF LogDecrementIncrement
    <2>2. Mk("Increment", req[c].key, -req[c].arg) \in GoodEntry
        BY <2>1, NegatedOK
    <2>3. WalOK(wal') /\ Len(wal'.starts) >= Len(wal.starts)
        <3>1. wal' = Logged(wal, Mk("Increment", req[c].key, -req[c].arg))
            BY <1>2 DEF LogDecrementIncrement
        <3>. QED BY <1>0, <2>2, <3>1, LogStepOK
    <2>4. Len(wal'.starts) \in Nat
        BY <2>3 DEF WalOK, Wal
    <2>5. /\ pc' \in [Clients -> {"idle", "decr2", "apply"}]
          /\ \A d \in Clients : pc'[d] = "decr2" => req'[d].op = "Decrement"
        BY <1>0, <1>2 DEF LogDecrementIncrement
    <2>6. UNCHANGED <<cache, req, up, rec, crashes, expected>>
        BY <1>2 DEF LogDecrementIncrement
    <2>. QED BY <1>0, <2>3, <2>4, <2>5, <2>6 DEF IInv, TypeOK, WalOK
<1>3. ASSUME NEW c \in Clients, ApplyRequest(c)
      PROVE  IInv'
    <2>1. cache' \in [Keys -> Int \cup {NoItem}]
        BY <1>0, <1>3, EffectOK DEF ApplyRequest, CacheType
    <2>2. /\ pc' \in [Clients -> {"idle", "decr2", "apply"}]
          /\ \A d \in Clients : pc'[d] = "decr2" => req'[d].op = "Decrement"
        BY <1>0, <1>3 DEF ApplyRequest
    <2>3. UNCHANGED <<wal, req, up, rec, crashes, expected>>
        BY <1>3 DEF ApplyRequest
    <2>. QED BY <1>0, <2>1, <2>2, <2>3 DEF IInv, TypeOK, WalOK
<1>4. ASSUME NEW c \in Clients, NEW k \in Keys, ReadKey(c, k)
      PROVE  IInv'
    BY <1>4 DEF ReadKey, vars, IInv, TypeOK, WalOK
<1>5. CASE Crash
    <2>1. wal' = [log |-> wal.log, starts |-> wal.starts, gone |-> wal.gone,
                  cur |-> 0, mgr |-> FALSE]
        BY <1>0, <1>5 DEF Crash, WalOK, Wal
    <2>2. WalOK(wal')
        BY <1>0, <2>1 DEF WalOK, Wal
    <2>3. crashes' \in 0..MaxCrashes
        BY <1>0, <1>5, ConstantsAssumption DEF Crash, TypeOK
    <2>4. /\ cache' \in [Keys -> Int \cup {NoItem}]
          /\ pc' \in [Clients -> {"idle", "decr2", "apply"}]
          /\ \A d \in Clients : pc'[d] # "decr2"
          /\ up' \in {"up", "down", "recovering"}
        BY <1>5 DEF Crash, EmptyCache
    <2>5. UNCHANGED <<req, rec, expected>>
        BY <1>5 DEF Crash
    <2>6. /\ wal' \in Wal /\ wal'.gone <= Len(wal'.starts)
          /\ rec'.last <= Len(wal'.starts)
        BY <1>0, <2>1, <2>2, <2>5 DEF WalOK
    <2>. QED BY <1>0, <2>2, <2>3, <2>4, <2>5, <2>6 DEF IInv, TypeOK
<1>6. CASE StartRecovery
    <2>1. rec' = [rd |-> wal.gone + 1, last |-> Len(wal.starts), buf |-> <<>>]
        BY <1>6 DEF StartRecovery
    <2>2. rec' \in [rd : Nat \ {0}, last : Nat, buf : Seq(Entry)]
        BY <1>0, <2>1 DEF WalOK, Wal
    <2>3. rec'.buf \in Seq(GoodEntry) /\ rec'.last <= Len(wal.starts)
        BY <1>0, <2>1
    <2>4. UNCHANGED <<cache, wal, pc, req, crashes, expected>> /\ up' = "recovering"
        BY <1>6 DEF StartRecovery
    <2>. QED BY <1>0, <2>2, <2>3, <2>4 DEF IInv, TypeOK
<1>7. CASE ReadSegment
    <2>0. UNCHANGED <<cache, wal, pc, req, crashes, expected>>
        BY <1>7 DEF ReadSegment
    <2>1. CASE rec.rd > wal.gone
        <3>1. rec.rd \in 1..Len(wal.starts)
            BY <1>0, <1>7 DEF ReadSegment, WalOK, Wal
        <3>2. FileEntries(wal, rec.rd) \in Seq(GoodEntry)
            BY <1>0, <3>1, FileEntriesOK
        <3>3. /\ rec' = [rec EXCEPT !.buf = FileEntries(wal, rec.rd),
                                    !.rd = @ + 1]
              /\ up' = up
            BY <1>0, <1>7, <2>1 DEF ReadSegment, WalOK, Wal
        <3>4. rec' = [rd |-> rec.rd + 1, last |-> rec.last,
                      buf |-> FileEntries(wal, rec.rd)]
            BY <1>0, <3>3
        <3>5. rec' \in [rd : Nat \ {0}, last : Nat, buf : Seq(Entry)]
            BY <1>0, <1>a, <3>2, <3>4
        <3>. QED BY <1>0, <2>0, <3>2, <3>3, <3>4, <3>5 DEF IInv, TypeOK
    <2>2. CASE ~(rec.rd > wal.gone)
        <3>1. UNCHANGED rec /\ up' = "up"
            BY <1>7, <2>2 DEF ReadSegment
        <3>. QED BY <1>0, <2>0, <3>1 DEF IInv, TypeOK
    <2>. QED BY <2>1, <2>2
<1>8. CASE ReplayEntry
    <2>1. rec.buf # <<>>
        BY <1>8 DEF ReplayEntry
    <2>2. /\ Head(rec.buf) \in GoodEntry
          /\ Tail(rec.buf) \in Seq(GoodEntry)
        BY <1>0, <2>1, HeadTailProperties
    <2>3. WalOK(wal') /\ Len(wal'.starts) >= Len(wal.starts)
        <3>1. wal' = Relog(wal, Head(rec.buf))
            BY <1>8 DEF ReplayEntry
        <3>2. WalOK(Relog(wal, Head(rec.buf)))
              /\ Len(Relog(wal, Head(rec.buf)).starts) >= Len(wal.starts)
            BY <1>0, <2>2, RelogOK
        <3>. QED BY <3>1, <3>2
    <2>4. Len(wal'.starts) \in Nat
        BY <2>3 DEF WalOK, Wal
    <2>5. cache' \in [Keys -> Int \cup {NoItem}]
        BY <1>0, <1>8, <2>2, EffectOK DEF ReplayEntry, CacheType
    <2>6. rec' = [rd |-> rec.rd, last |-> rec.last, buf |-> Tail(rec.buf)]
        BY <1>0, <1>8 DEF ReplayEntry
    <2>7. rec' \in [rd : Nat \ {0}, last : Nat, buf : Seq(Entry)]
        BY <1>0, <1>a, <2>2, <2>6
    <2>8. UNCHANGED <<pc, req, up, crashes, expected>>
        BY <1>8 DEF ReplayEntry
    <2>9. /\ wal' \in Wal /\ wal'.gone <= Len(wal'.starts)
          /\ rec'.last <= Len(wal'.starts)
        BY <1>0, <2>3, <2>4, <2>6 DEF WalOK, Wal
    <2>10. rec'.buf \in Seq(GoodEntry)
        BY <2>2, <2>6
    <2>. QED BY <1>0, <2>3, <2>5, <2>7, <2>8, <2>9, <2>10
             DEF IInv, TypeOK
<1>9. CASE FinishRecovery
    BY <1>0, <1>9 DEF FinishRecovery, IInv, TypeOK, WalOK
<1>10. CASE UNCHANGED vars
    BY <1>10 DEF vars, IInv, TypeOK, WalOK
<1>. QED BY <1>1, <1>2, <1>3, <1>4, <1>5, <1>6, <1>7, <1>8, <1>9, <1>10
         DEF Next

-----------------------------------------------------------------------------
(* The theorems. *)

\* Every reachable state of the engine and its write-ahead log is well
\* typed: whatever interleaving of client writes, crashes and recovery
\* replays happens, the cache maps keys to integers, the segment starts are
\* positions of the log and no more files are removed than were created.
THEOREM TypeCorrect == Spec => []TypeOK
<1>1. IInv => TypeOK
    BY DEF IInv
<1>. QED BY InitIInv, StepIInv, <1>1, PTL DEF Spec

\* cleanup_old_segments, run by log_operation after every append, never
\* removes the segment file the WalManager is appending to, for every
\* wal_segment_size and wal_max_segments (0 included) and every number of
\* clients, keys and crashes.
THEOREM SegmentLive == Spec => []CurrentSegmentLive
<1>1. IInv => CurrentSegmentLive
    BY DEF IInv, WalOK, CurrentSegmentLive
<1>. QED BY InitIInv, StepIInv, <1>1, PTL DEF Spec

=============================================================================
