-------------------------- MODULE Engine_refinement --------------------------
(***************************************************************************)
(* TLAPS proof that the engine's segmented write-ahead log implements the  *)
(* promise of WalLog: the log only grows at its end, retention removes a   *)
(* prefix, and recovery replays the kept entries once each, in order, up   *)
(* to the last one written before the crash.                               *)
(***************************************************************************)
EXTENDS Engine_proofs

\* the segment files are in log order, the first file starts the log, and
\* while there is a file, retention has kept at least one
WalShape(w) ==
    /\ \A i, j \in 1..Len(w.starts) : i <= j => w.starts[i] <= w.starts[j]
    /\ Len(w.starts) = 0 => w.log = <<>>
    /\ Len(w.starts) > 0 => w.gone < Len(w.starts)

\* v is w after more writes: both sequences only grow at their end and
\* retention only moves forward
Grows(w, v) ==
    /\ Len(w.log) <= Len(v.log)
    /\ \A i \in 1..Len(w.log) : v.log[i] = w.log[i]
    /\ Len(w.starts) <= Len(v.starts)
    /\ \A i \in 1..Len(w.starts) : v.starts[i] = w.starts[i]
    /\ w.gone <= v.gone

\* while recovering: the cursor is within the listed files, a manager
\* exists exactly when replay has opened a file past the listed ones, and
\* the buffer holds the log entries from ReplayPos to the end of the file
\* read last
RecOK ==
    /\ rec.rd <= rec.last + 1
    /\ (wal.mgr <=> rec.last < Len(wal.starts))
    /\ Len(rec.buf) <= EndOf(wal, rec.rd - 1)
    /\ \A j \in 1..Len(rec.buf) : rec.buf[j] = wal.log[ReplayPos + j - 1]

\* the inductive invariant of the refinement
RInv ==
    /\ IInv
    /\ WalShape(wal)
    /\ up = "down" => ~wal.mgr
    /\ up = "recovering" => RecOK

\* a log operation that finds no manager opens a file at the end of the log
OpensFile(w, v) ==
    ~w.mgr => /\ Len(w.starts) < Len(v.starts)
              /\ v.starts[Len(w.starts) + 1] = Len(w.log) + 1
-----------------------------------------------------------------------------
(* Growth of the log. *)

LEMMA GrowsRefl ==
    ASSUME NEW w \in Wal
    PROVE  Grows(w, w)
BY DEF Grows, Wal

LEMMA GrowsTrans ==
    ASSUME NEW u \in Wal, NEW v \in Wal, NEW w \in Wal,
           Grows(u, v), Grows(v, w)
    PROVE  Grows(u, w)
<1>1. /\ Len(u.log) \in Nat /\ Len(v.log) \in Nat /\ Len(w.log) \in Nat
      /\ Len(u.starts) \in Nat /\ Len(v.starts) \in Nat /\ Len(w.starts) \in Nat
      /\ u.gone \in Nat /\ v.gone \in Nat /\ w.gone \in Nat
    BY DEF Wal
<1>2. Len(u.log) <= Len(w.log) /\ \A i \in 1..Len(u.log) : w.log[i] = u.log[i]
    <2>1. Len(u.log) <= Len(v.log) /\ Len(v.log) <= Len(w.log)
        BY DEF Grows
    <2>2. \A i \in 1..Len(u.log) : v.log[i] = u.log[i] /\ i \in 1..Len(v.log)
        BY <1>1, <2>1 DEF Grows
    <2>3. \A i \in 1..Len(v.log) : w.log[i] = v.log[i]
        BY DEF Grows
    <2>. QED BY <1>1, <2>1, <2>2, <2>3
<1>3. Len(u.starts) <= Len(w.starts)
      /\ \A i \in 1..Len(u.starts) : w.starts[i] = u.starts[i]
    <2>1. Len(u.starts) <= Len(v.starts) /\ Len(v.starts) <= Len(w.starts)
        BY DEF Grows
    <2>2. \A i \in 1..Len(u.starts) : v.starts[i] = u.starts[i] /\ i \in 1..Len(v.starts)
        BY <1>1, <2>1 DEF Grows
    <2>3. \A i \in 1..Len(v.starts) : w.starts[i] = v.starts[i]
        BY DEF Grows
    <2>. QED BY <1>1, <2>1, <2>2, <2>3
<1>4. u.gone <= w.gone
    BY <1>1 DEF Grows
<1>. QED BY <1>2, <1>3, <1>4 DEF Grows

\* a file opened at the end of the log stays where it was opened
LEMMA OpensKept ==
    ASSUME NEW w \in Wal, NEW v \in Wal, NEW u \in Wal,
           OpensFile(w, v), Grows(v, u)
    PROVE  OpensFile(w, u)
<1>1. Len(w.starts) \in Nat /\ Len(v.starts) \in Nat /\ Len(u.starts) \in Nat
    BY DEF Wal
<1>. QED BY <1>1 DEF OpensFile, Grows

LEMMA CleanupShape ==
    ASSUME NEW w, WalOK(w), WalShape(w)
    PROVE  /\ WalShape(Cleanup(w))
           /\ Grows(w, Cleanup(w))
<1>1. /\ WalOK(Cleanup(w)) /\ Cleanup(w).starts = w.starts
      /\ Cleanup(w).log = w.log
    BY CleanupOK
<1>2. w \in Wal /\ w.gone \in Nat /\ Len(w.starts) \in Nat /\ Len(w.log) \in Nat
    BY DEF WalOK, Wal
<1>3. CASE MaxSegments = 0 \/ FileCount(w) <= MaxSegments
    <2>1. Cleanup(w) = w
        BY <1>3 DEF Cleanup
    <2>. QED BY <1>2, <2>1, GrowsRefl
<1>4. CASE ~(MaxSegments = 0 \/ FileCount(w) <= MaxSegments)
    <2>1. Cleanup(w).gone = Len(w.starts) - MaxSegments
        BY <1>4 DEF Cleanup
    <2>2. /\ MaxSegments \in Nat \ {0}
          /\ Len(w.starts) - w.gone > MaxSegments
        BY <1>2, <1>4, ConstantsAssumption DEF FileCount
    <2>3. /\ w.gone <= Cleanup(w).gone
          /\ Cleanup(w).gone < Len(w.starts)
        BY <1>2, <2>1, <2>2
    <2>. QED BY <1>1, <1>2, <2>3 DEF WalShape, Grows
<1>. QED BY <1>3, <1>4

LEMMA EnsureShape ==
    ASSUME NEW w, WalOK(w), WalShape(w)
    PROVE  /\ WalShape(Ensure(w))
           /\ Grows(w, Ensure(w))
           /\ OpensFile(w, Ensure(w))
           /\ Len(Ensure(w).starts) > 0
<1>1. /\ w \in Wal /\ w.starts \in Seq(Nat \ {0})
      /\ w.gone \in Nat /\ w.gone <= Len(w.starts)
      /\ \A i \in 1..Len(w.starts) : w.starts[i] <= Len(w.log) + 1
      /\ w.mgr => w.gone < Len(w.starts)
    BY DEF WalOK, Wal
<1>2. CASE w.mgr
    <2>1. Ensure(w) = w
        BY <1>2 DEF Ensure
    <2>. QED BY <1>1, <1>2, <2>1, GrowsRefl DEF OpensFile
<1>3. CASE ~w.mgr
    <2> DEFINE st == Append(w.starts, Len(w.log) + 1)
    <2>1. Ensure(w) = [log |-> w.log, starts |-> st, gone |-> w.gone,
                       cur |-> 0, mgr |-> TRUE]
        BY <1>1, <1>3 DEF Ensure, Wal
    <2>2. /\ Len(st) = Len(w.starts) + 1
          /\ \A i \in 1..Len(w.starts) : st[i] = w.starts[i]
          /\ st[Len(w.starts) + 1] = Len(w.log) + 1
        BY <1>1, AppendProperties
    <2>3. \A i, j \in 1..Len(st) : i <= j => st[i] <= st[j]
        <3> SUFFICES ASSUME NEW i \in 1..Len(st), NEW j \in 1..Len(st), i <= j
                     PROVE  st[i] <= st[j]
            OBVIOUS
        <3>1. CASE j <= Len(w.starts)
            BY <1>1, <2>2, <3>1 DEF WalShape
        <3>2. CASE j = Len(w.starts) + 1 /\ i <= Len(w.starts)
            BY <1>1, <2>2, <3>2
        <3>3. CASE j = Len(w.starts) + 1 /\ i = Len(w.starts) + 1
            BY <3>3
        <3>4. \/ j <= Len(w.starts)
              \/ j = Len(w.starts) + 1 /\ i <= Len(w.starts)
              \/ j = Len(w.starts) + 1 /\ i = Len(w.starts) + 1
            <4>1. Len(w.starts) \in Nat
                BY <1>1 DEF Wal
            <4>. QED BY <2>2, <4>1
        <3>. QED BY <3>1, <3>2, <3>3, <3>4, Zenon
    <2>4. Len(w.starts) \in Nat /\ Len(w.log) \in Nat
        BY <1>1 DEF Wal
    <2>5. WalShape(Ensure(w))
        <3>1. Len(Ensure(w).starts) > 0 /\ Ensure(w).log = w.log
            BY <2>1, <2>2, <2>4
        <3>2. Ensure(w).gone < Len(Ensure(w).starts)
            BY <1>1, <2>1, <2>2, <2>4
        <3>. QED BY <2>1, <2>3, <3>1, <3>2 DEF WalShape
    <2>6. Grows(w, Ensure(w))
        BY <1>1, <2>1, <2>2, <2>4 DEF Grows
    <2>7. OpensFile(w, Ensure(w)) /\ Len(Ensure(w).starts) > 0
        BY <2>1, <2>2, <2>4 DEF OpensFile
    <2>. QED BY <2>5, <2>6, <2>7
<1>. QED BY <1>2, <1>3

LEMMA WrittenShape ==
    ASSUME NEW w, WalOK(w), WalShape(w), Len(w.starts) > 0,
           NEW e \in GoodEntry
    PROVE  /\ WalShape(Written(w, e))
           /\ Grows(w, Written(w, e))
           /\ Len(Written(w, e).log) = Len(w.log) + 1
           /\ Written(w, e).log[Len(w.log) + 1] = e
<1>1. /\ w \in Wal /\ w.starts \in Seq(Nat \ {0}) /\ w.log \in Seq(Entry)
      /\ w.cur \in Nat /\ w.gone \in Nat
      /\ \A i \in 1..Len(w.starts) : w.starts[i] <= Len(w.log) + 1
      /\ Len(w.starts) \in Nat /\ Len(w.log) \in Nat
    BY DEF WalOK, Wal
<1>2. /\ e \in Entry
      /\ Len(Append(w.log, e)) = Len(w.log) + 1
      /\ \A i \in 1..Len(w.log) : Append(w.log, e)[i] = w.log[i]
      /\ Append(w.log, e)[Len(w.log) + 1] = e
    BY <1>1, AppendProperties DEF GoodEntry
<1>3. CASE w.cur + 1 >= SegmentSize
    <2> DEFINE st == Append(w.starts, Len(Append(w.log, e)) + 1)
    <2>1. Written(w, e) = [log |-> Append(w.log, e), starts |-> st,
                           gone |-> w.gone, cur |-> 0, mgr |-> w.mgr]
        BY <1>1, <1>3 DEF Written, Wal
    <2>2. /\ Len(st) = Len(w.starts) + 1
          /\ \A i \in 1..Len(w.starts) : st[i] = w.starts[i]
          /\ st[Len(w.starts) + 1] = Len(w.log) + 2
        BY <1>1, <1>2, AppendProperties
    <2>3. \A i, j \in 1..Len(st) : i <= j => st[i] <= st[j]
        <3> SUFFICES ASSUME NEW i \in 1..Len(st), NEW j \in 1..Len(st), i <= j
                     PROVE  st[i] <= st[j]
            OBVIOUS
        <3>1. CASE j <= Len(w.starts)
            BY <1>1, <2>2, <3>1 DEF WalShape
        <3>2. CASE j = Len(w.starts) + 1 /\ i <= Len(w.starts)
            BY <1>1, <2>2, <3>2
        <3>3. CASE j = Len(w.starts) + 1 /\ i = Len(w.starts) + 1
            BY <3>3
        <3>4. \/ j <= Len(w.starts)
              \/ j = Len(w.starts) + 1 /\ i <= Len(w.starts)
              \/ j = Len(w.starts) + 1 /\ i = Len(w.starts) + 1
            <4>1. Len(w.starts) \in Nat
                BY <1>1 DEF Wal
            <4>. QED BY <2>2, <4>1
        <3>. QED BY <3>1, <3>2, <3>3, <3>4, Zenon
    <2>4. WalShape(Written(w, e))
        <3>1. Len(w.starts) > 0 => w.gone < Len(w.starts)
            BY DEF WalShape
        <3>. QED BY <1>1, <2>1, <2>2, <2>3, <3>1 DEF WalShape
    <2>5. Grows(w, Written(w, e))
        BY <1>1, <1>2, <2>1, <2>2 DEF Grows
    <2>. QED BY <1>2, <2>1, <2>4, <2>5
<1>4. CASE ~(w.cur + 1 >= SegmentSize)
    <2>1. Written(w, e) = [log |-> Append(w.log, e), starts |-> w.starts,
                           gone |-> w.gone, cur |-> w.cur + 1, mgr |-> w.mgr]
        BY <1>1, <1>4 DEF Written, Wal
    <2>. QED BY <1>1, <1>2, <2>1 DEF WalShape, Grows
<1>. QED BY <1>3, <1>4

\* log_operation writes one entry at the end of the log
LEMMA LoggedShape ==
    ASSUME NEW w, WalOK(w), WalShape(w), NEW e \in GoodEntry
    PROVE  /\ WalOK(Logged(w, e)) /\ WalShape(Logged(w, e))
           /\ Grows(w, Logged(w, e)) /\ OpensFile(w, Logged(w, e))
           /\ Len(Logged(w, e).log) = Len(w.log) + 1
           /\ Logged(w, e).log[Len(w.log) + 1] = e
           /\ Logged(w, e).mgr
<1> DEFINE E == Ensure(w)
           W == Written(E, e)
           C == Cleanup(W)
<1>1. /\ WalOK(E) /\ E.mgr /\ E.log = w.log
      /\ WalShape(E) /\ Grows(w, E) /\ OpensFile(w, E) /\ Len(E.starts) > 0
    BY EnsureOK, EnsureShape
<1>2. /\ WalOK(W) /\ W.mgr = E.mgr
      /\ WalShape(W) /\ Grows(E, W)
      /\ Len(W.log) = Len(E.log) + 1 /\ W.log[Len(E.log) + 1] = e
    BY <1>1, WrittenOK, WrittenShape
<1>3. /\ WalOK(C) /\ C.log = W.log /\ C.mgr = W.mgr
      /\ WalShape(C) /\ Grows(W, C)
    BY <1>2, CleanupOK, CleanupShape
<1>4. w \in Wal /\ E \in Wal /\ W \in Wal /\ C \in Wal
    BY <1>1, <1>2, <1>3 DEF WalOK
<1>5. Grows(w, C)
    BY <1>1, <1>2, <1>3, <1>4, GrowsTrans
<1>6. OpensFile(w, C)
    <2>1. Grows(E, C)
        BY <1>2, <1>3, <1>4, GrowsTrans
    <2>. QED BY <1>1, <1>4, <2>1, OpensKept
<1>. QED BY <1>1, <1>2, <1>3, <1>5, <1>6 DEF Logged

\* a replayed entry is written again, a decrement followed by its
\* increment
LEMMA RelogShape ==
    ASSUME NEW w, WalOK(w), WalShape(w), NEW e \in GoodEntry
    PROVE  /\ WalOK(Relog(w, e)) /\ WalShape(Relog(w, e))
           /\ Grows(w, Relog(w, e)) /\ OpensFile(w, Relog(w, e))
           /\ Len(Relog(w, e).log) \in Len(w.log) + 1 .. Len(w.log) + 2
           /\ Relog(w, e).log[Len(w.log) + 1] = e
           /\ Relog(w, e).mgr
<1>0. Len(w.log) \in Nat
    BY DEF WalOK, Wal
<1>1. CASE e.op = "Decrement"
    <2> DEFINE L1 == Logged(w, e)
               m  == Mk("Increment", e.key, -e.arg)
               L2 == Logged(L1, m)
    <2>1. m \in GoodEntry
        BY <1>1, NegatedOK
    <2>2. /\ WalOK(L1) /\ WalShape(L1) /\ Grows(w, L1) /\ OpensFile(w, L1)
          /\ Len(L1.log) = Len(w.log) + 1 /\ L1.log[Len(w.log) + 1] = e
        BY LoggedShape
    <2>3. /\ WalOK(L2) /\ WalShape(L2) /\ Grows(L1, L2) /\ L2.mgr
          /\ Len(L2.log) = Len(L1.log) + 1
        BY <2>1, <2>2, LoggedShape
    <2>4. w \in Wal /\ L1 \in Wal /\ L2 \in Wal
        BY <2>2, <2>3 DEF WalOK
    <2>5. Grows(w, L2) /\ OpensFile(w, L2)
        BY <2>2, <2>3, <2>4, GrowsTrans, OpensKept
    <2>6. L2.log[Len(w.log) + 1] = e
        BY <1>0, <2>2, <2>3 DEF Grows
    <2>. QED BY <1>0, <1>1, <2>2, <2>3, <2>5, <2>6 DEF Relog
<1>2. CASE e.op # "Decrement"
    BY <1>0, <1>2, LoggedShape DEF Relog
<1>. QED BY <1>1, <1>2

-----------------------------------------------------------------------------
(* Where the files end. *)

\* every file ends within the log, and no file ends before the one before
LEMMA EndBounds ==
    ASSUME NEW w, WalOK(w), WalShape(w), NEW i \in 0..Len(w.starts)
    PROVE  EndOf(w, i) \in 0..Len(w.log)
<1>1. /\ w.starts \in Seq(Nat \ {0}) /\ Len(w.log) \in Nat
      /\ \A j \in 1..Len(w.starts) : w.starts[j] <= Len(w.log) + 1
    BY DEF WalOK, Wal
<1>2. Len(w.starts) \in Nat
    BY <1>1
<1>3. CASE i < Len(w.starts)
    <2>1. i + 1 \in 1..Len(w.starts) /\ EndOf(w, i) = w.starts[i + 1] - 1
        BY <1>2, <1>3 DEF EndOf
    <2>2. w.starts[i + 1] \in Nat \ {0} /\ w.starts[i + 1] <= Len(w.log) + 1
        BY <1>1, <2>1
    <2>. QED BY <1>1, <2>1, <2>2
<1>4. CASE ~(i < Len(w.starts))
    BY <1>1, <1>4 DEF EndOf
<1>. QED BY <1>3, <1>4

LEMMA EndMono ==
    ASSUME NEW w, WalOK(w), WalShape(w),
           NEW i \in 0..Len(w.starts), NEW j \in 0..Len(w.starts), i <= j
    PROVE  EndOf(w, i) <= EndOf(w, j)
<1>1. /\ w.starts \in Seq(Nat \ {0}) /\ Len(w.log) \in Nat
      /\ Len(w.starts) \in Nat
      /\ \A k, l \in 1..Len(w.starts) : k <= l => w.starts[k] <= w.starts[l]
    BY DEF WalOK, Wal, WalShape
<1>2. CASE j < Len(w.starts)
    <2>1. i + 1 \in 1..Len(w.starts) /\ j + 1 \in 1..Len(w.starts)
          /\ i + 1 <= j + 1 /\ i < Len(w.starts)
        BY <1>1, <1>2
    <2>2. w.starts[i + 1] <= w.starts[j + 1]
        <3>1. \A k, l \in 1..Len(w.starts) : k <= l => w.starts[k] <= w.starts[l]
            BY <1>1
        <3>. QED BY <2>1, <3>1, Zenon
    <2>3. w.starts[i + 1] \in Nat /\ w.starts[j + 1] \in Nat
        BY <1>1, <2>1
    <2>4. EndOf(w, i) = w.starts[i + 1] - 1 /\ EndOf(w, j) = w.starts[j + 1] - 1
        BY <1>2, <2>1 DEF EndOf
    <2>. QED BY <2>2, <2>3, <2>4
<1>3. CASE j = Len(w.starts)
    BY <1>3, EndBounds DEF EndOf
<1>. QED BY <1>1, <1>2, <1>3

\* file i begins just after file i - 1 ends, and holds no more entries
\* than the log has up to its end
LEMMA EndStart ==
    ASSUME NEW w, WalOK(w), WalShape(w), NEW i \in 1..Len(w.starts)
    PROVE  /\ EndOf(w, i - 1) = w.starts[i] - 1
           /\ w.starts[i] <= EndOf(w, i) + 1
<1>1. /\ w.starts \in Seq(Nat \ {0}) /\ Len(w.log) \in Nat
      /\ \A k, l \in 1..Len(w.starts) : k <= l => w.starts[k] <= w.starts[l]
      /\ \A j \in 1..Len(w.starts) : w.starts[j] <= Len(w.log) + 1
      /\ Len(w.starts) \in Nat
    BY DEF WalOK, Wal, WalShape
<1>2. EndOf(w, i - 1) = w.starts[i] - 1
    <2>1. i - 1 < Len(w.starts) /\ (i - 1) + 1 = i
        BY <1>1
    <2>. QED BY <2>1 DEF EndOf
<1>3. w.starts[i] <= EndOf(w, i) + 1
    <2>1. CASE i < Len(w.starts)
        <3>1. i + 1 \in 1..Len(w.starts) /\ i <= i + 1
            BY <1>1, <2>1
        <3>2. w.starts[i] <= w.starts[i + 1]
            BY <1>1, <3>1
        <3>. QED BY <1>1, <2>1, <3>2 DEF EndOf
    <2>2. CASE ~(i < Len(w.starts))
        BY <1>1, <2>2 DEF EndOf
    <2>. QED BY <2>1, <2>2
<1>. QED BY <1>2, <1>3

\* writing more never moves the end of a file that is followed by another
LEMMA EndStable ==
    ASSUME NEW w \in Wal, NEW v \in Wal, Grows(w, v),
           NEW i \in Nat, i < Len(w.starts)
    PROVE  EndOf(v, i) = EndOf(w, i)
<1>1. Len(w.starts) \in Nat /\ Len(v.starts) \in Nat
    BY DEF Wal
<1>. QED BY <1>1 DEF Grows, EndOf

\* the last file, when the write finds no manager, ends where it did
LEMMA EndOpened ==
    ASSUME NEW w \in Wal, NEW v \in Wal, Grows(w, v), OpensFile(w, v), ~w.mgr
    PROVE  EndOf(v, Len(w.starts)) = EndOf(w, Len(w.starts))
<1>1. Len(w.starts) \in Nat /\ Len(v.starts) \in Nat /\ Len(w.log) \in Nat
    BY DEF Wal
<1>. QED BY <1>1 DEF OpensFile, EndOf

\* retention only ever removes more of the log
LEMMA RemovedGrows ==
    ASSUME NEW w, NEW v, WalOK(w), WalShape(w), WalOK(v), WalShape(v),
           Grows(w, v)
    PROVE  RemovedUpTo(w) \in 0..RemovedUpTo(v)
           /\ RemovedUpTo(v) \in 0..Len(v.log)
<1>1. /\ w \in Wal /\ v \in Wal
      /\ w.gone \in 0..Len(w.starts) /\ v.gone \in 0..Len(v.starts)
      /\ Len(w.starts) \in Nat /\ Len(v.starts) \in Nat
    BY DEF WalOK, Wal
<1>2. RemovedUpTo(v) \in 0..Len(v.log)
    BY <1>1, EndBounds DEF RemovedUpTo
<1>3. w.gone \in 0..Len(v.starts) /\ w.gone <= v.gone
    BY <1>1 DEF Grows
<1>4. EndOf(v, w.gone) <= EndOf(v, v.gone)
    BY <1>1, <1>3, EndMono
<1>5. CASE w.gone < Len(w.starts)
    <2>1. EndOf(v, w.gone) = EndOf(w, w.gone)
        BY <1>1, <1>5, EndStable
    <2>2. EndOf(w, w.gone) \in 0..Len(w.log)
        BY <1>1, EndBounds
    <2>. QED BY <1>2, <1>4, <2>1, <2>2 DEF RemovedUpTo
<1>6. CASE w.gone = Len(w.starts)
    <2>1. Len(w.starts) = 0 /\ w.log = <<>>
        BY <1>1, <1>6 DEF WalShape
    <2>2. RemovedUpTo(w) = 0
        BY <1>6, <2>1 DEF RemovedUpTo, EndOf
    <2>. QED BY <1>2, <2>2
<1>. QED BY <1>1, <1>5, <1>6

\* the end of a file replay may still read is not moved by a write
LEMMA EndKept ==
    ASSUME NEW w, NEW v, WalOK(w), WalOK(v), Grows(w, v), OpensFile(w, v),
           NEW i \in 0..Len(w.starts), i < Len(w.starts) \/ ~w.mgr
    PROVE  EndOf(v, i) = EndOf(w, i)
<1>1. w \in Wal /\ v \in Wal /\ Len(w.starts) \in Nat
    BY DEF WalOK, Wal
<1>2. CASE i < Len(w.starts)
    BY <1>1, <1>2, EndStable
<1>3. CASE ~(i < Len(w.starts))
    BY <1>1, <1>3, EndOpened
<1>. QED BY <1>2, <1>3

\* recover reads file i: the entries from its start to its end
LEMMA FileRead ==
    ASSUME NEW w, WalOK(w), WalShape(w), NEW i \in 1..Len(w.starts)
    PROVE  /\ Len(FileEntries(w, i)) = EndOf(w, i) - w.starts[i] + 1
           /\ \A j \in 1..Len(FileEntries(w, i)) :
                 FileEntries(w, i)[j] = w.log[w.starts[i] + j - 1]
<1>1. /\ w.log \in Seq(Entry) /\ w.starts \in Seq(Nat \ {0})
      /\ Len(w.starts) \in Nat /\ Len(w.log) \in Nat
    BY DEF WalOK, Wal
<1>2. /\ w.starts[i] \in Nat \ {0}
      /\ w.starts[i] <= EndOf(w, i) + 1
      /\ EndOf(w, i) \in 0..Len(w.log)
    BY <1>1, EndStart, EndBounds
<1>3. FileEntries(w, i) = SubSeq(w.log, w.starts[i], EndOf(w, i))
    BY DEF FileEntries, EndOf
<1>4. \A k \in w.starts[i]..EndOf(w, i) : w.log[k] \in Entry
    BY <1>1, <1>2
<1>5. /\ Len(SubSeq(w.log, w.starts[i], EndOf(w, i)))
            = IF w.starts[i] <= EndOf(w, i)
              THEN EndOf(w, i) - w.starts[i] + 1 ELSE 0
      /\ \A j \in 1..EndOf(w, i) - w.starts[i] + 1 :
            SubSeq(w.log, w.starts[i], EndOf(w, i))[j]
                = w.log[w.starts[i] + j - 1]
    BY <1>2, <1>4, SubSeqProperties
<1>. QED BY <1>2, <1>3, <1>5

-----------------------------------------------------------------------------
(* The inductive invariant. *)

LEMMA InitRInv == Init => RInv
<1> SUFFICES ASSUME Init PROVE RInv
    OBVIOUS
<1>1. IInv
    BY InitIInv
<1>2. WalShape(wal)
    BY DEF Init, WalShape
<1>. QED BY <1>1, <1>2 DEF Init, RInv

\* the facts of RInv a step proof starts from
LEMMA RInvFacts ==
    ASSUME RInv
    PROVE  /\ IInv /\ WalOK(wal) /\ WalShape(wal) /\ wal \in Wal
           /\ Len(wal.starts) \in Nat /\ Len(wal.log) \in Nat
           /\ rec \in [rd : Nat \ {0}, last : Nat, buf : Seq(Entry)]
           /\ rec.buf \in Seq(GoodEntry)
           /\ rec.last <= Len(wal.starts)
           /\ \A c \in Clients : req[c] \in GoodEntry
           /\ \A c \in Clients : pc[c] = "decr2" => req[c].op = "Decrement"
           /\ up \in {"up", "down", "recovering"}
           /\ up = "down" => ~wal.mgr
           /\ up = "recovering" => RecOK
BY DEF RInv, IInv, TypeOK, WalOK, Wal

\* a replay step keeps the buffer in step with the log
LEMMA ReplayRInv ==
    ASSUME RInv, ReplayEntry
    PROVE  RInv'
<1>0. /\ IInv /\ WalOK(wal) /\ WalShape(wal) /\ wal \in Wal
      /\ Len(wal.starts) \in Nat /\ Len(wal.log) \in Nat
      /\ rec \in [rd : Nat \ {0}, last : Nat, buf : Seq(Entry)]
      /\ rec.buf \in Seq(GoodEntry) /\ rec.last <= Len(wal.starts)
      /\ up = "recovering" /\ RecOK
    BY RInvFacts DEF ReplayEntry
<1>1. IInv'
    <2>1. [Next]_vars
        BY DEF Next
    <2>. QED BY <1>0, <2>1, StepIInv
<1>2. rec.buf # <<>>
    BY DEF ReplayEntry
<1>3. /\ Head(rec.buf) \in GoodEntry
      /\ Len(Tail(rec.buf)) = Len(rec.buf) - 1
      /\ \A j \in 1..Len(Tail(rec.buf)) : Tail(rec.buf)[j] = rec.buf[j + 1]
    BY <1>0, <1>2, HeadTailProperties
<1> DEFINE v == Relog(wal, Head(rec.buf))
<1>4. /\ WalOK(v) /\ WalShape(v) /\ Grows(wal, v) /\ OpensFile(wal, v)
      /\ v.mgr /\ v \in Wal
    BY <1>0, <1>3, RelogShape DEF WalOK
<1>5. /\ wal' = v
      /\ rec' = [rd |-> rec.rd, last |-> rec.last, buf |-> Tail(rec.buf)]
      /\ up' = up
    BY <1>0 DEF ReplayEntry
<1>6. /\ rec.rd <= rec.last + 1
      /\ (wal.mgr <=> rec.last < Len(wal.starts))
      /\ Len(rec.buf) <= EndOf(wal, rec.rd - 1)
      /\ \A j \in 1..Len(rec.buf) : rec.buf[j] = wal.log[ReplayPos + j - 1]
    BY <1>0 DEF RecOK
<1>7. rec.rd - 1 \in 0..Len(wal.starts)
      /\ (rec.rd - 1 < Len(wal.starts) \/ ~wal.mgr)
    BY <1>0, <1>6
<1>8. EndOf(v, rec.rd - 1) = EndOf(wal, rec.rd - 1)
    BY <1>0, <1>4, <1>7, EndKept
<1>9. EndOf(wal, rec.rd - 1) \in 0..Len(wal.log)
    BY <1>0, <1>7, EndBounds
<1>10. v.mgr <=> rec.last < Len(v.starts)
    <2>1. Len(wal.starts) <= Len(v.starts) /\ Len(v.starts) \in Nat
        BY <1>4 DEF Grows, Wal
    <2>2. ~wal.mgr => Len(wal.starts) < Len(v.starts)
        BY <1>4 DEF OpensFile
    <2>. QED BY <1>0, <1>4, <1>6, <2>1, <2>2
<1>11. RecOK'
    <2> DEFINE p == EndOf(wal, rec.rd - 1) + 1 - Len(rec.buf)
    <2>2. Len(rec.buf) \in Nat /\ Len(rec.buf) >= 1
        BY <1>0, <1>2
    <2>1. ReplayPos = p /\ ReplayPos' = p + 1
        <3>1. ReplayPos' = EndOf(v, rec.rd - 1) + 1 - Len(Tail(rec.buf))
            BY <1>5 DEF ReplayPos
        <3>. QED BY <1>3, <1>8, <1>9, <2>2, <3>1 DEF ReplayPos
    <2>3. \A j \in 1..Len(Tail(rec.buf)) :
             Tail(rec.buf)[j] = v.log[ReplayPos' + j - 1]
        <3> SUFFICES ASSUME NEW j \in 1..Len(Tail(rec.buf))
                     PROVE  Tail(rec.buf)[j] = v.log[ReplayPos' + j - 1]
            OBVIOUS
        <3>1. j + 1 \in 1..Len(rec.buf)
            BY <1>3, <2>2
        <3>2. p + j \in 1..Len(wal.log)
            BY <1>3, <1>6, <1>9, <2>2
        <3>3. Tail(rec.buf)[j] = wal.log[p + j]
            BY <1>3, <1>6, <2>1, <3>1
        <3>4. v.log[p + j] = wal.log[p + j]
            BY <1>4, <3>2 DEF Grows
        <3>. QED BY <2>1, <3>3, <3>4
    <2>4. Len(Tail(rec.buf)) <= EndOf(v, rec.rd - 1)
        BY <1>3, <1>6, <1>8, <1>9, <2>2
    <2>5. /\ rec'.rd <= rec'.last + 1
          /\ (wal'.mgr <=> rec'.last < Len(wal'.starts))
        BY <1>5, <1>6, <1>10
    <2>6. Len(rec'.buf) <= EndOf(wal', rec'.rd - 1)
        BY <1>5, <2>4
    <2>7. \A j \in 1..Len(rec'.buf) : rec'.buf[j] = wal'.log[ReplayPos' + j - 1]
        BY <1>5, <2>3
    <2>. QED BY <2>5, <2>6, <2>7 DEF RecOK
<1>12. WalShape(wal')
    BY <1>4, <1>5 DEF WalShape
<1>. QED BY <1>0, <1>1, <1>5, <1>11, <1>12 DEF RInv

\* reading a file fills the buffer with exactly that file
LEMMA ReadRInv ==
    ASSUME RInv, ReadSegment
    PROVE  RInv'
<1>0. /\ IInv /\ WalOK(wal) /\ WalShape(wal) /\ wal \in Wal
      /\ Len(wal.starts) \in Nat /\ Len(wal.log) \in Nat
      /\ rec \in [rd : Nat \ {0}, last : Nat, buf : Seq(Entry)]
      /\ rec.last <= Len(wal.starts)
      /\ up = "recovering" /\ RecOK
      /\ rec.buf = <<>> /\ rec.rd <= rec.last
      /\ UNCHANGED <<wal, crashes>>
    BY RInvFacts DEF ReadSegment
<1>1. IInv'
    <2>1. [Next]_vars
        BY DEF Next
    <2>. QED BY <1>0, <2>1, StepIInv
<1>2. WalShape(wal')
    BY <1>0 DEF WalShape
<1>3. CASE rec.rd > wal.gone
    <2>1. /\ rec' = [rd |-> rec.rd + 1, last |-> rec.last,
                     buf |-> FileEntries(wal, rec.rd)]
          /\ up' = "recovering"
        <3>1. rec.rd \in Nat /\ wal.gone \in Nat
            BY <1>0 DEF Wal
        <3>2. /\ rec' = [rec EXCEPT !.buf = FileEntries(wal, rec.rd), !.rd = @ + 1]
              /\ up' = up
            BY <1>3, <3>1 DEF ReadSegment
        <3>. QED BY <1>0, <3>2
    <2>2. rec.rd \in 1..Len(wal.starts)
        BY <1>0
    <2>3. /\ Len(FileEntries(wal, rec.rd)) = EndOf(wal, rec.rd) - wal.starts[rec.rd] + 1
          /\ \A j \in 1..Len(FileEntries(wal, rec.rd)) :
                FileEntries(wal, rec.rd)[j] = wal.log[wal.starts[rec.rd] + j - 1]
        BY <1>0, <2>2, FileRead
    <2>4. /\ wal.starts[rec.rd] \in Nat \ {0}
          /\ EndOf(wal, rec.rd) \in 0..Len(wal.log)
        BY <1>0, <2>2, EndBounds DEF Wal
    <2>5. ReplayPos' = wal.starts[rec.rd]
        <3>1. ReplayPos' = EndOf(wal, rec.rd) + 1 - Len(FileEntries(wal, rec.rd))
            <4>1. rec'.rd - 1 = rec.rd
                BY <1>0, <2>1
            <4>. QED BY <1>0, <2>1, <4>1 DEF ReplayPos
        <3>. QED BY <2>3, <2>4, <3>1
    <2>6. RecOK'
        <3>1. /\ rec'.rd <= rec'.last + 1
              /\ (wal'.mgr <=> rec'.last < Len(wal'.starts))
            BY <1>0, <2>1 DEF RecOK
        <3>2. Len(rec'.buf) <= EndOf(wal', rec'.rd - 1)
            BY <1>0, <2>1, <2>3, <2>4
        <3>3. \A j \in 1..Len(rec'.buf) :
                 rec'.buf[j] = wal'.log[ReplayPos' + j - 1]
            BY <1>0, <2>1, <2>3, <2>5
        <3>. QED BY <3>1, <3>2, <3>3 DEF RecOK
    <2>. QED BY <1>0, <1>1, <1>2, <2>1, <2>6 DEF RInv
<1>4. CASE ~(rec.rd > wal.gone)
    <2>1. up' = "up"
        BY <1>0, <1>4 DEF ReadSegment
    <2>. QED BY <1>1, <1>2, <2>1 DEF RInv
<1>. QED BY <1>3, <1>4

LEMMA StepRInv == RInv /\ [Next]_vars => RInv'
<1> SUFFICES ASSUME RInv, [Next]_vars PROVE RInv'
    OBVIOUS
<1>0. /\ IInv /\ WalOK(wal) /\ WalShape(wal) /\ wal \in Wal
      /\ Len(wal.starts) \in Nat /\ Len(wal.log) \in Nat
      /\ rec \in [rd : Nat \ {0}, last : Nat, buf : Seq(Entry)]
      /\ rec.last <= Len(wal.starts)
      /\ \A c \in Clients : req[c] \in GoodEntry
      /\ \A c \in Clients : pc[c] = "decr2" => req[c].op = "Decrement"
      /\ up = "down" => ~wal.mgr
    BY RInvFacts
<1>a. IInv'
    BY <1>0, StepIInv
<1>1. ASSUME NEW c \in Clients, NEW e \in Requests, LogRequest(c, e)
      PROVE  RInv'
    <2>1. WalShape(Logged(wal, e))
        BY <1>0, RequestsGood, LoggedShape
    <2>. QED BY <1>1, <1>a, <2>1 DEF LogRequest, RInv
<1>2. ASSUME NEW c \in Clients, LogDecrementIncrement(c)
      PROVE  RInv'
    <2>1. Mk("Increment", req[c].key, -req[c].arg) \in GoodEntry
        BY <1>0, <1>2, NegatedOK DEF LogDecrementIncrement
    <2>2. WalShape(Logged(wal, Mk("Increment", req[c].key, -req[c].arg)))
        BY <1>0, <2>1, LoggedShape
    <2>. QED BY <1>2, <1>a, <2>2 DEF LogDecrementIncrement, RInv
<1>3. ASSUME NEW c \in Clients, ApplyRequest(c)
      PROVE  RInv'
    BY <1>3, <1>a DEF ApplyRequest, RInv, RecOK, ReplayPos, WalShape, EndOf
<1>4. ASSUME NEW c \in Clients, NEW k \in Keys, ReadKey(c, k)
      PROVE  RInv'
    BY <1>4, <1>a DEF ReadKey, vars, RInv, RecOK, ReplayPos, WalShape, EndOf
<1>5. CASE Crash
    <2>1. /\ wal'.log = wal.log /\ wal'.starts = wal.starts
          /\ wal'.gone = wal.gone /\ ~wal'.mgr /\ up' = "down"
        BY <1>0, <1>5 DEF Crash, Wal
    <2>. QED BY <1>a, <2>1 DEF RInv, WalShape
<1>6. CASE StartRecovery
    <2>1. /\ rec' = [rd |-> wal.gone + 1, last |-> Len(wal.starts), buf |-> <<>>]
          /\ up' = "recovering" /\ ~wal.mgr /\ UNCHANGED wal
        BY <1>0, <1>6 DEF StartRecovery
    <2>2. wal.gone \in 0..Len(wal.starts)
        BY <1>0 DEF WalOK, Wal
    <2>3. EndOf(wal, wal.gone) \in 0..Len(wal.log)
        BY <1>0, <2>2, EndBounds
    <2>4. RecOK'
        BY <2>1, <2>2, <2>3 DEF RecOK
    <2>. QED BY <1>0, <1>a, <2>1, <2>4 DEF RInv, WalShape
<1>7. CASE ReadSegment
    BY <1>7, ReadRInv
<1>8. CASE ReplayEntry
    BY <1>8, ReplayRInv
<1>9. CASE FinishRecovery
    BY <1>9, <1>a DEF FinishRecovery, RInv, WalShape
<1>10. CASE UNCHANGED vars
    BY <1>10 DEF vars, RInv, RecOK, ReplayPos, WalShape, EndOf, IInv,
                 TypeOK, WalOK
<1>. QED BY <1>1, <1>2, <1>3, <1>4, <1>5, <1>6, <1>7, <1>8, <1>9, <1>10
         DEF Next

-----------------------------------------------------------------------------
(* The refinement. *)

\* a client write is a Write of WalLog
LEMMA WriteRefines ==
    ASSUME RInv, up = "up", NEW e \in GoodEntry, wal' = Logged(wal, e),
           up' = up, rec' = rec
    PROVE  Durable!Write
<1>0. WalOK(wal) /\ WalShape(wal) /\ Len(wal.log) \in Nat
    BY RInvFacts
<1>1. /\ WalOK(wal') /\ WalShape(wal') /\ Grows(wal, wal')
      /\ Len(wal'.log) = Len(wal.log) + 1
    BY <1>0, LoggedShape
<1>2. RemovedUpTo(wal') \in RemovedUpTo(wal)..Len(wal'.log)
    BY <1>0, <1>1, RemovedGrows
<1>3. \A i \in 1..Len(wal.log) : wal'.log[i] = wal.log[i]
    BY <1>1 DEF Grows
<1>. QED BY <1>1, <1>2, <1>3 DEF Durable!Write, Durable!Trimmed

\* where a replay step leaves the cursor and the end of the listed files
LEMMA ReplayMoves ==
    ASSUME RInv, ReplayEntry
    PROVE  /\ ReplayPos' = ReplayPos + 1
           /\ EndOf(wal', rec.last) = EndOf(wal, rec.last)
           /\ ReplayPos <= EndOf(wal, rec.last)
           /\ wal.log[ReplayPos] = Head(rec.buf)
           /\ Len(wal'.log) \in Len(wal.log) + 1 .. Len(wal.log) + 2
           /\ \A i \in 1..Len(wal.log) : wal'.log[i] = wal.log[i]
           /\ wal'.log[Len(wal.log) + 1] = Head(rec.buf)
           /\ RemovedUpTo(wal') \in RemovedUpTo(wal)..Len(wal'.log)
<1>0. /\ WalOK(wal) /\ WalShape(wal) /\ wal \in Wal
      /\ Len(wal.starts) \in Nat /\ Len(wal.log) \in Nat
      /\ rec \in [rd : Nat \ {0}, last : Nat, buf : Seq(Entry)]
      /\ rec.buf \in Seq(GoodEntry) /\ rec.last <= Len(wal.starts)
      /\ RecOK
      /\ rec.buf # <<>>
    BY RInvFacts DEF ReplayEntry
<1>1. /\ Head(rec.buf) \in GoodEntry
      /\ Len(Tail(rec.buf)) = Len(rec.buf) - 1
      /\ Head(rec.buf) = rec.buf[1]
    BY <1>0, HeadTailProperties
<1> DEFINE v == Relog(wal, Head(rec.buf))
<1>2. /\ WalOK(v) /\ WalShape(v) /\ Grows(wal, v) /\ OpensFile(wal, v)
      /\ Len(v.log) \in Len(wal.log) + 1 .. Len(wal.log) + 2
      /\ v.log[Len(wal.log) + 1] = Head(rec.buf)
    BY <1>0, <1>1, RelogShape
<1>3. /\ wal' = v
      /\ rec' = [rd |-> rec.rd, last |-> rec.last, buf |-> Tail(rec.buf)]
    BY <1>0 DEF ReplayEntry
<1>4. /\ rec.rd <= rec.last + 1
      /\ (wal.mgr <=> rec.last < Len(wal.starts))
      /\ Len(rec.buf) <= EndOf(wal, rec.rd - 1)
      /\ \A j \in 1..Len(rec.buf) : rec.buf[j] = wal.log[ReplayPos + j - 1]
    BY <1>0 DEF RecOK
<1>5. /\ rec.rd - 1 \in 0..Len(wal.starts)
      /\ rec.last \in 0..Len(wal.starts)
      /\ rec.rd - 1 <= rec.last
      /\ rec.rd - 1 < Len(wal.starts) \/ ~wal.mgr
      /\ rec.last < Len(wal.starts) \/ ~wal.mgr
      /\ Len(rec.buf) \in Nat /\ Len(rec.buf) >= 1
    BY <1>0, <1>4
<1>6. /\ EndOf(v, rec.rd - 1) = EndOf(wal, rec.rd - 1)
      /\ EndOf(v, rec.last) = EndOf(wal, rec.last)
    BY <1>0, <1>2, <1>5, EndKept
<1>7. /\ EndOf(wal, rec.rd - 1) \in 0..Len(wal.log)
      /\ EndOf(wal, rec.last) \in 0..Len(wal.log)
      /\ EndOf(wal, rec.rd - 1) <= EndOf(wal, rec.last)
    BY <1>0, <1>5, EndBounds, EndMono
<1>8. ReplayPos' = ReplayPos + 1
    <2>1. ReplayPos' = EndOf(v, rec.rd - 1) + 1 - Len(Tail(rec.buf))
        BY <1>3 DEF ReplayPos
    <2>. QED BY <1>1, <1>5, <1>6, <1>7, <2>1 DEF ReplayPos
<1>9. ReplayPos <= EndOf(wal, rec.last)
    BY <1>5, <1>7 DEF ReplayPos
<1>10. wal.log[ReplayPos] = Head(rec.buf)
    <2>1. 1 \in 1..Len(rec.buf) /\ ReplayPos + 1 - 1 = ReplayPos
        BY <1>5, <1>7 DEF ReplayPos
    <2>. QED BY <1>1, <1>4, <2>1
<1>11. RemovedUpTo(v) \in RemovedUpTo(wal)..Len(v.log)
    BY <1>0, <1>2, RemovedGrows
<1>. QED BY <1>2, <1>3, <1>6, <1>8, <1>9, <1>10, <1>11 DEF Grows

\* every step of the engine is a step of WalLog or leaves its state alone
LEMMA StepRefines == RInv /\ [Next]_vars => [Durable!Next]_Durable!vars
<1> SUFFICES ASSUME RInv, [Next]_vars PROVE [Durable!Next]_Durable!vars
    OBVIOUS
<1>0. /\ WalOK(wal) /\ WalShape(wal) /\ wal \in Wal
      /\ Len(wal.starts) \in Nat /\ Len(wal.log) \in Nat
      /\ rec \in [rd : Nat \ {0}, last : Nat, buf : Seq(Entry)]
      /\ rec.last <= Len(wal.starts)
      /\ \A c \in Clients : req[c] \in GoodEntry
      /\ \A c \in Clients : pc[c] = "decr2" => req[c].op = "Decrement"
      /\ up \in {"up", "down", "recovering"}
      /\ up = "down" => ~wal.mgr
      /\ up = "recovering" => RecOK
    BY RInvFacts
<1>1. ASSUME NEW c \in Clients, NEW e \in Requests, LogRequest(c, e)
      PROVE  Durable!Next
    <2>1. Durable!Write
        BY <1>1, RequestsGood, WriteRefines DEF LogRequest
    <2>. QED BY <2>1 DEF Durable!Next
<1>2. ASSUME NEW c \in Clients, LogDecrementIncrement(c)
      PROVE  Durable!Next
    <2>1. Mk("Increment", req[c].key, -req[c].arg) \in GoodEntry
        BY <1>0, <1>2, NegatedOK DEF LogDecrementIncrement
    <2>2. Durable!Write
        BY <1>2, <2>1, WriteRefines DEF LogDecrementIncrement
    <2>. QED BY <2>2 DEF Durable!Next
<1>3. ASSUME NEW c \in Clients, ApplyRequest(c)
      PROVE  UNCHANGED Durable!vars
    BY <1>3 DEF ApplyRequest, Durable!vars, RemovedUpTo, ReplayPos
<1>4. ASSUME NEW c \in Clients, NEW k \in Keys, ReadKey(c, k)
      PROVE  UNCHANGED Durable!vars
    BY <1>4 DEF ReadKey, vars, Durable!vars, RemovedUpTo, ReplayPos
<1>5. CASE Crash
    <2>1. /\ wal'.log = wal.log /\ wal'.starts = wal.starts
          /\ wal'.gone = wal.gone /\ up' = "down" /\ up # "down"
        BY <1>0, <1>5 DEF Crash, Wal
    <2>2. RemovedUpTo(wal') = RemovedUpTo(wal)
        BY <2>1 DEF RemovedUpTo, EndOf
    <2>. QED BY <2>1, <2>2 DEF Durable!Next, Durable!Crash
<1>6. CASE StartRecovery
    <2>1. /\ rec' = [rd |-> wal.gone + 1, last |-> Len(wal.starts), buf |-> <<>>]
          /\ up' = "recovering" /\ up = "down" /\ UNCHANGED wal
        BY <1>6 DEF StartRecovery
    <2>2. wal.gone \in Nat
        BY <1>0 DEF Wal
    <2>3. ReplayPos' = RemovedUpTo(wal) + 1
        <3>1. rec'.rd - 1 = wal.gone
            BY <2>1, <2>2
        <3>. QED BY <2>1, <3>1 DEF ReplayPos, RemovedUpTo
    <2>4. EndOf(wal', rec'.last) = Len(wal.log)
        BY <2>1 DEF EndOf
    <2>. QED BY <2>1, <2>3, <2>4 DEF Durable!Next, Durable!Recover
<1>7. CASE ReadSegment
    <2>0. /\ up = "recovering" /\ RecOK /\ rec.buf = <<>> /\ rec.rd <= rec.last
          /\ UNCHANGED wal
        BY <1>0, <1>7 DEF ReadSegment
    <2>1. /\ rec.rd \in 1..Len(wal.starts)
          /\ ReplayPos = EndOf(wal, rec.rd - 1) + 1
        BY <1>0, <2>0 DEF ReplayPos
    <2>2. CASE rec.rd > wal.gone
        <3>1. /\ rec' = [rd |-> rec.rd + 1, last |-> rec.last,
                         buf |-> FileEntries(wal, rec.rd)]
              /\ up' = "recovering"
            <4>1. rec.rd \in Nat /\ wal.gone \in Nat
                BY <1>0 DEF Wal
            <4>2. /\ rec' = [rec EXCEPT !.buf = FileEntries(wal, rec.rd), !.rd = @ + 1]
                  /\ up' = up
                BY <1>7, <2>2, <4>1 DEF ReadSegment
            <4>. QED BY <1>0, <2>0, <4>2
        <3>2. /\ Len(FileEntries(wal, rec.rd)) = EndOf(wal, rec.rd) - wal.starts[rec.rd] + 1
              /\ EndOf(wal, rec.rd - 1) = wal.starts[rec.rd] - 1
              /\ wal.starts[rec.rd] \in Nat
              /\ EndOf(wal, rec.rd) \in 0..Len(wal.log)
            BY <1>0, <2>1, FileRead, EndStart, EndBounds DEF Wal
        <3>3. ReplayPos' = ReplayPos
            <4>1. ReplayPos' = EndOf(wal, rec.rd) + 1 - Len(FileEntries(wal, rec.rd))
                <5>1. rec'.rd - 1 = rec.rd
                    BY <1>0, <3>1
                <5>. QED BY <2>0, <3>1, <5>1 DEF ReplayPos
            <4>. QED BY <2>1, <3>2, <4>1
        <3>. QED BY <2>0, <3>1, <3>3 DEF Durable!vars
    <2>3. CASE ~(rec.rd > wal.gone)
        <3>1. up' = "up" /\ UNCHANGED rec
            <4>1. rec.rd \in Nat /\ wal.gone \in Nat
                BY <1>0 DEF Wal
            <4>. QED BY <1>7, <2>3, <4>1 DEF ReadSegment
        <3>2. /\ rec.rd - 1 \in 0..Len(wal.starts)
              /\ wal.gone \in 0..Len(wal.starts)
              /\ rec.rd - 1 <= wal.gone
            BY <1>0, <2>1, <2>3 DEF WalOK, Wal
        <3>3. ReplayPos <= RemovedUpTo(wal) + 1
            <4>1. /\ EndOf(wal, rec.rd - 1) <= EndOf(wal, wal.gone)
                  /\ EndOf(wal, rec.rd - 1) \in Int
                  /\ EndOf(wal, wal.gone) \in Int
                BY <1>0, <3>2, EndMono, EndBounds
            <4>. QED BY <2>1, <4>1 DEF RemovedUpTo
        <3>. QED BY <2>0, <3>1, <3>3 DEF Durable!Next, Durable!GiveUp
    <2>. QED BY <2>2, <2>3
<1>8. CASE ReplayEntry
    <2>1. /\ ReplayPos' = ReplayPos + 1
          /\ EndOf(wal', rec.last) = EndOf(wal, rec.last)
          /\ ReplayPos <= EndOf(wal, rec.last)
          /\ wal.log[ReplayPos] = Head(rec.buf)
          /\ Len(wal'.log) \in Len(wal.log) + 1 .. Len(wal.log) + 2
          /\ \A i \in 1..Len(wal.log) : wal'.log[i] = wal.log[i]
          /\ wal'.log[Len(wal.log) + 1] = Head(rec.buf)
          /\ RemovedUpTo(wal') \in RemovedUpTo(wal)..Len(wal'.log)
        BY <1>8, ReplayMoves
    <2>2. /\ up = "recovering" /\ up' = up /\ rec'.last = rec.last
        BY <1>0, <1>8 DEF ReplayEntry
    <2>. QED BY <2>1, <2>2
             DEF Durable!Next, Durable!Replay, Durable!Extends, Durable!Trimmed
<1>9. CASE FinishRecovery
    <2>1. /\ up = "recovering" /\ up' = "up" /\ RecOK
          /\ rec.buf = <<>> /\ rec.rd > rec.last /\ UNCHANGED <<wal, rec>>
        BY <1>0, <1>9 DEF FinishRecovery
    <2>2. rec.rd - 1 = rec.last
        BY <1>0, <2>1 DEF RecOK
    <2>3. ReplayPos = EndOf(wal, rec.last) + 1
        BY <2>1, <2>2 DEF ReplayPos
    <2>4. EndOf(wal, rec.last) \in Int
        BY <1>0, EndBounds
    <2>. QED BY <2>1, <2>3, <2>4 DEF Durable!Next, Durable!Finish
<1>10. CASE UNCHANGED vars
    BY <1>10 DEF vars, Durable!vars, RemovedUpTo, ReplayPos
<1>. QED BY <1>1, <1>2, <1>3, <1>4, <1>5, <1>6, <1>7, <1>8, <1>9, <1>10
         DEF Next

\* The segment files, their rotation, cleanup_old_segments, ensure_wal
\* after a restart and recover's file-by-file replay implement WalLog: the
\* log only grows at its end, retention removes a prefix, and a recovery
\* that finishes has replayed every kept entry up to the last one written
\* before the crash, once each and in order, for every segment size and
\* retention setting and every interleaving of clients and crashes.
THEOREM Refinement == Spec => WalLogRefined
<1>1. Init => Durable!Init
    BY DEF Init, Durable!Init, RemovedUpTo, EndOf
<1>2. Spec => []RInv
    BY InitRInv, StepRInv, PTL DEF Spec
<1>. QED BY <1>1, <1>2, StepRefines, PTL
         DEF Spec, WalLogRefined, Durable!Spec

=============================================================================
