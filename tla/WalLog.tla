------------------------------- MODULE WalLog -------------------------------
(***************************************************************************)
(* What the write-ahead log of one tinycache database promises, without    *)
(* segment files, managers or the recovery cursor: the log is one sequence *)
(* of entries that only ever grows at its end; what retention removes is a *)
(* prefix of it (the first `removed` entries), and never comes back; after *)
(* a crash, recovery replays the entries that are kept, from the first one *)
(* kept to the last one written before the crash, each once and in log     *)
(* order, and every replayed entry is written to the log again.  Recovery  *)
(* may give up early only once retention has reached the entry it would   *)
(* read next.                                                              *)
(***************************************************************************)
EXTENDS Integers, Sequences

VARIABLES
    log,      \* every entry ever written, in order
    removed,  \* entries 1..removed are no longer on disk
    mode,     \* "up", "down" or "recovering"
    next,     \* while recovering: the position of the next entry to replay
    limit     \* while recovering: the last position written before the crash

vars == <<log, removed, mode, next, limit>>

\* t is s with at least one and at most two entries written at its end
Extends(s, t) ==
    /\ Len(t) \in Len(s) + 1 .. Len(s) + 2
    /\ \A i \in 1..Len(s) : t[i] = s[i]

\* retention removes a longer prefix, or nothing
Trimmed == removed' \in removed..Len(log')

Init ==
    /\ log = <<>>
    /\ removed = 0
    /\ mode = "up"
    /\ next = 0
    /\ limit = 0

\* a client command writes one entry
Write ==
    /\ mode = "up"
    /\ Len(log') = Len(log) + 1
    /\ \A i \in 1..Len(log) : log'[i] = log[i]
    /\ Trimmed
    /\ UNCHANGED <<mode, next, limit>>

\* recovery replays the next kept entry and writes it again
Replay ==
    /\ mode = "recovering"
    /\ next <= limit
    /\ Extends(log, log')
    /\ log'[Len(log) + 1] = log[next]
    /\ Trimmed
    /\ next' = next + 1
    /\ UNCHANGED <<mode, limit>>

Crash ==
    /\ mode # "down"
    /\ mode' = "down"
    /\ next' = 0
    /\ limit' = 0
    /\ UNCHANGED <<log, removed>>

\* start-up: replay from the first kept entry to the end of the log
Recover ==
    /\ mode = "down"
    /\ mode' = "recovering"
    /\ next' = removed + 1
    /\ limit' = Len(log)
    /\ UNCHANGED <<log, removed>>

\* every entry up to the limit replayed
Finish ==
    /\ mode = "recovering"
    /\ next > limit
    /\ mode' = "up"
    /\ next' = 0
    /\ limit' = 0
    /\ UNCHANGED <<log, removed>>

\* retention has reached the replay position: the rest is lost
GiveUp ==
    /\ mode = "recovering"
    /\ next <= removed + 1
    /\ mode' = "up"
    /\ next' = 0
    /\ limit' = 0
    /\ UNCHANGED <<log, removed>>

Next == Write \/ Replay \/ Crash \/ Recover \/ Finish \/ GiveUp

Spec == Init /\ [][Next]_vars
=============================================================================
