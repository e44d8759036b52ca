------------------------------ MODULE Admission ------------------------------
(***************************************************************************)
(* What the connection limit of tinycache promises, without the counter,  *)
(* the lock or the handshake: every accepted TCP connection is first       *)
(* waiting, then either holds a slot ("in") or is turned away, and a slot  *)
(* is taken only while fewer than max_connections are held.  A connection *)
(* leaves for good; it never comes back to waiting.                        *)
(*                                                                         *)
(* Refusal is not tied to the limit: the server may refuse a connection   *)
(* for any reason (here, a counter that is higher than the live tasks).   *)
(* What is promised is the upper bound, not that a free slot is given.    *)
(***************************************************************************)
EXTENDS Naturals, FiniteSets

CONSTANTS Conns, MaxConnections

VARIABLE conn   \* per connection: "waiting", "in" or "out"

States == {"waiting", "in", "out"}

Holding == {c \in Conns : conn[c] = "in"}

Init == conn = [c \in Conns |-> "waiting"]

\* a waiting connection takes a slot, only below the limit
Enter(c) ==
    /\ conn[c] = "waiting"
    /\ Cardinality(Holding) < MaxConnections
    /\ conn' = [conn EXCEPT ![c] = "in"]

\* a waiting connection is turned away
Refuse(c) ==
    /\ conn[c] = "waiting"
    /\ conn' = [conn EXCEPT ![c] = "out"]

\* a connection gives its slot back
Leave(c) ==
    /\ conn[c] = "in"
    /\ conn' = [conn EXCEPT ![c] = "out"]

Next == \E c \in Conns : Enter(c) \/ Refuse(c) \/ Leave(c)

Spec == Init /\ [][Next]_conn

\* never more connections hold a slot than max_connections
WithinLimit == Cardinality(Holding) <= MaxConnections

=============================================================================
