----------------------------- MODULE Connections -----------------------------
(***************************************************************************)
(* The connection handler (src/src/requests/client.rs) together with the  *)
(* session store of the AuthManager (src/src/security/auth.rs).  Every    *)
(* accepted TCP connection runs handle_client in a tokio task of its own: *)
(* admission against the active-connection counter, the configuration     *)
(* check, authentication with the connection string, the AUTH OK reply,  *)
(* then the request loop, which validates and refreshes the session      *)
(* before each request.  The counter is a tokio RwLock<usize>; the        *)
(* sessions map is a std RwLock<HashMap> held only inside one call.       *)
(*                                                                         *)
(* A connection is a model value; it authenticates at most once, so its   *)
(* session (a fresh UUID in the code) is indexed by the connection.       *)
(***************************************************************************)
EXTENDS Naturals, FiniteSets

CONSTANTS
    Conns,           \* the TCP connections the listener accepts
    MaxConnections,  \* config.max_connections
    ConfigValid,     \* the result of config.validate(), fixed at start-up
    SessionTTL,      \* config.session_ttl, in clock ticks
    Faults,          \* failures clients and sockets may produce:
                     \* "read", "auth", "write"
    MaxTime,         \* bound: the clock stops here
    None

ASSUME ConnectionsAssumption ==
    /\ IsFiniteSet(Conns)
    /\ MaxConnections \in Nat
    /\ ConfigValid \in BOOLEAN
    /\ SessionTTL \in Nat \ {0}
    /\ Faults \subseteq {"read", "auth", "write"}
    /\ MaxTime \in Nat
    /\ None \notin Nat

VARIABLES
    count,     \* *db.active_connections
    lock,      \* the task holding the active_connections write lock, or None
    phase,     \* per connection: where its handle_client task is
    sessions,  \* per connection: expires_at of its session, or None
    now        \* SystemTime::now(), in ticks

vars == <<count, lock, phase, sessions, now>>

Phases == {"new", "rejecting", "admitted", "validated", "authed",
           "serving", "closing", "done"}

\* the phases in which a task has counted itself in active_connections
\* and not yet taken itself out
Live == {"admitted", "validated", "authed", "serving", "closing"}

LiveConns == {c \in Conns : phase[c] \in Live}

-----------------------------------------------------------------------------
(* The session store (auth.rs).                                            *)

\* validate_session (136-162) and refresh_session (164-178): present and
\* not expired
Valid(c) == sessions[c] # None /\ sessions[c] > now

\* create_session (90-123) stores the new session, then authenticate calls
\* cleanup_expired_sessions (125-134), which keeps expires_at > now
CreateAndSweep(c) ==
    [x \in Conns |-> IF x = c THEN now + SessionTTL
                     ELSE IF Valid(x) THEN sessions[x] ELSE None]

-----------------------------------------------------------------------------
(* Actions of one handle_client task.                                      *)

Init ==
    /\ count = 0
    /\ lock = None
    /\ phase = [c \in Conns |-> "new"]
    /\ sessions = [c \in Conns |-> None]
    /\ now = 0

\* mutant: the counter incremented before the comparison, on both paths
AdmitCountFirst(c) ==
    /\ phase[c] = "new"
    /\ lock = None
    /\ count' = count + 1
    /\ \/ /\ count >= MaxConnections
          /\ lock' = c
          /\ phase' = [phase EXCEPT ![c] = "rejecting"]
       \/ /\ count < MaxConnections
          /\ phase' = [phase EXCEPT ![c] = "admitted"]
          /\ UNCHANGED lock
    /\ UNCHANGED <<sessions, now>>

\* mutant: the limit compared with `>` instead of `>=`
AdmitOffByOne(c) ==
    /\ phase[c] = "new"
    /\ lock = None
    /\ \/ /\ count > MaxConnections
          /\ lock' = c
          /\ phase' = [phase EXCEPT ![c] = "rejecting"]
          /\ UNCHANGED count
       \/ /\ count <= MaxConnections
          /\ count' = count + 1
          /\ phase' = [phase EXCEPT ![c] = "admitted"]
          /\ UNCHANGED lock
    /\ UNCHANGED <<sessions, now>>

\* client.rs 19-34: take the write lock, compare with max_connections;
\* over the limit the task keeps the lock while it writes the error to the
\* socket and logs (22-30); otherwise it counts itself and drops the lock
Admit(c) ==
    /\ phase[c] = "new"
    /\ lock = None
    /\ \/ /\ count >= MaxConnections
          /\ lock' = c
          /\ phase' = [phase EXCEPT ![c] = "rejecting"]
          /\ UNCHANGED count
       \/ /\ count < MaxConnections
          /\ count' = count + 1
          /\ phase' = [phase EXCEPT ![c] = "admitted"]
          /\ UNCHANGED lock
    /\ UNCHANGED <<sessions, now>>

\* mutant: the rejection decrements as if it had been counted
RejectSentDecrements(c) ==
    /\ phase[c] = "rejecting"
    /\ lock' = None
    /\ count' = count - 1
    /\ phase' = [phase EXCEPT ![c] = "done"]
    /\ UNCHANGED <<sessions, now>>

\* mutant: the guard outlives the rejection
RejectSentNoDrop(c) ==
    /\ phase[c] = "rejecting"
    /\ phase' = [phase EXCEPT ![c] = "done"]
    /\ UNCHANGED <<count, lock, sessions, now>>

\* client.rs 22-31: the error line is written, `return` drops the guard
RejectSent(c) ==
    /\ phase[c] = "rejecting"
    /\ lock' = None
    /\ phase' = [phase EXCEPT ![c] = "done"]
    /\ UNCHANGED <<count, sessions, now>>

\* client.rs 37-45: config.validate(); on an error the task returns
CheckConfig(c) ==
    /\ phase[c] = "admitted"
    /\ phase' = [phase EXCEPT ![c] = IF ConfigValid THEN "validated" ELSE "done"]
    /\ UNCHANGED <<count, lock, sessions, now>>

\* client.rs 52-60 and 89-114, auth.rs authenticate (47-88): the read of
\* the connection string fails, or the credentials are refused (both
\* return), or a session is created and expired ones are swept
Authenticate(c) ==
    /\ phase[c] = "validated"
    /\ \/ /\ Faults \cap {"read", "auth"} # {}
          /\ phase' = [phase EXCEPT ![c] = "done"]
          /\ UNCHANGED sessions
       \/ /\ sessions' = CreateAndSweep(c)
          /\ phase' = [phase EXCEPT ![c] = "authed"]
    /\ UNCHANGED <<count, lock, now>>

\* client.rs 62-87: write "AUTH OK <id>"; a failed write returns
SendAuthOk(c) ==
    /\ phase[c] = "authed"
    /\ \/ /\ "write" \in Faults
          /\ phase' = [phase EXCEPT ![c] = "done"]
       \/ phase' = [phase EXCEPT ![c] = "serving"]
    /\ UNCHANGED <<count, lock, sessions, now>>

\* handle_authenticated_requests (121-154), one request: validate and
\* refresh the session (the read check and the write check run at nearly
\* the same instant, so they are taken as one step), process the request,
\* write the reply; an invalid session or a failed write ends the loop
Request(c) ==
    /\ phase[c] = "serving"
    /\ \/ /\ Valid(c)
          /\ sessions' = [sessions EXCEPT ![c] = now + SessionTTL]
          /\ \/ UNCHANGED phase
             \/ /\ "write" \in Faults
                /\ phase' = [phase EXCEPT ![c] = "closing"]
       \/ /\ ~Valid(c)
          /\ phase' = [phase EXCEPT ![c] = "closing"]
          /\ UNCHANGED sessions
    /\ UNCHANGED <<count, lock, now>>

\* mutant: the read-error path decrements before it breaks, and the
\* decrement after the loop runs as well
HangupDecrements(c) ==
    /\ phase[c] = "serving"
    /\ count' = count - 1
    /\ phase' = [phase EXCEPT ![c] = "closing"]
    /\ UNCHANGED <<lock, sessions, now>>

\* client.rs 127, 146-149: the client closes (read returns 0) or the read
\* fails; the loop breaks
Hangup(c) ==
    /\ phase[c] = "serving"
    /\ phase' = [phase EXCEPT ![c] = "closing"]
    /\ UNCHANGED <<count, lock, sessions, now>>

\* client.rs 117-118: after the request loop, take the write lock and
\* decrement
Release(c) ==
    /\ phase[c] = "closing"
    /\ lock = None
    /\ count' = count - 1
    /\ phase' = [phase EXCEPT ![c] = "done"]
    /\ UNCHANGED <<lock, sessions, now>>

\* the clock advances
Tick ==
    /\ now < MaxTime
    /\ now' = now + 1
    /\ UNCHANGED <<count, lock, phase, sessions>>

Next ==
    \/ \E c \in Conns :
          \/ Admit(c) \/ RejectSent(c) \/ CheckConfig(c) \/ Authenticate(c)
          \/ SendAuthOk(c) \/ Hangup(c) \/ Release(c)
          \/ Request(c)
    \/ Tick

\* Tokio keeps polling a task that can run: the steps a task takes on its
\* own (the configuration check, the release of the counter, the short
\* writes to a fresh socket) are weakly fair.  Reads wait for the client,
\* which may stay silent or connected for ever, so Authenticate, Request
\* and Hangup are not fair.
Fairness ==
    \A c \in Conns :
        /\ WF_vars(CheckConfig(c)) /\ WF_vars(SendAuthOk(c))
        /\ WF_vars(Release(c)) /\ WF_vars(RejectSent(c))

Spec == Init /\ [][Next]_vars /\ Fairness

-----------------------------------------------------------------------------
(* Properties.                                                             *)

TypeOK ==
    /\ count \in Nat
    /\ lock \in Conns \cup {None}
    /\ phase \in [Conns -> Phases]
    /\ sessions \in [Conns -> Nat \cup {None}]
    /\ now \in 0..MaxTime

\* active_connections counts exactly the handle_client tasks that have been
\* admitted and have not finished: every return path after the increment
\* at client.rs 33 must pass the decrement at 118.
CountMatchesLive == count = Cardinality(LiveConns)

\* The counter never undercounts: whatever paths the tasks take, every live
\* task is still counted in active_connections, so max_connections does
\* bound the live handler tasks and the decrement at client.rs 118 never
\* takes the counter below the live ones (a usize would wrap there).
CountCoversLive == count >= Cardinality(LiveConns)

\* A connection whose request loop has ended gets its slot back: the task
\* eventually decrements the counter (client.rs 117-118), whatever the
\* other connections do.
ClosingReleases ==
    \A c \in Conns : phase[c] = "closing" ~> phase[c] = "done"

-----------------------------------------------------------------------------
(* Refinement of the admission promise (Admission.tla).  A task that has  *)
(* not reached the counter is waiting; one counted in active_connections  *)
(* holds a slot; a rejected or finished task is out.                      *)

AbsConn ==
    [c \in Conns |-> IF phase[c] = "new" THEN "waiting"
                     ELSE IF phase[c] \in Live THEN "in" ELSE "out"]

Abs == INSTANCE Admission WITH conn <- AbsConn

\* The handler tasks implement the admission promise: a task is counted in
\* only while fewer than max_connections tasks are live (client.rs 20-33,
\* with the decrement at 118), refusals and exits are one-way, and every
\* other step of the handshake and the request loop leaves the slots alone.
AdmissionRefined == Abs!Spec

=============================================================================
