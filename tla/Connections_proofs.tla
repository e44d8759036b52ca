-------------------------- MODULE Connections_proofs --------------------------
(***************************************************************************)
(* Proofs about the connection counter of Connections, for every set of   *)
(* connections, every max_connections, TTL and clock bound.               *)
(*                                                                         *)
(* The argument: a handler step moves one task from one phase to another; *)
(* the set of live tasks then stays the same, gains that task or loses    *)
(* it (CardStay, CardEnter, CardLeave).  The counter moves with it only   *)
(* at admission and at the final decrement; every other exit from the    *)
(* live phases leaves it alone.  So the counter never falls below the     *)
(* number of live tasks, which also keeps it a natural number, and when   *)
(* no early return can be taken it equals that number.                    *)
(***************************************************************************)
EXTENDS Connections, FiniteSetTheorems, TLAPS

\* the live connections of a phase assignment
LiveOf(ph) == {x \in Conns : ph[x] \in Live}

\* The set of live connections is finite: it is a subset of Conns.
LEMMA LiveOfFinite ==
    ASSUME NEW ph
    PROVE  IsFiniteSet(LiveOf(ph))
<1>1. LiveOf(ph) \in SUBSET Conns
    BY DEF LiveOf
<1>. QED BY <1>1, ConnectionsAssumption, FS_Subset

\* A step between two live phases, or between two phases that are not
\* live, leaves the number of live connections alone.
LEMMA CardStay ==
    ASSUME NEW ph \in [Conns -> Phases], NEW c \in Conns, NEW p \in Phases,
           (ph[c] \in Live) <=> (p \in Live)
    PROVE  Cardinality(LiveOf([ph EXCEPT ![c] = p])) = Cardinality(LiveOf(ph))
<1>1. LiveOf([ph EXCEPT ![c] = p]) = LiveOf(ph)
    BY DEF LiveOf
<1>. QED BY <1>1

\* Admission adds the task to the live ones.
LEMMA CardEnter ==
    ASSUME NEW ph \in [Conns -> Phases], NEW c \in Conns, NEW p \in Live,
           ph[c] \notin Live
    PROVE  Cardinality(LiveOf([ph EXCEPT ![c] = p])) = Cardinality(LiveOf(ph)) + 1
<1>1. LiveOf([ph EXCEPT ![c] = p]) = LiveOf(ph) \cup {c}
    BY DEF LiveOf
<1>2. c \notin LiveOf(ph)
    BY DEF LiveOf
<1>. QED BY <1>1, <1>2, LiveOfFinite, FS_AddElement

\* A task that leaves the live phases is taken from the live ones, which
\* held it.
LEMMA CardLeave ==
    ASSUME NEW ph \in [Conns -> Phases], NEW c \in Conns, NEW p \in Phases,
           ph[c] \in Live, p \notin Live
    PROVE  /\ Cardinality(LiveOf([ph EXCEPT ![c] = p])) = Cardinality(LiveOf(ph)) - 1
           /\ Cardinality(LiveOf(ph)) >= 1
<1>1. LiveOf([ph EXCEPT ![c] = p]) = LiveOf(ph) \ {c}
    BY DEF LiveOf
<1>2. c \in LiveOf(ph)
    BY DEF LiveOf
<1>3. Cardinality(LiveOf(ph)) \in Nat /\ Cardinality(LiveOf(ph)) # 0
    BY <1>2, LiveOfFinite, FS_CardinalityType, FS_EmptySet
<1>4. Cardinality(LiveOf(ph) \ {c}) = Cardinality(LiveOf(ph)) - 1
    BY <1>2, LiveOfFinite, FS_RemoveElement
<1>5. Cardinality(LiveOf(ph)) >= 1
    BY <1>3
<1>6. Cardinality(LiveOf([ph EXCEPT ![c] = p])) = Cardinality(LiveOf(ph)) - 1
    BY <1>1, <1>4, Zenon
<1>. QED BY <1>5, <1>6

\* LiveConns is LiveOf of the current phases, before and after a step.
LEMMA LiveConnsDef ==
    LiveConns = LiveOf(phase) /\ LiveConns' = LiveOf(phase')
BY DEF LiveConns, LiveOf

-----------------------------------------------------------------------------
(* The counter never undercounts, and the state is well typed.            *)

IInv == TypeOK /\ CountCoversLive

LEMMA InitIInv == Init => IInv
<1>. SUFFICES ASSUME Init PROVE IInv
    OBVIOUS
<1>1. LiveConns = {}
    BY DEF Init, LiveConns, Live
<1>2. TypeOK
    BY ConnectionsAssumption DEF Init, TypeOK, Phases
<1>. QED BY <1>1, <1>2, FS_EmptySet DEF Init, IInv, CountCoversLive

\* the invariant after a step, from its two halves
LEMMA CloseStep ==
    ASSUME TypeOK', count' >= Cardinality(LiveOf(phase'))
    PROVE  IInv'
BY LiveConnsDef DEF IInv, CountCoversLive

\* Every step keeps the state well typed and the counter at or above the
\* number of live tasks.
LEMMA NextIInv == IInv /\ [Next]_vars => IInv'
<1>. SUFFICES ASSUME IInv, [Next]_vars PROVE IInv'
    OBVIOUS
<1>0. /\ TypeOK
      /\ phase \in [Conns -> Phases]
      /\ count \in Nat
      /\ count >= Cardinality(LiveOf(phase))
      /\ Cardinality(LiveOf(phase)) \in Nat
    BY LiveConnsDef, LiveOfFinite, FS_CardinalityType
       DEF IInv, CountCoversLive, TypeOK
<1>1. ASSUME NEW c \in Conns, Admit(c) PROVE IInv'
    <2>1. CASE count >= MaxConnections
        <3>1. /\ phase' = [phase EXCEPT ![c] = "rejecting"]
              /\ count' = count /\ lock' = c
            BY <1>0, <1>1, <2>1, ConnectionsAssumption DEF Admit
        <3>2. Cardinality(LiveOf(phase')) = Cardinality(LiveOf(phase))
            BY <1>0, <1>1, <3>1, CardStay DEF Admit, Live, Phases
        <3>3. TypeOK'
            BY <1>0, <1>1, <3>1 DEF Admit, TypeOK, Phases
        <3>. QED BY <1>0, <3>1, <3>2, <3>3, CloseStep
    <2>2. CASE count < MaxConnections
        <3>1. /\ phase' = [phase EXCEPT ![c] = "admitted"]
              /\ count' = count + 1
            BY <1>0, <1>1, <2>2, ConnectionsAssumption DEF Admit
        <3>2. Cardinality(LiveOf(phase')) = Cardinality(LiveOf(phase)) + 1
            BY <1>0, <1>1, <3>1, CardEnter DEF Admit, Live, Phases
        <3>3. TypeOK'
            BY <1>0, <1>1, <3>1 DEF Admit, TypeOK, Phases
        <3>. QED BY <1>0, <3>1, <3>2, <3>3, CloseStep
    <2>. QED BY <2>1, <2>2, <1>0, ConnectionsAssumption
<1>2. ASSUME NEW c \in Conns, RejectSent(c) PROVE IInv'
    <2>1. Cardinality(LiveOf(phase')) = Cardinality(LiveOf(phase))
        BY <1>0, <1>2, CardStay DEF RejectSent, Live, Phases
    <2>2. TypeOK'
        BY <1>0, <1>2 DEF RejectSent, TypeOK, Phases
    <2>. QED BY <1>0, <1>2, <2>1, <2>2, CloseStep DEF RejectSent
<1>3. ASSUME NEW c \in Conns, CheckConfig(c) PROVE IInv'
    <2>1. TypeOK'
        BY <1>0, <1>3 DEF CheckConfig, TypeOK, Phases
    <2>2. CASE ConfigValid
        <3>1. Cardinality(LiveOf(phase')) = Cardinality(LiveOf(phase))
            BY <1>0, <1>3, <2>2, CardStay DEF CheckConfig, Live, Phases
        <3>. QED BY <1>0, <1>3, <2>1, <3>1, CloseStep DEF CheckConfig
    <2>3. CASE ~ConfigValid
        <3>1. Cardinality(LiveOf(phase')) = Cardinality(LiveOf(phase)) - 1
            BY <1>0, <1>3, <2>3, CardLeave DEF CheckConfig, Live, Phases
        <3>. QED BY <1>0, <1>3, <2>1, <3>1, CloseStep DEF CheckConfig
    <2>. QED BY <2>2, <2>3
<1>4. ASSUME NEW c \in Conns, Authenticate(c) PROVE IInv'
    <2>1. CASE phase' = [phase EXCEPT ![c] = "done"] /\ UNCHANGED sessions
        <3>1. Cardinality(LiveOf(phase')) = Cardinality(LiveOf(phase)) - 1
            BY <1>0, <1>4, <2>1, CardLeave DEF Authenticate, Live, Phases
        <3>2. TypeOK'
            BY <1>0, <1>4, <2>1 DEF Authenticate, TypeOK, Phases
        <3>. QED BY <1>0, <1>4, <3>1, <3>2, CloseStep DEF Authenticate
    <2>2. CASE sessions' = CreateAndSweep(c)
               /\ phase' = [phase EXCEPT ![c] = "authed"]
        <3>1. Cardinality(LiveOf(phase')) = Cardinality(LiveOf(phase))
            BY <1>0, <1>4, <2>2, CardStay DEF Authenticate, Live, Phases
        <3>2. sessions' \in [Conns -> Nat \cup {None}]
            BY <1>0, <2>2, ConnectionsAssumption DEF CreateAndSweep, TypeOK
        <3>3. TypeOK'
            BY <1>0, <1>4, <2>2, <3>2 DEF Authenticate, TypeOK, Phases
        <3>. QED BY <1>0, <1>4, <3>1, <3>3, CloseStep DEF Authenticate
    <2>. QED BY <1>4, <2>1, <2>2 DEF Authenticate
<1>5. ASSUME NEW c \in Conns, SendAuthOk(c) PROVE IInv'
    <2>1. TypeOK'
        BY <1>0, <1>5 DEF SendAuthOk, TypeOK, Phases
    <2>2. CASE phase' = [phase EXCEPT ![c] = "done"]
        <3>1. Cardinality(LiveOf(phase')) = Cardinality(LiveOf(phase)) - 1
            BY <1>0, <1>5, <2>2, CardLeave DEF SendAuthOk, Live, Phases
        <3>. QED BY <1>0, <1>5, <2>1, <3>1, CloseStep DEF SendAuthOk
    <2>3. CASE phase' = [phase EXCEPT ![c] = "serving"]
        <3>1. Cardinality(LiveOf(phase')) = Cardinality(LiveOf(phase))
            BY <1>0, <1>5, <2>3, CardStay DEF SendAuthOk, Live, Phases
        <3>. QED BY <1>0, <1>5, <2>1, <3>1, CloseStep DEF SendAuthOk
    <2>. QED BY <1>5, <2>2, <2>3 DEF SendAuthOk
<1>6. ASSUME NEW c \in Conns, Request(c) PROVE IInv'
    <2>1. TypeOK'
        BY <1>0, <1>6, ConnectionsAssumption DEF Request, TypeOK, Phases
    <2>2. CASE phase' = phase
        BY <1>0, <1>6, <2>1, <2>2, CloseStep DEF Request
    <2>3. CASE phase' = [phase EXCEPT ![c] = "closing"]
        <3>1. Cardinality(LiveOf(phase')) = Cardinality(LiveOf(phase))
            BY <1>0, <1>6, <2>3, CardStay DEF Request, Live, Phases
        <3>. QED BY <1>0, <1>6, <2>1, <3>1, CloseStep DEF Request
    <2>. QED BY <1>6, <2>2, <2>3 DEF Request
<1>7. ASSUME NEW c \in Conns, Hangup(c) PROVE IInv'
    <2>1. Cardinality(LiveOf(phase')) = Cardinality(LiveOf(phase))
        BY <1>0, <1>7, CardStay DEF Hangup, Live, Phases
    <2>2. TypeOK'
        BY <1>0, <1>7 DEF Hangup, TypeOK, Phases
    <2>. QED BY <1>0, <1>7, <2>1, <2>2, CloseStep DEF Hangup
<1>8. ASSUME NEW c \in Conns, Release(c) PROVE IInv'
    <2>1. /\ Cardinality(LiveOf(phase')) = Cardinality(LiveOf(phase)) - 1
          /\ Cardinality(LiveOf(phase)) >= 1
        BY <1>0, <1>8, CardLeave DEF Release, Live, Phases
    <2>2. count' = count - 1 /\ count - 1 \in Nat
        BY <1>0, <1>8, <2>1 DEF Release
    <2>3. TypeOK'
        BY <1>0, <1>8, <2>2 DEF Release, TypeOK, Phases
    <2>. QED BY <1>0, <2>1, <2>2, <2>3, CloseStep
<1>9. CASE Tick
    <2>1. TypeOK'
        BY <1>0, <1>9, ConnectionsAssumption DEF Tick, TypeOK
    <2>. QED BY <1>0, <1>9, <2>1, CloseStep DEF Tick
<1>10. CASE UNCHANGED vars
    <2>1. TypeOK'
        BY <1>0, <1>10 DEF vars, TypeOK
    <2>. QED BY <1>0, <1>10, <2>1, CloseStep DEF vars
<1>. QED BY <1>1, <1>2, <1>3, <1>4, <1>5, <1>6, <1>7, <1>8, <1>9, <1>10
         DEF Next

\* Every reachable state is well typed: in particular active_connections,
\* a usize, never goes below zero.
THEOREM TypeCorrect == Spec => []TypeOK
<1>1. Init => IInv
    BY InitIInv
<1>2. IInv /\ [Next]_vars => IInv'
    BY NextIInv
<1>3. IInv => TypeOK
    BY DEF IInv
<1>. QED BY <1>1, <1>2, <1>3, PTL DEF Spec

\* active_connections never undercounts the live handler tasks, whatever
\* clients do and whatever the configuration: max_connections does bound
\* them.
THEOREM CountCovers == Spec => []CountCoversLive
<1>1. IInv => CountCoversLive
    BY DEF IInv
<1>. QED BY <1>1, InitIInv, NextIInv, PTL DEF Spec

-----------------------------------------------------------------------------
(* With no early return possible (a valid configuration and clients that  *)
(* never fail) the counter is exact.                                       *)

\* the counter does not overcount
CountAtMostLive == count <= Cardinality(LiveConns)

\* When no early return can be taken, no step lets the counter run ahead of
\* the live tasks.
LEMMA NextAtMost ==
    ASSUME Faults = {}, ConfigValid
    PROVE  IInv /\ CountAtMostLive /\ [Next]_vars => CountAtMostLive'
<1>. SUFFICES ASSUME IInv, CountAtMostLive, [Next]_vars
              PROVE  count' <= Cardinality(LiveOf(phase'))
    BY LiveConnsDef DEF CountAtMostLive
<1>0. /\ phase \in [Conns -> Phases]
      /\ count \in Nat
      /\ count <= Cardinality(LiveOf(phase))
    BY LiveConnsDef DEF IInv, CountAtMostLive, TypeOK
<1>9a. Cardinality(LiveOf(phase)) \in Nat
    BY LiveOfFinite, FS_CardinalityType
<1>1. ASSUME NEW c \in Conns, Admit(c) PROVE count' <= Cardinality(LiveOf(phase'))
    <2>1. CASE phase' = [phase EXCEPT ![c] = "rejecting"] /\ count' = count
        BY <1>0, <1>1, <2>1, CardStay DEF Admit, Live, Phases
    <2>2. CASE phase' = [phase EXCEPT ![c] = "admitted"] /\ count' = count + 1
        <3>1. Cardinality(LiveOf(phase')) = Cardinality(LiveOf(phase)) + 1
            BY <1>0, <1>1, <2>2, CardEnter DEF Admit, Live, Phases
        <3>. QED BY <1>0, <1>9a, <2>2, <3>1
    <2>. QED BY <1>1, <2>1, <2>2 DEF Admit
<1>2. ASSUME NEW c \in Conns, RejectSent(c) PROVE count' <= Cardinality(LiveOf(phase'))
    BY <1>0, <1>2, CardStay DEF RejectSent, Live, Phases
<1>3. ASSUME NEW c \in Conns, CheckConfig(c) PROVE count' <= Cardinality(LiveOf(phase'))
    BY <1>0, <1>3, CardStay DEF CheckConfig, Live, Phases
<1>4. ASSUME NEW c \in Conns, Authenticate(c) PROVE count' <= Cardinality(LiveOf(phase'))
    <2>1. phase' = [phase EXCEPT ![c] = "authed"]
        BY <1>4 DEF Authenticate
    <2>. QED BY <1>0, <1>4, <2>1, CardStay DEF Authenticate, Live, Phases
<1>5. ASSUME NEW c \in Conns, SendAuthOk(c) PROVE count' <= Cardinality(LiveOf(phase'))
    <2>1. phase' = [phase EXCEPT ![c] = "serving"]
        BY <1>5 DEF SendAuthOk
    <2>. QED BY <1>0, <1>5, <2>1, CardStay DEF SendAuthOk, Live, Phases
<1>6. ASSUME NEW c \in Conns, Request(c)
      PROVE  count' <= Cardinality(LiveOf(phase'))
    <2>1. CASE phase' = phase
        BY <1>0, <1>6, <2>1 DEF Request
    <2>2. CASE phase' = [phase EXCEPT ![c] = "closing"]
        BY <1>0, <1>6, <2>2, CardStay DEF Request, Live, Phases
    <2>. QED BY <1>6, <2>1, <2>2 DEF Request
<1>7. ASSUME NEW c \in Conns, Hangup(c) PROVE count' <= Cardinality(LiveOf(phase'))
    BY <1>0, <1>7, CardStay DEF Hangup, Live, Phases
<1>8. ASSUME NEW c \in Conns, Release(c) PROVE count' <= Cardinality(LiveOf(phase'))
    <2>1. Cardinality(LiveOf(phase')) = Cardinality(LiveOf(phase)) - 1
        BY <1>0, <1>8, CardLeave DEF Release, Live, Phases
    <2>. QED BY <1>0, <1>9a, <1>8, <2>1 DEF Release
<1>9. CASE Tick
    BY <1>0, <1>9 DEF Tick
<1>10. CASE UNCHANGED vars
    BY <1>0, <1>10 DEF vars
<1>. QED BY <1>1, <1>2, <1>3, <1>4, <1>5, <1>6, <1>7, <1>8, <1>9, <1>10
         DEF Next

\* With a valid configuration and clients whose reads, credentials and
\* writes never fail, active_connections equals the number of live
\* handler tasks in every reachable state: the counter only leaks through
\* the early returns of handle_client.
THEOREM CountExact ==
    ASSUME Faults = {}, ConfigValid
    PROVE  Spec => []CountMatchesLive
<1>1. Init => IInv /\ CountAtMostLive
    <2>1. Init => LiveConns = {}
        BY DEF Init, LiveConns, Live
    <2>. QED BY <2>1, InitIInv, FS_EmptySet DEF Init, CountAtMostLive
<1>2. IInv /\ CountAtMostLive /\ [Next]_vars => (IInv /\ CountAtMostLive)'
    BY NextIInv, NextAtMost
<1>3. IInv /\ CountAtMostLive => CountMatchesLive
    <2>1. ASSUME IInv, CountAtMostLive PROVE CountMatchesLive
        <3>1. Cardinality(LiveConns) \in Nat
            BY LiveConnsDef, LiveOfFinite, FS_CardinalityType
        <3>. QED BY <2>1, <3>1
                 DEF IInv, TypeOK, CountCoversLive, CountAtMostLive, CountMatchesLive
    <2>. QED BY <2>1
<1>. QED BY <1>1, <1>2, <1>3, PTL DEF Spec

-----------------------------------------------------------------------------
(* The handler tasks implement the admission promise (Admission.tla).     *)
(* A step of one task moves only that task's abstract state, and only     *)
(* where its phase crosses between "new", the live phases and the rest;   *)
(* the one step that enters the live phases is the admission, which the  *)
(* counter guards.  Because the counter never undercounts (IInv), that    *)
(* guard implies the abstract one: fewer than max_connections hold a slot.*)

\* the abstract state of one phase, and of a phase assignment
Cat(p) == IF p = "new" THEN "waiting" ELSE IF p \in Live THEN "in" ELSE "out"

AbsOf(ph) == [x \in Conns |-> Cat(ph[x])]

\* The refinement mapping is AbsOf of the current phases.
LEMMA AbsConnDef == AbsConn = AbsOf(phase) /\ AbsConn' = AbsOf(phase')
BY DEF AbsConn, AbsOf, Cat

\* A step of task c changes the abstract state of c alone.
LEMMA AbsMove ==
    ASSUME NEW ph \in [Conns -> Phases], NEW c \in Conns, NEW p \in Phases
    PROVE  AbsOf([ph EXCEPT ![c] = p]) = [AbsOf(ph) EXCEPT ![c] = Cat(p)]
BY DEF AbsOf

\* A step that keeps task c in its abstract state is a stutter.
LEMMA AbsSame ==
    ASSUME NEW ph \in [Conns -> Phases], NEW c \in Conns, NEW p \in Phases,
           Cat(p) = Cat(ph[c])
    PROVE  AbsOf([ph EXCEPT ![c] = p]) = AbsOf(ph)
BY DEF AbsOf

\* The connections holding a slot are the live ones.
LEMMA HoldingLive ==
    ASSUME NEW ph \in [Conns -> Phases]
    PROVE  {x \in Conns : AbsOf(ph)[x] = "in"} = LiveOf(ph)
BY DEF AbsOf, Cat, LiveOf, Live

\* Every step of the handlers is a step of the admission promise or leaves
\* its state alone.
LEMMA NextRefines == IInv /\ [Next]_vars => [Abs!Next]_AbsConn
<1>. SUFFICES ASSUME IInv, [Next]_vars PROVE [Abs!Next]_AbsConn
    OBVIOUS
<1>0. /\ phase \in [Conns -> Phases]
      /\ count \in Nat
      /\ count >= Cardinality(LiveOf(phase))
    BY LiveConnsDef DEF IInv, CountCoversLive, TypeOK
<1>1. ASSUME NEW c \in Conns, NEW p \in Phases,
             phase' = [phase EXCEPT ![c] = p], Cat(p) = Cat(phase[c])
      PROVE  [Abs!Next]_AbsConn
    BY <1>0, <1>1, AbsSame, AbsConnDef
<1>2. ASSUME NEW c \in Conns, phase[c] \in Live,
             phase' = [phase EXCEPT ![c] = "done"]
      PROVE  [Abs!Next]_AbsConn
    <2>1. AbsConn' = [AbsConn EXCEPT ![c] = "out"]
        BY <1>0, <1>2, AbsMove, AbsConnDef DEF Cat, Live, Phases
    <2>2. AbsConn[c] = "in"
        BY <1>0, <1>2, AbsConnDef DEF AbsOf, Cat, Live
    <2>. QED BY <2>1, <2>2 DEF Abs!Next, Abs!Leave
<1>3. ASSUME NEW c \in Conns, Admit(c) PROVE [Abs!Next]_AbsConn
    <2>0. AbsConn[c] = "waiting"
        BY <1>0, <1>3, AbsConnDef DEF Admit, AbsOf, Cat
    <2>1. CASE count >= MaxConnections
        <3>1. phase' = [phase EXCEPT ![c] = "rejecting"]
            BY <1>0, <1>3, <2>1, ConnectionsAssumption DEF Admit
        <3>2. AbsConn' = [AbsConn EXCEPT ![c] = "out"]
            BY <1>0, <3>1, AbsMove, AbsConnDef DEF Cat, Live, Phases
        <3>. QED BY <2>0, <3>2 DEF Abs!Next, Abs!Refuse
    <2>2. CASE count < MaxConnections
        <3>1. phase' = [phase EXCEPT ![c] = "admitted"]
            BY <1>0, <1>3, <2>2, ConnectionsAssumption DEF Admit
        <3>2. AbsConn' = [AbsConn EXCEPT ![c] = "in"]
            BY <1>0, <3>1, AbsMove, AbsConnDef DEF Cat, Live, Phases
        <3>3. Abs!Holding = LiveOf(phase)
            BY <1>0, HoldingLive, AbsConnDef DEF Abs!Holding
        <3>4. Cardinality(LiveOf(phase)) \in Nat
            BY LiveOfFinite, FS_CardinalityType
        <3>5. Cardinality(Abs!Holding) < MaxConnections
            BY <1>0, <2>2, <3>3, <3>4, ConnectionsAssumption
        <3>6. Abs!Cardinality(Abs!Holding) = Cardinality(Abs!Holding)
            BY DEF Abs!Cardinality, Cardinality
        <3>7. Abs!Enter(c)
            BY <2>0, <3>2, <3>5, <3>6 DEF Abs!Enter
        <3>. QED BY <3>7 DEF Abs!Next
    <2>. QED BY <2>1, <2>2, <1>0, ConnectionsAssumption
<1>4. ASSUME NEW c \in Conns, RejectSent(c) PROVE [Abs!Next]_AbsConn
    BY <1>0, <1>4, <1>1 DEF RejectSent, Cat, Live, Phases
<1>5. ASSUME NEW c \in Conns, CheckConfig(c) PROVE [Abs!Next]_AbsConn
    <2>1. CASE ConfigValid
        BY <1>0, <1>5, <1>1, <2>1 DEF CheckConfig, Cat, Live, Phases
    <2>2. CASE ~ConfigValid
        BY <1>5, <1>2, <2>2 DEF CheckConfig, Live
    <2>. QED BY <2>1, <2>2
<1>6. ASSUME NEW c \in Conns, Authenticate(c) PROVE [Abs!Next]_AbsConn
    <2>1. CASE phase' = [phase EXCEPT ![c] = "done"]
        BY <1>6, <1>2, <2>1 DEF Authenticate, Live
    <2>2. CASE phase' = [phase EXCEPT ![c] = "authed"]
        BY <1>0, <1>6, <1>1, <2>2 DEF Authenticate, Cat, Live, Phases
    <2>. QED BY <1>6, <2>1, <2>2 DEF Authenticate
<1>7. ASSUME NEW c \in Conns, SendAuthOk(c) PROVE [Abs!Next]_AbsConn
    <2>1. CASE phase' = [phase EXCEPT ![c] = "done"]
        BY <1>7, <1>2, <2>1 DEF SendAuthOk, Live
    <2>2. CASE phase' = [phase EXCEPT ![c] = "serving"]
        BY <1>0, <1>7, <1>1, <2>2 DEF SendAuthOk, Cat, Live, Phases
    <2>. QED BY <1>7, <2>1, <2>2 DEF SendAuthOk
<1>8. ASSUME NEW c \in Conns, Request(c) PROVE [Abs!Next]_AbsConn
    <2>1. CASE phase' = phase
        BY <2>1, AbsConnDef
    <2>2. CASE phase' = [phase EXCEPT ![c] = "closing"]
        BY <1>0, <1>8, <1>1, <2>2 DEF Request, Cat, Live, Phases
    <2>. QED BY <1>8, <2>1, <2>2 DEF Request
<1>9. ASSUME NEW c \in Conns, Hangup(c) PROVE [Abs!Next]_AbsConn
    BY <1>0, <1>9, <1>1 DEF Hangup, Cat, Live, Phases
<1>10. ASSUME NEW c \in Conns, Release(c) PROVE [Abs!Next]_AbsConn
    BY <1>10, <1>2 DEF Release, Live
<1>11. CASE Tick \/ UNCHANGED vars
    BY <1>11, AbsConnDef DEF Tick, vars
<1>. QED BY <1>3, <1>4, <1>5, <1>6, <1>7, <1>8, <1>9, <1>10, <1>11 DEF Next

\* The handler tasks implement the admission promise of Admission.tla: the
\* abstract initial state holds at start-up and every step of handle_client
\* is a step of Admission or a stutter, so never more than max_connections
\* handler tasks hold a slot, whatever the early returns leak.
THEOREM Refinement == Spec => AdmissionRefined
<1>1. Init => Abs!Init
    BY AbsConnDef DEF Init, Abs!Init, AbsOf, Cat
<1>2. IInv /\ [Next]_vars => [Abs!Next]_AbsConn
    BY NextRefines
<1>. QED BY <1>1, <1>2, InitIInv, NextIInv, PTL
         DEF Spec, AdmissionRefined, Abs!Spec
=============================================================================
