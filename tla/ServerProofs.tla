---------------------------- MODULE ServerProofs ----------------------------
(***************************************************************************)
(* Proofs about Server, for any number of requests and sections and any    *)
(* size of the pool.                                                       *)
(***************************************************************************)
EXTENDS Server, FiniteSetTheorems, TLAPS

\* A request that moves stays well formed.
LEMMA GoType ==
  ASSUME TypeOK, NEW c \in Calls,
         NEW where \in {"idle", "queued", "answering"} \cup Holding, Go(c, where)
  PROVE  /\ call' \in [Calls -> Call]
         /\ call'[c].at = where
         /\ \A d \in Calls \ {c} : call'[d] = call[d]
  BY DEF Go, TypeOK, Call

\* A request that has not come is well formed.
LEMMA IdleType == Idle \in Call
  BY ServerAssumption DEF Idle, Call

\* Giving a connection back, or losing all, keeps the pool within its limit.
LEMMA GiveBack ==
  ASSUME PoolSound, NEW c
  PROVE  /\ IsFiniteSet(held \ {c}) /\ Cardinality(held \ {c}) <= MaxConns
         /\ IsFiniteSet({}) /\ Cardinality({}) <= MaxConns
<1>1. IsFiniteSet(held) /\ Cardinality(held) <= MaxConns
  BY DEF PoolSound
<1>2. Cardinality(held) \in Nat
  BY <1>1, FS_CardinalityType
<1>3. IsFiniteSet(held \ {c}) /\ Cardinality(held \ {c}) <= Cardinality(held)
  BY <1>1, FS_Subset
<1>4. Cardinality(held \ {c}) \in Nat
  BY <1>3, FS_CardinalityType
<1> QED BY <1>1, <1>2, <1>3, <1>4, FS_EmptySet, ServerAssumption

-----------------------------------------------------------------------------
(* One lemma for the process, one for each step of a request               *)

\* main, signals, a process that dies and a database that leaves or returns keep
\* the invariant: nobody is left where Shutdown says so, and what dies holds nothing.
LEMMA ProcessStep ==
  ASSUME ServerInv, Process \/ Signal \/ Die \/ Toggle
  PROVE  ServerInv'
<1> USE DEF ServerInv, TypeOK, StagesSound, GracefulExit, PoolSound, Alive, Stages
<1>1. CASE Start
  <2>1. stage = "starting" /\ stage' \in {"serving", "exited"}
    BY <1>1 DEF Start
  <2> QED BY <1>1, <2>1 DEF Start, Holding
<1>2. CASE Drained
  BY <1>2 DEF Drained
<1>3. CASE GraceOver
  BY <1>3 DEF GraceOver
<1>4. CASE Exit
  BY <1>4 DEF Exit
<1>5. CASE Signal
  BY <1>5 DEF Signal
<1>6. CASE Die
  BY <1>6, GiveBack DEF Die
<1>7. CASE Toggle
  BY <1>7 DEF Toggle
<1> QED BY <1>1, <1>2, <1>3, <1>4, <1>5, <1>6, <1>7 DEF Process

\* A request that arrives holds no connection yet.
LEMMA ArriveStep ==
  ASSUME ServerInv, NEW c \in Calls, Arrive(c)
  PROVE  ServerInv'
<1>1. /\ call' \in [Calls -> Call]
      /\ call'[c].at = "queued"
      /\ \A d \in Calls \ {c} : call'[d] = call[d]
  BY ServerAssumption DEF Arrive, ServerInv, TypeOK, Call
<1>2. UNCHANGED <<stage, up, held, overdue>>
      /\ stage \in {"serving", "draining"} /\ call[c].at = "idle"
  BY DEF Arrive
<1> QED
  BY <1>1, <1>2
  DEF ServerInv, TypeOK, PoolSound, StagesSound, GracefulExit, Alive, Holding

\* A request that is given a connection was not holding one, and one was free.
LEMMA AcquireStep ==
  ASSUME ServerInv, NEW c \in Calls, Acquire(c)
  PROVE  ServerInv'
<1> USE DEF ServerInv
<1>1. PICK where \in {"reading", "waiting"} : Go(c, where)
  BY DEF Acquire
<1>2. /\ call' \in [Calls -> Call]
      /\ call'[c].at = where
      /\ \A d \in Calls \ {c} : call'[d] = call[d]
  BY <1>1, GoType DEF Holding
<1>3. /\ UNCHANGED <<stage, up, overdue>> /\ stage \in {"serving", "draining"}
      /\ held' = held \cup {c} /\ Cardinality(held) < MaxConns
  BY DEF Acquire, Free
<1>4. IsFiniteSet(held') /\ Cardinality(held') <= MaxConns
  <2>1. IsFiniteSet(held) /\ Cardinality(held) \in Nat
    BY FS_CardinalityType DEF PoolSound
  <2>2. /\ IsFiniteSet(held')
        /\ \/ Cardinality(held') = Cardinality(held)
           \/ Cardinality(held') = Cardinality(held) + 1
    BY <1>3, <2>1, FS_AddElement
  <2> QED BY <1>3, <2>1, <2>2, ServerAssumption
<1>5. PoolSound'
  BY <1>2, <1>3, <1>4 DEF PoolSound, TypeOK, Alive, Holding
<1> QED
  BY <1>2, <1>3, <1>5 DEF TypeOK, StagesSound, GracefulExit

\* A request that has no connection and goes on without one.
LEMMA WaitingStep ==
  ASSUME ServerInv, NEW c \in Calls,
         AcquireFails(c) \/ GiveUp(c) \/ Answer(c)
  PROVE  ServerInv'
<1> USE DEF ServerInv
<1>1. /\ call' \in [Calls -> Call]
      /\ call'[c].at \in {"idle", "answering"}
      /\ \A d \in Calls \ {c} : call'[d] = call[d]
  <2>1. CASE Answer(c)
    BY <2>1, IdleType DEF Answer, Idle, TypeOK
  <2>2. CASE Go(c, "answering")
    BY <2>2, GoType
  <2> QED BY <2>1, <2>2 DEF AcquireFails, GiveUp
<1>2. /\ UNCHANGED <<stage, up, held, overdue>> /\ stage \in Alive
      /\ call[c].at \in {"queued", "answering"}
  BY DEF AcquireFails, GiveUp, Answer
<1>3. PoolSound'
  BY <1>1, <1>2 DEF PoolSound, TypeOK, Holding
<1> QED
  BY <1>1, <1>2, <1>3 DEF TypeOK, StagesSound, GracefulExit, Alive

\* A request that is given the row keeps the connection it has.
LEMMA LockStep ==
  ASSUME ServerInv, NEW c \in Calls, LockRow(c)
  PROVE  ServerInv'
<1> USE DEF ServerInv
<1>1. /\ call' \in [Calls -> Call]
      /\ call'[c].at = "locked"
      /\ \A d \in Calls \ {c} : call'[d] = call[d]
  BY GoType DEF LockRow, Holding
<1>2. /\ UNCHANGED <<stage, up, held, overdue>> /\ stage \in Alive
      /\ call[c].at = "waiting"
      /\ \A d \in Calls : call[d].at # "locked"
  BY DEF LockRow
<1>3. PoolSound'
  BY <1>1, <1>2 DEF PoolSound, TypeOK, Holding
<1> QED
  BY <1>1, <1>2, <1>3 DEF TypeOK, StagesSound, GracefulExit, Alive

\* The end of a section, whatever its outcome.
LEMMA ReleaseStep ==
  ASSUME ServerInv, NEW c \in Calls, SectionEnds(c) \/ Interrupted(c)
  PROVE  ServerInv'
<1> USE DEF ServerInv
<1>1. /\ call' \in [Calls -> Call]
      /\ call'[c].at \in {"queued", "answering"}
      /\ \A d \in Calls \ {c} : call'[d] = call[d]
  <2>1. CASE Go(c, "answering")
    BY <2>1, GoType
  <2>2. CASE call[c].left > 1
             /\ call' = [call EXCEPT ![c].at = "queued", ![c].left = @ - 1]
    <3>1. call[c] \in Call /\ call[c].left - 1 \in 0..Sections
      BY <2>2, ServerAssumption DEF TypeOK, Call
    <3>2. call'[c] = [kind |-> call[c].kind, left |-> call[c].left - 1, at |-> "queued"]
      BY <2>2, <3>1 DEF TypeOK, Call
    <3>3. call'[c] \in Call
      BY <3>1, <3>2 DEF Call
    <3> QED BY <2>2, <3>2, <3>3 DEF TypeOK
  <2> QED BY <2>1, <2>2 DEF SectionEnds, Interrupted
<1>2. /\ UNCHANGED <<stage, up, overdue>> /\ stage \in Alive
      /\ held' = held \ {c}
      /\ call[c].at \in Holding
  BY DEF SectionEnds, Interrupted, Holding
<1>3. PoolSound'
  BY <1>1, <1>2, GiveBack DEF PoolSound, TypeOK, Holding
<1> QED
  BY <1>1, <1>2, <1>3 DEF TypeOK, StagesSound, GracefulExit, Alive, Holding

-----------------------------------------------------------------------------
(* The theorems                                                            *)

\* Nothing is held and nobody is served before main starts.
LEMMA Initially == Init => ServerInv
<1> SUFFICES ASSUME Init PROVE ServerInv
  OBVIOUS
<1>1. \A c \in Calls : call[c].at = "idle"
  BY DEF Init, Idle
<1>2. TypeOK
  BY IdleType DEF Init, TypeOK, Stages
<1>3. PoolSound
  BY <1>1, FS_EmptySet, ServerAssumption DEF Init, PoolSound, Alive
<1> QED
  BY <1>1, <1>2, <1>3 DEF Init, ServerInv, StagesSound, GracefulExit

\* Every step of any number of requests keeps the pool within its limit, a
\* connection with each request that is in a section, and the stages in order.
THEOREM Invariance == Spec => []ServerInv
<1>1. ServerInv /\ [Next]_vars => ServerInv'
  <2> SUFFICES ASSUME ServerInv, [Next]_vars PROVE ServerInv'
    OBVIOUS
  <2>1. CASE UNCHANGED vars
    BY <2>1 DEF vars, ServerInv, TypeOK, PoolSound, StagesSound, GracefulExit
  <2> QED
    BY <2>1, ProcessStep, ArriveStep, AcquireStep, WaitingStep, LockStep, ReleaseStep
    DEF Next
<1> QED BY <1>1, Initially, PTL DEF Spec

\* When main returns no transaction is open, and an answer is missing only if
\* the ten seconds of Shutdown ran out.
THEOREM ExitsGracefully == Spec => []GracefulExit
<1>1. ServerInv => GracefulExit
  BY DEF ServerInv
<1> QED BY <1>1, Invariance, PTL
=============================================================================
