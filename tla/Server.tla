------------------------------- MODULE Server -------------------------------
(***************************************************************************)
(* The life of the API process (cmd/api/main.go) and the connections it    *)
(* shares among its requests (internal/database/postgres.go).              *)
(*                                                                         *)
(* A request holds a pooled connection for one section at a time: a query  *)
(* of its own, or a transaction (services/stores.go).  Login, Refresh,     *)
(* SoftDelete and some listings have several, and give the connection back *)
(* in between.  What the sections do is in InventoryTx, Catalogue and      *)
(* Sessions; here one row is fought over, and a transaction that waits for *)
(* it keeps its connection.                                                *)
(*                                                                         *)
(* Definitions marked "Fault:" are plausible bugs, used nowhere.           *)
(***************************************************************************)
EXTENDS Integers, FiniteSets

CONSTANTS
  Calls,       \* requests that can be under way at once
  MaxConns,    \* size of the pool
  Sections     \* the most sections a request has

ASSUME ServerAssumption ==
  /\ MaxConns \in Nat \ {0}
  /\ Sections \in Nat \ {0}

VARIABLES
  stage,       \* what main is doing
  up,          \* the database can be reached
  call,        \* what each request is doing
  held,        \* the requests that hold a connection
  overdue      \* Shutdown gave up waiting

vars == <<stage, up, call, held, overdue>>

Stages  == {"starting", "serving", "draining", "closing", "exited", "killed"}
Alive   == {"serving", "draining", "closing"}
Holding == {"reading", "waiting", "locked"}

\* at: without work, waiting for a connection, in a section without the row,
\* waiting for the row, holding it, or writing the answer.
Call == [kind : {"probe", "work"}, left : 0..Sections,
         at : {"idle", "queued", "answering"} \cup Holding]
Idle == [kind |-> "work", left |-> 0, at |-> "idle"]

Go(c, where) == call' = [call EXCEPT ![c].at = where]
Free         == Cardinality(held) < MaxConns

Init ==
  /\ stage = "starting"
  /\ up \in BOOLEAN
  /\ call = [c \in Calls |-> Idle]
  /\ held = {}
  /\ overdue = FALSE

-----------------------------------------------------------------------------
(* The process                                                             *)

\* database.New pings the database; without it main exits.
Start ==
  /\ stage = "starting"
  /\ stage' = IF up THEN "serving" ELSE "exited"
  /\ UNCHANGED <<up, call, held, overdue>>

\* SIGINT or SIGTERM: Shutdown closes the listener.
Signal ==
  /\ stage = "serving"
  /\ stage' = "draining"
  /\ UNCHANGED <<up, call, held, overdue>>

\* Shutdown returns when the last request has been answered,
Drained ==
  /\ stage = "draining"
  /\ \A c \in Calls : call[c].at = "idle"
  /\ stage' = "closing"
  /\ UNCHANGED <<up, call, held, overdue>>

\* or after ten seconds, which interrupts no request.
GraceOver ==
  /\ stage = "draining"
  /\ \E c \in Calls : call[c].at # "idle"
  /\ stage' = "closing"
  /\ overdue' = TRUE
  /\ UNCHANGED <<up, call, held>>

\* Fault: main exits without closing the pool.
ExitAtOnce ==
  /\ stage = "closing"
  /\ stage' = "exited"
  /\ UNCHANGED <<up, call, held, overdue>>

\* The deferred pool.Close returns when every connection has been given back,
\* and with it main.
Exit ==
  /\ stage = "closing"
  /\ held = {}
  /\ stage' = "exited"
  /\ UNCHANGED <<up, call, held, overdue>>

\* The listener fails, or the process is killed: no deferred call runs, and
\* the database rolls back what it finds open.
Die ==
  /\ stage \in Alive
  /\ stage' = "killed"
  /\ held' = {}
  /\ UNCHANGED <<up, call, overdue>>

\* The database goes away or comes back.
Toggle ==
  /\ up' = ~ up
  /\ UNCHANGED <<stage, call, held, overdue>>

-----------------------------------------------------------------------------
(* A request                                                               *)

\* The listener has accepted it, if need be just before the signal: Shutdown
\* lets a new connection send its request.  Its first section asks for a
\* connection.
Arrive(c) ==
  /\ stage \in {"serving", "draining"}
  /\ call[c].at = "idle"
  /\ \/ \E n \in 1..Sections :
          call' = [call EXCEPT ![c] = [kind |-> "work", left |-> n, at |-> "queued"]]
     \/ call' = [call EXCEPT ![c] = [kind |-> "probe", left |-> 1, at |-> "queued"]]
  /\ UNCHANGED <<stage, up, held, overdue>>

\* A connection is free, or can be made.  A transaction that writes is after
\* the row.
Acquire(c) ==
  /\ stage \in {"serving", "draining"}
  /\ up
  /\ call[c].at = "queued"
  /\ Free
  /\ \/ Go(c, "reading")
     \/ call[c].kind = "work" /\ Go(c, "waiting")
  /\ held' = held \cup {c}
  /\ UNCHANGED <<stage, up, overdue>>

\* Its turn comes, but the pool is closed or no connection can be made.
AcquireFails(c) ==
  /\ stage \in Alive
  /\ stage = "closing" \/ ~ up
  /\ call[c].at = "queued"
  /\ Free
  /\ Go(c, "answering")
  /\ UNCHANGED <<stage, up, held, overdue>>

LockRow(c) ==
  /\ stage \in Alive
  /\ up
  /\ call[c].at = "waiting"
  /\ \A d \in Calls : call[d].at # "locked"
  /\ Go(c, "locked")
  /\ UNCHANGED <<stage, up, held, overdue>>

\* Fault: the next section asks for a connection before this one gives its own
\* back.
SectionEndsHolding(c) ==
  /\ stage \in Alive
  /\ up
  /\ call[c].at \in {"reading", "locked"}
  /\ \/ /\ call[c].left > 1
        /\ call' = [call EXCEPT ![c].at = "queued", ![c].left = @ - 1]
        /\ UNCHANGED held
     \/ Go(c, "answering") /\ held' = held \ {c}
  /\ UNCHANGED <<stage, up, overdue>>

\* Commit, or the end of a query: on to the next section, or to the answer,
\* which may be a refusal.
SectionEnds(c) ==
  /\ stage \in Alive
  /\ up
  /\ call[c].at \in {"reading", "locked"}
  /\ \/ /\ call[c].left > 1
        /\ call' = [call EXCEPT ![c].at = "queued", ![c].left = @ - 1]
     \/ Go(c, "answering")
  /\ held' = held \ {c}
  /\ UNCHANGED <<stage, up, overdue>>

\* Fault: an interrupted transaction does not give its connection back.
InterruptedLeaked(c) ==
  /\ stage \in Alive
  /\ call[c].at \in Holding
  /\ Go(c, "answering")
  /\ UNCHANGED <<stage, up, held, overdue>>

\* The statement fails: the connection broke, the database chose this
\* transaction to end a deadlock, or the client left and its context is
\* cancelled.
Interrupted(c) ==
  /\ stage \in Alive
  /\ call[c].at \in Holding
  /\ Go(c, "answering")
  /\ held' = held \ {c}
  /\ UNCHANGED <<stage, up, overdue>>

\* The context ends while the request waits for a connection: two seconds for
\* a health check, otherwise when the client leaves.
GiveUp(c) ==
  /\ stage \in Alive
  /\ call[c].at = "queued"
  /\ Go(c, "answering")
  /\ UNCHANGED <<stage, up, held, overdue>>

Answer(c) ==
  /\ stage \in Alive
  /\ call[c].at = "answering"
  /\ call' = [call EXCEPT ![c] = Idle]
  /\ UNCHANGED <<stage, up, held, overdue>>

-----------------------------------------------------------------------------

Process == Start \/ Drained \/ GraceOver \/ Exit
Next ==
  \/ Process \/ Signal \/ Die \/ Toggle
  \/ \E c \in Calls :
       \/ Arrive(c) \/ Acquire(c) \/ AcquireFails(c) \/ LockRow(c)
       \/ SectionEnds(c) \/ Interrupted(c) \/ GiveUp(c) \/ Answer(c)

Spec == Init /\ [][Next]_vars

\* Main and the handlers go on; a statement ends or fails when the database
\* does; the pool and the database serve those who wait in turn.  Clients may
\* leave or not, and no signal need ever come.
FairSpec ==
  /\ Spec
  /\ WF_vars(Process)
  /\ \A c \in Calls :
       /\ WF_vars(SectionEnds(c) \/ (~ up /\ Interrupted(c)))
       /\ SF_vars(Acquire(c) \/ AcquireFails(c))
       /\ SF_vars(LockRow(c))
       /\ WF_vars(Answer(c))

-----------------------------------------------------------------------------
(* Properties                                                              *)

TypeOK ==
  /\ stage \in Stages
  /\ up \in BOOLEAN
  /\ call \in [Calls -> Call]
  /\ held \in SUBSET Calls
  /\ overdue \in BOOLEAN

\* When main returns no transaction is open, whatever was under way at the
\* signal, and a client is left without an answer only if the ten seconds of
\* Shutdown ran out.
GracefulExit ==
  stage = "exited" =>
    /\ held = {}
    /\ \A c \in Calls : call[c].at \notin Holding
    /\ (\E c \in Calls : call[c].at # "idle") => overdue

\* However many requests share the pool, and although those that wait for a
\* row keep their connection, every request is answered while the process
\* lives: none starves, and the pool never locks itself up.
EveryCallEnds ==
  \A c \in Calls :
    call[c].at # "idle" ~> call[c].at = "idle" \/ stage \in {"exited", "killed"}

\* A signal ends the process, although Close waits for requests that Shutdown
\* gave up on.
ShutdownEnds == stage = "draining" ~> stage \in {"exited", "killed"}

-----------------------------------------------------------------------------
(* The inductive invariant of the proofs                                   *)

\* A request has a connection exactly while it is in a section, the pool is
\* never larger than its limit, and the row has one holder.
PoolSound ==
  /\ stage \in Alive => held = {c \in Calls : call[c].at \in Holding}
  /\ IsFiniteSet(held) /\ Cardinality(held) <= MaxConns
  /\ \A c, d \in Calls : call[c].at = "locked" /\ call[d].at = "locked" => c = d

\* Before the signal nothing is overdue; when main waits for Close in time,
\* every request has been answered.
StagesSound ==
  /\ stage = "starting" => held = {} /\ \A c \in Calls : call[c].at = "idle"
  /\ stage = "closing" /\ ~ overdue => \A c \in Calls : call[c].at = "idle"

ServerInv == TypeOK /\ PoolSound /\ StagesSound /\ GracefulExit
=============================================================================
