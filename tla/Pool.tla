-------------------------------- MODULE Pool --------------------------------
(***************************************************************************)
(* db::Pool at the granularity of its mutex, together with the part of the *)
(* tokio runtime it blocks.  A request is a task that alternates between   *)
(* synchronous stretches, which occupy a worker thread, and awaits, which  *)
(* give the worker up.  A stretch that needs the database calls Pool::get  *)
(* and drops the PoolConn at its end.  A handler resolves the caller first *)
(* (auth::who, one checkout of its own) and checks out again for its work, *)
(* with or without an await in between, hence MaxCheckouts.                *)
(***************************************************************************)
EXTENDS Naturals, FiniteSets

CONSTANTS
  Requests,       \* the HTTP requests of a run
  Conns,          \* the connections Pool::open puts into the stack
  NoConn,         \* the request holds none
  Workers,        \* tokio worker threads
  MaxCheckouts    \* checkouts one request makes, one after the other

ASSUME PoolAssumption ==
  /\ IsFiniteSet(Requests)
  /\ IsFiniteSet(Conns) /\ Conns # {}
  /\ NoConn \notin Conns
  /\ Workers \in Nat \ {0}
  /\ MaxCheckouts \in Nat \ {0}

VARIABLES
  idle,     \* Pool.idle: the connections in the stack
  phase,    \* where each request is
  conn,     \* the PoolConn it holds
  left      \* the checkouts it still has to make

vars == <<idle, phase, conn, left>>

Phases == {"parked",    \* awaiting: off the workers
           "get",       \* about to lock Pool.idle in Pool::get
           "sleep",     \* in ready.wait, blocking its worker
           "woken",     \* notified, about to relock Pool.idle
           "hold",      \* using its connection
           "notify",    \* has pushed the connection, has not notified yet
           "done"}

InPhase(p) == {r \in Requests : phase[r] = p}

\* Worker threads taken: a request blocked in the condition variable keeps its.
Running == {r \in Requests : phase[r] \notin {"parked", "done"}}

Init ==
  /\ idle = Conns
  /\ phase = [r \in Requests |-> "parked"]
  /\ conn = [r \in Requests |-> NoConn]
  /\ left \in [Requests -> 1 .. MaxCheckouts]

\* A free worker polls the task, which runs up to its next Pool::get.
Poll(r) ==
  /\ phase[r] = "parked"
  /\ Cardinality(Running) < Workers
  /\ phase' = [phase EXCEPT ![r] = "get"]
  /\ UNCHANGED <<idle, conn, left>>

\* Mutant: last() instead of pop(), the connection stays in the stack.
Pop_Peek(r) ==
  /\ phase[r] \in {"get", "woken"}
  /\ \E c \in idle : conn' = [conn EXCEPT ![r] = c]
  /\ phase' = [phase EXCEPT ![r] = "hold"]
  /\ UNCHANGED <<idle, left>>

\* One turn of the loop of Pool::get, inside the mutex: a connection is there.
Pop(r) ==
  /\ phase[r] \in {"get", "woken"}
  /\ \E c \in idle :
       /\ idle' = idle \ {c}
       /\ conn' = [conn EXCEPT ![r] = c]
  /\ phase' = [phase EXCEPT ![r] = "hold"]
  /\ UNCHANGED left

\* The same turn when the stack is empty: wait releases the mutex and sleeps
\* in one step, so no notification falls in between.
Wait(r) ==
  /\ phase[r] \in {"get", "woken"}
  /\ idle = {}
  /\ phase' = [phase EXCEPT ![r] = "sleep"]
  /\ UNCHANGED <<idle, conn, left>>

\* std::sync::Condvar may wake a waiter nobody notified.
SpuriousWakeup(r) ==
  /\ phase[r] = "sleep"
  /\ phase' = [phase EXCEPT ![r] = "woken"]
  /\ UNCHANGED <<idle, conn, left>>

\* Mutant: drop notifies only when the stack was empty before its push.
Push_NotifyIfEmpty(r) ==
  /\ phase[r] = "hold"
  /\ idle' = idle \cup {conn[r]}
  /\ conn' = [conn EXCEPT ![r] = NoConn]
  /\ IF idle = {} THEN phase' = [phase EXCEPT ![r] = "notify"] /\ UNCHANGED left
     ELSE phase' = [phase EXCEPT ![r] = "done"] /\ left' = [left EXCEPT ![r] = 0]

\* Mutant: a handler that keeps its PoolConn across an await.
Push_HoldAcrossAwait(r) ==
  /\ phase[r] = "hold"
  /\ IF left[r] > 1
     THEN /\ phase' = [phase EXCEPT ![r] = "parked"]
          /\ left' = [left EXCEPT ![r] = @ - 1]
          /\ UNCHANGED <<idle, conn>>
     ELSE /\ idle' = idle \cup {conn[r]}
          /\ conn' = [conn EXCEPT ![r] = NoConn]
          /\ phase' = [phase EXCEPT ![r] = "notify"]
          /\ UNCHANGED left

\* PoolConn::drop, first half: push under the mutex.
Push(r) ==
  /\ phase[r] = "hold"
  /\ idle' = idle \cup {conn[r]}
  /\ conn' = [conn EXCEPT ![r] = NoConn]
  /\ phase' = [phase EXCEPT ![r] = "notify"]
  /\ UNCHANGED left

\* Mutant: one checkout too many.
After_OneMore(r) == IF left[r] = 0 THEN {"done"} ELSE {"parked", "get"}

\* What follows a checkout: the end of the request, an await, or at once the
\* next checkout.
After(r) == IF left[r] = 1 THEN {"done"} ELSE {"parked", "get"}

\* PoolConn::drop, second half, after the mutex is released: notify_one wakes
\* one sleeper if there is one.
NotifyOne(r) ==
  /\ phase[r] = "notify"
  /\ left' = [left EXCEPT ![r] = @ - 1]
  /\ \E next \in After(r) :
       \/ /\ InPhase("sleep") = {}
          /\ phase' = [phase EXCEPT ![r] = next]
       \/ \E s \in InPhase("sleep") :
            phase' = [phase EXCEPT ![r] = next, ![s] = "woken"]
  /\ UNCHANGED <<idle, conn>>

Step(r) == Poll(r) \/ Pop(r) \/ Wait(r) \/ Push(r) \/ NotifyOne(r)

Next == \E r \in Requests : Step(r) \/ SpuriousWakeup(r)

\* The OS runs every thread that is not blocked and tokio polls every ready
\* task; nothing promises a spurious wakeup.
Fairness == \A r \in Requests : WF_vars(Step(r))

Spec == Init /\ [][Next]_vars /\ Fairness

-----------------------------------------------------------------------------
TypeOK ==
  /\ idle \subseteq Conns
  /\ phase \in [Requests -> Phases]
  /\ conn \in [Requests -> Conns \cup {NoConn}]
  /\ left \in [Requests -> 0 .. MaxCheckouts]

Holders == {r \in Requests : conn[r] # NoConn}

\* No connection is lost or handed to two requests: the ones in the stack and
\* the ones checked out add up to the ones Pool::open made, and a request has
\* one exactly while it is between get and drop.
EveryConnectionInOnePlace ==
  /\ \A r \in Requests : conn[r] # NoConn <=> phase[r] = "hold"
  /\ \A r \in Holders : conn[r] \notin idle
  /\ \A r, s \in Holders : conn[r] = conn[s] => r = s
  /\ \A c \in Conns : c \in idle \/ \E r \in Holders : conn[r] = c

\* PoolConn::drop notifies after it has released the mutex, and a request that
\* never slept may take the connection first.  Even so, while somebody sleeps,
\* each connection in the stack is matched by a wakeup under way.
NoLostWakeup ==
  InPhase("sleep") # {} =>
    Cardinality(idle) <= Cardinality(InPhase("woken") \cup InPhase("notify"))

\* Nobody holds a connection while it waits for another or for its body
\* ("no request ever needs two connections", auth.rs; "never hold one across
\* an .await", lib.rs), so every request gets its checkouts and ends.
AllServed == \A r \in Requests : <>(phase[r] = "done")

\* The pool is the checkout service the handlers assume.
Promise == INSTANCE Checkout WITH
             Clients <- Requests, Size <- Cardinality(Conns), holding <- Holders

ImplementsCheckout == Promise!Spec
=============================================================================
