----------------------------- MODULE PoolProofs -----------------------------
(***************************************************************************)
(* Proofs about Pool for any finite set of requests, any finite set of     *)
(* connections and any number of worker threads.                           *)
(***************************************************************************)
EXTENDS Pool, FiniteSetTheorems, TLAPS

\* A request that has not ended still has a checkout to make or to finish.
WorkLeft == \A r \in Requests : phase[r] # "done" => left[r] >= 1

\* TypeOK is not inductive alone: the decrement of left needs WorkLeft, and the
\* push of a connection needs that a request in "hold" has one.
Owned == TypeOK /\ WorkLeft /\ EveryConnectionInOnePlace

-----------------------------------------------------------------------------
\* What a notification does: it moves the notifier on, and at most one sleeper.
LEMMA NotifyMoves ==
  ASSUME TypeOK, NEW r \in Requests, NotifyOne(r)
  PROVE  /\ left[r] \in 0 .. MaxCheckouts
         /\ left' = [left EXCEPT ![r] = @ - 1]
         /\ phase[r] = "notify"
         /\ UNCHANGED <<idle, conn>>
         /\ \E next \in {"done", "parked", "get"} :
              /\ next # "done" => left[r] # 1
              /\ \/ /\ InPhase("sleep") = {}
                    /\ phase' = [phase EXCEPT ![r] = next]
                 \/ \E s \in Requests :
                      /\ phase[s] = "sleep" /\ s # r
                      /\ phase' = [phase EXCEPT ![r] = next, ![s] = "woken"]
<1>1. left[r] \in 0 .. MaxCheckouts /\ left' = [left EXCEPT ![r] = @ - 1]
  BY DEF NotifyOne, TypeOK
<1>2. PICK next \in After(r) :
        \/ /\ InPhase("sleep") = {}
           /\ phase' = [phase EXCEPT ![r] = next]
        \/ \E s \in InPhase("sleep") :
             phase' = [phase EXCEPT ![r] = next, ![s] = "woken"]
  BY DEF NotifyOne
<1>3. next \in {"done", "parked", "get"} /\ (next # "done" => left[r] # 1)
  BY <1>2 DEF After
<1>4. \A s \in InPhase("sleep") : s \in Requests /\ phase[s] = "sleep" /\ s # r
  BY DEF NotifyOne, InPhase
<1> QED BY <1>1, <1>2, <1>3, <1>4 DEF NotifyOne

LEMMA OwnedInductive == Owned /\ [Next]_vars => Owned'
<1> SUFFICES ASSUME Owned, [Next]_vars PROVE Owned'
    OBVIOUS
<1> USE PoolAssumption
    DEF Owned, TypeOK, WorkLeft, EveryConnectionInOnePlace, Holders, Phases
<1>1. ASSUME NEW r \in Requests, Poll(r) PROVE Owned'
  BY <1>1 DEF Poll
<1>2. ASSUME NEW r \in Requests, Pop(r) PROVE Owned'
  <2>1. PICK c \in idle : /\ idle' = idle \ {c}
                          /\ conn' = [conn EXCEPT ![r] = c]
    BY <1>2 DEF Pop
  <2>2. /\ phase' = [phase EXCEPT ![r] = "hold"]
        /\ left' = left
        /\ phase[r] # "hold" /\ phase[r] # "done" /\ conn[r] = NoConn
    BY <1>2 DEF Pop
  <2>3. TypeOK' /\ WorkLeft'
    BY <2>1, <2>2
  <2>4. EveryConnectionInOnePlace'
    BY <2>1, <2>2, SMTT(30)
  <2> QED BY <2>3, <2>4
<1>3. ASSUME NEW r \in Requests, Wait(r) PROVE Owned'
  BY <1>3 DEF Wait
<1>4. ASSUME NEW r \in Requests, SpuriousWakeup(r) PROVE Owned'
  BY <1>4 DEF SpuriousWakeup
<1>5. ASSUME NEW r \in Requests, Push(r) PROVE Owned'
  <2>1. conn[r] \in Conns /\ phase[r] = "hold"
    BY <1>5 DEF Push
  <2>2. TypeOK' /\ WorkLeft'
    BY <1>5, <2>1 DEF Push
  <2>3. EveryConnectionInOnePlace'
    BY <1>5, <2>1, SMTT(30) DEF Push
  <2> QED BY <2>2, <2>3
<1>6. ASSUME NEW r \in Requests, NotifyOne(r) PROVE Owned'
  <2>1. PICK next \in {"done", "parked", "get"} :
          /\ next # "done" => left[r] # 1
          /\ \/ phase' = [phase EXCEPT ![r] = next]
             \/ \E s \in Requests :
                  /\ phase[s] = "sleep" /\ s # r
                  /\ phase' = [phase EXCEPT ![r] = next, ![s] = "woken"]
    BY <1>6, NotifyMoves
  <2>2. /\ left[r] \in 1 .. MaxCheckouts /\ phase[r] = "notify"
        /\ left' = [left EXCEPT ![r] = @ - 1]
        /\ UNCHANGED <<idle, conn>>
    BY <1>6, NotifyMoves
  <2>3. CASE phase' = [phase EXCEPT ![r] = next]
    BY <2>1, <2>2, <2>3
  <2>4. ASSUME NEW s \in Requests, phase[s] = "sleep", s # r,
               phase' = [phase EXCEPT ![r] = next, ![s] = "woken"]
        PROVE Owned'
    BY <2>1, <2>2, <2>4
  <2> QED BY <2>1, <2>3, <2>4
<1>7. CASE UNCHANGED vars
  BY <1>7 DEF vars
<1> QED BY <1>1, <1>2, <1>3, <1>4, <1>5, <1>6, <1>7 DEF Next, Step

LEMMA OwnedInitially == Init => Owned
BY PoolAssumption
   DEF Init, Owned, TypeOK, WorkLeft, EveryConnectionInOnePlace, Holders, Phases

\* db::Pool is well typed for every number of requests, connections, workers.
THEOREM TypeCorrect == Spec => []TypeOK
<1>1. Owned => TypeOK
  BY DEF Owned
<1> QED BY OwnedInitially, OwnedInductive, <1>1, PTL DEF Spec

\* PoolConn::drop and Pool::get never lose a connection nor hand one out twice.
THEOREM OnePlace == Spec => []EveryConnectionInOnePlace
<1>1. Owned => EveryConnectionInOnePlace
  BY DEF Owned
<1> QED BY OwnedInitially, OwnedInductive, <1>1, PTL DEF Spec

-----------------------------------------------------------------------------
\* The wakeups under way: requests notified but not run, or about to notify.
Signals == InPhase("woken") \cup InPhase("notify")

LEMMA SetsFinite ==
  ASSUME TypeOK
  PROVE  IsFiniteSet(idle) /\ IsFiniteSet(Signals) /\ IsFiniteSet(Holders)
<1>1. idle \in SUBSET Conns /\ Signals \in SUBSET Requests
        /\ Holders \in SUBSET Requests
  BY DEF TypeOK, Signals, InPhase, Holders
<1> QED BY <1>1, FS_Subset, PoolAssumption

\* NoLostWakeup is inductive relative to Owned: a push adds one connection and
\* one notifier, a notification trades its notifier for a woken sleeper, and
\* only a request that takes a connection leaves the wakeups while any remains.
LEMMA WakeupInductive ==
  Owned /\ NoLostWakeup /\ [Next]_vars => NoLostWakeup'
<1> SUFFICES ASSUME Owned, NoLostWakeup, [Next]_vars,
                    InPhase("sleep")' # {}
             PROVE  Cardinality(idle') <= Cardinality(Signals')
    BY DEF NoLostWakeup, Signals
<1> DEFINE Sleepers == InPhase("sleep")
<1>types. TypeOK /\ Owned'
  BY OwnedInductive DEF Owned
<1>fin. IsFiniteSet(idle) /\ IsFiniteSet(Signals)
  BY <1>types, SetsFinite
<1>nat. Cardinality(idle) \in Nat /\ Cardinality(Signals) \in Nat
  BY <1>fin, FS_CardinalityType
<1>hyp. Sleepers # {} => Cardinality(idle) <= Cardinality(Signals)
  BY DEF NoLostWakeup, Signals
<1>1. ASSUME NEW r \in Requests, Poll(r)
      PROVE  Cardinality(idle') <= Cardinality(Signals')
  <2>1. Sleepers' = Sleepers /\ Signals' = Signals /\ idle' = idle
    BY <1>1, <1>types DEF Poll, Signals, InPhase, TypeOK
  <2> QED BY <2>1, <1>hyp
<1>2. ASSUME NEW r \in Requests, Pop(r)
      PROVE  Cardinality(idle') <= Cardinality(Signals')
  <2>1. Sleepers' = Sleepers /\ Signals' = Signals \ {r}
    BY <1>2, <1>types DEF Pop, Signals, InPhase, TypeOK
  <2>2. PICK c \in idle : idle' = idle \ {c}
    BY <1>2 DEF Pop
  <2>3. Cardinality(idle') = Cardinality(idle) - 1
    BY <2>2, <1>fin, FS_RemoveElement
  <2>4. Cardinality(Signals') = IF r \in Signals THEN Cardinality(Signals) - 1
                                ELSE Cardinality(Signals)
    BY <2>1, <1>fin, FS_RemoveElement
  <2>5. Cardinality(Signals') \in Nat
    BY <2>1, <1>fin, FS_RemoveElement, FS_CardinalityType
  <2> QED BY <2>1, <2>3, <2>4, <2>5, <1>hyp, <1>nat
<1>3. ASSUME NEW r \in Requests, Wait(r)
      PROVE  Cardinality(idle') <= Cardinality(Signals')
  <2>1. Cardinality(idle') = 0
    BY <1>3, FS_EmptySet DEF Wait
  <2>2. Cardinality(Signals') \in Nat
    <3>1. Signals' \in SUBSET Requests
      BY <1>types DEF Signals, InPhase
    <3> QED BY <3>1, FS_Subset, FS_CardinalityType, PoolAssumption
  <2> QED BY <2>1, <2>2
<1>4. ASSUME NEW r \in Requests, SpuriousWakeup(r)
      PROVE  Cardinality(idle') <= Cardinality(Signals')
  <2>1. r \in Sleepers /\ idle' = idle /\ Signals' = Signals \cup {r}
    BY <1>4, <1>types DEF SpuriousWakeup, Signals, InPhase, TypeOK
  <2>2. Cardinality(Signals') = IF r \in Signals THEN Cardinality(Signals)
                                ELSE Cardinality(Signals) + 1
    BY <2>1, <1>fin, FS_AddElement
  <2>3. Cardinality(Signals') \in Nat
    BY <2>1, <1>fin, FS_AddElement, FS_CardinalityType
  <2> QED BY <2>1, <2>2, <2>3, <1>hyp, <1>nat
<1>5. ASSUME NEW r \in Requests, Push(r)
      PROVE  Cardinality(idle') <= Cardinality(Signals')
  <2>1. /\ Sleepers' = Sleepers
        /\ r \notin Signals /\ Signals' = Signals \cup {r}
    BY <1>5, <1>types DEF Push, Signals, InPhase, TypeOK
  <2>2. Cardinality(Signals') = Cardinality(Signals) + 1
    BY <2>1, <1>fin, FS_AddElement
  <2>3. idle' = idle \cup {conn[r]}
    BY <1>5 DEF Push
  <2>4. /\ Cardinality(idle') \in Nat
        /\ Cardinality(idle') = IF conn[r] \in idle THEN Cardinality(idle)
                                ELSE Cardinality(idle) + 1
    BY <2>3, <1>fin, FS_AddElement, FS_CardinalityType
  <2> QED BY <2>1, <2>2, <2>4, <1>hyp, <1>nat
<1>6. ASSUME NEW r \in Requests, NotifyOne(r)
      PROVE  Cardinality(idle') <= Cardinality(Signals')
  <2>1. PICK next \in {"done", "parked", "get"} :
          \/ /\ InPhase("sleep") = {}
             /\ phase' = [phase EXCEPT ![r] = next]
          \/ \E s \in Requests :
               /\ phase[s] = "sleep" /\ s # r
               /\ phase' = [phase EXCEPT ![r] = next, ![s] = "woken"]
    BY <1>6, <1>types, NotifyMoves
  <2>2. phase[r] = "notify" /\ idle' = idle
    BY <1>6, <1>types, NotifyMoves
  <2>3. CASE InPhase("sleep") = {} /\ phase' = [phase EXCEPT ![r] = next]
    <3>1. InPhase("sleep")' = {}
      BY <2>3, <1>types DEF InPhase, TypeOK
    <3> QED BY <3>1
  <2>4. ASSUME NEW s \in Requests, phase[s] = "sleep", s # r,
               phase' = [phase EXCEPT ![r] = next, ![s] = "woken"]
        PROVE  Cardinality(idle') <= Cardinality(Signals')
    <3>1. /\ s \in Sleepers /\ s \notin Signals /\ r \in Signals
          /\ Signals' = (Signals \ {r}) \cup {s}
      BY <2>2, <2>4, <1>types DEF Signals, InPhase, TypeOK
    <3>2. /\ IsFiniteSet(Signals \ {r})
          /\ Cardinality(Signals \ {r}) = Cardinality(Signals) - 1
      BY <3>1, <1>fin, FS_RemoveElement
    <3>3. Cardinality((Signals \ {r}) \cup {s}) = Cardinality(Signals \ {r}) + 1
      BY <3>1, <3>2, FS_AddElement
    <3>4. Cardinality(Signals') = Cardinality(Signals)
      BY <3>1, <3>2, <3>3, <1>nat
    <3> QED BY <3>1, <3>4, <2>2, <1>hyp
  <2> QED BY <2>1, <2>3, <2>4
<1>7. CASE UNCHANGED vars
  <2>1. Sleepers' = Sleepers /\ Signals' = Signals /\ idle' = idle
    BY <1>7 DEF vars, Signals, InPhase
  <2> QED BY <2>1, <1>hyp
<1> QED BY <1>1, <1>2, <1>3, <1>4, <1>5, <1>6, <1>7 DEF Next, Step

\* No notification is lost, although PoolConn::drop notifies outside the mutex.
THEOREM WakeupsSuffice == Spec => []NoLostWakeup
<1>1. Init => NoLostWakeup
  BY DEF Init, NoLostWakeup, InPhase
<1> QED BY <1>1, OwnedInitially, OwnedInductive, WakeupInductive, PTL DEF Spec

-----------------------------------------------------------------------------
\* A connection in the stack is one no request holds, so not all are out.
LEMMA StackNotEmpty ==
  ASSUME Owned, idle # {}
  PROVE  Cardinality(Holders) < Cardinality(Conns)
<1> DEFINE out == [r \in Holders |-> conn[r]]
<1>1. /\ IsFiniteSet(Conns \ idle)
      /\ Cardinality(Conns \ idle) <= Cardinality(Conns)
      /\ Cardinality(Conns \ idle) # Cardinality(Conns)
  <2>1. Conns \ idle \in SUBSET Conns /\ Conns \ idle # Conns
    BY DEF Owned, TypeOK
  <2> QED BY <2>1, FS_Subset, PoolAssumption
<1>2. out \in Injection(Holders, Conns \ idle)
  BY DEF Injection, IsInjective, Owned, TypeOK, EveryConnectionInOnePlace, Holders
<1>3. Cardinality(Holders) <= Cardinality(Conns \ idle)
  BY <1>1, <1>2, FS_Injection
<1>4. IsFiniteSet(Holders)
  BY SetsFinite DEF Owned
<1>5. /\ Cardinality(Holders) \in Nat
      /\ Cardinality(Conns \ idle) \in Nat
      /\ Cardinality(Conns) \in Nat
  BY <1>1, <1>4, FS_CardinalityType, PoolAssumption
<1> QED BY <1>1, <1>3, <1>5

LEMMA StepRefines ==
  Owned /\ [Next]_vars => [Promise!Next]_Holders
<1> SUFFICES ASSUME Owned, [Next]_vars PROVE [Promise!Next]_Holders
    OBVIOUS
<1> USE DEF Holders
<1>types. /\ conn \in [Requests -> Conns \cup {NoConn}]
          /\ NoConn \notin Conns /\ idle \subseteq Conns
          /\ \A r \in Requests : conn[r] # NoConn <=> phase[r] = "hold"
  BY PoolAssumption DEF Owned, TypeOK, EveryConnectionInOnePlace
<1>1. ASSUME NEW r \in Requests, Pop(r) PROVE Promise!Take(r)
  <2>1. PICK c \in idle : conn' = [conn EXCEPT ![r] = c]
    BY <1>1 DEF Pop
  <2>2. Cardinality(Holders) < Cardinality(Conns)
    BY <2>1, StackNotEmpty
  <2>3. conn[r] = NoConn
    BY <1>1, <1>types DEF Pop
  <2>4. Holders' = Holders \cup {r} /\ r \notin Holders
    BY <2>1, <2>3, <1>types
  <2>5. Promise!Cardinality(Holders) = Cardinality(Holders)
    BY DEF Promise!Cardinality, Cardinality
  <2> QED BY <2>2, <2>4, <2>5 DEF Promise!Take, Promise!Free
<1>2. ASSUME NEW r \in Requests, Push(r) PROVE Promise!Give(r)
  <2>1. Holders' = Holders \ {r} /\ r \in Holders
    BY <1>2, <1>types DEF Push
  <2> QED BY <2>1 DEF Promise!Give
<1>3. ASSUME NEW r \in Requests,
             Poll(r) \/ Wait(r) \/ SpuriousWakeup(r) \/ NotifyOne(r)
      PROVE  UNCHANGED Holders
  BY <1>3 DEF Poll, Wait, SpuriousWakeup, NotifyOne
<1>4. CASE UNCHANGED vars
  BY <1>4 DEF vars
<1> QED BY <1>1, <1>2, <1>3, <1>4 DEF Next, Step, Promise!Next

\* Mutex, stack and condition variable implement the checkout service.
THEOREM PoolImplementsCheckout == Spec => ImplementsCheckout
<1>1. Init => Promise!Init
  BY DEF Init, Promise!Init, Holders
<1> QED BY <1>1, OwnedInitially, OwnedInductive, StepRefines, PTL
        DEF Spec, ImplementsCheckout, Promise!Spec
=============================================================================
