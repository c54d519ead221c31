------------------------------ MODULE Checkout ------------------------------
(***************************************************************************)
(* What the rest of rockbase relies on when it calls Pool::get: Size       *)
(* interchangeable connections, at most one of them in the hands of a      *)
(* client, a client blocking while all of them are out.  Pool shows that   *)
(* the mutex, the stack and the condition variable of src/src/db.rs        *)
(* implement this; Accounts takes its connections through it.              *)
(***************************************************************************)
EXTENDS Naturals, FiniteSets

CONSTANTS Clients, Size

VARIABLE holding        \* the clients that have a connection checked out

Init == holding = {}

Free == Cardinality(holding) < Size

Take(c) ==
  /\ c \notin holding
  /\ Free
  /\ holding' = holding \cup {c}

Give(c) ==
  /\ c \in holding
  /\ holding' = holding \ {c}

Next == \E c \in Clients : Take(c) \/ Give(c)

Spec == Init /\ [][Next]_holding
=============================================================================
