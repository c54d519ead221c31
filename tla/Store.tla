------------------------------- MODULE Store --------------------------------
(***************************************************************************)
(* What POST /api/batch promises, whatever else goes on: a batch reads one *)
(* state of the collection, each of its changes is one that the rule in    *)
(* force allows on the records as the changes before it left them, the     *)
(* whole of it takes effect at once on that very state, or none of it.     *)
(* A request outside a batch promises less: it changes one record, but its *)
(* checks may be about an earlier state.                                   *)
(***************************************************************************)
CONSTANTS Callers, Admins, Ids, Rules, Batches, Null, None

VARIABLES
  col,    \* the rule of the collection, None if there is no collection
  rows,   \* its records
  tx      \* per batch: its caller, the state it read, the records it will leave

vars == <<col, rows, tx>>

Row == Ids \cup {Null}    \* the record that a record refers to, if any

Lets(rule, who, row) == who \in Admins \/ <<who, row>> \in rule

Init ==
  /\ col \in Rules \cup {None}
  /\ rows = [i \in Ids |-> None]
  /\ tx = [b \in Batches |-> None]

\* A collection appears, goes, or changes its rule; its records are swept.
SetCollection == col' \in Rules \cup {None} /\ UNCHANGED <<rows, tx>>

DropRows == rows' = [i \in Ids |-> None] /\ UNCHANGED <<col, tx>>

Create(i) ==
  /\ rows[i] = None
  /\ \E new \in Row : rows' = [rows EXCEPT ![i] = new]
  /\ UNCHANGED <<col, tx>>

Change(i) ==
  /\ rows[i] # None
  /\ \E new \in Row \cup {None} : rows' = [rows EXCEPT ![i] = new]
  /\ UNCHANGED <<col, tx>>

Begin(b) ==
  /\ tx[b] = None
  /\ \E who \in Callers :
       tx' = [tx EXCEPT ![b] =
                [who |-> who, col |-> col, before |-> rows, after |-> rows]]
  /\ UNCHANGED <<col, rows>>

\* A created record is one that its creator may create; a record is changed
\* or deleted by who the rule lets do so; what it refers to exists.
Step(t, i, new) ==
  /\ t.col # None
  /\ IF t.after[i] = None
     THEN new # None /\ Lets(t.col, t.who, new)
     ELSE Lets(t.col, t.who, t.after[i])
  /\ new \in Ids => new = t.after[i] \/ t.after[new] # None

Extend(b) ==
  /\ tx[b] # None
  /\ \E i \in Ids : \E new \in Row \cup {None} :
       /\ Step(tx[b], i, new)
       /\ tx' = [tx EXCEPT ![b].after = [@ EXCEPT ![i] = new]]
  /\ UNCHANGED <<col, rows>>

Abort(b) ==
  /\ tx' = [tx EXCEPT ![b] = None]
  /\ UNCHANGED <<col, rows>>

Commit(b) ==
  /\ tx[b] # None
  /\ tx[b].col = col /\ tx[b].before = rows
  /\ rows' = tx[b].after
  /\ tx' = [tx EXCEPT ![b] = None]
  /\ UNCHANGED col

Next ==
  \/ SetCollection \/ DropRows
  \/ \E i \in Ids : Create(i) \/ Change(i)
  \/ \E b \in Batches : Begin(b) \/ Extend(b) \/ Abort(b) \/ Commit(b)

Spec == Init /\ [][Next]_vars
=============================================================================
