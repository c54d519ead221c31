------------------------------ MODULE Records -------------------------------
(***************************************************************************)
(* The record API of one base collection with a relation to itself and a   *)
(* file field: the handlers of records.rs statement by statement in        *)
(* autocommit mode, POST /api/batch (batch.rs) in its IMMEDIATE            *)
(* transaction, the admin's handlers that create, edit and delete the      *)
(* collection under them (collections.rs), the files on disk (files.rs)    *)
(* and a crash of the process between any two of those steps.              *)
(*                                                                         *)
(* A record is what its relation field holds: a record's id, or Null.  A    *)
(* rule is the set of pairs (caller, record) that it lets through, NULL is  *)
(* the empty one; one rule stands for the five that get_collection reads   *)
(* in the same statement.                                                  *)
(***************************************************************************)
CONSTANTS Callers, Admins,   \* who asks; admins pass every rule
          Ids,               \* the ids that new_id() may draw
          Rules,             \* rules an admin may store
          Singles, Batches,  \* requests on records, one change or several
          Editors,           \* requests that delete the collection
          Null, None

Row == Ids \cup {Null}
Tables == [Ids -> Row \cup {None}]

ASSUME RecordsAssumption ==
  /\ Admins \subseteq Callers
  /\ Rules \subseteq SUBSET (Callers \X Row)
  /\ None \notin Rules \cup Row \cup Callers \cup Batches
  /\ \A w \in Callers \cup {None}, c \in Rules \cup {None}, t, u \in Tables :
       None # [who |-> w, col |-> c, before |-> t, after |-> u]
  /\ Null \notin Ids
  /\ Singles \cap Batches = {} /\ Editors \cap (Singles \cup Batches) = {}

VARIABLES
  col,    \* the row of _collections: its rule, None if there is no row
  rows,   \* the rows of records
  made,   \* history: the ids whose INSERT was committed
  disk,   \* the ids with a directory under storage/<collection>
  kept,   \* history: the ids whose upload was written and answered 200, since
          \* the last time that a DELETE of the collection removed its files
  lock,   \* the batch that holds SQLite's write lock, None if nobody does
  pc,     \* where each request is
  job,    \* of a single request: operation, caller, rule read, id, row fetched
  view    \* of an open batch: its caller, and the rows as it sees them

store == <<col, rows, made>>
files == <<disk, kept>>
vars == <<col, rows, made, disk, kept, lock, pc, job, view>>

Live == {i \in Ids : rows[i] # None}
Absent == [i \in Ids |-> None]
NoJob == [op |-> None, who |-> None, rule |-> None, id |-> None, row |-> None]
NoView == [who |-> None, rows |-> Absent]
Requests == Singles \cup Batches \cup Editors

\* check_rule, and the compiled rule on a row or on a body.
Lets(rule, who, row) == who \in Admins \/ <<who, row>> \in rule

\* check_rule has nothing to ask of a row: an admin, or the empty rule, which
\* lets everybody through everything.
Unconditional(rule, who) == who \in Admins \/ rule = Callers \X Row

Init ==
  /\ col \in Rules \cup {None}
  /\ rows = Absent
  /\ made = {} /\ disk = {} /\ kept = {}
  /\ lock = None
  /\ pc = [r \in Requests |-> "idle"]
  /\ job = [s \in Singles |-> NoJob]
  /\ view = [b \in Batches |-> NoView]

Hold(s, op, who, rule, id, row) ==
  job' = [job EXCEPT ![s] =
            [op |-> op, who |-> who, rule |-> rule, id |-> id, row |-> row]]
Forget(s) == Hold(s, None, None, None, None, None)

At(r, from, to) == pc[r] = from /\ pc' = [pc EXCEPT ![r] = to]

-----------------------------------------------------------------------------
(* POST, PATCH and DELETE of a record: create_core, update_core,           *)
(* delete_core and the handlers around them.                               *)

\* get_collection, then for a POST the rule on the body, in memory.
Load(s) ==
  /\ col # None
  /\ \E who \in Callers :
       \/ /\ At(s, "idle", "allowed")
          /\ \E body \in Row :
               /\ Lets(col, who, body)
               /\ Hold(s, "create", None, None, None, body)
       \/ /\ At(s, "idle", "loaded")
          /\ \E op \in {"update", "delete"} : Hold(s, op, who, col, None, None)
  /\ UNCHANGED <<store, files, lock, view>>

\* fetch_record.
Fetch(s) ==
  /\ At(s, "loaded", "fetched")
  /\ \E i \in Live : Hold(s, job[s].op, job[s].who, job[s].rule, i, rows[i])
  /\ UNCHANGED <<store, files, lock, view>>

\* gate_record: the rule on the row as it is by now. With nothing to ask it
\* does not look at the row, which may be gone.
Gate(s) ==
  /\ At(s, "fetched", IF job[s].op = "delete" THEN "write" ELSE "allowed")
  /\ \/ Unconditional(job[s].rule, job[s].who)
     \/ /\ rows[job[s].id] # None
        /\ Lets(job[s].rule, job[s].who, rows[job[s].id])
  /\ Hold(s, job[s].op, None, None, job[s].id, job[s].row)
  /\ UNCHANGED <<store, files, lock, view>>

\* check_relations, and the shallow merge of the patch into the fetched row.
Relations(s) ==
  /\ At(s, "allowed", "write")
  /\ \/ /\ job[s].op = "create"
        /\ job[s].row \in Live \cup {Null}
        /\ UNCHANGED job
     \/ /\ job[s].op = "update"
        /\ \E new \in Live \cup {Null, job[s].row} :
             Hold(s, "update", None, None, job[s].id, new)
  /\ UNCHANGED <<store, files, lock, view>>

\* Mutant: the INSERT's error is not looked at.
Insert_Unchecked(s) ==
  /\ At(s, "write", "files")
  /\ lock = None
  /\ job[s].op = "create"
  /\ \E i \in Ids \ made :
       /\ \/ made' = made \cup {i} /\ rows' = [rows EXCEPT ![i] = job[s].row]
          \/ UNCHANGED <<rows, made>>
       /\ Hold(s, "create", None, None, i, None)
  /\ UNCHANGED <<col, files, lock, view>>

\* The statement that writes, in autocommit mode, and the connection's return.
Insert(s) ==
  /\ At(s, "write", "files")
  /\ lock = None
  /\ job[s].op = "create"
  /\ \E i \in Ids \ made :
       /\ rows' = [rows EXCEPT ![i] = job[s].row]
       /\ made' = made \cup {i}
       /\ Hold(s, "create", None, None, i, None)
  /\ UNCHANGED <<col, files, lock, view>>

\* A row that is gone by now is not updated, and the request does not notice.
Update(s) ==
  /\ At(s, "write", "files")
  /\ lock = None
  /\ job[s].op = "update"
  /\ IF rows[job[s].id] = None THEN UNCHANGED rows
     ELSE rows' = [rows EXCEPT ![job[s].id] = job[s].row]
  /\ UNCHANGED <<col, made, files, lock, job, view>>

Delete(s) ==
  /\ At(s, "write", "files")
  /\ lock = None
  /\ job[s].op = "delete"
  /\ rows' = [rows EXCEPT ![job[s].id] = None]
  /\ UNCHANGED <<col, made, files, lock, job, view>>

\* write_files, for a request that carried files: all of them are written and
\* the answer is a 200, or some are and it is a 500.
WriteFiles(s) ==
  /\ At(s, "files", "idle")
  /\ job[s].op # "delete"
  /\ disk' = disk \cup {job[s].id}
  /\ kept' \in {kept, kept \cup {job[s].id}}
  /\ Forget(s)
  /\ UNCHANGED <<store, lock, view>>

\* remove_record_files.
RemoveFiles(s) ==
  /\ At(s, "files", "idle")
  /\ job[s].op = "delete"
  /\ disk' = disk \ {job[s].id}
  /\ Forget(s)
  /\ UNCHANGED <<store, kept, lock, view>>

\* The request ends without another effect: 404, 403, 400, an INSERT that
\* fails or is still busy after busy_timeout, no file, or a file that cannot
\* be written.
End(s) ==
  /\ \/ \E from \in {"loaded", "fetched", "allowed", "write"} : At(s, from, "idle")
     \/ job[s].op # "delete" /\ At(s, "files", "idle")
  /\ Forget(s)
  /\ UNCHANGED <<store, files, lock, view>>

-----------------------------------------------------------------------------
(* POST /api/batch. *)

\* Mutant: BEGIN DEFERRED, no write lock up front.
Begin_Deferred(b) ==
  /\ At(b, "idle", "open")
  /\ \E who \in Callers : view' = [view EXCEPT ![b] = [who |-> who, rows |-> rows]]
  /\ UNCHANGED <<store, files, lock, job>>

\* BEGIN IMMEDIATE, which waits for the write lock.
Begin(b) ==
  /\ At(b, "idle", "open")
  /\ lock = None
  /\ lock' = b
  /\ \E who \in Callers : view' = [view EXCEPT ![b] = [who |-> who, rows |-> rows]]
  /\ UNCHANGED <<store, files, job>>

Sees(b) == view[b].rows
Sets(b, i, new) == view' = [view EXCEPT ![b].rows = [@ EXCEPT ![i] = new]]
Existing(b) == {i \in Ids : Sees(b)[i] # None}

\* The three cores, on the transaction: nobody else can write meanwhile, so
\* that all of a sub-request's statements see one state.
BatchCreate(b) ==
  /\ pc[b] = "open" /\ col # None
  /\ \E i \in Ids \ made, new \in Row :
       /\ Sees(b)[i] = None
       /\ Lets(col, view[b].who, new)
       /\ new \in Existing(b) \cup {Null}
       /\ Sets(b, i, new)
  /\ UNCHANGED <<store, files, lock, pc, job>>

BatchUpdate(b) ==
  /\ pc[b] = "open" /\ col # None
  /\ \E i \in Existing(b), new \in Row :
       /\ Lets(col, view[b].who, Sees(b)[i])
       /\ new \in Existing(b) \cup {Null, Sees(b)[i]}
       /\ Sets(b, i, new)
  /\ UNCHANGED <<store, files, lock, pc, job>>

\* Mutant: delete_core removes the files, inside the transaction.
BatchDelete_Files(b) ==
  /\ pc[b] = "open" /\ col # None
  /\ \E i \in Existing(b) :
       /\ Lets(col, view[b].who, Sees(b)[i])
       /\ Sets(b, i, None)
       /\ disk' = disk \ {i}
  /\ UNCHANGED <<store, kept, lock, pc, job>>

BatchDelete(b) ==
  /\ pc[b] = "open" /\ col # None
  /\ \E i \in Existing(b) :
       /\ Lets(col, view[b].who, Sees(b)[i])
       /\ Sets(b, i, None)
  /\ UNCHANGED <<store, files, lock, pc, job>>

\* Mutant: the transaction stays open when a sub-request is refused.
Rollback_KeepsLock(b) ==
  /\ At(b, "open", "idle")
  /\ view' = [view EXCEPT ![b] = NoView]
  /\ UNCHANGED <<store, files, lock, job>>

\* A sub-request is refused, or the commit fails: dropping tx rolls back.
Rollback(b) ==
  /\ At(b, "open", "idle")
  /\ lock' = None
  /\ view' = [view EXCEPT ![b] = NoView]
  /\ UNCHANGED <<store, files, job>>

Commit(b) ==
  /\ At(b, "open", "idle")
  /\ lock' = None
  /\ rows' = Sees(b)
  /\ made' = made \cup Existing(b)
  /\ view' = [view EXCEPT ![b] = NoView]
  /\ UNCHANGED <<col, files, job>>

-----------------------------------------------------------------------------
(* The admin's requests on the collection. *)

\* INSERT OR IGNORE, for a name that is free.
CreateCollection ==
  /\ lock = None
  /\ col = None
  /\ col' \in Rules
  /\ UNCHANGED <<rows, made, files, lock, pc, job, view>>

\* UPDATE ... WHERE name: of a collection that was deleted since the handler
\* looked it up it changes nothing, of one created since it changes that one.
EditRule ==
  /\ lock = None
  /\ col # None
  /\ col' \in Rules
  /\ UNCHANGED <<rows, made, files, lock, pc, job, view>>

\* collections_delete: two statements in autocommit mode, then the files.
DropCollection(e) ==
  /\ At(e, "idle", "dropped")
  /\ lock = None
  /\ col # None
  /\ col' = None
  /\ UNCHANGED <<rows, made, files, lock, job, view>>

DropRows(e) ==
  /\ At(e, "dropped", "sweep")
  /\ lock = None
  /\ rows' = Absent
  /\ UNCHANGED <<col, made, files, lock, job, view>>

\* remove_collection_files, with the connection given back.
Sweep(e) ==
  /\ At(e, "sweep", "idle")
  /\ disk' = {}
  /\ kept' = {}
  /\ UNCHANGED <<store, lock, job, view>>

\* The second statement fails: a panic on its unwrap().
Fails(e) ==
  /\ At(e, "dropped", "idle")
  /\ UNCHANGED <<store, files, lock, job, view>>

-----------------------------------------------------------------------------
\* The process dies.  Every request in flight is gone and so is an open
\* transaction; what was committed, and the files, stay.
Crash ==
  /\ pc' = [r \in Requests |-> "idle"]
  /\ lock' = None
  /\ view' = [b \in Batches |-> NoView]
  /\ job' = [s \in Singles |-> NoJob]
  /\ UNCHANGED <<store, files>>

Single(s) ==
  Load(s) \/ Fetch(s) \/ Gate(s) \/ Relations(s) \/ Insert(s) \/ Update(s)
  \/ Delete(s) \/ WriteFiles(s) \/ RemoveFiles(s) \/ End(s)
Batch(b) ==
  Begin(b) \/ BatchCreate(b) \/ BatchUpdate(b) \/ BatchDelete(b) \/ Rollback(b) \/ Commit(b)
Edit(e) == DropCollection(e) \/ DropRows(e) \/ Sweep(e) \/ Fails(e)

Next ==
  \/ \E s \in Singles : Single(s)
  \/ \E b \in Batches : Batch(b)
  \/ \E e \in Editors : Edit(e)
  \/ CreateCollection \/ EditRule \/ Crash

Spec == Init /\ [][Next]_vars

-----------------------------------------------------------------------------
(* Properties. *)

Jobs == [op : {None, "create", "update", "delete"}, who : Callers \cup {None},
         rule : Rules \cup {None}, id : Ids \cup {None}, row : Row \cup {None}]

\* The values that the variables take; in particular the lock is held by the
\* batch whose transaction is open, and by nothing else (batch.rs).
TypeOK ==
  /\ col \in Rules \cup {None}
  /\ rows \in Tables
  /\ made \subseteq Ids /\ disk \subseteq Ids /\ kept \subseteq Ids
  /\ pc \in [Requests -> {"idle", "loaded", "fetched", "allowed", "write", "files",
                          "open", "dropped", "sweep"}]
  /\ job \in [Singles -> Jobs]
  /\ view \in [Batches -> [who : Callers \cup {None}, rows : Tables]]
  /\ lock \in Batches \cup {None}
  /\ \A b \in Batches : pc[b] = "open" <=> lock = b

\* A batch takes effect at once on the state its rule checks were made on, or
\* not at all (batch.rs:77-110), whatever single requests, collection edits
\* and crashes come between.
Tx == [b \in Batches |->
         IF pc[b] = "open"
         THEN [who |-> view[b].who, col |-> col, before |-> rows, after |-> Sees(b)]
         ELSE None]
Promise == INSTANCE Store WITH tx <- Tx
ImplementsStore == Promise!Spec

\* "a rule-denied create must leave nothing on disk" (records.rs:673): files
\* are only ever there for a record whose row was committed.
OnlyFilesOfRecords == disk \subseteq made

\* The upload of a record that exists, once answered 200, stays on disk: no
\* DELETE, no batch that is rolled back and no crash takes it away.  Only
\* the DELETE of a collection that was created again meanwhile does.
UploadStays == \A i \in kept : rows[i] # None => i \in disk
=============================================================================
