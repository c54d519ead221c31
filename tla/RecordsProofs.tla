--------------------------- MODULE RecordsProofs ---------------------------
(***************************************************************************)
(* Theorems about Records: the type invariant, the two invariants about    *)
(* the files on disk, and that batches implement Store.                    *)
(***************************************************************************)
EXTENDS Records, TLAPS

\* A row is there, or a file was uploaded to it, only if its INSERT was
\* committed.
RowsMade == Live \subseteq made /\ kept \subseteq made

\* What a single request has in hand when it writes, and after that.
Ready(s) ==
  /\ pc[s] \in {"loaded", "fetched"} => job[s].op # "create"
  /\ job[s].op = "create" /\ pc[s] \in {"allowed", "write"} => job[s].row \in Row
  /\ \/ pc[s] = "files"
     \/ pc[s] \in {"fetched", "allowed", "write"} /\ job[s].op # "create"
     => job[s].id \in made
  /\ pc[s] = "files" /\ job[s].op = "delete" => rows[job[s].id] = None

JobReady == \A s \in Singles : Ready(s)

\* An open batch brings no record back: of those committed so far it sees
\* none that is gone.
ViewSound ==
  \A b \in Batches : pc[b] = "open" =>
    \A i \in made : Sees(b)[i] # None => rows[i] # None

Inv == TypeOK /\ RowsMade /\ JobReady /\ ViewSound

-----------------------------------------------------------------------------
(* The type invariant. *)

\* A step that is not about the lock moves no batch into or out of "open".
LEMMA LockSteps ==
  ASSUME TypeOK, NEW r \in Requests, NEW from, NEW to, At(r, from, to),
         from # "open", to # "open", UNCHANGED lock
  PROVE  \A b \in Batches : pc'[b] = "open" <=> lock' = b
BY RecordsAssumption DEF Tables, TypeOK, At, Requests

LEMMA SingleTypes ==
  ASSUME TypeOK, JobReady, NEW s \in Singles, Single(s)
  PROVE  TypeOK'
<1> USE RecordsAssumption DEF Tables
<1>1. s \in Requests /\ NoJob \in Jobs
  BY DEF Requests, NoJob, Jobs
<1>2. UNCHANGED <<col, lock, view>>
  BY DEF Single, Load, Fetch, Gate, Relations, Insert, Update, Delete,
     WriteFiles, RemoveFiles, End,
     store, files
<1>3. PICK from, to \in {"idle", "loaded", "fetched", "allowed", "write", "files"} :
        At(s, from, to)
  BY DEF Single, Load, Fetch, Gate, Relations, Insert, Update, Delete,
     WriteFiles, RemoveFiles, End
<1>4. \A b \in Batches : pc'[b] = "open" <=> lock' = b
  BY <1>1, <1>2, <1>3, LockSteps
<1>5. job' \in [Singles -> Jobs]
  <2>1. CASE Load(s)
    BY <2>1 DEF Load, Hold, TypeOK, Jobs
  <2>2. CASE Fetch(s)
    BY <2>2 DEF Fetch, Hold, TypeOK, Jobs, Live
  <2>3. CASE Gate(s)
    BY <2>3 DEF Gate, Hold, TypeOK, Jobs
  <2>4. CASE Relations(s)
    <3>1. job' = job \/ \E new \in Row \cup {None} : Hold(s, "update", None, None, job[s].id, new)
      BY <2>4 DEF Relations, TypeOK, Live, Row, Jobs
    <3> QED BY <3>1 DEF TypeOK, Jobs, Hold
  <2>5. CASE Insert(s) \/ Update(s) \/ Delete(s)
    BY <2>5 DEF Insert, Update, Delete, Hold, TypeOK, Jobs
  <2>6. CASE WriteFiles(s) \/ RemoveFiles(s) \/ End(s)
    BY <1>1, <2>6 DEF WriteFiles, RemoveFiles, End, Forget, Hold, TypeOK, Jobs
  <2> QED BY <2>1, <2>2, <2>3, <2>4, <2>5, <2>6 DEF Single
<1>6. rows' \in Tables /\ made' \subseteq Ids
  <2>1. CASE Insert(s) \/ Update(s) \/ Delete(s)
    BY <2>1 DEF Insert, Update, Delete, TypeOK, Jobs
  <2>2. CASE ~(Insert(s) \/ Update(s) \/ Delete(s))
    BY <2>2 DEF Single, Load, Fetch, Gate, Relations, WriteFiles, RemoveFiles, End,
       store, TypeOK
  <2> QED BY <2>1, <2>2
<1>7. disk' \subseteq Ids /\ kept' \subseteq Ids
  <2>1. CASE WriteFiles(s)
    BY <2>1 DEF WriteFiles, TypeOK, JobReady, Ready, At
  <2>2. CASE ~WriteFiles(s)
    BY <2>2 DEF Single, Load, Fetch, Gate, Relations, Insert, Update, Delete,
     RemoveFiles, End,
       files, TypeOK
  <2> QED BY <2>1, <2>2
<1>8. pc' \in [Requests -> {"idle", "loaded", "fetched", "allowed", "write", "files",
                            "open", "dropped", "sweep"}]
  BY <1>1, <1>3 DEF At, TypeOK
<1> QED BY <1>2, <1>4, <1>5, <1>6, <1>7, <1>8 DEF TypeOK

LEMMA BatchTypes ==
  ASSUME TypeOK, NEW b \in Batches, Batch(b)
  PROVE  TypeOK'
<1> USE RecordsAssumption DEF Tables
<1>0. /\ b \in Requests /\ NoView \in [who : Callers \cup {None}, rows : Tables]
      /\ Sees(b) \in Tables
  BY DEF Requests, NoView, Absent, Sees, TypeOK
<1>1. CASE Begin(b)
  BY <1>0, <1>1 DEF Begin, TypeOK, At, store, files
<1>2. CASE BatchCreate(b) \/ BatchUpdate(b) \/ BatchDelete(b)
  <2>1. PICK i \in Ids, new \in Row \cup {None} : Sets(b, i, new)
    BY <1>2 DEF BatchCreate, BatchUpdate, BatchDelete, Existing
  <2>2. view' \in [Batches -> [who : Callers \cup {None}, rows : Tables]]
    <3>1. [view[b].rows EXCEPT ![i] = new] \in Tables
      BY DEF TypeOK
    <3> HIDE DEF Tables
    <3>2. \A t \in Tables : [view[b] EXCEPT !.rows = t] \in [who : Callers \cup {None}, rows : Tables]
      BY DEF TypeOK
    <3> QED BY <2>1, <3>1, <3>2 DEF Sets, TypeOK
  <2> QED BY <1>2, <2>2 DEF BatchCreate, BatchUpdate, BatchDelete, TypeOK, store, files
<1>3. CASE Rollback(b)
  BY <1>0, <1>3 DEF Rollback, TypeOK, At, store, files
<1>4. CASE Commit(b)
  BY <1>0, <1>4 DEF Commit, Existing, TypeOK, At, files
<1> QED BY <1>1, <1>2, <1>3, <1>4 DEF Batch

LEMMA EditTypes ==
  ASSUME TypeOK, NEW e \in Editors, Edit(e)
  PROVE  TypeOK'
<1> USE RecordsAssumption DEF Tables
<1>1. e \in Requests
  BY DEF Requests
<1>2. PICK from, to \in {"idle", "dropped", "sweep"} : At(e, from, to)
  BY DEF Edit, DropCollection, DropRows, Sweep, Fails
<1>3. UNCHANGED <<made, lock, job, view>>
  BY DEF Edit, DropCollection, DropRows, Sweep, Fails, store, files
<1>4. \A b \in Batches : pc'[b] = "open" <=> lock' = b
  BY <1>1, <1>2, <1>3, LockSteps
<1>5. /\ col' \in Rules \cup {None} /\ rows' \in Tables
      /\ disk' \subseteq Ids /\ kept' \subseteq Ids
  BY DEF Edit, DropCollection, DropRows, Sweep, Fails, store, files, TypeOK, Absent
<1>6. pc' \in [Requests -> {"idle", "loaded", "fetched", "allowed", "write", "files",
                            "open", "dropped", "sweep"}]
  BY <1>1, <1>2 DEF At, TypeOK
<1> QED BY <1>3, <1>4, <1>5, <1>6 DEF TypeOK

LEMMA TypePreserved == TypeOK /\ JobReady /\ [Next]_vars => TypeOK'
<1> SUFFICES ASSUME TypeOK, JobReady, [Next]_vars PROVE TypeOK'
    OBVIOUS
<1>1. CASE CreateCollection \/ EditRule
  BY <1>1 DEF CreateCollection, EditRule, TypeOK, files
<1>2. CASE Crash
  BY <1>2, RecordsAssumption DEF Tables, Crash, TypeOK, store, files, NoView, NoJob, Jobs, Absent,
     Requests
<1>3. CASE UNCHANGED vars
  BY <1>3 DEF vars, TypeOK
<1> QED BY <1>1, <1>2, <1>3, SingleTypes, BatchTypes, EditTypes DEF Next

-----------------------------------------------------------------------------
(* The rest of Inv, and the two invariants about files. *)

\* A step of one request leaves the others ready, if it brings no row back.
LEMMA OthersReady ==
  ASSUME JobReady, NEW s, Ready(s)',
         \A t \in Singles \ {s} : job'[t] = job[t] /\ pc'[t] = pc[t],
         made \subseteq made', \A i \in made : rows[i] = None => rows'[i] = None
  PROVE  JobReady'
BY DEF JobReady, Ready

\* What a step of one request does to its own job, and to no other.
LEMMA OwnJob ==
  ASSUME TypeOK, NEW s \in Singles, NEW op, NEW who, NEW rule, NEW id, NEW row,
         Hold(s, op, who, rule, id, row)
  PROVE  /\ job'[s].op = op /\ job'[s].id = id /\ job'[s].row = row
         /\ \A t \in Singles \ {s} : job'[t] = job[t]
BY DEF Hold, TypeOK

LEMMA OwnPc ==
  ASSUME TypeOK, NEW s \in Requests, NEW from, NEW to, At(s, from, to)
  PROVE  /\ pc[s] = from /\ pc'[s] = to
         /\ \A t \in Requests \ {s} : pc'[t] = pc[t]
BY DEF At, TypeOK

LEMMA SinglePreserves ==
  ASSUME Inv, OnlyFilesOfRecords, UploadStays, NEW s \in Singles, Single(s), TypeOK'
  PROVE  RowsMade' /\ JobReady' /\ ViewSound' /\ OnlyFilesOfRecords' /\ UploadStays'
<1> USE RecordsAssumption DEF Tables
<1>0. s \in Requests
  BY DEF Requests
<1>1. CASE Load(s) \/ Fetch(s) \/ Gate(s) \/ Relations(s) \/ End(s)
  <2>1. UNCHANGED <<store, files, view>> /\ \A b \in Batches : pc'[b] = "open" => pc[b] = "open"
    BY <1>0, <1>1 DEF Load, Fetch, Gate, Relations, End, At, Inv, TypeOK
  <2>2. RowsMade' /\ ViewSound' /\ OnlyFilesOfRecords' /\ UploadStays'
    BY <2>1 DEF Inv, RowsMade, ViewSound, Sees, OnlyFilesOfRecords, UploadStays, Live,
       store, files
  <2>3. Ready(s)'
    <3>1. CASE Load(s)
      BY <1>0, <3>1, OwnJob, OwnPc DEF Load, Inv, Ready
    <3>2. CASE Fetch(s)
      BY <1>0, <3>2, OwnJob, OwnPc, <2>1 DEF Fetch, Inv, JobReady, Ready, RowsMade, store
    <3>3. CASE Gate(s)
      BY <1>0, <3>3, OwnJob, OwnPc, <2>1 DEF Gate, Inv, JobReady, Ready, store
    <3>4. CASE Relations(s)
      BY <1>0, <3>4, OwnJob, OwnPc, <2>1 DEF Relations, Inv, JobReady, Ready, store
    <3>5. CASE End(s)
      BY <1>0, <3>5, OwnJob, OwnPc DEF End, Forget, Inv, Ready
    <3> QED BY <1>1, <3>1, <3>2, <3>3, <3>4, <3>5
  <2>4. \A t \in Singles \ {s} : job'[t] = job[t] /\ pc'[t] = pc[t]
    BY <1>0, <1>1, OwnJob, OwnPc DEF Load, Fetch, Gate, Relations, End, Forget, Inv, Requests
  <2>5. JobReady'
    BY <2>1, <2>3, <2>4, OthersReady DEF Inv, store
  <2> QED BY <2>2, <2>5
<1>2. CASE Insert(s)
  <2>1. PICK i \in Ids \ made : /\ rows' = [rows EXCEPT ![i] = job[s].row]
                               /\ made' = made \cup {i}
                               /\ Hold(s, "create", None, None, i, None)
    BY <1>2 DEF Insert
  <2>2. \A j \in Ids \ {i} : rows'[j] = rows[j]
    BY <2>1 DEF Inv, TypeOK
  <2>3. \A b \in Batches : pc'[b] # "open"
    BY <1>0, <1>2 DEF Insert, At, Inv, TypeOK
  <2>4. Ready(s)'
    BY <1>0, <1>2, <2>1, OwnJob, OwnPc DEF Insert, Inv, Ready
  <2>5. \A t \in Singles \ {s} : job'[t] = job[t] /\ pc'[t] = pc[t]
    BY <1>0, <1>2, <2>1, OwnJob, OwnPc DEF Insert, Inv, Requests
  <2>6. JobReady'
    BY <2>1, <2>2, <2>4, <2>5, OthersReady, SMTT(30) DEF Inv, TypeOK
  <2>7. RowsMade' /\ ViewSound'
    BY <1>2, <2>1, <2>2, <2>3, SMTT(30)
    DEF Insert, files, Inv, TypeOK, RowsMade, Live, ViewSound
  <2>8. OnlyFilesOfRecords' /\ UploadStays'
    BY <1>2, <2>1, <2>2 DEF Insert, files, OnlyFilesOfRecords, UploadStays, Inv, TypeOK,
       RowsMade
  <2> QED BY <2>6, <2>7, <2>8
<1>3. CASE Update(s) \/ Delete(s)
  <2>1. \A i \in Ids : rows[i] = None => rows'[i] = None
    BY <1>3 DEF Update, Delete, Inv, TypeOK
  <2>2. job[s].op = "delete" => rows'[job[s].id] = None
    BY <1>3 DEF Update, Delete, Inv, TypeOK, JobReady, Ready, At
  <2>3. \A b \in Batches : pc'[b] # "open"
    BY <1>0, <1>3 DEF Update, Delete, At, Inv, TypeOK
  <2>4. UNCHANGED <<made, disk, kept, job>>
    BY <1>3 DEF Update, Delete, files
  <2>5. JobReady'
    <3>1. Ready(s)'
      BY <1>0, <1>3, <2>2, <2>4, OwnPc DEF Update, Delete, Inv, JobReady, Ready
    <3>2. \A t \in Singles \ {s} : job'[t] = job[t] /\ pc'[t] = pc[t]
      BY <1>0, <1>3, <2>4, OwnPc DEF Update, Delete, Inv, Requests
    <3> QED BY <2>1, <2>4, <3>1, <3>2, OthersReady DEF Inv, TypeOK
  <2> QED BY <2>1, <2>3, <2>4, <2>5 DEF Inv, TypeOK, RowsMade, Live, ViewSound,
             OnlyFilesOfRecords, UploadStays
<1>4. CASE WriteFiles(s) \/ RemoveFiles(s)
  <2>1. /\ UNCHANGED <<rows, made, view>> /\ job[s].id \in made
        /\ \A b \in Batches : pc'[b] = "open" => pc[b] = "open"
    BY <1>0, <1>4 DEF WriteFiles, RemoveFiles, store, At, Inv, TypeOK, JobReady, Ready
  <2>2. JobReady'
    <3>1. Ready(s)'
      BY <1>0, <1>4, OwnJob, OwnPc DEF WriteFiles, RemoveFiles, Forget, Inv, Ready
    <3>2. \A t \in Singles \ {s} : job'[t] = job[t] /\ pc'[t] = pc[t]
      BY <1>0, <1>4, OwnJob, OwnPc DEF WriteFiles, RemoveFiles, Forget, Inv, Requests
    <3> QED BY <2>1, <3>1, <3>2, OthersReady DEF Inv
  <2>3. OnlyFilesOfRecords' /\ UploadStays'
    BY <1>4, <2>1 DEF WriteFiles, RemoveFiles, At, Inv, TypeOK, JobReady, Ready,
       OnlyFilesOfRecords, UploadStays
  <2>4. RowsMade'
    BY <1>4, <2>1 DEF WriteFiles, RemoveFiles, Inv, RowsMade, Live
  <2> QED BY <2>1, <2>2, <2>3, <2>4 DEF Inv, ViewSound, Sees
<1> QED BY <1>1, <1>2, <1>3, <1>4 DEF Single

\* Under the write lock no row goes, so that the rows an open batch sees stay
\* those it began with, but for its own changes.
LEMMA BatchPreserves ==
  ASSUME Inv, OnlyFilesOfRecords, UploadStays, NEW b \in Batches, Batch(b), TypeOK'
  PROVE  RowsMade' /\ JobReady' /\ ViewSound' /\ OnlyFilesOfRecords' /\ UploadStays'
<1> USE RecordsAssumption DEF Tables
<1>0. b \in Requests /\ Sees(b) \in Tables
  BY DEF Requests, Inv, TypeOK, Sees
<1>1. UNCHANGED <<disk, kept, job>> /\ made \subseteq made'
  BY DEF Batch, Begin, BatchCreate, BatchUpdate, BatchDelete, Rollback, Commit, store, files
<1>2. \A s \in Singles : pc'[s] = pc[s]
  BY <1>0 DEF Batch, Begin, BatchCreate, BatchUpdate, BatchDelete, Rollback, Commit, At,
     Inv, TypeOK, Requests
<1>3. \A i \in made : rows[i] = None => rows'[i] = None
  <2>1. CASE Commit(b)
    BY <2>1 DEF Commit, At, Inv, ViewSound
  <2>2. CASE ~Commit(b)
    BY <2>2 DEF Batch, Begin, BatchCreate, BatchUpdate, BatchDelete, Rollback, store
  <2> QED BY <2>1, <2>2
<1>4. JobReady'
  BY <1>1, <1>2, <1>3 DEF Inv, JobReady, Ready
<1>5. RowsMade'
  <2>1. CASE Commit(b)
    BY <1>1, <2>1 DEF Commit, Inv, RowsMade, Existing, Live
  <2>2. CASE ~Commit(b)
    BY <1>1, <2>2 DEF Batch, Begin, BatchCreate, BatchUpdate, BatchDelete, Rollback, store,
       Inv, RowsMade, Live
  <2> QED BY <2>1, <2>2
<1>6. ViewSound'
  <2>1. CASE Begin(b)
    BY <1>0, <2>1 DEF Begin, At, store, Inv, TypeOK, ViewSound, Sees
  <2>2. ASSUME NEW i \in Ids, NEW new \in Row \cup {None}, Sets(b, i, new),
               UNCHANGED <<rows, made, pc>>,
               i \in made /\ new # None => rows[i] # None
        PROVE  ViewSound'
    <3>1. \A c \in Batches \ {b} : view'[c] = view[c]
      BY <2>2 DEF Sets, Inv, TypeOK
    <3>2. view'[b].rows = [Sees(b) EXCEPT ![i] = new]
      BY <2>2 DEF Sets, Sees, Inv, TypeOK
    <3>3. ASSUME NEW c \in Batches, pc[c] = "open", NEW j \in made, view'[c].rows[j] # None
          PROVE  rows[j] # None
      <4>1. CASE c # b
        BY <3>1, <3>3, <4>1 DEF Inv, ViewSound, Sees
      <4>2. CASE c = b /\ j = i
        <5>1. new # None
          BY <1>0, <3>2, <3>3, <4>2
        <5> QED BY <2>2, <3>3, <4>2, <5>1
      <4>3. CASE c = b /\ j # i
        <5>1. Sees(b)[j] # None
          BY <1>0, <3>2, <3>3, <4>3 DEF Inv, TypeOK
        <5> QED BY <3>3, <4>3, <5>1 DEF Inv, ViewSound
      <4> QED BY <4>1, <4>2, <4>3
    <3> QED BY <2>2, <3>3 DEF ViewSound, Sees
  <2>3. CASE BatchCreate(b)
    BY <2>2, <2>3 DEF BatchCreate, store
  <2>4. CASE BatchUpdate(b)
    BY <2>2, <2>4 DEF BatchUpdate, Existing, store, Inv, ViewSound
  <2>5. CASE BatchDelete(b)
    BY <2>2, <2>5 DEF BatchDelete, Existing, store
  <2>6. CASE Rollback(b) \/ Commit(b)
    <3>1. \A c \in Batches : pc'[c] # "open"
      BY <1>0, <2>6 DEF Rollback, Commit, At, Inv, TypeOK, Requests
    <3> QED BY <3>1 DEF ViewSound
  <2> QED BY <2>1, <2>3, <2>4, <2>5, <2>6 DEF Batch
<1>7. OnlyFilesOfRecords' /\ UploadStays'
  BY <1>1, <1>3 DEF OnlyFilesOfRecords, UploadStays, Inv, RowsMade
<1> QED BY <1>4, <1>5, <1>6, <1>7

LEMMA EditPreserves ==
  ASSUME Inv, OnlyFilesOfRecords, UploadStays, NEW e \in Editors, Edit(e), TypeOK'
  PROVE  RowsMade' /\ JobReady' /\ ViewSound' /\ OnlyFilesOfRecords' /\ UploadStays'
<1> USE RecordsAssumption DEF Tables
<1>1. /\ UNCHANGED <<made, job, view>> /\ disk' \subseteq disk /\ kept' \subseteq kept
      /\ kept' = {} \/ UNCHANGED <<disk, kept>>
  BY DEF Edit, DropCollection, DropRows, Sweep, Fails, store, files
<1>2. \A r \in Singles \cup Batches : pc'[r] = pc[r]
  BY DEF Edit, DropCollection, DropRows, Sweep, Fails, At, Inv, TypeOK, Requests
<1>3. UNCHANGED rows \/ (rows' = Absent /\ lock = None)
  BY DEF Edit, DropCollection, DropRows, Sweep, Fails, store
<1>4. \A i \in Ids : rows[i] = None => rows'[i] = None
  BY <1>3 DEF Absent
<1>5. RowsMade'
  BY <1>1, <1>4 DEF Inv, RowsMade, Live
<1>6. JobReady'
  BY <1>1, <1>2, <1>4 DEF Inv, TypeOK, JobReady, Ready
<1>7. ViewSound'
  BY <1>1, <1>2, <1>3 DEF Inv, TypeOK, ViewSound, Sees
<1>8. OnlyFilesOfRecords' /\ UploadStays'
  BY <1>1, <1>4 DEF Inv, TypeOK, OnlyFilesOfRecords, UploadStays
<1> QED BY <1>5, <1>6, <1>7, <1>8

Safe == Inv /\ OnlyFilesOfRecords /\ UploadStays

LEMMA SafeInductive == Safe /\ [Next]_vars => Safe'
<1> SUFFICES ASSUME Safe, [Next]_vars PROVE Safe'
    OBVIOUS
<1>0. TypeOK'
  BY TypePreserved DEF Safe, Inv
<1>1. CASE CreateCollection \/ EditRule
  BY <1>0, <1>1 DEF CreateCollection, EditRule, Safe, Inv, RowsMade, Live, JobReady, Ready,
     ViewSound, Sees, OnlyFilesOfRecords, UploadStays, files
<1>2. CASE Crash
  <2>1. \A r \in Requests : pc'[r] = "idle"
    BY <1>2 DEF Crash
  <2>2. UNCHANGED <<store, files>>
    BY <1>2 DEF Crash
  <2>3. JobReady' /\ ViewSound'
    BY <2>1 DEF JobReady, Ready, ViewSound, Requests
  <2> QED BY <1>0, <2>2, <2>3 DEF Safe, Inv, RowsMade, Live, OnlyFilesOfRecords, UploadStays,
          store, files
<1>3. CASE UNCHANGED vars
  BY <1>0, <1>3 DEF vars, Safe, Inv, RowsMade, Live, JobReady, Ready,
     ViewSound, Sees, OnlyFilesOfRecords, UploadStays
<1> QED BY <1>0, <1>1, <1>2, <1>3, SinglePreserves, BatchPreserves, EditPreserves
        DEF Next, Safe, Inv

LEMMA SafeInitially == Init => Safe
BY RecordsAssumption DEF Tables, Init, Safe, Inv, TypeOK, Jobs, NoJob, NoView, Absent, Requests, RowsMade,
   Live, JobReady, Ready, ViewSound, OnlyFilesOfRecords, UploadStays

LEMMA AlwaysSafe == Spec => []Safe
<1> QED BY SafeInitially, SafeInductive, PTL DEF Spec

\* The variables stay in their types, and the write lock is held by the batch
\* whose transaction is open and by nothing else.
THEOREM TypeCorrect == Spec => []TypeOK
<1>1. Safe => TypeOK
  BY DEF Safe, Inv
<1> QED BY <1>1, AlwaysSafe, PTL

\* No request, refused, failed or cut short by a crash, leaves files of a
\* record that was never committed.
THEOREM DiskFollowsCommits == Spec => []OnlyFilesOfRecords
<1>1. Safe => OnlyFilesOfRecords
  BY DEF Safe
<1> QED BY <1>1, AlwaysSafe, PTL

\* The acknowledged upload of a record that exists is on disk, unless the
\* DELETE of a collection swept the directory.
THEOREM UploadsStay == Spec => []UploadStays
<1>1. Safe => UploadStays
  BY DEF Safe
<1> QED BY <1>1, AlwaysSafe, PTL

-----------------------------------------------------------------------------
(* Batches implement Store.  Only the holder of the lock has a transaction  *)
(* open, and the others write only while the lock is free: the state that a *)
(* batch read, which Tx takes to be the current one, is never overwritten.  *)

LEMMA NoneOpen ==
  ASSUME TypeOK, lock = None
  PROVE  Tx = [b \in Batches |-> None]
BY RecordsAssumption DEF Tables, TypeOK, Tx

\* A step that is not about the lock, and that changes the collection or its
\* records only while the lock is free, leaves the transactions alone.
LEMMA TxUnchanged ==
  ASSUME TypeOK, TypeOK', UNCHANGED <<lock, view>>,
         lock = None \/ UNCHANGED <<col, rows>>
  PROVE  Tx' = Tx
<1>1. CASE lock = None
  BY <1>1, RecordsAssumption DEF TypeOK, Tx
<1>2. CASE UNCHANGED <<col, rows>>
  BY <1>2 DEF TypeOK, Tx, Sees
<1> QED BY <1>1, <1>2

LEMMA SingleMaps ==
  ASSUME Inv, TypeOK', NEW s \in Singles, Single(s)
  PROVE  \/ UNCHANGED Promise!vars
         \/ \E i \in Ids : Promise!Create(i) \/ Promise!Change(i)
<1> USE RecordsAssumption DEF Tables
<1>1. UNCHANGED <<col, lock, view>>
  BY DEF Single, Load, Fetch, Gate, Relations, Insert, Update, Delete, WriteFiles,
     RemoveFiles, End, store, files
<1>2. CASE Insert(s)
  <2>1. job[s].row \in Row
    BY <1>2 DEF Insert, At, Inv, JobReady, Ready
  <2>2. Tx' = Tx
    BY <1>1, <1>2, TxUnchanged DEF Insert, Inv
  <2>3. PICK i \in Ids \ made : rows' = [rows EXCEPT ![i] = job[s].row]
    BY <1>2 DEF Insert
  <2>4. rows[i] = None
    BY <2>3 DEF Inv, RowsMade, Live
  <2> QED BY <1>1, <2>1, <2>2, <2>3, <2>4 DEF Promise!Create, Promise!Row, Row
<1>3. CASE Update(s) \/ Delete(s)
  <2>1. Tx' = Tx
    BY <1>1, <1>3, TxUnchanged DEF Update, Delete, Inv
  <2>2. job[s].id \in Ids /\ job[s].row \in Row \cup {None}
    BY <1>3 DEF Update, Delete, At, Inv, TypeOK, Jobs, JobReady, Ready
  <2>3. CASE rows[job[s].id] = None
    <3>1. UNCHANGED rows
      BY <1>3, <2>3 DEF Update, Delete, Inv, TypeOK
    <3> QED BY <1>1, <2>1, <3>1 DEF Promise!vars
  <2>4. CASE rows[job[s].id] # None
    <3>1. \E new \in Row \cup {None} : rows' = [rows EXCEPT ![job[s].id] = new]
      BY <1>3, <2>2, <2>4 DEF Update, Delete
    <3> QED BY <1>1, <2>1, <2>2, <2>4, <3>1 DEF Promise!Change, Promise!Row, Row
  <2> QED BY <2>3, <2>4
<1>4. CASE ~(Insert(s) \/ Update(s) \/ Delete(s))
  <2>1. UNCHANGED rows
    BY <1>4 DEF Single, Load, Fetch, Gate, Relations, WriteFiles, RemoveFiles, End, store
  <2>2. Tx' = Tx
    BY <1>1, <2>1, TxUnchanged DEF Inv
  <2> QED BY <1>1, <2>1, <2>2 DEF Promise!vars
<1> QED BY <1>2, <1>3, <1>4

LEMMA BatchMaps ==
  ASSUME Inv, TypeOK', NEW b \in Batches, Batch(b)
  PROVE  Promise!Begin(b) \/ Promise!Extend(b) \/ Promise!Abort(b) \/ Promise!Commit(b)
<1> USE RecordsAssumption DEF Tables
<1>0. b \in Requests /\ Sees(b) \in Tables
  BY DEF Requests, Inv, TypeOK, Sees
<1>1. CASE Begin(b)
  <2>1. PICK who \in Callers : view' = [view EXCEPT ![b] = [who |-> who, rows |-> rows]]
    BY <1>1 DEF Begin
  <2>2. Tx = [c \in Batches |-> None]
    BY <1>1, NoneOpen DEF Begin, Inv
  <2>3. Tx' = [Tx EXCEPT ![b] =
                 [who |-> who, col |-> col, before |-> rows, after |-> rows]]
    <3>1. view'[b].who = who /\ view'[b].rows = rows /\ pc'[b] = "open"
      BY <1>0, <1>1, <2>1 DEF Begin, At, Inv, TypeOK
    <3>2. \A c \in Batches \ {b} : pc'[c] # "open"
      BY <1>1 DEF Begin, TypeOK
    <3>3. UNCHANGED <<col, rows>>
      BY <1>1 DEF Begin, store
    <3> QED BY <2>2, <3>1, <3>2, <3>3 DEF Tx, Sees
  <2> QED BY <1>1, <2>2, <2>3 DEF Begin, store, Promise!Begin
<1>2. CASE BatchCreate(b) \/ BatchUpdate(b) \/ BatchDelete(b)
  <2>1. pc[b] = "open" /\ col # None /\ UNCHANGED <<col, rows, pc>>
    BY <1>2 DEF BatchCreate, BatchUpdate, BatchDelete, store
  <2>2. Tx[b] = [who |-> view[b].who, col |-> col, before |-> rows, after |-> Sees(b)]
    BY <2>1 DEF Tx
  <2>3. PICK i \in Ids, new \in Row \cup {None} :
          Sets(b, i, new) /\ Promise!Step(Tx[b], i, new)
    BY <1>2, <2>1, <2>2 DEF BatchCreate, BatchUpdate, BatchDelete, Existing, Row, Lets,
       Promise!Step, Promise!Lets
  <2>4. /\ view'[b].who = view[b].who /\ view'[b].rows = [Sees(b) EXCEPT ![i] = new]
        /\ \A c \in Batches \ {b} : view'[c] = view[c]
    BY <2>3 DEF Sets, Sees, Inv, TypeOK
  <2>5. Tx'[b] = [who |-> view[b].who, col |-> col, before |-> rows,
                  after |-> [Sees(b) EXCEPT ![i] = new]]
    BY <2>1, <2>4 DEF Tx, Sees
  <2>6. Tx' = [Tx EXCEPT ![b].after = [@ EXCEPT ![i] = new]]
    <3>1. [Tx[b] EXCEPT !.after = [@ EXCEPT ![i] = new]] = Tx'[b]
      BY <2>2, <2>5
    <3>2. \A c \in Batches \ {b} : Tx'[c] = Tx[c]
      BY <2>1, <2>4 DEF Tx, Sees
    <3> QED BY <3>1, <3>2 DEF Tx
  <2>7. Tx[b] # None
    BY <1>0, <2>2 DEF Inv, TypeOK
  <2> QED BY <2>1, <2>3, <2>6, <2>7 DEF Promise!Extend, Promise!Row, Row
<1>3. CASE Rollback(b) \/ Commit(b)
  <2>1. pc[b] = "open" /\ lock' = None /\ UNCHANGED col
    BY <1>3 DEF Rollback, Commit, At, store
  <2>2. Tx' = [c \in Batches |-> None]
    BY <2>1 DEF TypeOK, Tx
  <2>3. Tx' = [Tx EXCEPT ![b] = None]
    <3>1. \A c \in Batches \ {b} : Tx[c] = None
      BY <2>1 DEF Inv, TypeOK, Tx
    <3> QED BY <2>2, <3>1 DEF Tx
  <2>4. CASE Rollback(b)
    BY <2>1, <2>3, <2>4 DEF Rollback, store, Promise!Abort
  <2>5. CASE Commit(b)
    <3>1. Tx[b] = [who |-> view[b].who, col |-> col, before |-> rows, after |-> Sees(b)]
      BY <2>1 DEF Tx
    <3>2. Tx[b] # None
      BY <1>0, <3>1 DEF Inv, TypeOK
    <3> QED BY <2>1, <2>3, <2>5, <3>1, <3>2 DEF Commit, Promise!Commit
  <2> QED BY <1>3, <2>4, <2>5
<1> QED BY <1>1, <1>2, <1>3 DEF Batch

LEMMA StepMaps ==
  ASSUME Inv, TypeOK', [Next]_vars
  PROVE  [Promise!Next]_(Promise!vars)
<1> USE RecordsAssumption DEF Tables
<1>1. ASSUME NEW e \in Editors, Edit(e) PROVE [Promise!Next]_(Promise!vars)
  <2>1. UNCHANGED <<lock, view>>
    BY <1>1 DEF Edit, DropCollection, DropRows, Sweep, Fails, store
  <2>2. Tx' = Tx
    BY <1>1, <2>1, TxUnchanged DEF Edit, DropCollection, DropRows, Sweep, Fails, store, Inv
  <2> QED BY <1>1, <2>2 DEF Edit, DropCollection, DropRows, Sweep, Fails, store, Absent,
          Promise!vars, Promise!Next, Promise!SetCollection, Promise!DropRows
<1>2. CASE CreateCollection \/ EditRule
  <2>1. Tx' = Tx
    BY <1>2, TxUnchanged DEF CreateCollection, EditRule, Inv
  <2> QED BY <1>2, <2>1 DEF CreateCollection, EditRule, Promise!Next, Promise!SetCollection
<1>3. CASE Crash
  <2>1. UNCHANGED <<col, rows>> /\ Tx' = [b \in Batches |-> None]
    BY <1>3 DEF Crash, store, TypeOK, Tx
  <2>2. CASE lock = None
    BY <2>1, <2>2, NoneOpen DEF Inv, Promise!vars
  <2>3. CASE lock # None
    <3>1. lock \in Batches /\ \A c \in Batches \ {lock} : Tx[c] = None
      BY <2>3 DEF Inv, TypeOK, Tx
    <3>2. Tx' = [Tx EXCEPT ![lock] = None]
      BY <2>1, <3>1 DEF Tx
    <3> QED BY <2>1, <3>1, <3>2 DEF Promise!Next, Promise!Abort
  <2> QED BY <2>2, <2>3
<1>4. CASE UNCHANGED vars
  BY <1>4, TxUnchanged DEF vars, Inv, Promise!vars
<1>5. ASSUME NEW s \in Singles, Single(s) PROVE [Promise!Next]_(Promise!vars)
  BY <1>5, SingleMaps DEF Promise!Next
<1>6. ASSUME NEW b \in Batches, Batch(b) PROVE [Promise!Next]_(Promise!vars)
  BY <1>6, BatchMaps DEF Promise!Next
<1> QED BY <1>1, <1>2, <1>3, <1>4, <1>5, <1>6 DEF Next

\* A batch takes effect at once on the state that its checks were made on, or
\* not at all, for any number of batches, single requests, collection edits
\* and crashes.
THEOREM BatchesAreAtomic == Spec => ImplementsStore
<1>1. Init => Promise!Init
  BY RecordsAssumption DEF Tables, Init, Absent, Tx, Requests, Promise!Init
<1>2. Safe /\ Safe' /\ [Next]_vars => [Promise!Next]_(Promise!vars)
  BY StepMaps DEF Safe, Inv
<1> QED BY <1>1, <1>2, AlwaysSafe, PTL DEF Spec, ImplementsStore, Promise!Spec
=============================================================================
