-------------------------- MODULE AccountsInvariant --------------------------
(***************************************************************************)
(* The inductive invariant behind the theorems of AccountsProofs: what a   *)
(* request knows at each statement, what a transaction sees, and where a   *)
(* ticket is in its life.                                                  *)
(***************************************************************************)
EXTENDS Accounts

Asks == {"askReset", "askVerify"}
Confirms == {"reset", "verify"}

\* The call and the row that request r carries at each of its statements.
KnowsEnough(r) ==
  LET j == job[r] IN
  /\ pc[r] \notin {"new", "done"} => j \in Job
  /\ pc[r] = "fetch" =>
       /\ j.op \in {"update", "delete", "refresh"}
       /\ j.op = "refresh" => j.cred \in Session
  /\ pc[r] \in {"gate", "check", "write"} =>
       j.op \in {"update", "delete"} /\ row[r] \in Account
  /\ pc[r] = "check" => j.op = "update"
  /\ pc[r] = "write" /\ j.op = "update" => j.patch.pw # Short
  /\ pc[r] = "insert" =>
       \/ j.op = "create" /\ j.patch.email \in Emails /\ j.patch.pw \in Passwords
       \/ j.op \in Asks /\ j.ticket \in Tickets
  /\ pc[r] \in {"confirm", "burn"} =>
       /\ j.op \in Confirms /\ j.ticket \in Tickets /\ view[r] \in Database
       /\ j.patch.email = Keep /\ ~j.patch.revoke
       /\ j.op = "reset" => j.patch.pw # Keep
       /\ view[r].tickets[j.ticket] = [user |-> j.user, type |-> j.op]

\* An open transaction whose snapshot is the newest sees the database, and with
\* its own write if it holds the write lock.
SeesTheNewest(r) ==
  LET j == job[r] IN
  /\ view[r] # None <=> pc[r] \in {"confirm", "burn"}
  /\ wlock = r <=> pc[r] = "burn"
  /\ pc[r] = "burn" => r \notin stale
  /\ pc[r] = "confirm" /\ r \notin stale =>
       view[r] = [rows |-> rows, tickets |-> tickets]
  /\ pc[r] = "burn" =>
       /\ view[r].tickets = tickets
       /\ view[r].rows = [rows EXCEPT ![j.user] = Effect(j, rows[j.user])]
       /\ j.op = "reset" => rows[j.user] # None /\ j.patch.pw # Short

\* A uuid is handed out, inserted as a ticket, spent once, and gone.
LifeOfTicket(t) ==
  /\ spends[t] \in {0, 1}
  /\ tickets[t] # None => spends[t] = 0
  /\ t \in newIds => tickets[t] = None /\ spends[t] = 0

Inserting(r) == pc[r] = "insert" /\ job[r].op \in Asks

TicketToInsert(r) ==
  Inserting(r) =>
    /\ job[r].ticket \notin newIds
    /\ tickets[job[r].ticket] = None /\ spends[job[r].ticket] = 0
    /\ \A s \in Requests :
         Inserting(s) /\ job[s].ticket = job[r].ticket => s = r

AccountsInv ==
  /\ TypeOK
  /\ \A r \in Requests : KnowsEnough(r) /\ SeesTheNewest(r) /\ TicketToInsert(r)
  /\ \A t \in Tickets : LifeOfTicket(t)

-----------------------------------------------------------------------------
(* Where a connection is, for any size of the pool: a request has one from  *)
(* its checkout to its reply.                                               *)

Holding == {"gate", "check", "write", "insert", "confirm", "burn"}

HoldersInv ==
  /\ holding = {r \in Requests : pc[r] \in Holding}
  /\ Cardinality(holding) <= PoolSize

-----------------------------------------------------------------------------
(* With one connection, as Pool::open gives to ":memory:", a request is    *)
(* alone from its checkout to its reply: what it has read is what it writes *)
(* over.                                                                    *)

\* What the file must be like when the process starts.
EmailsDiffer(db0) ==
  \A u, v \in Users :
    /\ db0[u] # None /\ db0[v] # None
    /\ db0[u].email = db0[v].email /\ db0[u].email \in Emails
    => u = v

\* A session is no newer than its record, and one that began after the last
\* revocation proved the password that the record has.
SessionFits(s, db0) ==
  /\ s.since <= s.epoch
  /\ db0[s.sub] # None =>
       /\ s.epoch <= db0[s.sub].epoch
       /\ s.since = db0[s.sub].epoch => s.proved = db0[s.sub].pw

CleanStart ==
  EmailsDiffer(SeedRows) /\ \A s \in SeedSessions : SessionFits(s, SeedRows)

\* What a request knows of the rows while it is alone with them.
KnowsTheRow(r) ==
  LET j == job[r] IN
  /\ pc[r] \in {"gate", "check", "write"} => row[r] = rows[j.user]
  /\ pc[r] \in {"write", "insert"} /\ j.op \in {"update", "create"}
       /\ j.patch.email \in Emails => ~EmailTaken(j.patch.email, j.user)

\* An id that is handed out, or about to be, belongs to nobody yet.
Unborn(u) == rows[u] = None /\ \A s \in sessions : s.sub # u

BornOnce(r) ==
  pc[r] = "insert" /\ job[r].op = "create" =>
    job[r].user \notin newIds /\ Unborn(job[r].user)

\* A refresh mints from a session that a client has.
RefreshesASession(r) ==
  pc[r] = "fetch" /\ job[r].op = "refresh" =>
    job[r].cred \in sessions /\ job[r].cred.sub = job[r].user

SerialInv ==
  /\ HoldersInv
  /\ EmailUnique
  /\ \A s \in sessions : SessionFits(s, rows)
  /\ \A u \in Users \cap newIds : Unborn(u)
  /\ \A r \in Requests : KnowsTheRow(r) /\ BornOnce(r) /\ RefreshesASession(r)
=============================================================================
