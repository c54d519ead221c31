------------------------------ MODULE Accounts ------------------------------
(***************************************************************************)
(* One auth collection of rockbase: signup, PATCH, DELETE, login, refresh  *)
(* and the two ticket flows (password reset, email verification), run by   *)
(* concurrent requests, one SQL statement per step.                        *)
(*                                                                         *)
(* Every handler but the two confirm handlers runs its statements in       *)
(* autocommit mode: each statement sees the rows committed when it starts. *)
(* The confirm handlers open a deferred transaction, which SQLite (WAL)    *)
(* gives a snapshot at its first read and the write lock at its first      *)
(* write, unless the snapshot is no longer the newest.  SQLite is not part *)
(* of src/src: wlock, view and stale model what the code relies on.        *)
(*                                                                         *)
(* Two reductions.  A checkout is part of the request's first statement    *)
(* and the drop part of its last; nothing between them and that statement  *)
(* touches shared state.  A call that is turned away by its first          *)
(* statement (401, 404, 400) changes nothing: Refused stands for them all. *)
(* The rules are the defaults of an auth collection (rules::defaults):     *)
(* public signup, update and delete by the record itself or the admin.     *)
(***************************************************************************)
EXTENDS Naturals, FiniteSets

CONSTANTS
  Requests,     \* the requests of a run, each making one call
  Users,        \* record ids that new_id can hand out
  Tickets,      \* ticket uuids that issue_token can hand out
  Emails,       \* addresses with an @
  Passwords,    \* passwords of at least 8 characters
  Short,        \* a password that the policy refuses
  NoEmail,      \* the email field set to null
  Keep,         \* the field is not in the PATCH body
  Admin,        \* the admin token, and who() resolving to Who::Admin
  Guest,        \* who() resolving to Who::Guest
  None,         \* no row, no ticket, no transaction
  PoolSize,     \* connections in the pool
  Ops,          \* the calls that the requests of a run make
  Patches,      \* the PATCH bodies they send
  SeedRows,     \* the rows, tickets and sessions at the start of the run,
  SeedTickets,  \* left there by earlier requests
  SeedSessions

OpNames == {"create", "update", "delete", "login", "refresh",
            "askReset", "askVerify", "reset", "verify"}

Account == [email : Emails \cup {NoEmail}, pw : Passwords,
            epoch : Nat, verified : BOOLEAN]

Ticket == [user : Users, type : {"reset", "verify"}]

\* Claims, with two history fields: the epoch at the login that began the
\* session, and the password which that login proved.
Session == [sub : Users, epoch : Nat, since : Nat, proved : Passwords]

Patch == [email : Emails \cup {NoEmail, Keep},
          pw : Passwords \cup {Short, Keep},
          old : Passwords \cup {Keep},
          revoke : BOOLEAN]

NoPatch == [email |-> Keep, pw |-> Keep, old |-> Keep, revoke |-> FALSE]

Job == [op : OpNames, user : Users, patch : Patch,
        ticket : Tickets \cup {None}, cred : Session \cup {None}]

ASSUME AccountsAssumption ==
  /\ IsFiniteSet(Requests)
  /\ PoolSize \in Nat \ {0}
  /\ Users \cap Tickets = {}
  /\ None \notin Account \cup Ticket \cup Job \cup Requests \cup Session
  /\ None \notin [rows : [Users -> Account \cup {None}],
                  tickets : [Tickets -> Ticket \cup {None}]]
  /\ Keep \notin Emails \cup Passwords \cup {Short, NoEmail}
  /\ Short \notin Passwords /\ NoEmail \notin Emails
  /\ Admin \notin Users \cup Session \cup {Guest} /\ Guest \notin Users
  /\ Ops \subseteq OpNames
  /\ Patches \subseteq Patch

ASSUME SeedAssumption ==
  /\ SeedRows \in [Users -> Account \cup {None}]
  /\ SeedTickets \in [Tickets -> Ticket \cup {None}]
  /\ SeedSessions \subseteq Session
  /\ \A s \in SeedSessions : SeedRows[s.sub] # None
  /\ \A t \in Tickets : SeedTickets[t] # None =>
       SeedRows[SeedTickets[t].user] # None

VARIABLES
  rows,       \* committed rows of the collection in records
  tickets,    \* committed rows of _tokens
  wlock,      \* the transaction that holds the WAL write lock
  newIds,     \* ids and uuids not handed out yet
  sessions,   \* the JWTs that clients have
  holding,    \* requests with a connection checked out
  pc,         \* the statement each request is at
  job,        \* the call it makes
  who,        \* the identity it resolved
  row,        \* the row that fetch_record returned to it
  view,       \* the database as its open transaction sees it
  stale,      \* transactions whose snapshot is not the newest any more
  spends      \* history: commits that spent each ticket

db == <<rows, tickets, wlock>>
locals == <<pc, job, who, row, view>>
vars == <<rows, tickets, wlock, newIds, sessions, holding,
          pc, job, who, row, view, stale, spends>>

Conn == INSTANCE Checkout WITH Clients <- Requests, Size <- PoolSize

Locs == {"new", "fetch", "gate", "check", "write", "insert", "confirm",
         "burn", "done"}

Init ==
  /\ rows = SeedRows
  /\ tickets = SeedTickets
  /\ wlock = None
  /\ newIds = {u \in Users : SeedRows[u] = None}
                \cup {t \in Tickets : SeedTickets[t] = None}
  /\ sessions = SeedSessions
  /\ Conn!Init
  /\ pc = [r \in Requests |-> "new"]
  /\ job = [r \in Requests |-> None]
  /\ who = [r \in Requests |-> Guest]
  /\ row = [r \in Requests |-> None]
  /\ view = [r \in Requests |-> None]
  /\ stale = {}
  /\ spends = [t \in Tickets |-> 0]

-----------------------------------------------------------------------------
(* Steps that the handlers share. *)

Call(op, u, p, t, c) ==
  [op |-> op, user |-> u, patch |-> p, ticket |-> t, cred |-> c]

\* The reply is sent, what the handler knew is gone, an open transaction ends.
Finish(r) ==
  /\ pc' = [pc EXCEPT ![r] = "done"]
  /\ job' = [job EXCEPT ![r] = None]
  /\ who' = [who EXCEPT ![r] = Guest]
  /\ row' = [row EXCEPT ![r] = None]
  /\ view' = [view EXCEPT ![r] = None]

\* A commit of r leaves every other open snapshot behind.
Committed(r) == stale' = (stale \cup {s \in Requests : view[s] # None}) \ {r}

\* Mutant: an early return that leaks the connection.
Abandon_Leaks(r) ==
  /\ Finish(r)
  /\ stale' = stale \ {r}
  /\ UNCHANGED <<rows, tickets, newIds, sessions, spends, holding>>

\* The end of a request that wrote nothing, connection included.
Abandon(r) ==
  /\ Conn!Give(r)
  /\ Finish(r)
  /\ stale' = stale \ {r}
  /\ UNCHANGED <<rows, tickets, newIds, sessions, spends>>

\* from_jwt: the row must exist and still be at the epoch of the token.
Resolve(c) ==
  IF c = Admin THEN Admin
  ELSE IF rows[c.sub] # None /\ rows[c.sub].epoch = c.epoch THEN c.sub
  ELSE Guest

\* Mutant: only verified records reserve their address.
EmailTaken_IfVerified(e, u) ==
  \E v \in Users \ {u} : rows[v] # None /\ rows[v].email = e /\ rows[v].verified

\* email_taken, among the committed rows.
EmailTaken(e, u) ==
  \E v \in Users \ {u} : rows[v] # None /\ rows[v].email = e

\* Mutant: a password change does not count as a revocation.
Merged_KeepsSessions(a, p) ==
  [email    |-> IF p.email = Keep THEN a.email ELSE p.email,
   pw       |-> IF p.pw = Keep THEN a.pw ELSE p.pw,
   epoch    |-> IF p.revoke THEN a.epoch + 1 ELSE a.epoch,
   verified |-> a.verified]

\* Mutant: the merge starts from the row without its server-owned fields.
Merged_StripsReserved(a, p) ==
  [email    |-> IF p.email = Keep THEN a.email ELSE p.email,
   pw       |-> IF p.pw = Keep THEN a.pw ELSE p.pw,
   epoch    |-> IF p.revoke \/ p.pw # Keep THEN a.epoch + 1 ELSE 0,
   verified |-> FALSE]

\* The merge at the end of update_core: the row it fetched, overlaid.
Merged(a, p) ==
  [email    |-> IF p.email = Keep THEN a.email ELSE p.email,
   pw       |-> IF p.pw = Keep THEN a.pw ELSE p.pw,
   epoch    |-> IF p.revoke \/ p.pw # Keep THEN a.epoch + 1 ELSE a.epoch,
   verified |-> a.verified]

\* A call that its first statement turns away.
Refused(r) ==
  /\ pc[r] = "new"
  /\ Conn!Free
  /\ Finish(r)
  /\ UNCHANGED <<db, newIds, sessions, holding, stale, spends>>

-----------------------------------------------------------------------------
(* PATCH and DELETE of a record: who, fetch_record, gate_record, checks of  *)
(* update_core, write.                                                      *)

\* A checkout of its own, for a bearer; its token may also have expired.
Identify(r, op) ==
  /\ op \in Ops
  /\ pc[r] = "new"
  /\ \E c \in sessions \cup {Admin}, u \in Users \ newIds,
        p \in IF op = "update" THEN Patches ELSE {NoPatch} :
       /\ c # Admin => Conn!Free
       /\ \E w \in IF c = Admin THEN {Admin} ELSE {Resolve(c), Guest} :
            who' = [who EXCEPT ![r] = w]
       /\ job' = [job EXCEPT ![r] = Call(op, u, p, None, None)]
  /\ pc' = [pc EXCEPT ![r] = "fetch"]
  /\ UNCHANGED <<db, newIds, sessions, holding, row, view, stale, spends>>

Fetch(r) ==
  /\ pc[r] = "fetch"
  /\ job[r].op \in {"update", "delete"}
  /\ rows[job[r].user] # None
  /\ Conn!Take(r)
  /\ row' = [row EXCEPT ![r] = rows[job[r].user]]
  /\ pc' = [pc EXCEPT ![r] = "gate"]
  /\ UNCHANGED <<db, newIds, sessions, job, who, view, stale, spends>>

\* 404, for a refresh as well ("race: deleted since who()").
FetchMissing(r) ==
  /\ pc[r] = "fetch"
  /\ rows[job[r].user] = None
  /\ Conn!Free
  /\ Finish(r)
  /\ UNCHANGED <<db, newIds, sessions, holding, stale, spends>>

\* gate_record with the rule id = @request.auth.id, a query of its own.
Allowed(r) ==
  who[r] = Admin \/ (who[r] = job[r].user /\ rows[job[r].user] # None)

Gate(r) ==
  /\ pc[r] = "gate"
  /\ Allowed(r)
  /\ pc' = [pc EXCEPT ![r] = IF job[r].op = "update" THEN "check" ELSE "write"]
  /\ UNCHANGED <<db, newIds, sessions, holding, job, who, row, view, stale,
                 spends>>

GateDenied(r) ==
  /\ pc[r] = "gate"
  /\ ~Allowed(r)
  /\ Abandon(r)
  /\ UNCHANGED wlock

\* Mutant: no password policy on PATCH.
PatchAccepted_NoPolicy(r) ==
  LET p == job[r].patch IN
  /\ p.email \in Emails => ~EmailTaken(p.email, job[r].user)
  /\ p.pw # Keep /\ who[r] # Admin => p.old = row[r].pw

\* What update_core asks of a body: a free address, the old password unless
\* the caller is an admin, a password that the policy accepts.  An email that
\* is not a string skips the first.
PatchAccepted(r) ==
  LET p == job[r].patch IN
  /\ p.email \in Emails => ~EmailTaken(p.email, job[r].user)
  /\ p.pw # Keep /\ who[r] # Admin => p.old = row[r].pw
  /\ p.pw # Short

Check(r) ==
  /\ pc[r] = "check"
  /\ PatchAccepted(r)
  /\ pc' = [pc EXCEPT ![r] = "write"]
  /\ UNCHANGED <<db, newIds, sessions, holding, job, who, row, view, stale,
                 spends>>

CheckRefused(r) ==
  /\ pc[r] = "check"
  /\ ~PatchAccepted(r)
  /\ Abandon(r)
  /\ UNCHANGED wlock

\* Mutant: INSERT OR REPLACE instead of UPDATE.
WriteUpdate_Upsert(r) ==
  /\ pc[r] = "write"
  /\ job[r].op = "update"
  /\ wlock = None
  /\ rows' = [rows EXCEPT ![job[r].user] = Merged(row[r], job[r].patch)]
  /\ Committed(r)
  /\ Conn!Give(r)
  /\ Finish(r)
  /\ UNCHANGED <<tickets, wlock, newIds, sessions, spends>>

\* The UPDATE writes the merge of the row fetched earlier.  No row, no effect.
WriteUpdate(r) ==
  /\ pc[r] = "write"
  /\ job[r].op = "update"
  /\ wlock = None
  /\ LET u == job[r].user IN
       IF rows[u] = None THEN stale' = stale \ {r} /\ UNCHANGED rows
       ELSE /\ rows' = [rows EXCEPT ![u] = Merged(row[r], job[r].patch)]
            /\ Committed(r)
  /\ Conn!Give(r)
  /\ Finish(r)
  /\ UNCHANGED <<tickets, wlock, newIds, sessions, spends>>

WriteDelete(r) ==
  /\ pc[r] = "write"
  /\ job[r].op = "delete"
  /\ wlock = None
  /\ LET u == job[r].user IN
       IF rows[u] = None THEN stale' = stale \ {r} /\ UNCHANGED rows
       ELSE rows' = [rows EXCEPT ![u] = None] /\ Committed(r)
  /\ Conn!Give(r)
  /\ Finish(r)
  /\ UNCHANGED <<tickets, wlock, newIds, sessions, spends>>

\* An autocommit write waits for the write lock at most busy_timeout, then
\* fails: a 500, or for a ticket the same {} as always.
Busy(r) ==
  /\ pc[r] \in {"write", "insert"}
  /\ wlock # None
  /\ Abandon(r)
  /\ UNCHANGED wlock

-----------------------------------------------------------------------------
(* Signup. *)

StartCreate(r) ==
  /\ "create" \in Ops
  /\ pc[r] = "new"
  /\ \E e \in Emails, p \in Passwords, u \in Users \cap newIds :
       /\ ~EmailTaken(e, u)
       /\ job' = [job EXCEPT ![r] =
                    Call("create", u, [NoPatch EXCEPT !.email = e, !.pw = p],
                         None, None)]
       /\ newIds' = newIds \ {u}
  /\ Conn!Take(r)
  /\ pc' = [pc EXCEPT ![r] = "insert"]
  /\ UNCHANGED <<db, sessions, who, row, view, stale, spends>>

InsertRow(r) ==
  /\ pc[r] = "insert"
  /\ job[r].op = "create"
  /\ wlock = None
  /\ rows' = [rows EXCEPT ![job[r].user] =
                [email |-> job[r].patch.email, pw |-> job[r].patch.pw,
                 epoch |-> 0, verified |-> FALSE]]
  /\ Committed(r)
  /\ Conn!Give(r)
  /\ Finish(r)
  /\ UNCHANGED <<tickets, wlock, newIds, sessions, spends>>

-----------------------------------------------------------------------------
(* Login and refresh. *)

\* One SELECT; two rows with the address would be a choice between them.
Login(r) ==
  /\ "login" \in Ops
  /\ pc[r] = "new"
  /\ Conn!Free
  /\ \E u \in Users :
       /\ rows[u] # None /\ rows[u].email \in Emails
       /\ sessions' = sessions \cup
            {[sub |-> u, epoch |-> rows[u].epoch,
              since |-> rows[u].epoch, proved |-> rows[u].pw]}
  /\ Finish(r)
  /\ UNCHANGED <<db, newIds, holding, stale, spends>>

\* auth_refresh resolves the token on a first checkout ...
StartRefresh(r) ==
  /\ "refresh" \in Ops
  /\ pc[r] = "new"
  /\ Conn!Free
  /\ \E c \in sessions :
       /\ Resolve(c) = c.sub
       /\ job' = [job EXCEPT ![r] = Call("refresh", c.sub, NoPatch, None, c)]
  /\ pc' = [pc EXCEPT ![r] = "fetch"]
  /\ UNCHANGED <<db, newIds, sessions, holding, who, row, view, stale, spends>>

\* ... and mints the new one from the row it reads on a second.
Refresh(r) ==
  /\ pc[r] = "fetch"
  /\ job[r].op = "refresh"
  /\ rows[job[r].user] # None
  /\ Conn!Free
  /\ sessions' = sessions \cup
       {[sub |-> job[r].user, epoch |-> rows[job[r].user].epoch,
         since |-> job[r].cred.since, proved |-> job[r].cred.proved]}
  /\ Finish(r)
  /\ UNCHANGED <<db, newIds, holding, stale, spends>>

-----------------------------------------------------------------------------
(* Tickets. *)

\* request_ticket: look the address up ...
StartAsk(r, op) ==
  /\ op \in Ops
  /\ pc[r] = "new"
  /\ \E u \in Users, t \in Tickets \cap newIds :
       /\ rows[u] # None /\ rows[u].email \in Emails
       /\ job' = [job EXCEPT ![r] = Call(op, u, NoPatch, t, None)]
       /\ newIds' = newIds \ {t}
  /\ Conn!Take(r)
  /\ pc' = [pc EXCEPT ![r] = "insert"]
  /\ UNCHANGED <<db, sessions, who, row, view, stale, spends>>

\* ... and insert the ticket, in a second statement.
InsertTicket(r) ==
  /\ pc[r] = "insert"
  /\ job[r].op \in {"askReset", "askVerify"}
  /\ wlock = None
  /\ tickets' = [tickets EXCEPT ![job[r].ticket] =
       [user |-> job[r].user,
        type |-> IF job[r].op = "askReset" THEN "reset" ELSE "verify"]]
  /\ Committed(r)
  /\ Conn!Give(r)
  /\ Finish(r)
  /\ UNCHANGED <<rows, wlock, newIds, sessions, spends>>

\* take_ticket is the first read of the transaction: the snapshot.
TakeTicket(r, type) ==
  /\ type \in Ops
  /\ pc[r] = "new"
  /\ \E t \in Tickets,
        p \in IF type = "reset" THEN Passwords \cup {Short} ELSE {Keep} :
       /\ tickets[t] # None /\ tickets[t].type = type
       /\ job' = [job EXCEPT ![r] =
                    Call(type, tickets[t].user, [NoPatch EXCEPT !.pw = p],
                         t, None)]
  /\ Conn!Take(r)
  /\ view' = [view EXCEPT ![r] = [rows |-> rows, tickets |-> tickets]]
  /\ pc' = [pc EXCEPT ![r] = "confirm"]
  /\ UNCHANGED <<db, newIds, sessions, who, row, stale, spends>>

\* What the change makes of a row.  A verification that finds no row updates
\* none and goes on.
Effect(j, a) ==
  IF j.op = "reset" THEN Merged(a, j.patch)
  ELSE IF a = None THEN None
  ELSE [a EXCEPT !.verified = TRUE]

Changed(r) == Effect(job[r], view[r].rows[job[r].user])

\* update_core as admin inside the transaction: 404 and the password policy.
ChangeAccepted(r) ==
  job[r].op = "reset" =>
    view[r].rows[job[r].user] # None /\ job[r].patch.pw # Short

\* The first write of a deferred transaction must upgrade it.
CanUpgrade(r) == wlock = None /\ r \notin stale

\* Mutant: the ticket is looked up before the transaction begins, which then
\* starts on the database as it is by now.
ConfirmWrite_TakenOutside(r) ==
  /\ pc[r] = "confirm"
  /\ ChangeAccepted(r)
  /\ wlock = None
  /\ wlock' = r
  /\ view' = [view EXCEPT ![r] =
       [rows |-> [rows EXCEPT ![job[r].user] = Changed(r)], tickets |-> tickets]]
  /\ pc' = [pc EXCEPT ![r] = "burn"]
  /\ UNCHANGED <<rows, tickets, newIds, sessions, holding, job, who, row,
                 stale, spends>>

ConfirmWrite(r) ==
  /\ pc[r] = "confirm"
  /\ ChangeAccepted(r)
  /\ CanUpgrade(r)
  /\ wlock' = r
  /\ view' = [view EXCEPT ![r].rows[job[r].user] = Changed(r)]
  /\ pc' = [pc EXCEPT ![r] = "burn"]
  /\ UNCHANGED <<rows, tickets, newIds, sessions, holding, job, who, row,
                 stale, spends>>

\* Mutant: the ticket is gone even if the change was refused.
ConfirmFails_Burns(r) ==
  /\ pc[r] = "confirm"
  /\ ~ChangeAccepted(r) \/ ~CanUpgrade(r)
  /\ tickets' = [tickets EXCEPT ![job[r].ticket] = None]
  /\ Conn!Give(r)
  /\ Finish(r)
  /\ stale' = stale \ {r}
  /\ UNCHANGED <<rows, wlock, newIds, sessions, spends>>

\* An upgrade that cannot be had fails at once (SQLITE_BUSY, _SNAPSHOT): 500.
ConfirmFails(r) ==
  /\ pc[r] = "confirm"
  /\ ~ChangeAccepted(r) \/ ~CanUpgrade(r)
  /\ Abandon(r)
  /\ UNCHANGED wlock

\* The DELETE or the COMMIT fails, which rolls the change back.
BurnFails(r) ==
  /\ pc[r] = "burn"
  /\ wlock' = None
  /\ Abandon(r)

\* DELETE FROM _tokens and COMMIT: the transaction's database is the database.
Burn(r) ==
  /\ pc[r] = "burn"
  /\ rows' = view[r].rows
  /\ tickets' = [view[r].tickets EXCEPT ![job[r].ticket] = None]
  /\ wlock' = None
  /\ spends' = [spends EXCEPT ![job[r].ticket] = @ + 1]
  /\ Committed(r)
  /\ Conn!Give(r)
  /\ Finish(r)
  /\ UNCHANGED <<newIds, sessions>>

-----------------------------------------------------------------------------
\* The process dies: requests under way get no reply, their transactions roll
\* back, the file keeps what was committed and clients keep their tokens.
Crash ==
  /\ pc' = [r \in Requests |-> IF pc[r] = "new" THEN "new" ELSE "done"]
  /\ job' = [r \in Requests |-> None]
  /\ who' = [r \in Requests |-> Guest]
  /\ row' = [r \in Requests |-> None]
  /\ view' = [r \in Requests |-> None]
  /\ stale' = {} /\ wlock' = None /\ holding' = {}
  /\ UNCHANGED <<rows, tickets, newIds, sessions, spends>>

Start(r) ==
  \/ Identify(r, "update") \/ Identify(r, "delete")
  \/ StartCreate(r) \/ Login(r) \/ StartRefresh(r)
  \/ StartAsk(r, "askReset") \/ StartAsk(r, "askVerify")
  \/ TakeTicket(r, "reset") \/ TakeTicket(r, "verify")
  \/ Refused(r)

Serve(r) ==
  \/ Fetch(r) \/ FetchMissing(r) \/ Gate(r) \/ GateDenied(r)
  \/ Check(r) \/ CheckRefused(r) \/ WriteUpdate(r) \/ WriteDelete(r)
  \/ InsertRow(r) \/ Refresh(r) \/ InsertTicket(r) \/ Busy(r)
  \/ ConfirmWrite(r) \/ ConfirmFails(r) \/ BurnFails(r) \/ Burn(r)

Next == (\E r \in Requests : Start(r) \/ Serve(r)) \/ Crash

\* Every request that runs is scheduled; none has to arrive, and no crash.
Fairness == \A r \in Requests : WF_vars(Serve(r))

Spec == Init /\ [][Next]_vars /\ Fairness

-----------------------------------------------------------------------------
Database == [rows : [Users -> Account \cup {None}],
             tickets : [Tickets -> Ticket \cup {None}]]

TypeOK ==
  /\ rows \in [Users -> Account \cup {None}]
  /\ tickets \in [Tickets -> Ticket \cup {None}]
  /\ wlock \in Requests \cup {None}
  /\ newIds \subseteq Users \cup Tickets
  /\ sessions \subseteq Session
  /\ holding \subseteq Requests
  /\ pc \in [Requests -> Locs]
  /\ job \in [Requests -> Job \cup {None}]
  /\ who \in [Requests -> Users \cup {Admin, Guest}]
  /\ row \in [Requests -> Account \cup {None}]
  /\ view \in [Requests -> Database \cup {None}]
  /\ stale \subseteq Requests
  /\ spends \in [Tickets -> Nat]

\* A ticket authorises one change: however many requests present it at the
\* same time, with crashes and busy errors in between, one commit spends it,
\* and it is spendable until then ("single use is the entire point", auth.rs).
TicketSpentOnce ==
  \A t \in Tickets :
    /\ spends[t] <= 1
    /\ spends[t] = 1 => tickets[t] = None

\* The row of a ticket goes in the same commit as the change it authorises,
\* and that commit undoes nothing another request committed meanwhile: beside
\* the password and the epoch (or verified) of that record, all is as it was.
SpendingIsAtomic ==
  [][\A t \in Tickets : tickets[t] # None /\ tickets'[t] = None =>
       LET u == tickets[t].user IN
       /\ \A v \in Users \ {u} : rows'[v] = rows[v]
       /\ \A s \in Tickets \ {t} : tickets'[s] = tickets[s]
       /\ IF tickets[t].type = "reset"
          THEN /\ rows[u] # None /\ rows'[u] # None
               /\ rows'[u].email = rows[u].email
               /\ rows'[u].verified = rows[u].verified
               /\ rows'[u].epoch = rows[u].epoch + 1
               /\ \E r \in Requests :
                    /\ pc[r] = "burn" /\ job[r].ticket = t
                    /\ rows'[u].pw = job[r].patch.pw
          ELSE IF rows[u] = None THEN rows'[u] = None
          ELSE rows'[u] = [rows[u] EXCEPT !.verified = TRUE]]_vars

\* A record that is not there appears by a signup and in no other way: neither
\* a PATCH that races a DELETE nor a transaction on an old snapshot revives it.
OnlySignupAddsRows ==
  [][\A u \in Users : rows[u] = None /\ rows'[u] # None =>
       \E r \in Requests : pc[r] = "insert" /\ job[r].user = u]_vars

\* No call gets stuck between the pool, the write lock and its snapshot.
AllAnswered ==
  \A r \in Requests : pc[r] # "new" ~> pc[r] = "done"

\* "enforce uniqueness of email within the collection" (README.md).
EmailUnique ==
  \A u, v \in Users :
    /\ rows[u] # None /\ rows[v] # None
    /\ rows[u].email = rows[v].email /\ rows[u].email \in Emails
    => u = v

\* The epoch of a record never goes back, so that a token once refused by
\* from_jwt stays refused: what "logs out every outstanding session" needs.
EpochNeverBack ==
  [][\A u \in Users : rows[u] # None /\ rows'[u] # None =>
       rows'[u].epoch >= rows[u].epoch]_vars

\* auth_refresh reads the epoch on a connection of its own: a session that was
\* being refreshed during a revocation has an epoch it did not begin at.
Overtaken(s) == s.since < s.epoch

\* Who acts with a session that is accepted now once proved the password the
\* account has now: rotating it ends the sessions of whoever knew the old one,
\* and all that were refreshed from them, but for the ones a revocation overtook
\* in auth_refresh (NoSessionOutlivesRevocation fails for those).
SessionProvesPassword ==
  \A s \in sessions :
    Resolve(s) = s.sub => s.proved = rows[s.sub].pw \/ Overtaken(s)

\* An accepted session began no earlier than the last revocation.
NoSessionOutlivesRevocation ==
  \A s \in sessions :
    Resolve(s) = s.sub => s.since = rows[s.sub].epoch

\* verified changes in a commit that spends a verification ticket of that
\* record, never by a PATCH that writes back what it read before.
VerifiedOnlyByTicket ==
  [][\A u \in Users :
       /\ rows[u] # None /\ rows'[u] # None
       /\ rows'[u].verified # rows[u].verified
       => \E t \in Tickets :
            /\ tickets[t] = [user |-> u, type |-> "verify"]
            /\ tickets'[t] = None]_vars
=============================================================================
