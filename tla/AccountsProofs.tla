--------------------------- MODULE AccountsProofs ---------------------------
(***************************************************************************)
(* Proofs about Accounts for any number of requests, records, tickets and  *)
(* sessions.  First for any pool: AccountsInv is inductive; its proof      *)
(* groups the actions by what they do to the rest of the system: those     *)
(* that end a request without writing, those that move one request on,     *)
(* those that commit.  Then for one connection: a request that has it is   *)
(* alone with the rows until its reply, so that what it read is what it    *)
(* writes over (SerialInv).  Each promise of the second part is broken by  *)
(* a run with two connections, or by a refresh, which gives the connection *)
(* back.                                                                   *)
(***************************************************************************)
EXTENDS AccountsInvariant, FiniteSetTheorems, TLAPS

\* The assumptions, in the form that the steps below cite.
LEMMA Distinct ==
  /\ None \notin Account /\ None \notin Ticket /\ None \notin Job
  /\ None \notin Requests /\ None \notin Session /\ None \notin Database
  /\ Keep \notin Emails /\ Keep \notin Passwords
  /\ Keep # Short /\ Keep # NoEmail /\ NoEmail \notin Emails
  /\ Short \notin Passwords
BY AccountsAssumption DEF Database

LEMMA NoPatchTyped ==
  /\ NoPatch \in Patch
  /\ NoPatch.email = Keep /\ NoPatch.pw = Keep /\ ~NoPatch.revoke
BY DEF NoPatch, Patch

\* update_core writes a well-typed row if the body passed the policy.
LEMMA MergedTyped ==
  ASSUME NEW a \in Account, NEW p \in Patch, p.pw # Short
  PROVE  Merged(a, p) \in Account
BY DEF Account, Patch, Merged

\* A reset with an accepted password sets the password and bumps the epoch.
LEMMA ResetEffect ==
  ASSUME NEW a \in Account, NEW p \in Patch,
         p.pw # Short, p.pw # Keep, p.email = Keep, ~p.revoke
  PROVE  LET b == Merged(a, p) IN
         /\ b \in Account /\ b.pw = p.pw /\ b.epoch = a.epoch + 1
         /\ b.email = a.email /\ b.verified = a.verified
BY MergedTyped DEF Merged

LEMMA EffectTyped ==
  ASSUME NEW j \in Job, NEW a \in Account \cup {None},
         j.op = "reset" => a # None /\ j.patch.pw # Short
  PROVE  Effect(j, a) \in Account \cup {None}
<1>1. CASE j.op = "reset"
  BY <1>1, MergedTyped DEF Effect, Job
<1>2. CASE j.op # "reset"
  BY <1>2 DEF Effect, Account
<1> QED BY <1>1, <1>2

-----------------------------------------------------------------------------
\* What a step of r leaves alone: the locals of every other request.
OthersKeep(r) ==
  /\ pc' \in [Requests -> Locs]
  /\ job' \in [Requests -> Job \cup {None}]
  /\ who' \in [Requests -> Users \cup {Admin, Guest}]
  /\ row' \in [Requests -> Account \cup {None}]
  /\ view' \in [Requests -> Database \cup {None}]
  /\ \A s \in Requests \ {r} :
       /\ pc'[s] = pc[s] /\ job'[s] = job[s] /\ row'[s] = row[s]
       /\ view'[s] = view[s]

LEMMA FinishKeeps ==
  ASSUME TypeOK, NEW r \in Requests, Finish(r)
  PROVE  /\ OthersKeep(r)
         /\ pc'[r] = "done" /\ job'[r] = None /\ view'[r] = None
BY DEF TypeOK, Finish, OthersKeep, Locs

LEMMA OthersKnow ==
  ASSUME NEW r \in Requests, OthersKeep(r),
         NEW s \in Requests \ {r}, KnowsEnough(s)
  PROVE  KnowsEnough(s)'
BY DEF OthersKeep, KnowsEnough

\* A finished request carries nothing.
LEMMA DoneKnows ==
  ASSUME NEW r \in Requests, pc'[r] = "done"
  PROVE  KnowsEnough(r)' /\ TicketToInsert(r)'
BY DEF KnowsEnough, TicketToInsert, Inserting

-----------------------------------------------------------------------------
(* The end of a request that did not write: replies, refusals, rollbacks.   *)

Ends(r) ==
  /\ Finish(r)
  /\ wlock' = IF wlock = r THEN None ELSE wlock
  /\ UNCHANGED <<rows, tickets, newIds, spends>>
  /\ stale' \subseteq Requests /\ stale \subseteq stale' \cup {r}
  /\ stale' \subseteq stale
  /\ holding' \subseteq Requests
  /\ sessions' \subseteq Session

LEMMA EndsInv ==
  ASSUME AccountsInv, NEW r \in Requests, Ends(r)
  PROVE  AccountsInv'
<1> USE DEF AccountsInv
<1>1. /\ OthersKeep(r)
      /\ pc'[r] = "done" /\ job'[r] = None /\ view'[r] = None
  BY FinishKeeps DEF Ends
<1>2. TypeOK'
  BY <1>1 DEF Ends, TypeOK, OthersKeep
<1>3. ASSUME NEW s \in Requests PROVE KnowsEnough(s)'
  BY <1>1, <1>3, OthersKnow, DoneKnows
<1>4. ASSUME NEW s \in Requests PROVE SeesTheNewest(s)'
  <2>1. CASE s = r
    BY <1>1, <2>1, Distinct DEF SeesTheNewest, Ends
  <2>2. CASE s # r
    <3>1. (s \in stale' <=> s \in stale) /\ (wlock' = s <=> wlock = s)
      BY <2>2, Distinct DEF Ends
    <3> QED BY <1>1, <2>2, <3>1, SMTT(30) DEF SeesTheNewest, Ends, OthersKeep
  <2> QED BY <2>1, <2>2
<1>5. ASSUME NEW s \in Requests PROVE TicketToInsert(s)'
  BY <1>1 DEF TicketToInsert, Inserting, Ends, OthersKeep
<1>6. ASSUME NEW t \in Tickets PROVE LifeOfTicket(t)'
  BY DEF LifeOfTicket, Ends
<1> QED BY <1>2, <1>3, <1>4, <1>5, <1>6

-----------------------------------------------------------------------------
(* A step that moves one request on and writes nothing: a read, a checkout, *)
(* an id handed out.                                                        *)

Moves(r) ==
  /\ UNCHANGED <<rows, tickets, wlock, stale, spends, sessions>>
  /\ OthersKeep(r)
  /\ pc[r] # "burn" /\ pc'[r] # "burn"
  /\ newIds' \subseteq newIds
  /\ holding' \subseteq Requests

LEMMA MovesInv ==
  ASSUME AccountsInv, NEW r \in Requests, Moves(r),
         KnowsEnough(r)', SeesTheNewest(r)', TicketToInsert(r)'
  PROVE  AccountsInv'
<1> USE DEF AccountsInv
<1>2. TypeOK'
  BY DEF Moves, TypeOK, OthersKeep
<1>3. ASSUME NEW s \in Requests PROVE KnowsEnough(s)'
  BY <1>3, OthersKnow DEF Moves
<1>4. ASSUME NEW s \in Requests PROVE SeesTheNewest(s)'
  <2>1. CASE s # r
    BY <2>1 DEF SeesTheNewest, Moves, OthersKeep
  <2> QED BY <2>1
<1>5. ASSUME NEW s \in Requests PROVE TicketToInsert(s)'
  <2>1. CASE s # r
    <3>1. ASSUME Inserting(s)', NEW q \in Requests, Inserting(q)',
                 job'[q].ticket = job'[s].ticket
          PROVE  q = s
      BY <2>1, <3>1 DEF TicketToInsert, Inserting, Moves, OthersKeep
    <3> QED BY <2>1, <3>1 DEF TicketToInsert, Inserting, Moves, OthersKeep
  <2> QED BY <2>1
<1>6. ASSUME NEW t \in Tickets PROVE LifeOfTicket(t)'
  BY DEF LifeOfTicket, Moves
<1> QED BY <1>2, <1>3, <1>4, <1>5, <1>6

-----------------------------------------------------------------------------
(* The actions of each group. *)

LEMMA Refusals ==
  ASSUME AccountsInv, NEW r \in Requests,
         \/ Refused(r) \/ FetchMissing(r) \/ GateDenied(r) \/ CheckRefused(r)
         \/ Busy(r) \/ ConfirmFails(r) \/ BurnFails(r)
  PROVE  Ends(r)
<1> USE DEF AccountsInv, TypeOK, Ends
<1>0. wlock = r <=> pc[r] = "burn"
  BY DEF SeesTheNewest
<1>1. CASE Refused(r)
  BY <1>0, <1>1 DEF Refused, db
<1>2. CASE FetchMissing(r)
  BY <1>0, <1>2 DEF FetchMissing, db
<1>3. CASE GateDenied(r)
  BY <1>0, <1>3 DEF GateDenied, Abandon, Conn!Give
<1>4. CASE CheckRefused(r)
  BY <1>0, <1>4 DEF CheckRefused, Abandon, Conn!Give
<1>5. CASE Busy(r)
  BY <1>0, <1>5 DEF Busy, Abandon, Conn!Give
<1>6. CASE ConfirmFails(r)
  BY <1>0, <1>6 DEF ConfirmFails, Abandon, Conn!Give
<1>7. CASE BurnFails(r)
  BY <1>0, <1>7 DEF BurnFails, Abandon, Conn!Give
<1> QED BY <1>1, <1>2, <1>3, <1>4, <1>5, <1>6, <1>7

LEMMA TokensMinted ==
  ASSUME AccountsInv, NEW r \in Requests, Login(r) \/ Refresh(r)
  PROVE  Ends(r)
<1> USE DEF AccountsInv, TypeOK, Ends
<1>0. wlock = r <=> pc[r] = "burn"
  BY DEF SeesTheNewest
<1>1. CASE Login(r)
  <2>1. PICK u \in Users :
          /\ rows[u] # None
          /\ sessions' = sessions \cup
               {[sub |-> u, epoch |-> rows[u].epoch,
                 since |-> rows[u].epoch, proved |-> rows[u].pw]}
    BY <1>1 DEF Login
  <2>2. rows[u] \in Account
    BY <2>1
  <2>3. sessions' \subseteq Session
    BY <2>1, <2>2 DEF Account, Session
  <2> QED BY <1>0, <1>1, <2>3 DEF Login, db
<1>2. CASE Refresh(r)
  <2>1. job[r] \in Job /\ job[r].cred \in Session
    BY <1>2 DEF Refresh, KnowsEnough
  <2>2. rows[job[r].user] \in Account /\ job[r].user \in Users
    BY <1>2, <2>1 DEF Refresh, Job
  <2>3. [sub |-> job[r].user, epoch |-> rows[job[r].user].epoch,
         since |-> job[r].cred.since, proved |-> job[r].cred.proved] \in Session
    BY <2>1, <2>2 DEF Account, Session
  <2>4. sessions' \subseteq Session
    BY <1>2, <2>3 DEF Refresh
  <2> QED BY <1>0, <1>2, <2>4 DEF Refresh, db
<1> QED BY <1>1, <1>2

LEMMA IdentifyInv ==
  ASSUME AccountsInv, NEW r \in Requests, NEW op \in {"update", "delete"},
         Identify(r, op)
  PROVE  AccountsInv'
<1> USE DEF AccountsInv, TypeOK
<1>1. PICK c \in sessions \cup {Admin}, u \in Users,
           p \in IF op = "update" THEN Patches ELSE {NoPatch} :
        /\ \E w \in IF c = Admin THEN {Admin} ELSE {Resolve(c), Guest} :
             who' = [who EXCEPT ![r] = w]
        /\ job' = [job EXCEPT ![r] = Call(op, u, p, None, None)]
  BY DEF Identify
<1>2. p \in Patch /\ op \in OpNames
  BY <1>1, NoPatchTyped, AccountsAssumption DEF OpNames
<1>3. /\ Call(op, u, p, None, None) \in Job
      /\ Call(op, u, p, None, None).op = op
  BY <1>2 DEF Call, Job
<1>4. who' \in [Requests -> Users \cup {Admin, Guest}]
  <2>1. c # Admin => Resolve(c) \in Users \cup {Guest}
    BY <1>1 DEF Resolve, Session
  <2> QED BY <1>1, <2>1
<1>5. pc' = [pc EXCEPT ![r] = "fetch"] /\ pc[r] = "new"
  BY DEF Identify
<1>6. Moves(r)
  BY <1>1, <1>3, <1>4, <1>5 DEF Identify, Moves, OthersKeep, Locs, db
<1>7. KnowsEnough(r)'
  BY <1>1, <1>3, <1>5 DEF KnowsEnough, Identify
<1>8. SeesTheNewest(r)' /\ TicketToInsert(r)'
  BY <1>5 DEF SeesTheNewest, TicketToInsert, Inserting, Identify, db
<1> QED BY <1>6, <1>7, <1>8, MovesInv

LEMMA ReadsInv ==
  ASSUME AccountsInv, NEW r \in Requests,
         Fetch(r) \/ Gate(r) \/ Check(r)
  PROVE  AccountsInv'
<1> USE DEF AccountsInv, TypeOK
<1>1. CASE Fetch(r)
  <2>1. job[r] \in Job /\ rows[job[r].user] \in Account
    BY <1>1 DEF Fetch, KnowsEnough, Job
  <2>2. Moves(r)
    BY <1>1, <2>1 DEF Fetch, Moves, OthersKeep, Locs, db, Conn!Take
  <2>3. KnowsEnough(r)' /\ SeesTheNewest(r)' /\ TicketToInsert(r)'
    BY <1>1, <2>1
       DEF Fetch, KnowsEnough, SeesTheNewest, TicketToInsert, Inserting, db
  <2> QED BY <2>2, <2>3, MovesInv
<1>2. CASE Gate(r)
  <2>1. Moves(r)
    BY <1>2 DEF Gate, Moves, OthersKeep, Locs, db
  <2>3. KnowsEnough(r)' /\ SeesTheNewest(r)' /\ TicketToInsert(r)'
    BY <1>2
       DEF Gate, KnowsEnough, SeesTheNewest, TicketToInsert, Inserting, db
  <2> QED BY <2>1, <2>3, MovesInv
<1>3. CASE Check(r)
  <2>1. Moves(r)
    BY <1>3 DEF Check, Moves, OthersKeep, Locs, db
  <2>2. KnowsEnough(r)' /\ SeesTheNewest(r)' /\ TicketToInsert(r)'
    BY <1>3 DEF Check, PatchAccepted, KnowsEnough, SeesTheNewest,
                TicketToInsert, Inserting, db
  <2> QED BY <2>1, <2>2, MovesInv
<1> QED BY <1>1, <1>2, <1>3

LEMMA StartsInv ==
  ASSUME AccountsInv, NEW r \in Requests,
         StartCreate(r) \/ StartRefresh(r)
  PROVE  AccountsInv'
<1> USE NoPatchTyped DEF AccountsInv, TypeOK
<1>1. CASE StartCreate(r)
  <2>1. PICK e \in Emails, p \in Passwords, u \in Users :
          /\ job' = [job EXCEPT ![r] =
               Call("create", u, [NoPatch EXCEPT !.email = e, !.pw = p],
                    None, None)]
          /\ newIds' = newIds \ {u}
    BY <1>1 DEF StartCreate
  <2> DEFINE b == [NoPatch EXCEPT !.email = e, !.pw = p]
  <2>2. b \in Patch /\ b.email = e /\ b.pw = p
    BY DEF NoPatch, Patch
  <2> HIDE DEF b
  <2>3. /\ Call("create", u, b, None, None) \in Job
        /\ Call("create", u, b, None, None).op = "create"
        /\ Call("create", u, b, None, None).patch = b
    BY <2>2 DEF Call, Job, OpNames
  <2>4. job' = [job EXCEPT ![r] = Call("create", u, b, None, None)]
    BY <2>1 DEF b
  <2> HIDE DEF Call
  <2>5. Moves(r)
    <3>1. pc[r] = "new" /\ pc' = [pc EXCEPT ![r] = "insert"]
      BY <1>1 DEF StartCreate
    <3>2. UNCHANGED <<rows, tickets, wlock, stale, spends, sessions>>
      BY <1>1 DEF StartCreate, db
    <3>3. UNCHANGED <<who, row, view>>
      BY <1>1 DEF StartCreate
    <3>4. holding' = holding \cup {r}
      BY <1>1 DEF StartCreate, Conn!Take
    <3>5. job' \in [Requests -> Job \cup {None}]
      BY <2>3, <2>4
    <3>6. pc' \in [Requests -> Locs]
      BY <3>1 DEF Locs
    <3>7. \A s \in Requests \ {r} : pc'[s] = pc[s] /\ job'[s] = job[s]
      BY <2>4, <3>1
    <3>8. OthersKeep(r)
      BY <3>3, <3>5, <3>6, <3>7 DEF OthersKeep
    <3> QED
      BY <2>1, <3>1, <3>2, <3>4, <3>8 DEF Moves
  <2>6. KnowsEnough(r)' /\ SeesTheNewest(r)' /\ TicketToInsert(r)'
    BY <1>1, <2>2, <2>3, <2>4
       DEF StartCreate, KnowsEnough, SeesTheNewest, TicketToInsert, Inserting,
           Asks, db
  <2> QED BY <2>5, <2>6, MovesInv
<1>2. CASE StartRefresh(r)
  <2>1. PICK c \in Session :
          job' = [job EXCEPT ![r] = Call("refresh", c.sub, NoPatch, None, c)]
    BY <1>2 DEF StartRefresh
  <2>2. /\ Call("refresh", c.sub, NoPatch, None, c) \in Job
        /\ Call("refresh", c.sub, NoPatch, None, c).op = "refresh"
        /\ Call("refresh", c.sub, NoPatch, None, c).cred = c
    BY DEF Call, Job, OpNames, Session
  <2>3. Moves(r)
    BY <1>2, <2>1, <2>2 DEF StartRefresh, Moves, OthersKeep, Locs, db
  <2>4. KnowsEnough(r)' /\ SeesTheNewest(r)' /\ TicketToInsert(r)'
    BY <1>2, <2>1, <2>2
       DEF StartRefresh, KnowsEnough, SeesTheNewest, TicketToInsert, Inserting, db
  <2> QED BY <2>3, <2>4, MovesInv
<1> QED BY <1>1, <1>2

LEMMA StartAskInv ==
  ASSUME AccountsInv, NEW r \in Requests, NEW op \in Asks, StartAsk(r, op)
  PROVE  AccountsInv'
<1> USE NoPatchTyped DEF AccountsInv, TypeOK
<1>1. PICK u \in Users, t \in Tickets \cap newIds :
        /\ job' = [job EXCEPT ![r] = Call(op, u, NoPatch, t, None)]
        /\ newIds' = newIds \ {t}
  BY DEF StartAsk
<1>2. /\ Call(op, u, NoPatch, t, None) \in Job
      /\ Call(op, u, NoPatch, t, None).op = op
      /\ Call(op, u, NoPatch, t, None).ticket = t
  BY DEF Call, Job, OpNames, Asks
<1>3. Moves(r)
  BY <1>1, <1>2 DEF StartAsk, Moves, OthersKeep, Locs, db, Conn!Take
<1>4. KnowsEnough(r)' /\ SeesTheNewest(r)'
  BY <1>1, <1>2 DEF StartAsk, KnowsEnough, SeesTheNewest, db
<1>5. TicketToInsert(r)'
  <2>1. tickets[t] = None /\ spends[t] = 0
    BY <1>1 DEF LifeOfTicket
  <2>2. \A s \in Requests \ {r} : Inserting(s) => job[s].ticket # t
    BY <1>1 DEF TicketToInsert
  <2>3. job'[r].ticket = t
    BY <1>1, <1>2
  <2>4. ASSUME NEW s \in Requests, Inserting(s)', job'[s].ticket = t
        PROVE  s = r
    BY <2>2, <2>4, <1>3 DEF Moves, OthersKeep, Inserting
  <2> QED BY <1>1, <1>3, <2>1, <2>3, <2>4 DEF TicketToInsert, Moves
<1> QED BY <1>3, <1>4, <1>5, MovesInv

LEMMA TakeTicketInv ==
  ASSUME AccountsInv, NEW r \in Requests, NEW type \in Confirms,
         TakeTicket(r, type)
  PROVE  AccountsInv'
<1> USE NoPatchTyped DEF AccountsInv, TypeOK
<1>1. PICK t \in Tickets,
           p \in IF type = "reset" THEN Passwords \cup {Short} ELSE {Keep} :
        /\ tickets[t] # None /\ tickets[t].type = type
        /\ job' = [job EXCEPT ![r] =
             Call(type, tickets[t].user, [NoPatch EXCEPT !.pw = p], t, None)]
  BY DEF TakeTicket
<1> DEFINE b == [NoPatch EXCEPT !.pw = p]
<1> DEFINE u == tickets[t].user
<1> DEFINE j == Call(type, u, b, t, None)
<1>2. /\ b \in Patch /\ b.email = Keep /\ ~b.revoke
      /\ type = "reset" => b.pw # Keep
  BY <1>1, Distinct DEF NoPatch, Patch
<1>3. tickets[t] \in Ticket /\ u \in Users /\ tickets[t] = [user |-> u, type |-> type]
  BY <1>1 DEF Ticket
<1>4. job' = [job EXCEPT ![r] = j]
  BY <1>1
<1> HIDE DEF b
<1>5. j \in Job /\ j.op = type /\ j.user = u /\ j.patch = b /\ j.ticket = t
  BY <1>2, <1>3 DEF Call, Job, OpNames, Confirms
<1> DEFINE image == [rows |-> rows, tickets |-> tickets]
<1>6. /\ view' = [view EXCEPT ![r] = image]
      /\ image \in Database /\ image.rows = rows /\ image.tickets = tickets
  BY DEF TakeTicket, Database
<1> HIDE DEF u, j
<1>7. Moves(r)
  BY <1>4, <1>5, <1>6 DEF TakeTicket, Moves, OthersKeep, Locs, db, Conn!Take
<1>8. KnowsEnough(r)' /\ TicketToInsert(r)'
  BY <1>2, <1>3, <1>4, <1>5, <1>6
     DEF TakeTicket, KnowsEnough, TicketToInsert, Inserting, db
<1>9. SeesTheNewest(r)'
  <2>1. pc'[r] = "confirm" /\ wlock' # r
    BY DEF TakeTicket, SeesTheNewest, db
  <2>2. view'[r] = image /\ view'[r] # None
    BY <1>6, Distinct
  <2>3. image = [rows |-> rows', tickets |-> tickets']
    BY DEF TakeTicket, db
  <2> QED BY <2>1, <2>2, <2>3 DEF SeesTheNewest
<1> QED BY <1>7, <1>8, <1>9, MovesInv

-----------------------------------------------------------------------------
(* An autocommit write: every open snapshot falls behind, or nothing changed *)
(* because the statement matched no row.                                    *)

Writes(r) ==
  /\ wlock = None /\ UNCHANGED <<wlock, newIds, sessions, spends>>
  /\ Finish(r)
  /\ rows' \in [Users -> Account \cup {None}]
  /\ tickets' \in [Tickets -> Ticket \cup {None}]
  /\ holding' \subseteq Requests /\ stale' \subseteq Requests
  /\ \/ UNCHANGED <<rows, tickets>> /\ stale' = stale \ {r}
     \/ \A s \in Requests \ {r} : view[s] # None => s \in stale'

LEMMA WritesInv ==
  ASSUME AccountsInv, NEW r \in Requests, Writes(r),
         \A t \in Tickets : LifeOfTicket(t)',
         \A s \in Requests : TicketToInsert(s)'
  PROVE  AccountsInv'
<1> USE DEF AccountsInv
<1>1. /\ OthersKeep(r)
      /\ pc'[r] = "done" /\ job'[r] = None /\ view'[r] = None
  BY FinishKeeps DEF Writes
<1>2. TypeOK'
  BY <1>1 DEF Writes, TypeOK, OthersKeep
<1>3. ASSUME NEW s \in Requests PROVE KnowsEnough(s)'
  BY <1>1, <1>3, OthersKnow, DoneKnows
<1>4. ASSUME NEW s \in Requests PROVE SeesTheNewest(s)'
  <2>1. pc[s] # "burn" /\ s # None
    BY Distinct DEF SeesTheNewest, Writes
  <2>2. CASE s = r
    BY <1>1, <2>1, <2>2 DEF SeesTheNewest, Writes
  <2>3. CASE s # r
    BY <1>1, <2>1, <2>3 DEF SeesTheNewest, Writes, OthersKeep
  <2> QED BY <2>2, <2>3
<1> QED BY <1>2, <1>3, <1>4

\* Only the rows are written: no ticket is concerned.
LEMMA RowWritesInv ==
  ASSUME AccountsInv, NEW r \in Requests, Writes(r), UNCHANGED tickets
  PROVE  AccountsInv'
<1> USE DEF AccountsInv
<1>1. OthersKeep(r) /\ pc'[r] = "done"
  BY FinishKeeps DEF Writes
<1>2. \A t \in Tickets : LifeOfTicket(t)'
  BY DEF LifeOfTicket, Writes
<1>3. ASSUME NEW s \in Requests PROVE TicketToInsert(s)'
  BY <1>1 DEF TicketToInsert, Inserting, Writes, OthersKeep
<1> QED BY <1>2, <1>3, WritesInv

LEMMA RowStatementsInv ==
  ASSUME AccountsInv, NEW r \in Requests,
         WriteUpdate(r) \/ WriteDelete(r) \/ InsertRow(r)
  PROVE  AccountsInv'
<1> USE DEF AccountsInv, TypeOK
<1>1. CASE WriteUpdate(r)
  <2>1. Merged(row[r], job[r].patch) \in Account
    BY <1>1, MergedTyped DEF WriteUpdate, KnowsEnough, Job
  <2>2. Writes(r)
    BY <1>1, <2>1 DEF WriteUpdate, Writes, Committed, Conn!Give
  <2> QED BY <1>1, <2>2, RowWritesInv DEF WriteUpdate
<1>2. CASE WriteDelete(r)
  <2>1. Writes(r)
    BY <1>2 DEF WriteDelete, Writes, Committed, Conn!Give
  <2> QED BY <1>2, <2>1, RowWritesInv DEF WriteDelete
<1>3. CASE InsertRow(r)
  <2>1. /\ job[r].patch.email \in Emails /\ job[r].patch.pw \in Passwords
    BY <1>3 DEF InsertRow, KnowsEnough, Asks
  <2>2. [email |-> job[r].patch.email, pw |-> job[r].patch.pw,
         epoch |-> 0, verified |-> FALSE] \in Account
    BY <2>1 DEF Account
  <2>3. Writes(r)
    BY <1>3, <2>2 DEF InsertRow, Writes, Committed, Conn!Give
  <2> QED BY <1>3, <2>3, RowWritesInv DEF InsertRow
<1> QED BY <1>1, <1>2, <1>3

LEMMA InsertTicketInv ==
  ASSUME AccountsInv, NEW r \in Requests, InsertTicket(r)
  PROVE  AccountsInv'
<1> USE DEF AccountsInv, TypeOK
<1> DEFINE t == job[r].ticket
<1>1. Inserting(r) /\ t \in Tickets /\ job[r].user \in Users
  BY DEF InsertTicket, Inserting, KnowsEnough, Asks, Job
<1>2. t \notin newIds /\ tickets[t] = None /\ spends[t] = 0
  BY <1>1 DEF TicketToInsert
<1>3. PICK k \in Ticket : tickets' = [tickets EXCEPT ![t] = k]
  <2>1. [user |-> job[r].user,
         type |-> IF job[r].op = "askReset" THEN "reset" ELSE "verify"] \in Ticket
    BY <1>1 DEF Ticket
  <2> QED BY <2>1 DEF InsertTicket
<1>4. Writes(r)
  BY <1>3 DEF InsertTicket, Writes, Committed, Conn!Give
<1>5. OthersKeep(r) /\ pc'[r] = "done"
  BY <1>4, FinishKeeps DEF Writes
<1>6. ASSUME NEW q \in Tickets PROVE LifeOfTicket(q)'
  BY <1>1, <1>2, <1>3, <1>4 DEF LifeOfTicket, Writes
<1>7. ASSUME NEW s \in Requests PROVE TicketToInsert(s)'
  <2>1. Inserting(s)' => s # r /\ Inserting(s) /\ job'[s] = job[s]
    BY <1>5 DEF Inserting, OthersKeep
  <2>2. Inserting(s)' => job[s].ticket # t
    BY <2>1, <1>1 DEF TicketToInsert
  <2>3. Inserting(s)' => job[s].ticket \in Tickets
    BY <2>1 DEF Inserting, KnowsEnough, Asks
  <2>4. ASSUME Inserting(s)', NEW q \in Requests, Inserting(q)',
               job'[q].ticket = job'[s].ticket
        PROVE  q = s
    BY <2>1, <2>4, <1>5 DEF TicketToInsert, Inserting, OthersKeep
  <2> QED BY <2>1, <2>2, <2>3, <2>4, <1>3, <1>4 DEF TicketToInsert, Writes
<1> QED BY <1>4, <1>6, <1>7, WritesInv

-----------------------------------------------------------------------------
(* The confirm handlers: the upgrade, the commit; and a crash.              *)

LEMMA ConfirmWriteInv ==
  ASSUME AccountsInv, NEW r \in Requests, ConfirmWrite(r)
  PROVE  AccountsInv'
<1> USE DEF AccountsInv, TypeOK
<1> DEFINE j == job[r]
<1> DEFINE u == job[r].user
<1> DEFINE b == Effect(job[r], rows[job[r].user])
<1>1. /\ pc[r] = "confirm" /\ r \notin stale /\ wlock = None
      /\ j \in Job /\ u \in Users /\ j.op \in Confirms /\ view[r] \in Database
  BY DEF ConfirmWrite, CanUpgrade, KnowsEnough, Job
<1>2. view[r] = [rows |-> rows, tickets |-> tickets]
  BY <1>1 DEF SeesTheNewest
<1>3. j.op = "reset" => rows[u] # None /\ j.patch.pw # Short
  BY <1>2 DEF ConfirmWrite, ChangeAccepted
<1>4. b \in Account \cup {None}
  BY <1>1, <1>3, EffectTyped
<1> DEFINE image == [rows |-> [rows EXCEPT ![u] = b], tickets |-> tickets]
<1>5. Changed(r) = b
  BY <1>2 DEF Changed
<1>6. [view[r] EXCEPT !.rows[u] = b] = image
  BY <1>2
<1>7. view' = [view EXCEPT ![r] = image]
  BY <1>5, <1>6 DEF ConfirmWrite
<1>8. image \in Database
  BY <1>1, <1>4 DEF Database
<1> HIDE DEF b
<1>9. /\ image.rows = [rows EXCEPT ![u] = b] /\ image.tickets = tickets
      /\ image # None
  BY <1>8, Distinct
<1> HIDE DEF image
<1>10. /\ pc' = [pc EXCEPT ![r] = "burn"] /\ wlock' = r
       /\ UNCHANGED <<rows, tickets, newIds, sessions, holding, job, who, row,
                      stale, spends>>
  BY DEF ConfirmWrite
<1>11. OthersKeep(r)
  BY <1>7, <1>8, <1>10 DEF OthersKeep, Locs
<1>12. TypeOK'
  BY <1>10, <1>11 DEF OthersKeep
<1>13. ASSUME NEW s \in Requests PROVE KnowsEnough(s)'
  <2>1. view[r].tickets[j.ticket] = [user |-> j.user, type |-> j.op]
    BY <1>1 DEF KnowsEnough
  <2>2. view'[r] \in Database /\ view'[r].tickets = tickets
    BY <1>7, <1>8, <1>9
  <2>3. pc'[r] = "burn" /\ job'[r] = j
    BY <1>10
  <2>4. /\ j.ticket \in Tickets /\ j.patch.email = Keep /\ ~j.patch.revoke
        /\ j.op = "reset" => j.patch.pw # Keep
    BY <1>1 DEF KnowsEnough
  <2>5. view'[r].tickets[j.ticket] = [user |-> j.user, type |-> j.op]
    BY <1>2, <2>1, <2>2
  <2>6. KnowsEnough(r)'
    BY ONLY <1>1, <2>2, <2>3, <2>4, <2>5 DEF KnowsEnough
  <2> QED BY <1>11, <1>13, <2>6, OthersKnow
<1>14. ASSUME NEW s \in Requests PROVE SeesTheNewest(s)'
  <2>1. CASE s = r
    <3>1. view'[r].rows = [rows EXCEPT ![u] = Effect(job[r], rows[u])]
      BY <1>7, <1>9 DEF b
    <3> QED BY <1>1, <1>3, <1>7, <1>9, <1>10, <2>1, <3>1 DEF SeesTheNewest
  <2>2. CASE s # r
    <3>1. pc[s] # "burn" /\ wlock' # s
      BY <1>1, <1>10, <2>2, Distinct DEF SeesTheNewest
    <3> QED BY <1>10, <1>11, <2>2, <3>1 DEF SeesTheNewest, OthersKeep
  <2> QED BY <2>1, <2>2
<1>15. ASSUME NEW s \in Requests PROVE TicketToInsert(s)'
  BY <1>10 DEF TicketToInsert, Inserting
<1>16. ASSUME NEW t \in Tickets PROVE LifeOfTicket(t)'
  BY <1>10 DEF LifeOfTicket
<1> QED BY <1>12, <1>13, <1>14, <1>15, <1>16

\* What the commit of a confirm handler does to the database.
LEMMA BurnEffect ==
  ASSUME AccountsInv, NEW r \in Requests, Burn(r)
  PROVE  LET j == job[r] IN
         /\ j \in Job /\ j.op \in Confirms /\ j.ticket \in Tickets
         /\ tickets[j.ticket] = [user |-> j.user, type |-> j.op]
         /\ tickets' = [tickets EXCEPT ![j.ticket] = None]
         /\ rows' = [rows EXCEPT ![j.user] = Effect(j, rows[j.user])]
         /\ j.op = "reset" => /\ rows[j.user] # None /\ j.patch.pw # Short
                              /\ j.patch.pw # Keep /\ j.patch.email = Keep
                              /\ ~j.patch.revoke
BY DEF AccountsInv, Burn, KnowsEnough, SeesTheNewest

LEMMA BurnInv ==
  ASSUME AccountsInv, NEW r \in Requests, Burn(r)
  PROVE  AccountsInv'
<1> USE DEF AccountsInv, TypeOK
<1> DEFINE t == job[r].ticket
<1> DEFINE u == job[r].user
<1> DEFINE b == Effect(job[r], rows[job[r].user])
<1>1. /\ t \in Tickets /\ u \in Users /\ tickets[t] # None
      /\ tickets' = [tickets EXCEPT ![t] = None]
      /\ rows' = [rows EXCEPT ![u] = b]
  <2>1. [user |-> job[r].user, type |-> job[r].op] # None
    BY BurnEffect, Distinct DEF Ticket, Confirms, Job
  <2> QED BY <2>1, BurnEffect DEF Job
<1>2. b \in Account \cup {None}
  BY BurnEffect, EffectTyped DEF Job
<1> HIDE DEF b
<1>3. spends[t] = 0
  BY <1>1 DEF LifeOfTicket
<1>4. /\ OthersKeep(r)
      /\ pc'[r] = "done" /\ job'[r] = None /\ view'[r] = None
  BY FinishKeeps DEF Burn
<1>5. /\ wlock' = None /\ pc[r] = "burn"
      /\ spends' = [spends EXCEPT ![t] = @ + 1]
      /\ newIds' = newIds /\ sessions' = sessions
      /\ holding' \subseteq Requests
      /\ stale' = (stale \cup {s \in Requests : view[s] # None}) \ {r}
  BY DEF Burn, Committed, Conn!Give
<1>6. TypeOK'
  BY <1>1, <1>2, <1>4, <1>5 DEF OthersKeep
<1>7. ASSUME NEW s \in Requests PROVE KnowsEnough(s)'
  BY <1>4, <1>7, OthersKnow, DoneKnows
<1>8. ASSUME NEW s \in Requests PROVE SeesTheNewest(s)'
  <2>1. s # None /\ (s # r => pc[s] # "burn")
    BY <1>5, Distinct DEF SeesTheNewest
  <2>2. CASE s = r
    BY <1>4, <1>5, <2>1, <2>2 DEF SeesTheNewest
  <2>3. CASE s # r
    <3>1. view[s] # None => s \in stale'
      BY <1>5, <2>3
    <3> QED BY <1>4, <1>5, <2>1, <2>3, <3>1 DEF SeesTheNewest, OthersKeep
  <2> QED BY <2>2, <2>3
<1>9. ASSUME NEW q \in Tickets PROVE LifeOfTicket(q)'
  <2>1. LifeOfTicket(q)
    OBVIOUS
  <2> QED BY <1>1, <1>3, <1>5, <2>1 DEF LifeOfTicket
<1>10. ASSUME NEW s \in Requests PROVE TicketToInsert(s)'
  <2>1. Inserting(s)' => s # r /\ Inserting(s) /\ job'[s] = job[s]
    BY <1>4 DEF Inserting, OthersKeep
  <2>2. Inserting(s) => job[s].ticket # t /\ job[s].ticket \in Tickets
    BY <1>1 DEF TicketToInsert, Inserting, KnowsEnough, Asks
  <2>3. ASSUME Inserting(s)', NEW q \in Requests, Inserting(q)',
               job'[q].ticket = job'[s].ticket
        PROVE  q = s
    BY <2>1, <2>3, <1>4 DEF TicketToInsert, Inserting, OthersKeep
  <2> QED BY <2>1, <2>2, <2>3, <1>1, <1>5 DEF TicketToInsert
<1> QED BY <1>6, <1>7, <1>8, <1>9, <1>10

LEMMA CrashInv ==
  ASSUME AccountsInv, Crash
  PROVE  AccountsInv'
<1> USE DEF AccountsInv
<1>1. TypeOK'
  BY DEF Crash, TypeOK, Locs
<1>2. ASSUME NEW s \in Requests
      PROVE  KnowsEnough(s)' /\ SeesTheNewest(s)' /\ TicketToInsert(s)'
  BY Distinct DEF Crash, KnowsEnough, SeesTheNewest, TicketToInsert, Inserting
<1>3. ASSUME NEW t \in Tickets PROVE LifeOfTicket(t)'
  BY DEF Crash, LifeOfTicket
<1> QED BY <1>1, <1>2, <1>3

-----------------------------------------------------------------------------
LEMMA InvInitially == Init => AccountsInv
<1> SUFFICES ASSUME Init PROVE AccountsInv
    OBVIOUS
<1> USE SeedAssumption, Distinct DEF Init, Conn!Init
<1>1. TypeOK
  BY DEF TypeOK, Locs
<1>2. ASSUME NEW r \in Requests
      PROVE  KnowsEnough(r) /\ SeesTheNewest(r) /\ TicketToInsert(r)
  BY DEF KnowsEnough, SeesTheNewest, TicketToInsert, Inserting
<1>3. ASSUME NEW t \in Tickets PROVE LifeOfTicket(t)
  <2>1. t \notin Users
    BY AccountsAssumption
  <2> QED BY <2>1 DEF LifeOfTicket
<1> QED BY <1>1, <1>2, <1>3 DEF AccountsInv

LEMMA InvInductive == AccountsInv /\ [Next]_vars => AccountsInv'
<1> SUFFICES ASSUME AccountsInv, [Next]_vars PROVE AccountsInv'
    OBVIOUS
<1>1. ASSUME NEW r \in Requests, Start(r) PROVE AccountsInv'
  <2>1. CASE Identify(r, "update") \/ Identify(r, "delete")
    BY <2>1, IdentifyInv
  <2>2. CASE StartCreate(r) \/ StartRefresh(r)
    BY <2>2, StartsInv
  <2>3. CASE StartAsk(r, "askReset") \/ StartAsk(r, "askVerify")
    BY <2>3, StartAskInv DEF Asks
  <2>4. CASE TakeTicket(r, "reset") \/ TakeTicket(r, "verify")
    BY <2>4, TakeTicketInv DEF Confirms
  <2>5. CASE Login(r)
    BY <2>5, TokensMinted, EndsInv
  <2>6. CASE Refused(r)
    BY <2>6, Refusals, EndsInv
  <2> QED BY <1>1, <2>1, <2>2, <2>3, <2>4, <2>5, <2>6 DEF Start
<1>2. ASSUME NEW r \in Requests, Serve(r) PROVE AccountsInv'
  <2>1. CASE \/ FetchMissing(r) \/ GateDenied(r) \/ CheckRefused(r)
             \/ Busy(r) \/ ConfirmFails(r) \/ BurnFails(r)
    BY <2>1, Refusals, EndsInv
  <2>2. CASE Refresh(r)
    BY <2>2, TokensMinted, EndsInv
  <2>3. CASE Fetch(r) \/ Gate(r) \/ Check(r)
    BY <2>3, ReadsInv
  <2>4. CASE WriteUpdate(r) \/ WriteDelete(r) \/ InsertRow(r)
    BY <2>4, RowStatementsInv
  <2>5. CASE InsertTicket(r)
    BY <2>5, InsertTicketInv
  <2>6. CASE ConfirmWrite(r)
    BY <2>6, ConfirmWriteInv
  <2>7. CASE Burn(r)
    BY <2>7, BurnInv
  <2> QED BY <1>2, <2>1, <2>2, <2>3, <2>4, <2>5, <2>6, <2>7 DEF Serve
<1>3. CASE Crash
  BY <1>3, CrashInv
<1>4. CASE UNCHANGED vars
  BY <1>4 DEF vars, AccountsInv, TypeOK, KnowsEnough, SeesTheNewest,
              TicketToInsert, Inserting, LifeOfTicket
<1> QED BY <1>1, <1>2, <1>3, <1>4 DEF Next

\* What a request knows at each statement, what its transaction sees and where
\* each ticket is in its life hold in every run, for a pool of any size.
THEOREM AccountsInvariantHolds == Spec => []AccountsInv
BY InvInitially, InvInductive, PTL DEF Spec

\* The state of the accounts is well typed in every run.
THEOREM AccountsTyped == Spec => []TypeOK
<1>1. AccountsInv => TypeOK
  BY DEF AccountsInv
<1> QED BY InvInitially, InvInductive, <1>1, PTL DEF Spec

\* auth.rs's single use: whatever the pool size and the interleaving of the
\* confirm handlers, with crashes, no ticket is spent by two commits.
THEOREM SingleUse == Spec => []TicketSpentOnce
<1>1. AccountsInv => TicketSpentOnce
  BY DEF AccountsInv, TypeOK, LifeOfTicket, TicketSpentOnce
<1> QED BY InvInitially, InvInductive, <1>1, PTL DEF Spec

-----------------------------------------------------------------------------
(* The commit that spends a ticket.                                         *)

LEMMA OnlyBurnSpends ==
  ASSUME AccountsInv, [Next]_vars, NEW t \in Tickets,
         tickets[t] # None, tickets'[t] = None
  PROVE  \E r \in Requests : Burn(r) /\ job[r].ticket = t
<1> USE DEF AccountsInv, TypeOK
<1>1. tickets' # tickets
  OBVIOUS
<1>2. ASSUME NEW r \in Requests, Start(r) PROVE FALSE
  BY <1>1, <1>2 DEF Start, Identify, StartCreate, Login, StartRefresh, StartAsk,
                    TakeTicket, Refused, db
<1>3. ASSUME NEW r \in Requests, Serve(r), ~Burn(r) PROVE FALSE
  <2>1. CASE InsertTicket(r)
    <3>1. job[r] \in Job /\ job[r].ticket \in Tickets
      BY <2>1 DEF InsertTicket, KnowsEnough, Asks
    <3>2. PICK k \in Ticket : tickets' = [tickets EXCEPT ![job[r].ticket] = k]
      <4>1. [user |-> job[r].user,
             type |-> IF job[r].op = "askReset" THEN "reset" ELSE "verify"]
              \in Ticket
        BY <3>1 DEF Ticket, Job
      <4> QED BY <2>1, <4>1 DEF InsertTicket
    <3> QED BY <3>1, <3>2, Distinct
  <2>2. CASE ~InsertTicket(r)
    BY <1>1, <1>3, <2>2
       DEF Serve, Fetch, FetchMissing, Gate, GateDenied, Check, CheckRefused,
           WriteUpdate, WriteDelete, InsertRow, Refresh, Busy, ConfirmWrite,
           ConfirmFails, BurnFails, Abandon, db
  <2> QED BY <2>1, <2>2
<1>4. CASE Crash
  BY <1>1, <1>4 DEF Crash
<1>5. CASE UNCHANGED vars
  BY <1>1, <1>5 DEF vars
<1>6. PICK r \in Requests : Burn(r)
  BY <1>2, <1>3, <1>4, <1>5 DEF Next
<1>7. tickets' = [tickets EXCEPT ![job[r].ticket] = None]
  BY <1>6, BurnEffect
<1> QED BY <1>6, <1>7

\* A ticket and the change it authorises are one commit, on top of everything
\* committed before it: no interleaving loses the one or the other.
THEOREM AtomicSpending == Spec => SpendingIsAtomic
<1> DEFINE Atomic(t) ==
      LET u == tickets[t].user IN
      /\ \A v \in Users \ {u} : rows'[v] = rows[v]
      /\ \A s \in Tickets \ {t} : tickets'[s] = tickets[s]
      /\ IF tickets[t].type = "reset"
         THEN /\ rows[u] # None /\ rows'[u] # None
              /\ rows'[u].email = rows[u].email
              /\ rows'[u].verified = rows[u].verified
              /\ rows'[u].epoch = rows[u].epoch + 1
              /\ \E r \in Requests :
                   /\ pc[r] = "burn" /\ job[r].ticket = t
                   /\ rows'[u].pw = job[r].patch.pw
         ELSE IF rows[u] = None THEN rows'[u] = None
         ELSE rows'[u] = [rows[u] EXCEPT !.verified = TRUE]
<1>1. ASSUME AccountsInv, [Next]_vars, NEW t \in Tickets,
             tickets[t] # None, tickets'[t] = None
      PROVE  Atomic(t)
  <2> USE <1>1 DEF AccountsInv, TypeOK
  <2>1. PICK r \in Requests : Burn(r) /\ job[r].ticket = t
    BY OnlyBurnSpends
  <2> DEFINE j == job[r]
  <2> DEFINE u == job[r].user
  <2>2. /\ j \in Job /\ u \in Users /\ j.patch \in Patch /\ pc[r] = "burn"
        /\ j.op \in Confirms
        /\ tickets[t] = [user |-> u, type |-> j.op]
        /\ tickets' = [tickets EXCEPT ![t] = None]
        /\ rows' = [rows EXCEPT ![u] = Effect(j, rows[u])]
        /\ j.op = "reset" => /\ rows[u] # None /\ j.patch.pw # Short
                             /\ j.patch.pw # Keep /\ j.patch.email = Keep
                             /\ ~j.patch.revoke
    BY <2>1, BurnEffect DEF Job, Burn
  <2>3. tickets[t].user = u /\ tickets[t].type = j.op
    BY <2>2
  <2>4. /\ \A v \in Users \ {u} : rows'[v] = rows[v]
        /\ \A s \in Tickets \ {t} : tickets'[s] = tickets[s]
        /\ rows'[u] = Effect(j, rows[u])
    BY <2>2
  <2>5. CASE j.op = "reset"
    <3>1. rows[u] \in Account /\ rows'[u] = Merged(rows[u], j.patch)
      BY <2>2, <2>4, <2>5 DEF Effect
    <3>2. /\ rows'[u] \in Account /\ rows'[u].pw = j.patch.pw
          /\ rows'[u].epoch = rows[u].epoch + 1
          /\ rows'[u].email = rows[u].email
          /\ rows'[u].verified = rows[u].verified
      BY <2>2, <2>5, <3>1, ResetEffect
    <3>3. rows[u] # None /\ rows'[u] # None
      BY <3>1, <3>2, Distinct
    <3> QED BY <2>1, <2>2, <2>3, <2>4, <2>5, <3>2, <3>3
  <2>6. CASE j.op # "reset"
    BY <2>3, <2>4, <2>6 DEF Effect
  <2> QED BY <2>5, <2>6
<1>2. AccountsInv /\ [Next]_vars =>
        \A t \in Tickets : tickets[t] # None /\ tickets'[t] = None => Atomic(t)
  BY <1>1
<1> QED BY <1>2, InvInitially, InvInductive, PTL DEF Spec, SpendingIsAtomic

\* A record that was deleted stays deleted, whatever was under way then.
THEOREM NoRevival == Spec => OnlySignupAddsRows
<1>1. ASSUME AccountsInv, [Next]_vars, NEW u \in Users,
             rows[u] = None, rows'[u] # None
      PROVE  \E r \in Requests : pc[r] = "insert" /\ job[r].user = u
  <2> USE <1>1 DEF AccountsInv, TypeOK
  <2>1. rows' # rows
    OBVIOUS
  <2>2. ASSUME NEW r \in Requests, Start(r) PROVE FALSE
    BY <2>1, <2>2 DEF Start, Identify, StartCreate, Login, StartRefresh,
                      StartAsk, TakeTicket, Refused, db
  <2>3. ~Crash
    BY <2>1 DEF Crash
  <2>4. ~UNCHANGED vars
    BY <2>1 DEF vars
  <2>5. PICK r \in Requests : Serve(r)
    BY <2>2, <2>3, <2>4 DEF Next
  <2>6. CASE InsertRow(r)
    BY <2>6 DEF InsertRow
  <2>7. CASE WriteUpdate(r)
    BY <2>7 DEF WriteUpdate
  <2>8. CASE WriteDelete(r)
    BY <2>8 DEF WriteDelete
  <2>9. CASE Burn(r)
    <3> DEFINE j == job[r]
    <3>1. /\ rows' = [rows EXCEPT ![j.user] = Effect(j, rows[j.user])]
          /\ j.op = "reset" => rows[j.user] # None
      BY <2>9, BurnEffect
    <3>2. rows[j.user] = None => Effect(j, rows[j.user]) = None
      BY <3>1 DEF Effect
    <3> QED BY <3>1, <3>2
  <2>10. CASE ~(InsertRow(r) \/ WriteUpdate(r) \/ WriteDelete(r) \/ Burn(r))
    BY <2>1, <2>5, <2>10
       DEF Serve, Fetch, FetchMissing, Gate, GateDenied, Check, CheckRefused,
           InsertTicket, Refresh, Busy, ConfirmWrite, ConfirmFails, BurnFails, Abandon, db
  <2> QED BY <2>6, <2>7, <2>8, <2>9, <2>10
<1>2. AccountsInv /\ [Next]_vars =>
        \A u \in Users : rows[u] = None /\ rows'[u] # None =>
          \E r \in Requests : pc[r] = "insert" /\ job[r].user = u
  BY <1>1
<1> QED BY <1>2, InvInitially, InvInductive, PTL DEF Spec, OnlySignupAddsRows

-----------------------------------------------------------------------------
(* The second part: what one connection adds.                               *)

LEMMA Population == IsFiniteSet(Requests) /\ PoolSize \in Nat \ {0}
BY AccountsAssumption

LEMMA FreeMeans == Conn!Free <=> Cardinality(holding) < PoolSize
BY Zenon DEF Conn!Free, Conn!Cardinality, Cardinality

-----------------------------------------------------------------------------
(* Who holds a connection, for any size of the pool.                        *)

\* A step of r that neither takes nor gives a connection.
Stays(r) ==
  /\ holding' = holding
  /\ \A s \in Requests : pc'[s] \in Holding <=> pc[s] \in Holding

LEMMA StaysHolders ==
  ASSUME HoldersInv, NEW r \in Requests, Stays(r)
  PROVE  HoldersInv'
BY DEF HoldersInv, Stays

\* Pool::get, with the first statement on the connection.
LEMMA TakeHolders ==
  ASSUME TypeOK, HoldersInv, NEW r \in Requests, NEW l \in Holding,
         Conn!Take(r), pc' = [pc EXCEPT ![r] = l]
  PROVE  HoldersInv'
<1>1. IsFiniteSet(holding)
  BY Population, FS_Subset DEF HoldersInv
<1>2. /\ holding' = holding \cup {r} /\ r \notin holding
      /\ Cardinality(holding) < PoolSize
  BY FreeMeans DEF Conn!Take
<1>3. Cardinality(holding') = Cardinality(holding) + 1
  BY <1>1, <1>2, FS_AddElement
<1>4. Cardinality(holding) \in Nat
  BY <1>1, FS_CardinalityType
<1>5. holding' = {s \in Requests : pc'[s] \in Holding}
  BY <1>2 DEF HoldersInv, TypeOK
<1> QED
  BY <1>2, <1>3, <1>4, <1>5, Population DEF HoldersInv

\* The reply, and the drop of the connection.
LEMMA GiveHolders ==
  ASSUME TypeOK, HoldersInv, NEW r \in Requests, Conn!Give(r), Finish(r)
  PROVE  HoldersInv'
<1>1. IsFiniteSet(holding)
  BY Population, FS_Subset DEF HoldersInv
<1>2. holding' = holding \ {r}
  BY DEF Conn!Give
<1>3. Cardinality(holding') <= Cardinality(holding)
  BY <1>1, <1>2, FS_Subset
<1>4. Cardinality(holding) \in Nat /\ Cardinality(holding') \in Nat
  BY <1>1, <1>2, FS_CardinalityType, FS_Subset
<1>5. holding' = {s \in Requests : pc'[s] \in Holding}
  BY <1>2 DEF HoldersInv, TypeOK, Finish, Holding
<1> QED
  BY <1>3, <1>4, <1>5, Population DEF HoldersInv

LEMMA StartHolders ==
  ASSUME TypeOK, HoldersInv, NEW r \in Requests, Start(r)
  PROVE  HoldersInv'
<1> USE DEF TypeOK
<1>1. ASSUME NEW op, Identify(r, op) PROVE HoldersInv'
  BY <1>1, StaysHolders DEF Identify, Stays, Holding
<1>2. CASE StartCreate(r)
  BY <1>2, TakeHolders DEF StartCreate, Holding
<1>3. CASE Login(r) \/ Refused(r)
  BY <1>3, StaysHolders DEF Login, Refused, Stays, Finish, Holding
<1>4. CASE StartRefresh(r)
  BY <1>4, StaysHolders DEF StartRefresh, Stays, Holding
<1>5. ASSUME NEW op, StartAsk(r, op) PROVE HoldersInv'
  BY <1>5, TakeHolders DEF StartAsk, Holding
<1>6. ASSUME NEW type, TakeTicket(r, type) PROVE HoldersInv'
  BY <1>6, TakeHolders DEF TakeTicket, Holding
<1> QED
  BY <1>1, <1>2, <1>3, <1>4, <1>5, <1>6 DEF Start

LEMMA ServeHolders ==
  ASSUME TypeOK, HoldersInv, NEW r \in Requests, Serve(r)
  PROVE  HoldersInv'
<1> USE DEF TypeOK
<1>1. CASE Fetch(r)
  BY <1>1, TakeHolders DEF Fetch, Holding
<1>2. CASE FetchMissing(r) \/ Refresh(r)
  BY <1>2, StaysHolders DEF FetchMissing, Refresh, Stays, Finish, Holding
<1>3. CASE Gate(r)
  BY <1>3, StaysHolders DEF Gate, Stays, Holding
<1>4. CASE Check(r)
  BY <1>4, StaysHolders DEF Check, Stays, Holding
<1>5. CASE ConfirmWrite(r)
  BY <1>5, StaysHolders DEF ConfirmWrite, Stays, Holding
<1>6. CASE GateDenied(r) \/ CheckRefused(r) \/ Busy(r) \/ ConfirmFails(r) \/ BurnFails(r)
  BY <1>6, GiveHolders DEF GateDenied, CheckRefused, Busy, ConfirmFails, BurnFails, Abandon
<1>7. CASE WriteUpdate(r) \/ WriteDelete(r) \/ InsertRow(r) \/ InsertTicket(r) \/ Burn(r)
  BY <1>7, GiveHolders DEF WriteUpdate, WriteDelete, InsertRow, InsertTicket, Burn
<1> QED
  BY <1>1, <1>2, <1>3, <1>4, <1>5, <1>6, <1>7 DEF Serve

LEMMA CrashHolders ==
  ASSUME Crash
  PROVE  HoldersInv'
<1>1. holding' = {} /\ \A s \in Requests : pc'[s] \notin Holding
  BY DEF Crash, Holding
<1>2. Cardinality(holding') = 0
  BY <1>1, FS_EmptySet
<1> QED
  BY <1>1, <1>2, Population DEF HoldersInv

LEMMA HoldersInductive == TypeOK /\ HoldersInv /\ [Next]_vars => HoldersInv'
<1>1. ASSUME HoldersInv, UNCHANGED vars PROVE HoldersInv'
  BY <1>1 DEF HoldersInv, vars
<1> QED
  BY <1>1, StartHolders, ServeHolders, CrashHolders DEF Next

-----------------------------------------------------------------------------
(* One connection: whoever holds it is alone.                               *)

LEMMA Alone ==
  ASSUME PoolSize = 1, HoldersInv, NEW r \in Requests, pc[r] \in Holding
  PROVE  \A s \in Requests : pc[s] \in Holding => s = r
<1>1. IsFiniteSet(holding) /\ r \in holding
  BY Population, FS_Subset DEF HoldersInv
<1>2. Cardinality(holding) \in Nat /\ Cardinality(holding) <= 1
  BY <1>1, FS_CardinalityType DEF HoldersInv
<1>3. Cardinality(holding) # 0
  BY <1>1, FS_EmptySet
<1>4. Cardinality(holding) = 1
  BY <1>2, <1>3
<1>5. PICK x : holding = {x}
  BY <1>1, <1>4, FS_Singleton
<1> QED
  BY <1>1, <1>5 DEF HoldersInv

LEMMA NobodyHolds ==
  ASSUME PoolSize = 1, HoldersInv, Conn!Free
  PROVE  \A s \in Requests : pc[s] \notin Holding
<1>1. IsFiniteSet(holding)
  BY Population, FS_Subset DEF HoldersInv
<1>2. Cardinality(holding) = 0
  BY <1>1, FS_CardinalityType, FreeMeans
<1> QED
  BY <1>1, <1>2, FS_EmptySet DEF HoldersInv

-----------------------------------------------------------------------------
(* What a commit makes of the rows.                                         *)

\* Row u becomes a, or goes: an address that is new to it is free, its epoch
\* does not go back, a new password moves the epoch, only a ticket touches
\* verified, and a row that appears has had no session.
Replaces(u, a) ==
  /\ rows' = [rows EXCEPT ![u] = a]
  /\ a # None /\ a.email \in Emails =>
       \/ rows[u] # None /\ a.email = rows[u].email
       \/ ~EmailTaken(a.email, u)
  /\ a # None /\ rows[u] # None =>
       /\ a.epoch >= rows[u].epoch
       /\ a.epoch = rows[u].epoch => a.pw = rows[u].pw
       /\ a.verified # rows[u].verified =>
            \E t \in Tickets : /\ tickets[t] = [user |-> u, type |-> "verify"]
                               /\ tickets'[t] = None
  /\ a # None /\ rows[u] = None =>
       u \notin newIds /\ \A s \in sessions : s.sub # u

\* The merge keeps verified, moves the epoch with the password, and has the
\* address of the body or of the row.
LEMMA MergeMoves ==
  ASSUME NEW a \in Account, NEW p \in Patch, p.pw # Short
  PROVE  LET b == Merged(a, p) IN
         /\ b.verified = a.verified /\ b.epoch >= a.epoch
         /\ b.epoch = a.epoch => b.pw = a.pw
         /\ b.email \in {a.email, p.email}
<1>1. a.epoch \in Nat
  BY DEF Account
<1>2. p.pw # Keep => Merged(a, p).epoch = a.epoch + 1
  BY DEF Merged
<1>3. p.pw = Keep => Merged(a, p).pw = a.pw
  BY DEF Merged
<1>4. Merged(a, p).epoch \in {a.epoch, a.epoch + 1}
  BY DEF Merged
<1>5. Merged(a, p).verified = a.verified
  BY DEF Merged
<1>6. Merged(a, p).email \in {a.email, p.email}
  BY DEF Merged
<1> QED
  BY <1>1, <1>2, <1>3, <1>4, <1>5, <1>6

LEMMA UpdateReplaces ==
  ASSUME AccountsInv, SerialInv, NEW r \in Requests, WriteUpdate(r)
  PROVE  Replaces(job[r].user, Merged(row[r], job[r].patch))
<1> DEFINE u == job[r].user
           p == job[r].patch
           b == Merged(row[r], job[r].patch)
<1>1. /\ pc[r] = "write" /\ job[r].op = "update" /\ job[r] \in Job
      /\ u \in Users /\ p \in Patch /\ p.pw # Short /\ row[r] \in Account
  BY DEF WriteUpdate, AccountsInv, KnowsEnough, Job
<1>2. row[r] = rows[u] /\ rows[u] # None
  BY <1>1, Distinct DEF SerialInv, KnowsTheRow
<1>3. p.email \in Emails => ~EmailTaken(p.email, u)
  BY <1>1 DEF SerialInv, KnowsTheRow
<1>4. rows' = [rows EXCEPT ![u] = b]
  BY <1>2 DEF WriteUpdate
<1>5. /\ b.verified = row[r].verified /\ b.epoch >= row[r].epoch
      /\ b.epoch = row[r].epoch => b.pw = row[r].pw
      /\ b.email = row[r].email \/ b.email = p.email
  BY <1>1, MergeMoves
<1> HIDE DEF b
<1>6. Replaces(u, b)
  BY <1>2, <1>3, <1>4, <1>5 DEF Replaces
<1> QED
  BY <1>6 DEF b

LEMMA DeleteReplaces ==
  ASSUME TypeOK, NEW r \in Requests, WriteDelete(r)
  PROVE  Replaces(job[r].user, None)
BY DEF WriteDelete, TypeOK, Replaces

LEMMA InsertReplaces ==
  ASSUME AccountsInv, SerialInv, NEW r \in Requests, InsertRow(r)
  PROVE  Replaces(job[r].user, [email |-> job[r].patch.email, pw |-> job[r].patch.pw,
                                epoch |-> 0, verified |-> FALSE])
<1> DEFINE u == job[r].user
           b == [email |-> job[r].patch.email, pw |-> job[r].patch.pw,
                 epoch |-> 0, verified |-> FALSE]
<1>1. pc[r] = "insert" /\ job[r].op = "create" /\ rows' = [rows EXCEPT ![u] = b]
  BY DEF InsertRow
<1>2. u \notin newIds /\ rows[u] = None /\ \A s \in sessions : s.sub # u
  BY <1>1 DEF SerialInv, BornOnce, Unborn
<1>3. b.email = job[r].patch.email
  OBVIOUS
<1>4. b.email \in Emails => ~EmailTaken(b.email, u)
  BY <1>1, <1>3 DEF SerialInv, KnowsTheRow
<1> HIDE DEF b
<1>5. Replaces(u, b)
  BY <1>1, <1>2, <1>4 DEF Replaces
<1> QED
  BY <1>5 DEF b

LEMMA BurnReplaces ==
  ASSUME AccountsInv, NEW r \in Requests, Burn(r)
  PROVE  Replaces(job[r].user, Effect(job[r], rows[job[r].user]))
<1> DEFINE j == job[r]
           u == job[r].user
           b == Effect(job[r], rows[job[r].user])
<1>1. /\ j \in Job /\ j.op \in Confirms /\ j.ticket \in Tickets
      /\ tickets[j.ticket] = [user |-> u, type |-> j.op]
      /\ tickets' = [tickets EXCEPT ![j.ticket] = None]
      /\ rows' = [rows EXCEPT ![u] = b]
      /\ j.op = "reset" => /\ rows[u] # None /\ j.patch.pw # Short
                           /\ j.patch.pw # Keep /\ j.patch.email = Keep
                           /\ ~j.patch.revoke
  BY BurnEffect
<1>2. u \in Users /\ j.patch \in Patch /\ rows[u] \in Account \cup {None}
  BY <1>1 DEF Job, AccountsInv, TypeOK
<1>3. tickets'[j.ticket] = None
  BY <1>1 DEF AccountsInv, TypeOK
<1>4. CASE j.op = "reset"
  <2>1. rows[u] \in Account /\ b = Merged(rows[u], j.patch)
    BY <1>1, <1>2, <1>4 DEF Effect
  <2>2. /\ b.pw = j.patch.pw /\ b.epoch = rows[u].epoch + 1
        /\ b.email = rows[u].email /\ b.verified = rows[u].verified
    BY <1>1, <1>2, <1>4, <2>1, ResetEffect
  <2>3. rows[u].epoch \in Nat
    BY <2>1 DEF Account
  <2> HIDE DEF b
  <2> QED
    BY <1>1, <1>4, <2>2, <2>3 DEF Replaces, b
<1>5. CASE j.op # "reset" /\ rows[u] = None
  BY <1>1, <1>5 DEF Effect, Replaces
<1>6. CASE j.op # "reset" /\ rows[u] # None
  <2>1. rows[u] \in Account /\ b = [rows[u] EXCEPT !.verified = TRUE]
    BY <1>2, <1>6 DEF Effect
  <2>2. /\ b.email = rows[u].email /\ b.epoch = rows[u].epoch /\ b.pw = rows[u].pw
        /\ rows[u].epoch \in Nat
    BY <2>1 DEF Account
  <2>3. tickets[j.ticket] = [user |-> u, type |-> "verify"]
    BY <1>1, <1>6 DEF Confirms
  <2> HIDE DEF b
  <2>4. Replaces(u, b)
    BY <1>1, <1>3, <1>6, <2>2, <2>3 DEF Replaces
  <2> QED
    BY <2>4 DEF b
<1> QED
  BY <1>4, <1>5, <1>6

-----------------------------------------------------------------------------
(* The invariant of a process with one connection.                          *)

\* What r says in SerialInv.
Knows(r) == KnowsTheRow(r) /\ BornOnce(r) /\ RefreshesASession(r)

LEMMA DoneKnowsNothing ==
  ASSUME NEW r \in Requests, pc'[r] \in {"new", "done"}
  PROVE  Knows(r)'
BY DEF Knows, KnowsTheRow, BornOnce, RefreshesASession

\* A step that commits nothing to the rows: a read, a checkout, an id handed
\* out, a refusal, a token minted for a record that is there.
LEMMA QuietKeeps ==
  ASSUME TypeOK, SerialInv, HoldersInv',
         NEW r \in Requests, Knows(r)',
         rows' = rows, newIds' \subseteq newIds, sessions \subseteq sessions',
         \A c \in sessions' \ sessions : rows[c.sub] # None /\ SessionFits(c, rows),
         \A s \in Requests \ {r} :
           pc'[s] = pc[s] /\ job'[s] = job[s] /\ row'[s] = row[s]
  PROVE  SerialInv'
<1>1. EmailUnique' /\ \A c \in sessions' : SessionFits(c, rows')
  BY DEF SerialInv, EmailUnique
<1>2. \A u \in Users : Unborn(u) => Unborn(u)'
  BY DEF Unborn
<1>3. ASSUME NEW s \in Requests \ {r} PROVE Knows(s)'
  <2>1. Knows(s) /\ pc'[s] = pc[s] /\ job'[s] = job[s] /\ row'[s] = row[s]
    BY DEF SerialInv, Knows
  <2>2. KnowsTheRow(s)'
    BY <2>1 DEF Knows, KnowsTheRow, EmailTaken
  <2>3. BornOnce(s)'
    BY <2>1 DEF Knows, BornOnce, Unborn
  <2>4. RefreshesASession(s)'
    BY <2>1 DEF Knows, RefreshesASession
  <2> QED
    BY <2>2, <2>3, <2>4 DEF Knows
<1> QED
  BY <1>1, <1>2, <1>3 DEF SerialInv, Knows

\* A commit to the rows by the request that has the connection.
LEMMA CommitKeeps ==
  ASSUME PoolSize = 1, TypeOK, SerialInv, HoldersInv',
         NEW r \in Requests, pc[r] \in Holding, Finish(r),
         NEW u \in Users, NEW a \in Account \cup {None}, Replaces(u, a),
         newIds' = newIds, sessions' = sessions
  PROVE  SerialInv'
<1>1. rows \in [Users -> Account \cup {None}] /\ rows' = [rows EXCEPT ![u] = a]
  BY DEF TypeOK, Replaces
<1>2. rows'[u] = a /\ \A v \in Users \ {u} : rows'[v] = rows[v]
  BY <1>1
<1>3. EmailUnique'
  <2>1. EmailUnique
    BY DEF SerialInv
  <2>2. ASSUME NEW v \in Users \ {u}, a # None, rows[v] # None,
               a.email = rows[v].email, a.email \in Emails
        PROVE  FALSE
    <3>1. EmailTaken(a.email, u)
      BY <2>2 DEF EmailTaken
    <3> QED
      BY <2>1, <2>2, <3>1 DEF Replaces, EmailUnique
  <2> QED
    BY <1>2, <2>1, <2>2 DEF EmailUnique
<1>4. ASSUME NEW c \in sessions PROVE SessionFits(c, rows')
  <2>1. /\ SessionFits(c, rows) /\ c.sub \in Users
        /\ c.since \in Nat /\ c.epoch \in Nat
    BY DEF SerialInv, TypeOK, Session
  <2>2. CASE c.sub # u
    BY <1>2, <2>1, <2>2 DEF SessionFits
  <2>3. CASE c.sub = u /\ a # None
    <3>1. rows[u] # None
      BY <2>3 DEF Replaces
    <3>2. /\ a.epoch >= rows[u].epoch
          /\ a.epoch = rows[u].epoch => a.pw = rows[u].pw
          /\ a.epoch \in Nat /\ rows[u].epoch \in Nat
      BY <1>1, <2>3, <3>1 DEF Replaces, Account
    <3>3. /\ c.since <= c.epoch /\ c.epoch <= rows[u].epoch
          /\ c.since = rows[u].epoch => c.proved = rows[u].pw
      BY <2>1, <2>3, <3>1 DEF SessionFits
    <3>4. c.epoch <= a.epoch /\ (c.since = a.epoch => c.proved = a.pw)
      BY <2>1, <3>2, <3>3
    <3> QED
      BY <1>2, <2>3, <3>3, <3>4 DEF SessionFits
  <2>4. CASE c.sub = u /\ a = None
    BY <1>2, <2>1, <2>4 DEF SessionFits
  <2> QED
    BY <2>2, <2>3, <2>4
<1>5. ASSUME NEW v \in Users \cap newIds PROVE Unborn(v)'
  <2>1. Unborn(v)
    BY DEF SerialInv
  <2>2. v = u => a = None
    BY <2>1 DEF Unborn, Replaces
  <2> QED
    BY <1>2, <2>1, <2>2 DEF Unborn
<1>6. ASSUME NEW s \in Requests PROVE Knows(s)'
  <2>1. CASE s = r
    BY <2>1, DoneKnowsNothing DEF Finish, TypeOK
  <2>2. CASE s # r
    <3>1. pc[s] \notin Holding
      BY <2>2, Alone DEF SerialInv
    <3>2. pc'[s] = pc[s] /\ job'[s] = job[s] /\ Knows(s)
      BY <2>2 DEF Finish, TypeOK, SerialInv, Knows
    <3> QED
      BY <3>1, <3>2
         DEF Knows, KnowsTheRow, BornOnce, RefreshesASession, Holding
  <2> QED
    BY <2>1, <2>2
<1> QED
  BY <1>3, <1>4, <1>5, <1>6 DEF SerialInv, Knows

\* The last step of a request that leaves rows and sessions as they are.
LEMMA QuietEnd ==
  ASSUME AccountsInv, SerialInv, HoldersInv', NEW r \in Requests, Ends(r),
         sessions' = sessions
  PROVE  SerialInv'
<1>1. /\ pc'[r] = "done"
      /\ \A s \in Requests \ {r} :
           pc'[s] = pc[s] /\ job'[s] = job[s] /\ row'[s] = row[s]
  BY DEF AccountsInv, TypeOK, Ends, Finish
<1>2. Knows(r)'
  BY <1>1, DoneKnowsNothing
<1> QED
  BY <1>1, <1>2, QuietKeeps DEF AccountsInv, Ends

LEMMA RefusalsSerial ==
  ASSUME AccountsInv, SerialInv, HoldersInv', NEW r \in Requests,
         \/ Refused(r) \/ FetchMissing(r) \/ GateDenied(r) \/ CheckRefused(r)
         \/ Busy(r) \/ ConfirmFails(r) \/ BurnFails(r)
  PROVE  SerialInv'
<1>1. sessions' = sessions
  BY DEF Refused, FetchMissing, GateDenied, CheckRefused, Busy, ConfirmFails,
         BurnFails, Abandon
<1> QED
  BY <1>1, Refusals, QuietEnd

\* A login and a refresh mint for a record at its present epoch; the one proves
\* its password, the other keeps what the session it came from had.
LEMMA MintsSerial ==
  ASSUME AccountsInv, SerialInv, HoldersInv', NEW r \in Requests,
         Login(r) \/ Refresh(r)
  PROVE  SerialInv'
<1>1. /\ Ends(r) /\ TypeOK
  BY TokensMinted DEF AccountsInv
<1>2. /\ pc'[r] = "done"
      /\ \A s \in Requests \ {r} :
           pc'[s] = pc[s] /\ job'[s] = job[s] /\ row'[s] = row[s]
  BY <1>1 DEF TypeOK, Ends, Finish
<1>3. Knows(r)'
  BY <1>2, DoneKnowsNothing
<1>4. PICK c \in Session : /\ sessions' = sessions \cup {c}
                           /\ rows[c.sub] # None /\ SessionFits(c, rows)
  <2>1. CASE Login(r)
    <3>1. PICK u \in Users :
            /\ rows[u] # None
            /\ sessions' = sessions \cup
                 {[sub |-> u, epoch |-> rows[u].epoch,
                   since |-> rows[u].epoch, proved |-> rows[u].pw]}
      BY <2>1 DEF Login
    <3> DEFINE c == [sub |-> u, epoch |-> rows[u].epoch,
                     since |-> rows[u].epoch, proved |-> rows[u].pw]
    <3>2. rows[u] \in Account
      BY <1>1, <3>1 DEF TypeOK
    <3>3. c \in Session
      BY <3>2 DEF Account, Session
    <3>4. rows[u].epoch \in Nat
      BY <3>2 DEF Account
    <3>5. SessionFits(c, rows)
      BY <3>4 DEF SessionFits
    <3> QED
      BY <3>1, <3>3, <3>5
  <2>2. CASE Refresh(r)
    <3> DEFINE u == job[r].user
               k == job[r].cred
               c == [sub |-> u, epoch |-> rows[u].epoch,
                     since |-> k.since, proved |-> k.proved]
    <3>1. /\ pc[r] = "fetch" /\ job[r].op = "refresh" /\ rows[u] # None
          /\ sessions' = sessions \cup {c}
      BY <2>2 DEF Refresh
    <3>2. k \in sessions /\ k.sub = u /\ job[r] \in Job
      BY <3>1 DEF AccountsInv, KnowsEnough, SerialInv, RefreshesASession
    <3>3. k \in Session /\ rows[u] \in Account /\ u \in Users
      BY <1>1, <3>1, <3>2 DEF TypeOK, Job
    <3>4. /\ SessionFits(k, rows) /\ rows[u].epoch \in Nat
          /\ k.since \in Nat /\ k.epoch \in Nat
      BY <3>2, <3>3 DEF SerialInv, Session, Account
    <3>5. c \in Session
      BY <3>3 DEF Session, Account
    <3>6. k.since <= rows[u].epoch /\ (k.since = rows[u].epoch => k.proved = rows[u].pw)
      BY <3>1, <3>2, <3>4 DEF SessionFits
    <3>7. SessionFits(c, rows)
      BY <3>4, <3>6 DEF SessionFits
    <3> QED
      BY <3>1, <3>5, <3>7
  <2> QED
    BY <2>1, <2>2
<1>5. rows' = rows /\ newIds' = newIds
  BY <1>1 DEF Ends
<1> QED
  BY <1>1, <1>2, <1>3, <1>4, <1>5, QuietKeeps

\* The steps of group Moves: what r knows afterwards is all there is to show.
LEMMA MovesSerial ==
  ASSUME AccountsInv, SerialInv, HoldersInv', NEW r \in Requests, Moves(r), Knows(r)'
  PROVE  SerialInv'
BY QuietKeeps DEF AccountsInv, Moves, OthersKeep

LEMMA StartSerial ==
  ASSUME AccountsInv, SerialInv, HoldersInv', NEW r \in Requests, Start(r)
  PROVE  SerialInv'
<1> USE NoPatchTyped DEF AccountsInv, TypeOK
<1>1. ASSUME NEW op \in {"update", "delete"}, Identify(r, op) PROVE SerialInv'
  <2>1. /\ pc' = [pc EXCEPT ![r] = "fetch"]
        /\ UNCHANGED <<rows, newIds, sessions, row>>
        /\ \E j : j.op = op /\ job' = [job EXCEPT ![r] = j]
    BY <1>1 DEF Identify, db, Call
  <2>2. job'[r].op = op /\ pc'[r] = "fetch"
    BY <2>1
  <2>3. Knows(r)'
    BY <2>2 DEF Knows, KnowsTheRow, BornOnce, RefreshesASession
  <2>4. \A s \in Requests \ {r} :
          pc'[s] = pc[s] /\ job'[s] = job[s] /\ row'[s] = row[s]
    BY <2>1
  <2> QED
    BY <2>1, <2>3, <2>4, QuietKeeps
<1>2. CASE StartCreate(r)
  <2>1. PICK e \in Emails, p \in Passwords, u \in Users \cap newIds :
          /\ ~EmailTaken(e, u)
          /\ job' = [job EXCEPT ![r] =
               Call("create", u, [NoPatch EXCEPT !.email = e, !.pw = p],
                    None, None)]
          /\ newIds' = newIds \ {u}
    BY <1>2 DEF StartCreate
  <2>2. /\ pc' = [pc EXCEPT ![r] = "insert"]
        /\ UNCHANGED <<rows, sessions, row>>
    BY <1>2 DEF StartCreate, db
  <2>3. /\ job'[r].op = "create" /\ job'[r].user = u
        /\ job'[r].patch.email = e /\ pc'[r] = "insert"
    BY <2>1, <2>2 DEF Call, NoPatch
  <2>4. KnowsTheRow(r)'
    BY <2>1, <2>2, <2>3 DEF KnowsTheRow, EmailTaken
  <2>5. BornOnce(r)'
    BY <2>1, <2>2, <2>3 DEF SerialInv, BornOnce, Unborn
  <2>6. RefreshesASession(r)'
    BY <2>3 DEF RefreshesASession
  <2>7. \A s \in Requests \ {r} :
          pc'[s] = pc[s] /\ job'[s] = job[s] /\ row'[s] = row[s]
    BY <2>1, <2>2
  <2> QED
    BY <2>1, <2>2, <2>4, <2>5, <2>6, <2>7, QuietKeeps DEF Knows
<1>3. CASE Login(r)
  BY <1>3, MintsSerial
<1>4. CASE Refused(r)
  BY <1>4, RefusalsSerial
<1>5. CASE StartRefresh(r)
  <2>1. PICK c \in sessions :
          job' = [job EXCEPT ![r] = Call("refresh", c.sub, NoPatch, None, c)]
    BY <1>5 DEF StartRefresh
  <2>2. /\ pc' = [pc EXCEPT ![r] = "fetch"]
        /\ UNCHANGED <<rows, newIds, sessions, row>>
    BY <1>5 DEF StartRefresh, db
  <2>3. /\ job'[r].op = "refresh" /\ job'[r].user = c.sub /\ job'[r].cred = c
        /\ pc'[r] = "fetch"
    BY <2>1, <2>2 DEF Call
  <2>4. Knows(r)'
    BY <2>1, <2>2, <2>3 DEF Knows, KnowsTheRow, BornOnce, RefreshesASession
  <2>5. \A s \in Requests \ {r} :
          pc'[s] = pc[s] /\ job'[s] = job[s] /\ row'[s] = row[s]
    BY <2>1, <2>2
  <2> QED
    BY <2>2, <2>4, <2>5, QuietKeeps
<1>6. ASSUME NEW op \in Asks, StartAsk(r, op) PROVE SerialInv'
  <2>1. PICK u \in Users, t \in Tickets :
          /\ job' = [job EXCEPT ![r] = Call(op, u, NoPatch, t, None)]
          /\ newIds' = newIds \ {t}
    BY <1>6 DEF StartAsk
  <2>2. /\ pc' = [pc EXCEPT ![r] = "insert"]
        /\ UNCHANGED <<rows, sessions, row>>
    BY <1>6 DEF StartAsk, db
  <2>3. job'[r].op = op /\ pc'[r] = "insert"
    BY <2>1, <2>2 DEF Call
  <2>4. Knows(r)'
    BY <1>6, <2>3 DEF Asks, Knows, KnowsTheRow, BornOnce, RefreshesASession
  <2>5. \A s \in Requests \ {r} :
          pc'[s] = pc[s] /\ job'[s] = job[s] /\ row'[s] = row[s]
    BY <2>1, <2>2
  <2> QED
    BY <2>1, <2>2, <2>4, <2>5, QuietKeeps
<1>7. ASSUME NEW type \in Confirms, TakeTicket(r, type) PROVE SerialInv'
  <2>1. \E j : job' = [job EXCEPT ![r] = j]
    BY <1>7 DEF TakeTicket
  <2>2. /\ pc' = [pc EXCEPT ![r] = "confirm"]
        /\ UNCHANGED <<rows, newIds, sessions, row>>
    BY <1>7 DEF TakeTicket, db
  <2>3. Knows(r)'
    BY <2>2 DEF Knows, KnowsTheRow, BornOnce, RefreshesASession
  <2>4. \A s \in Requests \ {r} :
          pc'[s] = pc[s] /\ job'[s] = job[s] /\ row'[s] = row[s]
    BY <2>1, <2>2
  <2> QED
    BY <2>2, <2>3, <2>4, QuietKeeps
<1> QED
  BY <1>1, <1>2, <1>3, <1>4, <1>5, <1>6, <1>7 DEF Start, Asks, Confirms

LEMMA ReadsSerial ==
  ASSUME AccountsInv, SerialInv, HoldersInv', NEW r \in Requests,
         Fetch(r) \/ Gate(r) \/ Check(r) \/ ConfirmWrite(r) \/ InsertTicket(r)
  PROVE  SerialInv'
<1> USE DEF AccountsInv, TypeOK
<1>1. CASE Fetch(r)
  <2>1. /\ pc' = [pc EXCEPT ![r] = "gate"]
        /\ row' = [row EXCEPT ![r] = rows[job[r].user]]
        /\ UNCHANGED <<rows, newIds, sessions, job>>
    BY <1>1 DEF Fetch, db
  <2>2. Knows(r)'
    BY <2>1 DEF Knows, KnowsTheRow, BornOnce, RefreshesASession
  <2> QED
    BY <2>1, <2>2, QuietKeeps
<1>2. CASE Gate(r)
  <2>1. /\ pc[r] = "gate"
        /\ pc' = [pc EXCEPT ![r] = IF job[r].op = "update" THEN "check" ELSE "write"]
        /\ UNCHANGED <<rows, newIds, sessions, job, row>>
    BY <1>2 DEF Gate, db
  <2>2. row[r] = rows[job[r].user] /\ job[r].op \in {"update", "delete"}
    BY <2>1 DEF SerialInv, KnowsTheRow, KnowsEnough
  <2>3. Knows(r)'
    BY <2>1, <2>2 DEF Knows, KnowsTheRow, BornOnce, RefreshesASession
  <2> QED
    BY <2>1, <2>3, QuietKeeps
<1>3. CASE Check(r)
  <2>1. /\ pc[r] = "check" /\ PatchAccepted(r)
        /\ pc' = [pc EXCEPT ![r] = "write"]
        /\ UNCHANGED <<rows, newIds, sessions, job, row>>
    BY <1>3 DEF Check, db
  <2>2. /\ row[r] = rows[job[r].user]
        /\ job[r].patch.email \in Emails =>
             ~EmailTaken(job[r].patch.email, job[r].user)
    BY <2>1 DEF SerialInv, KnowsTheRow, PatchAccepted
  <2>3. Knows(r)'
    BY <2>1, <2>2
       DEF Knows, KnowsTheRow, EmailTaken, BornOnce, RefreshesASession
  <2> QED
    BY <2>1, <2>3, QuietKeeps
<1>4. CASE ConfirmWrite(r)
  <2>1. /\ pc' = [pc EXCEPT ![r] = "burn"]
        /\ UNCHANGED <<rows, newIds, sessions, job, row>>
    BY <1>4 DEF ConfirmWrite
  <2>2. Knows(r)'
    BY <2>1 DEF Knows, KnowsTheRow, BornOnce, RefreshesASession
  <2> QED
    BY <2>1, <2>2, QuietKeeps
<1>5. CASE InsertTicket(r)
  <2>1. Finish(r) /\ UNCHANGED <<rows, newIds, sessions>>
    BY <1>5 DEF InsertTicket
  <2>2. Knows(r)'
    BY <2>1, DoneKnowsNothing DEF Finish
  <2> QED
    BY <2>1, <2>2, QuietKeeps DEF Finish
<1> QED
  BY <1>1, <1>2, <1>3, <1>4, <1>5

LEMMA CommitReplaces ==
  ASSUME AccountsInv, SerialInv, NEW r \in Requests,
         WriteUpdate(r) \/ WriteDelete(r) \/ InsertRow(r) \/ Burn(r)
  PROVE  \E u \in Users : \E a \in Account \cup {None} : Replaces(u, a)
<1>1. job[r] \in Job /\ job[r].user \in Users /\ TypeOK
  <2>1. pc[r] \in Holding
    BY DEF WriteUpdate, WriteDelete, InsertRow, Burn, Holding
  <2> QED
    BY <2>1 DEF AccountsInv, KnowsEnough, Holding, Job
<1>2. CASE WriteUpdate(r)
  <2>1. Merged(row[r], job[r].patch) \in Account
    BY <1>1, <1>2, MergedTyped DEF WriteUpdate, AccountsInv, KnowsEnough, Job
  <2> QED
    BY <1>1, <1>2, <2>1, UpdateReplaces
<1>3. CASE WriteDelete(r)
  BY <1>1, <1>3, DeleteReplaces
<1>4. CASE InsertRow(r)
  <2>1. [email |-> job[r].patch.email, pw |-> job[r].patch.pw,
         epoch |-> 0, verified |-> FALSE] \in Account
    BY <1>4 DEF InsertRow, AccountsInv, KnowsEnough, Asks, Account
  <2> QED
    BY <1>1, <1>4, <2>1, InsertReplaces
<1>5. CASE Burn(r)
  <2>1. Effect(job[r], rows[job[r].user]) \in Account \cup {None}
    BY <1>1, <1>5, BurnEffect, EffectTyped DEF TypeOK
  <2> QED
    BY <1>1, <1>5, <2>1, BurnReplaces
<1> QED
  BY <1>2, <1>3, <1>4, <1>5

\* The commits, by a request that is alone.
LEMMA CommitsSerial ==
  ASSUME PoolSize = 1, AccountsInv, SerialInv, HoldersInv', NEW r \in Requests,
         WriteUpdate(r) \/ WriteDelete(r) \/ InsertRow(r) \/ Burn(r)
  PROVE  SerialInv'
<1>1. pc[r] \in Holding /\ Finish(r) /\ newIds' = newIds /\ sessions' = sessions
  BY DEF WriteUpdate, WriteDelete, InsertRow, Burn, Holding
<1> QED
  BY <1>1, CommitReplaces, CommitKeeps DEF AccountsInv

LEMMA CrashSerial ==
  ASSUME SerialInv, HoldersInv', Crash
  PROVE  SerialInv'
<1>1. UNCHANGED <<rows, newIds, sessions>> /\ \A r \in Requests : pc'[r] \in {"new", "done"}
  BY DEF Crash
<1>2. \A r \in Requests : Knows(r)'
  BY <1>1, DoneKnowsNothing
<1>3. EmailUnique' /\ \A c \in sessions' : SessionFits(c, rows')
  BY <1>1 DEF SerialInv, EmailUnique
<1>4. \A u \in Users \cap newIds' : Unborn(u)'
  BY <1>1 DEF SerialInv, Unborn
<1> QED
  BY <1>2, <1>3, <1>4 DEF SerialInv, Knows

LEMMA SerialInductive ==
  ASSUME PoolSize = 1, AccountsInv, SerialInv, [Next]_vars
  PROVE  SerialInv'
<1>1. HoldersInv'
  BY HoldersInductive DEF AccountsInv, SerialInv
<1>2. ASSUME NEW r \in Requests, Serve(r) PROVE SerialInv'
  BY <1>1, <1>2, ReadsSerial, RefusalsSerial, MintsSerial, CommitsSerial DEF Serve
<1>3. CASE UNCHANGED vars
  BY <1>3 DEF vars, SerialInv, HoldersInv, EmailUnique, Unborn, KnowsTheRow,
              EmailTaken, BornOnce, RefreshesASession
<1> QED
  BY <1>1, <1>2, <1>3, StartSerial, CrashSerial DEF Next

LEMMA SerialInitially ==
  ASSUME Init, CleanStart
  PROVE  SerialInv
<1> USE SeedAssumption, AccountsAssumption DEF Init, Conn!Init
<1>1. HoldersInv
  <2>1. holding = {} /\ \A r \in Requests : pc[r] \notin Holding
    BY DEF Holding
  <2> QED
    BY <2>1, FS_EmptySet, Population DEF HoldersInv
<1>2. EmailUnique /\ \A c \in sessions : SessionFits(c, rows)
  BY DEF CleanStart, EmailsDiffer, EmailUnique
<1>3. ASSUME NEW u \in Users \cap newIds PROVE Unborn(u)
  <2>1. rows[u] = None
    OBVIOUS
  <2> QED
    BY <2>1 DEF Unborn
<1>4. \A r \in Requests : KnowsTheRow(r) /\ BornOnce(r) /\ RefreshesASession(r)
  BY DEF KnowsTheRow, BornOnce, RefreshesASession
<1> QED
  BY <1>1, <1>2, <1>3, <1>4 DEF SerialInv

\* What a request with the one connection knows stays true until its reply: the
\* row it fetched, the free address and the fresh id are as it found them; and
\* no session is newer than its record or, begun at its epoch, proved another
\* password.
THEOREM SerialInvariantHolds ==
  ASSUME PoolSize = 1, CleanStart
  PROVE  Spec => []SerialInv
<1>1. Init => AccountsInv /\ SerialInv
  BY InvInitially, SerialInitially
<1>2. AccountsInv /\ SerialInv /\ [Next]_vars => AccountsInv' /\ SerialInv'
  BY InvInductive, SerialInductive
<1> QED
  BY <1>1, <1>2, PTL DEF Spec

\* Two records never have the same address if the process has one connection,
\* as it has for ":memory:": the check of email_taken and the write that
\* follows it are then one.  (The run same_email shows two connections.)
THEOREM SerialEmailUnique ==
  ASSUME PoolSize = 1, CleanStart
  PROVE  Spec => []EmailUnique
<1>1. Init => AccountsInv /\ SerialInv
  BY InvInitially, SerialInitially
<1>2. AccountsInv /\ SerialInv /\ [Next]_vars => AccountsInv' /\ SerialInv'
  BY InvInductive, SerialInductive
<1>3. SerialInv => EmailUnique
  BY DEF SerialInv
<1> QED
  BY <1>1, <1>2, <1>3, PTL DEF Spec

-----------------------------------------------------------------------------
(* What every step does to the rows.                                        *)

LEMMA RowsStep ==
  ASSUME AccountsInv, SerialInv, [Next]_vars
  PROVE  \/ rows' = rows
         \/ \E u \in Users : \E a \in Account \cup {None} : Replaces(u, a)
<1>1. ASSUME NEW r \in Requests, Start(r) PROVE rows' = rows
  BY <1>1 DEF Start, Identify, StartCreate, Login, StartRefresh, StartAsk,
              TakeTicket, Refused, db
<1>2. ASSUME NEW r \in Requests, Serve(r),
             ~(WriteUpdate(r) \/ WriteDelete(r) \/ InsertRow(r) \/ Burn(r))
      PROVE  rows' = rows
  BY <1>2 DEF Serve, Fetch, FetchMissing, Gate, GateDenied, Check, CheckRefused,
              InsertTicket, Refresh, Busy, ConfirmWrite, ConfirmFails, BurnFails, Abandon, db
<1>3. Crash \/ UNCHANGED vars => rows' = rows
  BY DEF Crash, vars
<1>4. ASSUME NEW r \in Requests,
             WriteUpdate(r) \/ WriteDelete(r) \/ InsertRow(r) \/ Burn(r)
      PROVE  \E u \in Users : \E a \in Account \cup {None} : Replaces(u, a)
  BY <1>4, CommitReplaces
<1> QED
  BY <1>1, <1>2, <1>3, <1>4 DEF Next

\* With one connection a token that was refused once is refused for good: an
\* epoch never goes back, because no PATCH writes back the one it read earlier.
THEOREM SerialEpochNeverBack ==
  ASSUME PoolSize = 1, CleanStart
  PROVE  Spec => EpochNeverBack
<1>1. ASSUME AccountsInv, SerialInv, [Next]_vars,
             NEW u \in Users, rows[u] # None, rows'[u] # None
      PROVE  rows'[u].epoch >= rows[u].epoch
  <2>1. rows[u].epoch \in Nat /\ rows \in [Users -> Account \cup {None}]
    BY <1>1 DEF AccountsInv, TypeOK, Account
  <2>2. CASE rows' = rows
    BY <2>1, <2>2
  <2>3. ASSUME NEW v \in Users, NEW a \in Account \cup {None}, Replaces(v, a)
        PROVE  rows'[u].epoch >= rows[u].epoch
    <3>1. rows'[u] = IF u = v THEN a ELSE rows[u]
      BY <2>1, <2>3 DEF Replaces
    <3> QED
      BY <1>1, <2>1, <2>3, <3>1 DEF Replaces
  <2> QED
    BY <1>1, <2>2, <2>3, RowsStep
<1>2. AccountsInv /\ SerialInv /\ [Next]_vars =>
        \A u \in Users : rows[u] # None /\ rows'[u] # None =>
          rows'[u].epoch >= rows[u].epoch
  BY <1>1
<1>3. Init => AccountsInv /\ SerialInv
  BY InvInitially, SerialInitially
<1>4. AccountsInv /\ SerialInv /\ [Next]_vars => AccountsInv' /\ SerialInv'
  BY InvInductive, SerialInductive
<1> QED
  BY <1>2, <1>3, <1>4, PTL DEF Spec, EpochNeverBack

\* With one connection verified changes only in a commit that spends a
\* verification ticket of that very record: the merge of update_core, which
\* writes the verified it read, finds the one that is there.
THEOREM SerialVerifiedOnlyByTicket ==
  ASSUME PoolSize = 1, CleanStart
  PROVE  Spec => VerifiedOnlyByTicket
<1> DEFINE ByTicket(u) == \E t \in Tickets :
             /\ tickets[t] = [user |-> u, type |-> "verify"]
             /\ tickets'[t] = None
<1>1. ASSUME AccountsInv, SerialInv, [Next]_vars,
             NEW u \in Users, rows[u] # None, rows'[u] # None,
             rows'[u].verified # rows[u].verified
      PROVE  ByTicket(u)
  <2>1. PICK v \in Users, a \in Account \cup {None} : Replaces(v, a)
    BY <1>1, RowsStep
  <2>2. rows'[u] = IF u = v THEN a ELSE rows[u]
    BY <1>1, <2>1 DEF Replaces, AccountsInv, TypeOK
  <2> QED
    BY <1>1, <2>1, <2>2 DEF Replaces
<1>2. AccountsInv /\ SerialInv /\ [Next]_vars =>
        \A u \in Users :
          /\ rows[u] # None /\ rows'[u] # None
          /\ rows'[u].verified # rows[u].verified
          => ByTicket(u)
  BY <1>1
<1>3. Init => AccountsInv /\ SerialInv
  BY InvInitially, SerialInitially
<1>4. AccountsInv /\ SerialInv /\ [Next]_vars => AccountsInv' /\ SerialInv'
  BY InvInductive, SerialInductive
<1> QED
  BY <1>2, <1>3, <1>4, PTL DEF Spec, VerifiedOnlyByTicket

LEMMA AcceptedSession ==
  ASSUME AccountsInv, SerialInv
  PROVE  SessionProvesPassword
<1>1. ASSUME NEW s \in sessions, Resolve(s) = s.sub
      PROVE  s.proved = rows[s.sub].pw \/ Overtaken(s)
  <2>1. s \in Session /\ s.sub \in Users /\ s # Admin /\ s.sub # Guest
    BY AccountsAssumption DEF AccountsInv, TypeOK, Session
  <2>2. rows[s.sub] # None /\ rows[s.sub].epoch = s.epoch
    BY <1>1, <2>1 DEF Resolve
  <2>3. SessionFits(s, rows) /\ s.since \in Nat /\ s.epoch \in Nat
    BY <2>1 DEF SerialInv, Session
  <2> QED
    BY <2>2, <2>3 DEF SessionFits, Overtaken
<1> QED
  BY <1>1 DEF SessionProvesPassword

\* With one connection, whoever acts with a session has proved the password of
\* today, or a revocation overtook a refresh of that session: after a password
\* change or a reset nobody else who knew only the old one is let in.
THEOREM SerialSessionProvesPassword ==
  ASSUME PoolSize = 1, CleanStart
  PROVE  Spec => []SessionProvesPassword
<1>1. Init => AccountsInv /\ SerialInv
  BY InvInitially, SerialInitially
<1>2. AccountsInv /\ SerialInv /\ [Next]_vars => AccountsInv' /\ SerialInv'
  BY InvInductive, SerialInductive
<1>3. AccountsInv /\ SerialInv => SessionProvesPassword
  BY AcceptedSession
<1> QED
  BY <1>1, <1>2, <1>3, PTL DEF Spec
=============================================================================
