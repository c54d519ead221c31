------------------------------- MODULE Server -------------------------------
(***************************************************************************)
(* The life of the process: a start opens the database, seeds the users    *)
(* collection, adds the rule columns to a database that has none and reads *)
(* the key of the session tokens; then it serves, throttling the logins,   *)
(* until a signal makes it drain and stop, or it is killed at any point.   *)
(*                                                                         *)
(* Each statement of init_db and migrate_rules is a transaction of its     *)
(* own.  The database survives; the failed logins and the key in memory do *)
(* not.                                                                    *)
(***************************************************************************)
EXTENDS Naturals, Sequences, FiniteSets

CONSTANTS Names,       \* collections; "users" is one of them
          Columns,     \* the rule columns, in the order migrate_rules adds them
          Edits,       \* the rules that an admin may write
          Secrets,     \* fresh keys
          Identities, Attempts, MaxFails,
          Null, Unset, None

ASSUME ServerAssumption ==
  /\ "users" \in Names
  /\ Columns \in Seq({"list_rule", "view_rule", "create_rule", "update_rule", "delete_rule"})
  /\ Len(Columns) > 0
  /\ Null \in Edits /\ Unset \notin Edits /\ None \notin Secrets
  /\ MaxFails \in Nat \ {0}
  /\ IsFiniteSet(Attempts)

VARIABLES
  \* The database file.
  cols,     \* how many of the Columns _collections has
  coll,     \* its rows: of the collections that exist, type and rules
  param,    \* _params.jwt_secret
  \* The process.
  pc,       \* where it is in main, "off" if there is none
  secret,   \* App.jwt_secret
  fails,    \* App.login_fails: the counts ...
  cool,     \* ... and whether COOLDOWN has passed since the last of them
  att,      \* the login requests
  stream,   \* whether a client has a realtime stream open
  \* History.
  wrote,    \* the rules that an admin has written, Unset where none has
  torn,     \* whether a process died while it added the columns
  guesses   \* wrong passwords compared since the throttle last forgot

database == <<cols, coll, param>>
throttle == <<fails, cool, guesses>>
vars == <<cols, coll, param, pc, secret, fails, cool, att, stream, wrote, torn, guesses>>

-----------------------------------------------------------------------------
Index == DOMAIN Columns
Types == {"base", "auth"}
Rules == Edits \cup {Null, "", "@request.auth.id != ''", "id = @request.auth.id"}

\* The defaults of a type, by column.
Default(ty, i) ==
  CASE Columns[i] \in {"list_rule", "view_rule"} -> IF ty = "base" THEN "" ELSE Null
    [] Columns[i] = "create_rule" -> IF ty = "base" THEN "@request.auth.id != ''" ELSE ""
    [] OTHER -> IF ty = "base" THEN "@request.auth.id != ''" ELSE "id = @request.auth.id"
Defaults(ty) == [i \in Index |-> Default(ty, i)]
NoRules == [i \in Index |-> Null]
NotWritten == [i \in Index |-> Unset]

\* get_collection names all the columns: without one of them it finds nothing.
Readable(c) == c \in DOMAIN coll /\ cols = Len(Columns)

Idle == [pc |-> "idle", id |-> None]
Serving == pc \in {"serving", "draining"}
Uncounted(k) == Cardinality({a \in Attempts : att[a].pc = "failed" /\ att[a].id = k})

With(f, c, v) == [d \in DOMAIN f \cup {c} |-> IF d = c THEN v ELSE f[d]]
Without(f, c) == [d \in DOMAIN f \ {c} |-> f[d]]

\* A new file, or one with collections of a version that had no rules.
Init ==
  /\ cols = 0
  /\ \E old \in SUBSET Names, ty \in [Names -> Types] :
       coll = [c \in old |-> [ty |-> ty[c], rules |-> NoRules]]
  /\ param = None
  /\ pc = "off" /\ secret = None
  /\ fails = [k \in Identities |-> 0] /\ cool = [k \in Identities |-> FALSE]
  /\ att = [a \in Attempts |-> Idle]
  /\ stream = FALSE
  /\ wrote = [c \in Names |-> NotWritten]
  /\ torn = FALSE
  /\ guesses = [k \in Identities |-> 0]

-----------------------------------------------------------------------------
(* A start. *)

Goto(from, to) ==
  /\ pc = from /\ pc' = to
  /\ UNCHANGED <<secret, att, stream, torn>> /\ UNCHANGED throttle

Start == Goto("off", "seed") /\ UNCHANGED <<database, wrote>>

\* INSERT OR IGNORE of the users collection.
SeedUsers ==
  /\ Goto("seed", "check")
  /\ coll' = IF "users" \in DOMAIN coll THEN coll
             ELSE With(coll, "users", [ty |-> "auth", rules |-> NoRules])
  /\ UNCHANGED <<cols, param, wrote>>

\* Mutant: only the ALTERs are guarded.
Check_ColumnsOnly ==
  /\ Goto("check", IF cols > 0 THEN "base" ELSE "alter")
  /\ UNCHANGED <<database, wrote>>

\* Is there a list_rule, the first of the columns?
Check ==
  /\ Goto("check", IF cols > 0 THEN "secret" ELSE "alter")
  /\ UNCHANGED <<database, wrote>>

\* Mutant: the last column is taken for one more.
Alter_Past ==
  /\ Goto("alter", IF cols = Len(Columns) THEN "base" ELSE "alter")
  /\ cols' = cols + 1
  /\ UNCHANGED <<coll, param, wrote>>

Alter ==
  /\ Goto("alter", IF cols + 1 = Len(Columns) THEN "base" ELSE "alter")
  /\ cols' = cols + 1
  /\ UNCHANGED <<coll, param, wrote>>

\* UPDATE _collections SET ... WHERE type = ty.
SeedRules(ty) ==
  /\ coll' = [c \in DOMAIN coll |->
                IF coll[c].ty = ty THEN [coll[c] EXCEPT !.rules = Defaults(ty)] ELSE coll[c]]
  /\ UNCHANGED <<cols, param, wrote>>

\* Mutant: a statement for the first column and one for the others.
SeedBase_ByColumn ==
  \/ /\ Goto("base", "rest")
     /\ coll' = [c \in DOMAIN coll |->
                   IF coll[c].ty = "base"
                   THEN [coll[c] EXCEPT !.rules[1] = Default("base", 1)] ELSE coll[c]]
     /\ UNCHANGED <<cols, param, wrote>>
  \/ Goto("rest", "auth") /\ SeedRules("base")

SeedBase == Goto("base", "auth") /\ SeedRules("base")
SeedAuth == Goto("auth", "secret") /\ SeedRules("auth")

\* Mutant: INSERT OR REPLACE.
Secret_Replace ==
  /\ pc = "secret" /\ pc' = "serving"
  /\ param' \in Secrets
  /\ secret' = param'
  /\ UNCHANGED <<cols, coll, att, stream, wrote, torn, fails, cool, guesses>>

\* param_get_or_create: INSERT OR IGNORE a fresh key, and read what is there.
Secret ==
  /\ pc = "secret" /\ pc' = "serving"
  /\ IF param = None THEN param' \in Secrets ELSE param' = param
  /\ secret' = param'
  /\ UNCHANGED <<cols, coll, att, stream, wrote, torn, fails, cool, guesses>>

Boot == SeedUsers \/ Check \/ Alter \/ SeedBase \/ SeedAuth \/ Secret

\* The memory of the process is gone.
Gone ==
  /\ pc' = "off" /\ secret' = None
  /\ fails' = [k \in Identities |-> 0] /\ cool' = [k \in Identities |-> FALSE]
  /\ guesses' = [k \in Identities |-> 0]
  /\ att' = [a \in Attempts |-> Idle]
  /\ stream' = FALSE

\* A kill, a panic of main, a power cut.
Crash ==
  /\ pc # "off"
  /\ Gone
  /\ torn' = (torn \/ pc \in {"alter", "base", "auth"})
  /\ UNCHANGED <<database, wrote>>

-----------------------------------------------------------------------------
(* The admin's requests: a PATCH is a sequence of UPDATEs of one column.   *)

AdminStep ==
  /\ Serving
  /\ UNCHANGED <<cols, param, pc, secret, att, stream, torn>> /\ UNCHANGED throttle

EditRule(c, i) ==
  /\ AdminStep
  /\ Readable(c)
  /\ \E v \in Edits : /\ coll' = [coll EXCEPT ![c].rules[i] = v]
                      /\ wrote' = [wrote EXCEPT ![c][i] = v]

\* The INSERT names the columns too.
CreateCollection(c) ==
  /\ AdminStep
  /\ c \notin DOMAIN coll /\ cols = Len(Columns)
  /\ \E ty \in Types, over \in [Index -> Edits \cup {Unset}] :
       /\ coll' = With(coll, c, [ty |-> ty,
                    rules |-> [i \in Index |-> IF over[i] = Unset THEN Default(ty, i)
                                               ELSE over[i]]])
       /\ wrote' = [wrote EXCEPT ![c] = over]

DropCollection(c) ==
  /\ AdminStep
  /\ c \in DOMAIN coll
  /\ coll' = Without(coll, c)
  /\ wrote' = [wrote EXCEPT ![c] = NotWritten]

-----------------------------------------------------------------------------
(* auth_with_password. *)

LoginStep ==
  /\ Serving
  /\ UNCHANGED <<database, pc, secret, stream, wrote, torn>>

Moves(a, to) == att' = [att EXCEPT ![a].pc = to]

Arrive(a) ==
  /\ pc = "serving" /\ LoginStep
  /\ att[a].pc = "idle"
  /\ \E k \in Identities : att' = [att EXCEPT ![a] = [pc |-> "arrived", id |-> k]]
  /\ UNCHANGED throttle

\* fails.remove(&key).
Forget(k) ==
  /\ fails' = [fails EXCEPT ![k] = 0]
  /\ cool' = [cool EXCEPT ![k] = FALSE]

\* Mutant: one attempt too many.
Locked_OneMore(k) == fails[k] > MaxFails
Locked(k) == fails[k] >= MaxFails

Refuse(a) ==
  /\ LoginStep
  /\ att[a].pc = "arrived" /\ Locked(att[a].id) /\ ~cool[att[a].id]
  /\ Moves(a, "refused")
  /\ UNCHANGED throttle

Admit(a) ==
  LET k == att[a].id IN
  /\ LoginStep
  /\ att[a].pc = "arrived"
  /\ \/ ~Locked(k) /\ UNCHANGED throttle
     \/ /\ Locked(k) /\ cool[k]
        /\ Forget(k)
        /\ guesses' = [guesses EXCEPT ![k] = Uncounted(k)]
  /\ Moves(a, "admitted")

\* The lookup and the slow comparison, outside the lock.
Verify(a) ==
  LET k == att[a].id IN
  /\ LoginStep
  /\ att[a].pc = "admitted"
  /\ IF ~Readable("users") \/ coll["users"].ty # "auth"
     THEN Moves(a, "answered") /\ UNCHANGED throttle
     ELSE \/ Moves(a, "matched") /\ UNCHANGED throttle
          \/ /\ Moves(a, "failed")
             /\ guesses' = [guesses EXCEPT ![k] = @ + 1]
             /\ UNCHANGED <<fails, cool>>

\* Mutant: one count for the collection.
Slot_Collection(a) == CHOOSE k \in Identities : TRUE
\* The key of the map.
Slot(a) == att[a].id

\* reject().
Reject(a) ==
  /\ LoginStep
  /\ att[a].pc = "failed"
  /\ fails' = [fails EXCEPT ![Slot(a)] = @ + 1]
  /\ cool' = [cool EXCEPT ![Slot(a)] = FALSE]
  /\ Moves(a, "answered")
  /\ UNCHANGED guesses

Accept(a) ==
  /\ LoginStep
  /\ att[a].pc = "matched"
  /\ Forget(Slot(a))
  /\ guesses' = [guesses EXCEPT ![Slot(a)] = Uncounted(Slot(a))]
  /\ Moves(a, "answered")

\* Mutant: a refused login is held until it may be tried again.
Respond_Tarpit(a) ==
  /\ LoginStep
  /\ \/ att[a].pc = "answered"
     \/ att[a].pc = "refused" /\ cool[att[a].id]
  /\ att' = [att EXCEPT ![a] = Idle]
  /\ UNCHANGED throttle

Respond(a) ==
  /\ LoginStep
  /\ att[a].pc \in {"refused", "answered"}
  /\ att' = [att EXCEPT ![a] = Idle]
  /\ UNCHANGED throttle

\* COOLDOWN passes, which only a locked identity observes.
Wait(k) ==
  /\ LoginStep
  /\ Locked(k) /\ ~cool[k]
  /\ cool' = [cool EXCEPT ![k] = TRUE]
  /\ UNCHANGED <<fails, guesses, att>>

-----------------------------------------------------------------------------
(* Streams and shutdown. *)

Subscribe ==
  /\ pc = "serving" /\ ~stream
  /\ stream' = TRUE
  /\ UNCHANGED <<database, throttle, pc, secret, att, wrote, torn>>

\* Nothing but its client ends a stream.
Leave ==
  /\ Serving /\ stream
  /\ stream' = FALSE
  /\ UNCHANGED <<database, throttle, pc, secret, att, wrote, torn>>

\* SIGTERM or SIGINT: the listener closes.
Signal == Goto("serving", "draining") /\ UNCHANGED <<database, wrote>>

Exit ==
  /\ pc = "draining"
  /\ \A a \in Attempts : att[a].pc = "idle"
  /\ ~stream
  /\ Gone
  /\ UNCHANGED <<database, wrote, torn>>

-----------------------------------------------------------------------------
Handle(a) == Refuse(a) \/ Admit(a) \/ Verify(a) \/ Reject(a) \/ Accept(a) \/ Respond(a)

Next ==
  \/ Start \/ Boot \/ Crash \/ Subscribe \/ Leave \/ Signal \/ Exit
  \/ \E c \in Names : CreateCollection(c) \/ DropCollection(c) \/ \E i \in Index : EditRule(c, i)
  \/ \E a \in Attempts : Arrive(a) \/ Handle(a)
  \/ \E k \in Identities : Wait(k)

\* A handler that has begun goes on, and so does main; no client has to
\* leave its stream, and no signal has to come.
Fairness ==
  /\ WF_vars(Boot) /\ WF_vars(Exit)
  /\ \A a \in Attempts : WF_vars(Handle(a))

Spec == Init /\ [][Next]_vars /\ Fairness

-----------------------------------------------------------------------------
(* Properties. *)

StoreTypeOK ==
  /\ cols \in 0 .. Len(Columns)
  /\ DOMAIN coll \subseteq Names
  /\ \A c \in DOMAIN coll : coll[c] \in [ty : Types, rules : [Index -> Rules]]
  /\ param \in Secrets \cup {None} /\ secret \in Secrets \cup {None}
  /\ pc \in {"off", "seed", "check", "alter", "base", "auth", "secret", "serving", "draining"}
  /\ torn \in BOOLEAN
  /\ wrote \in [Names -> [Index -> Edits \cup {Unset}]]

LoginTypeOK ==
  /\ fails \in [Identities -> Nat] /\ cool \in [Identities -> BOOLEAN]
  /\ guesses \in [Identities -> Nat]
  /\ att \in [Attempts -> [pc : {"idle", "arrived", "refused", "admitted", "matched", "failed",
                                 "answered"},
                           id : Identities \cup {None}]]
  /\ \A a \in Attempts : att[a].pc # "idle" => att[a].id \in Identities

TypeOK == StoreTypeOK /\ LoginTypeOK /\ stream \in BOOLEAN

\* What an admin wrote stays through every later start, and where no admin
\* wrote there is the default of the type or nothing: "the rule-column
\* migration runs once and will not clobber rules an admin has since edited"
\* (README.md:562-563, db.rs:177-178).
AdminRulesStay ==
  \A c \in DOMAIN coll, i \in Index :
    IF wrote[c][i] # Unset THEN coll[c].rules[i] = wrote[c][i]
    ELSE coll[c].rules[i] \in {Null, Default(coll[c].ty, i)}

\* Wherever a start dies, no collection is left with some of its defaults: it
\* has all of them or is closed to all but the admin; and unless a process
\* died among the statements of migrate_rules (db.rs:190), a server that
\* serves can read its collections.
SeededWhole ==
  /\ \A c \in DOMAIN coll :
       LET seeded == {i \in Index : wrote[c][i] = Unset} IN
       \/ \A i \in seeded : coll[c].rules[i] = Default(coll[c].ty, i)
       \/ \A i \in seeded : coll[c].rules[i] = Null
  /\ Serving /\ ~torn => cols = Len(Columns)

\* A token that one process signed is good for the next: the key that was
\* once served with is in the database and never replaced (db.rs:207,
\* lib.rs:167).
TokensOutliveRestarts ==
  [][/\ secret' # None => param' = secret'
     /\ secret # None => param' = secret
     /\ param # None => param' = param]_vars

\* Parallel attempts all pass the check before the first of them is counted
\* (auth.rs:209-226): no more of them than there are, past MAX_FAILS, reach
\* the comparison between two times that the throttle forgets an identity.
GuessesBounded ==
  \A k \in Identities : guesses[k] < MaxFails + Cardinality(Attempts)

\* "keyed by (collection, identity). Never global" (auth.rs:191): an
\* identity is refused only after MAX_FAILS wrong passwords for that identity.
RefusedForOwnFailures ==
  [][\A a \in Attempts :
       att'[a].pc = "refused" /\ att[a].pc # "refused"
         => guesses[att[a].id] >= MaxFails]_vars

\* After the signal the process ends once the requests in flight are
\* answered, however many logins are locked out (main.rs:32-38); an open
\* stream alone can hold it.
ShutdownEnds == pc = "draining" ~> (pc = "off" \/ stream)
=============================================================================
