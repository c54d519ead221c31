# rockbase in TLA+

rockbase is a small backend in one process: an axum HTTP server on top of one
SQLite file, with record collections, access rules, accounts, a batch endpoint
and a server-sent event stream. Its Rust source is `src/src/*.rs`, its tests
`src/tests/*.rs`, its design notes `src/specs/*.md` and `src/README.md`.

This directory models the parts of it where several requests meet, where a
process may die between two steps, or where two pieces of code must agree: the
connection pool, the accounts of an auth collection, the record API with its
batches and files, the event stream, the list pages, the filter language, and
the life of the process from migration to shutdown. The models are checked by
TLC on small instances, and the invariants that carry the argument are proved
by TLAPS for every instance. Where the source and its documentation disagree,
`src/` is what is modelled, and the disagreement is a finding.

Contents: [1 inventory](#1-inventory), [2 modules](#2-modules),
[3 runs](#3-runs), [4 proofs](#4-proofs), [5 findings](#5-findings),
[6 what is not modelled](#6-what-is-not-modelled), [7 plan](#7-plan).

## 1 Inventory

| part | source | state | operations | what is hard about it | what makes it correct |
|---|---|---|---|---|---|
| connection pool | `db.rs`, `lib.rs` | stack of connections, mutex, condition variable | `Pool::get`, drop of a `PoolConn` | waits inside worker threads; notifies after unlocking | a connection is in one place; no wakeup is lost; everybody is served |
| accounts | `auth.rs`, `records.rs` | rows of an auth collection: address, password hash, `token_epoch`, `verified` | signup, PATCH, DELETE, login, refresh | statements of several requests interleave; rows are read, then written back | unique addresses; a bumped epoch ends the sessions before it; a deleted record stays deleted |
| tickets | `auth.rs`, `_tokens` | rows of `_tokens` | `request_*`, `confirm_*` | a deferred transaction on a snapshot; failure between the take and the burn | each spent once, together with the change it authorises |
| realtime | `realtime.rs` | a receiver, the identity, a rule cache per stream | connect, receive, gate | a cache beside concurrent edits; the ring overwrites | rules acknowledged before an event apply to it; no silent gap; order |
| collections | `collections.rs` | rows of `_collections`, `cols_version` | create, update, delete | several autocommit statements per call; bump only at the end | a returned call has invalidated the caches; no half-made edit |
| records | `records.rs` | rows of `records` | create, view, list, update, delete | rule checked in a statement of its own; relations checked before the write | a write happens only to rows the rule allows; no dangling relation at the write |
| batch | `batch.rs` | a transaction, an event buffer | up to 50 sub-requests | one connection, one transaction, events after commit | all or nothing; events in order and only after the commit |
| rules and filters | `rules.rs`, `filter.rs` | none | parse, compile to SQL, evaluate in memory | two evaluators of one language | they agree |
| login throttle | `auth.rs` | failures per address, a mutex of its own | check, count, clear | checked before and counted after a slow hash | at most `MAX_FAILS` tries per cooldown |
| files | `files.rs` | files in the data directory | write, serve, remove | the disk is not in the transaction | a record points to files that exist; removed with it |
| list paging | `records.rs` | none | count and page in one read transaction | u32 arithmetic on request values | totals and items belong to one snapshot |
| schema, migration, seed | `db.rs` | `_params`, `_collections` | `init_db`, `migrate_rules` | statements between which a process may die | a second start completes what the first began |
| start and shutdown | `main.rs`, `lib.rs` | a signal | bind, serve, drain | open streams never end | in-flight calls end before exit |
| backup | `backup.rs` | a temporary file | `VACUUM INTO`, download | | the download is one snapshot |
| HTTP shell | `lib.rs` | none | routes, CORS, request log, health | | |

How they interact. Every handler resolves its caller first (`auth::who`, which
takes a connection, reads the row of the caller and gives it back), then takes
a connection for its own work and drops it before it does file I/O or publishes
an event. State shared between requests is the SQLite file, the pool, the
broadcast channel (64 slots), the counter `cols_version` and the throttle's
map. The stream is the only part that outlives a response: it receives what
`broadcast_change` published after a commit, and gates it with a rule that it
caches under a value of `cols_version`.

The hazards that follow from this are listed with their source lines in
`PROJECT.json`. Of the parts above all are modelled but the backup and the HTTP
shell; sections 2 and 6 say how far.

## 2 Modules

```
Checkout        abstract: Size interchangeable connections
   ^   ^  implemented by        used by
 Pool  |  ------------------------------ Accounts ---- AccountsInvariant
       |                                                   ^        ^
 PoolProofs  MCPool                             AccountsProofs  MCAccounts

Feed            abstract: what a subscriber is promised
   ^  implemented by
 Realtime  <---- RealtimeProofs, MCRealtime

Store           abstract: a collection and its records, atomic batches
   ^  implemented by
 Records   <---- RecordsProofs, MCRecords

 Listing    <---- ListingProofs, MCListing
 Server     <---- ServerProofs, MCServer
 Comparison <---- ComparisonProofs
   ^  extended by       ^
 Filter     <---- FilterProofs
   ^  checked against
 Descent    <---- MCFilter
```

The modules meet where the code does: `Checkout` is the pool as the handlers
use it; a write of `Records` is what `Realtime` calls a commit and `Listing` an
insertion or a row that goes; the rule that `Records` and `Realtime` take as a
set is what `Filter` computes from the verdicts of `Comparison`; the rules that
`Server` keeps across restarts are the ones edited in both. Each module holds the other parts fixed.

**Checkout** is what the handlers rely on when they call `Pool::get`. It is the
seam between two levels: `Pool` shows that mutex, stack and condition variable
implement it, and `Accounts` takes and gives connections through it.

**Pool** is `db::Pool` at the granularity of its mutex, with the tokio workers
that `get` blocks. `Pop` and `Wait` are the two arms of the loop in `get`;
`Push` and `NotifyOne` are the two halves of `PoolConn::drop`, between which
anybody may take the connection; `SpuriousWakeup` is what `std::sync::Condvar`
allows. A request makes one checkout after the other (`left`), with or without
an await in between (`After`), and never holds one across an await; the
mutants `Push_HoldAcrossAwait` and `Push_NotifyIfEmpty` are the two mistakes
that the comments in `lib.rs` and `db.rs` warn of.

**Accounts** is one auth collection and its tickets. A request makes one call
(`job`), and a step is one SQL statement. Two sorts of handlers exist:

- autocommit handlers. PATCH is `Identify`, `Fetch`, `Gate`, `Check`,
  `WriteUpdate`; DELETE the same without `Check`; signup is `StartCreate`
  (`email_taken`, a fresh id) and `InsertRow`; asking for a ticket is
  `StartAsk` and `InsertTicket`; `auth_refresh` is `StartRefresh` and `Refresh`
  on two checkouts; a login is one SELECT. `WriteUpdate` writes the merge of
  the row that `Fetch` returned, as `update_core` does.
- confirm handlers. `TakeTicket` reads the ticket and so fixes the snapshot of
  the deferred transaction (`view`); `ConfirmWrite` is its first write and takes
  the write lock; `Burn` is the DELETE of the ticket and the commit;
  `ConfirmFails` is every way to end in between, and `BurnFails` an error of the
  DELETE or of the commit, after the change was written.

SQLite in WAL mode is not part of the source and is modelled from what the code
relies on: a transaction sees its snapshot, one writer at a time (`wlock`), a
snapshot that is not the newest (`stale`) cannot be upgraded, and an autocommit
writer that waits longer than `busy_timeout` fails (`Busy`). A commit makes the
other open snapshots stale. `Crash` rolls back what is open and keeps what is
committed. `spends`, and the fields `since` and `proved` of a session, are
history: a refresh copies them, and no guard depends on them.

The bcrypt hash is the password itself (a hash is only ever compared), and a
uuid or a record id is one not handed out before (`newIds`).

**AccountsInvariant** holds the inductive invariants of the proofs, in a module
without TLAPS so that TLC checks them too: `AccountsInv` on any pool (run
`pooled`), and `SerialInv` on one connection (run `serial`).

**Feed** is the promise to a subscriber: of every change published after it
joined, in order and once, it is sent an event, or a view rule in force since
the last acknowledged edit withholds it, or it is told how many it missed.

**Realtime** is one topic. A view rule is the set of subscribers it lets read.
`EditRule` is the statement that changes the rule, `EditReturns` the bump of
`cols_version` and the 200, `EditFails` an error or a panic before the bump. A
writer is a single write or a batch: `SubRequest` fills the buffer, `Commit`,
then one `Broadcast` per event, with other writers in between; `FilesFail` is a
failed `write_files` after the commit. A stream is `Connect`, `Recv` or
`Lagged`, and for a user `LoadVersion` (compare and clear the cache) and
`Decide` (look the rule up, evaluate it, send or skip) as two steps, because an
edit and its bump can fall between the load and the lookup in `visible`. The
channel is tokio's broadcast channel, modelled as a log of which the last `Cap`
entries can be received; only commits of a rule and records of one topic are
in it. `Disconnect` drops receiver and cache at once.

**Store** is what the record API promises: the row of the collection and the
rows of its records change one request at a time, and a batch (`Begin`, a
`Step` for each sub-request, `Commit`) takes effect at its commit on the state
that it began with. Every `Step` must be allowed, by the rule in force, on that
state with the steps before it.

**Records** is one base collection with a relation to itself. A row is the
record it refers to, and a rule is the set of callers and rows it lets. A
single request is `Load` (the collection; for a POST the rule on the body),
`Fetch`, `Gate` (the rule on the row as it is by then, or no look at the row for
an admin and for the empty rule), `Relations` (with the
merge of the patch into the row that was *fetched*), one of `Insert`, `Update`,
`Delete`, and then, with the connection given back, `WriteFiles` or
`RemoveFiles`. `End` is every return in between. A batch holds the write lock
from `Begin`, so its sub-requests run one core each on its own view.
`DropCollection`, `DropRows` and `Sweep` are the two statements of a DELETE of
the collection and the removal of its directory; `Fails` is the `unwrap` of the
second. `Crash` keeps what is committed and the files. The files of a record
are one unit, and `kept` remembers the uploads that were answered 200.

**Listing** is `records_list` with the default order. `Open` takes the snapshot,
`Count` or `SkipTotal` and `Answer` read it. A writer reads the clock in `Stamp`
and inserts later, as `create_core` does in two statements. `Walk` and
`NextPage` are a client that asks for one page after the other until
`LastPage`. Pages and counts are u32; the product of `(page - 1) * per_page`
wraps at `Word`.

**Filter** has the parser over tokens, the SQL text a tree compiles to
(`ToSql`), and the verdict in memory (`Eval`). The parser descends recursively
and never goes back, so all that it knows at a token is in its activations:
they are `stack`, `wants` says that `unit()` has been called and has read
nothing, and a step is what the parser does with one token: `ReadComparison`,
`Open` (the call of `expr` with the depth limit), `Close` (its return to `unit`
and on to `and`), `AndThen` and `OrElse` (a turn of the two loops), and
`Refuse`, where one of the three returns `Err`. `Parsed` is what `parse` returns
if the input ends there. What a text means is defined apart from parser and
backends, by splitting it at its loosest connective (`Means`); the connectives
of rules and of SQL are the same tokens, since their precedence is the same.

**Descent** is the same parser in the form of the code (`Expr`, `Conj`, `Unit`).
Its operators are `RECURSIVE`, so it is for TLC only, which finds that the two
parsers return the same tree for every text (`ParserDescends`). This is what
ties the steps of `Filter` to the calls in `filter.rs`.

**Comparison** is one comparison of such a tree: `SqlGrants` and `EvalGrants` over
operands of every kind: fields with any JSON value, the columns `id`, `created`,
`updated`, the caller, and literals. SQLite is modelled from its documentation:
NULL, storage classes, affinity, `LIKE` with `ESCAPE`, which ends at a NUL. Text
is a sequence of character codes of any length. A number is a numeral, since
three libraries look at it and do not see the same. Its texts are serde_json's
(`Serde`, in memory), Rust's `to_string()` (`Display`, in a pattern) and SQLite's
(`Sqlite`, 15 digits): the real 10^15 is `1000000000000000.0`, `1000000000000000`
and `1.0e+15`. Its values are the numeral's own (`Value`), what `json_extract`
reads (`Read`: a real past `i64::MAX`, and now and then the next f64) and what
`as_f64()` makes of it (`Double`). Of these only what the libraries promise is
assumed: rounding keeps order and is idempotent, an f64 is its own, and an
integer up to `i64::MAX` is read and spelled the same by all. `inf` and `NaN` are
literals, as `parse::<f64>()` reads them; in memory they are null (`JsonValue`),
in SQL infinities, or NULL for `NaN` (`SqlValue`). `like_escape` is stated by the place each
character comes to lie at (`Place`), and a match of `LIKE` by an alignment: how
many characters of the text match the first `k` of the pattern.

**Server** is one database file and the processes that open it one after the
other. `SeedUsers`, `Check`, each `Alter`, `SeedBase`, `SeedAuth` and `Secret`
are statements of `init_db`, `migrate_rules` and `param_get_or_create`; a
process may die between any two (`Crash`), and the next one starts on what is
left. While it serves, an admin edits, drops and re-creates collections; a
login is `Refuse` or `Admit` (the check), `Verify` (the slow hash), `Reject` or
`Accept`, and `Respond`; `Signal` closes the listener and `Exit` waits for
everything open. `wrote`, `torn` and `guesses` are history.

## 3 Runs

| run | config | what it asks | result |
|---|---|---|---|
| `pool` | `MCPool.cfg` | are connections conserved, wakeups enough, everybody served; is it a `Checkout` | holds |
| `serial` | `Serial.cfg` | what holds of accounts when one connection serialises the handlers | holds |
| `pooled` | `Pooled.cfg` | what holds on two connections, with transactions, busy errors and crashes | holds |
| `lost_update` | `LostUpdate.cfg` | does an epoch ever go back on two connections | it does |
| `same_email` | `SameEmail.cfg` | are addresses unique on two connections | they are not |
| `refresh_race` | `RefreshRace.cfg` | does a revocation end every session, on one connection | it does not |
| `realtime` | `MCRealtime.cfg` | zero staleness, order, no silent gap, no stream left behind; is it a `Feed` | holds |
| `records` | `MCRecords.cfg` | are batches atomic, do files follow the commits and stay; is it a `Store` | holds |
| `listing` | `MCListing.cfg` | do count and page agree, does a walk see everything once | holds |
| `filter` | `MCFilter.cfg` | does a tree mean its text, does spliced SQL, do SQL and memory agree, are the two parsers one | holds, but for named operands |
| `server` | `MCServer.cfg` | what survives crashes in a start; is the throttle tight and fair; does shutdown end | holds |
| `failed_edit` | `FailedEdit.cfg` | does an edit that returned always invalidate the caches | it does not |

**pool.** Four requests of up to two checkouts, two connections, three workers:
more requests than workers, more workers than connections, so requests wait for
both; a sleeper can be overtaken after its notification and woken for nothing.
The run ends when all requests are done, so it does not check deadlock;
`AllServed` says that it ends in no other way.

**serial and pooled.** Two ids, two addresses, two passwords and three tickets
let two records compete for an address and a reset compete with a PATCH on one
record. The first user starts signed up, logged in, and with a ticket of each
kind, a state reached by a signup, a login and two request calls; otherwise
each run would spend its requests on getting there. `same_email` starts with no
record, and its requests are signups. `:memory:` databases
get one connection from `Pool::open`, files 2 to 16: `serial` (four requests,
one connection) states what the handlers do when they cannot overlap
between a checkout and its drop. That is a real restriction: none of its
properties but `TypeOK` is claimed for two connections. `lost_update` and
`same_email` show two of them fail there (`EpochNeverBack`, `EmailUnique`). Three
more have no run of their own: the write that restores an old epoch restores an
old `verified` and lets in a session again (`VerifiedOnlyByTicket`,
`SessionProvesPassword`), and `SerialInv` says itself that a request with a
connection is alone. All nine operations take part. A caller is identified on a
checkout of its own, so one connection does not keep a revocation out between
that and the work. PATCH and DELETE act once for that caller; `auth_refresh`
mints a session, of the epoch it reads by then. So `SessionProvesPassword` makes
one exception, a session whose refresh a revocation overtook (`Overtaken`: its
epoch is newer than that of the login it comes from), and `refresh_race` shows
that such a session is let in. `pooled` (three requests, two connections)
states what still holds when handlers overlap: tickets are spent once, burning one is
atomic with its change, a deleted record does not come back, and no call
hangs. A third request is what a second spend, or a write between a snapshot
and its upgrade, needs. The patches are the six bodies that change an account
in different ways; `pooled` uses the three that matter to how requests meet.
`serial` uses symmetry in the requests, which no constant, definition or
property distinguishes; it has no liveness property. Requests may all be
done, so these runs do not check deadlock.

**realtime.** One user and one admin stream, one editor, two writers of up to
two changes, a ring of two. Four events overrun the ring by more than one slot
whatever the stream has in hand; the single edit falls before, between and
after `LoadVersion` and `Decide`, and a batch and a single write interleave
their broadcasts. A second editor would only add the order of two edits, which
the proof covers; with the liveness property it is too large for a quick run.
It never stops (a client can always connect), and deadlock is checked.

**records.** Two records, a user and an admin, rules that let the user at rows
without a relation or at nothing, one single request, one batch and two editors.
Two records are what a relation and a rolled-back neighbour need; the second
editor re-creates the collection inside the DELETE of the first. 1.3 million
states. A request can be waiting for a collection that does not exist and all
ids may be used up, so deadlock is not checked.

**listing.** Four records, two writers, a clock of two instants, pages of up to
three rows, and a word of 8: page 7 with two rows each overruns it. Ties in
`created`, late stamps, a page that is not full, an empty last page and both
ways to count occur. 1.8 million states; it never stops.

**filter.** All texts of up to seven tokens over two atoms and a depth limit of
two, each under all verdicts (true, NULL, false) of its atoms: seven tokens are
the shortest that nest an OR under an AND under an OR, or exceed the depth. All
comparisons of operands with null, booleans, an array, twelve numbers and nine
texts; each is one step from the start. The numbers are one of each sort that
behaves in its own way: small integers, a fraction that SQLite reads one f64
away, a whole real, a real that all three libraries spell differently, two
integers with one f64, one past `i64::MAX`, both infinities and NaN. Their values
are ranks and their texts abbreviations with the same collisions, which is all
that the two evaluators see of them. The texts have both wildcards, a backslash,
a digit, both cases of a letter, the text of an array, and a NUL. A text that is complete and a comparison that is made have
no successor, so deadlock is not checked. On every text the parser that reads
token by token and the recursive descent return the same tree
(`ParserDescends`), so what is proved of the one holds of the other as far as
the run goes. `BackendsAgree` names where the
two differ, and each exception is needed (without it TLC finds a comparison that
it covered). Only SQL can grant an ordering of anything but two numbers, and
a comparison with a literal that is not finite: `score != inf` holds in
SQL and never in memory. Either side can be the one that grants under `~` with a
boolean (`BoolAsText`), a number that the two spell differently (`Respelled`) or
a NUL (`Cut`); under `=` with a number against the text columns `id`, `created`,
`updated` (`ColumnAsText`) or an array against text (`ArrayAsText`); and between
numbers that SQLite reads differently (`Misread`) or that have one f64
(`Rounded`).

**server.** The collection `users` with two rule columns (the code has five; two
are what a half-made migration and a half-seeded row need), two keys, two
identities, two logins at once, a limit of two. 0.7 million states. More
collections only repeat what the proofs say of all of them. It never stops: the
next start can always come.

Each property of the passing runs has a mutant in the module it is about (an
operator named `<definition>_<mistake>` next to the definition), which it
rejects.

**Bounds.** Every bound is a constant: `MaxCheckouts` (a handler makes at most
two), `Workers`, `PoolSize`, `MaxBatch` (50 in the code), `Cap` (64), `MaxClock`,
`MaxPer` (500), `Word` (2^32), `MaxTokens` (2048 bytes), `MAX_DEPTH` (32),
`MaxFails` (5), and the
finite sets of requests, ids, tickets, editors and writers, each of which in
`Accounts` and `Realtime` acts once. Failed logins end at the limit and the
number of logins at once. Epochs, versions and the log are bounded by these and need no cap of their
own.

**Fairness.** The operating system runs threads that are not blocked, and tokio
polls tasks that are ready: weak fairness of the next step of each request that
has begun (`Serve`, and in `Pool` each request), and of each stream whose client
reads (`Stream`); in `Server`, of `main` (`Boot`, `Exit`) and of each login
(`Handle`). No client has to leave its stream and no signal has to come, which is
why `ShutdownEnds` ends in the process gone *or* a stream open. Nothing is assumed about requests arriving, clients
connecting, crashes, spurious wakeups, or which sleeper a notification chooses.
`AllServed` needs no strong fairness because each request makes finitely many
checkouts.

## 4 Proofs

`tlapm` checks all of them. They hold for every value of the constants that
satisfies the named assumptions (`PoolAssumption`, `AccountsAssumption`,
`SeedAssumption`, `RealtimeAssumption`, `RecordsAssumption`,
`ListingAssumption`, `ServerAssumption`, `ComparisonAssumption`,
`FilterAssumption`): finitely many
requests, at least one connection, distinct model values, fewer rows than a word
counts, a starting database that is well formed, texts and digits that are
sequences of character codes, values and spellings of numbers as described under
`Comparison`, and comparisons that are not signs of the grammar.

**PoolProofs.** `Owned` strengthens the type invariant: a request holds a
connection exactly in the phase `hold`, and a request that is not done has a
checkout left. From it follow `TypeCorrect` and `OnePlace`. `WakeupsSuffice` is
the argument of the condition variable: connections in the stack never
outnumber the woken and the notifying requests while someone sleeps. A push
adds one to both sides; a pop takes one from both, or only from the stack; the
notification replaces one signal with another, or there is no sleeper.
`PoolImplementsCheckout` maps `holding` to the requests with a connection; that
`Pop` implies the abstract `Free` is a count over the disjoint connections.

**AccountsProofs.** `AccountsInv` says what each request knows at each
statement (`KnowsEnough`), what its transaction sees (`SeesTheNewest`), and
where each ticket is in its life (`LifeOfTicket`, `TicketToInsert`).
`SeesTheNewest` is the heart: a transaction that is not stale sees exactly the
database, and the one that holds the write lock sees it with its own change,
because nobody else can commit. So when `Burn` replaces the database by the view,
nothing else changes (`AtomicSpending`), the ticket is still there, and no other
commit has spent it (`SingleUse`). `OnlyBurnSpends` names the one action that
can remove a ticket. `NoRevival` is over all actions: only `InsertRow` makes a
row where there was none, as an UPDATE of a missing row changes nothing and
`Burn` has the newest view.

`AccountsInvariantHolds` states the invariant itself.

The second part of the module is about one connection, which is what
`Pool::open` gives to `:memory:`. It is proved from `PoolSize = 1` and `CleanStart` as
hypotheses of the theorems: the database a process starts on has no two records
with one address, and no session newer than its record or, at its record's
epoch, without its password. The code keeps this up, so it is true of every
file it has written with one connection; the seed of the run satisfies it.
`HoldersInv`, for any pool, says that a request has a connection from its
checkout to its reply and that there are no more holders than connections. With
one, the request that has it is alone, and `SerialInv` is what it then knows: the
row it fetched is the row that is there (`KnowsTheRow`), the address that it
found free is still free, and the id of a signup is nobody's (`BornOnce`), with
no session left from an earlier owner (`Unborn`). `CommitReplaces` is the step
that uses it: each of the four statements that change rows replaces one row by
one with another's address only if it is its own, no older epoch, and the same
`verified` but for the ticket. `SerialInvariantHolds` and the three theorems on
the rows follow. `SerialSessionProvesPassword` is about every request, and has
the exception of its property and no other hypothesis: a session that is accepted
and not `Overtaken` still bears the epoch of its login, no revocation came since,
and a new password is a revocation (`SessionFits`). The runs
`lost_update` and `same_email` drop `PoolSize = 1` and break what is proved;
`refresh_race`, on one connection, shows that the exception is needed.

**RealtimeProofs.** The cache argument: a cached rule under the current
version is at least as new as the last acknowledged edit, because the version
is loaded before the rule is read and bumped after it is stored. Once a
version has been compared for the event in hand, the rule that gates it is at
least as new as the last edit acknowledged when the event was broadcast
(`ZeroStaleness`), with any number of editors. `StreamImplementsFeed` maps the
place of a stream to the event in its hand, or else its receiver.
`EventsAfterCommit` counts: a writer has as many events in the log as it has
sent (`EventsInOrder`), so the next one it appends bears the next number, and a
writer that has not committed has none.

**RecordsProofs.** `Inv` adds to the types that every row was inserted
(`RowsMade`), what a request has in hand at each place (`JobReady`), and that an
open batch sees no record that is gone (`ViewSound`), because nobody else writes
while it holds the lock. Then a file is written only for a record that was
inserted (`DiskFollowsCommits`), and it is removed only when the row is gone
for good, since ids are never used again (`UploadsStay`).
`BatchesAreAtomic` maps the abstract transaction to the open view together with
the state as it is now; that this is still the state at `Begin` is the lock.

**ListingProofs.** `PagesAgree` is arithmetic about one snapshot: what a page
of the sorted rows holds, against what the ceiling of the division says, for
every width of a word that counts the rows. The lemmas about `SubSeq`, products
and quotients are stated apart (`SelectLength`, `Ceiling`, `Quotient`).
`WalksSeeAll` is about many snapshots. The order of a table is stated by rank
(`Rank`: one more than the rows before it), so that sorting is a bijection and
needs no induction. A row appended behind the first `k` rows leaves the ranks of
these alone; so the rows shown so far are the first rows of the table as it is
now, of every snapshot taken since, and of the table the walk began with, as
far as that goes (`WalkOK`). The next page begins where the last one ended, and
a last page ends where its snapshot does, and that is no shorter than the first.

**ComparisonProofs.** `BackendsAlwaysAgree` has no history to speak of, since a
probe is a single step; it is about what the two evaluators compute, for texts of
any length and any values, roundings and spellings of numbers that satisfy
`ComparisonAssumption`. `LikeIsSearch` is its core: `LIKE` with the pattern
`%` escaped text `%` is `contains()` on the lowered texts. Escaping keeps the
characters apart and in order (`PlaceGrows`, `PlacesDiffer`), so the backslashes
that it puts in escape exactly the special characters (`LiteralCharacters`: the
places that are literal are determined from left to right). An alignment of text
and pattern then advances by one at each character and not at all at a backslash
(`AlignedMeans`); it yields the place of the text found (`AlignedFinds`), and a
place found yields an alignment (`FoundAligns`). The arguments from left to right
are inductions over a *set* of numbers (`SetInduction`, from the least element of
a set that is not empty), which needs no theorem with an operator as parameter.
Equality of texts in SQL is that neither precedes the other (`PrecedesTotal`, at the
first place where they differ). Two numbers that SQLite reads as `as_f64()` would,
and that rounding keeps apart, are ordered in both alike; a text without a NUL is
all that `LIKE` reads. `ComparisonAgrees` puts the kinds together.

**FilterProofs.** `TreeMeansInput` and `SpliceMeansTree` are about texts and trees
of any size, with any number of atoms and any depth limit. Four things carry
them.

- *Recursive functions.* The equations of `Trees`, `Sql`, `Eval` and `Means` hold
  because each looks only at what is smaller (`Descends`): `Recursion` builds a
  function that satisfies them, for any rank in the naturals, by induction over
  a set of numbers. `TreesAre`, `SqlIs`, `EvalIs` and `MeansIs` are its uses.
- *Where a text is split does not matter.* `Means` splits at the last connective
  outside parentheses, the parser and `Sql` join at any of them. `AnySplit` says
  that a split at any `||` outside parentheses, or at any `&&` where there is no
  such `||`, yields the same meaning, as both connectives are associative
  (`Associative`, with -1 for nonsense and NULL between false and true);
  `Enclosed` says that parentheses around a text change nothing.
- *The SQL text of a tree.* A text says a tree (`Says`) if it is balanced and means
  under every assignment what the tree evaluates to; it is a conjunction if it
  has no `||` outside parentheses. `SqlFaithful`: `Sql[n]` says `n`, and with the
  parentheses of `Wrapped` it is a conjunction, so that it can stand under an
  `AND` or be spliced behind one (`Spliced`). Without them `ToSql_Bare` breaks
  exactly this step.
- *The parser.* Neither property is inductive, since both speak only of the
  expression as if it ended here. `ParserInv` is what the parser knows in
  between. While it runs, there is one activation more than open
  parentheses, each but the top one waits in front of its parenthesis
  (`Nesting`), and each has read a piece of the input that its two trees say:
  `or` a piece that ends before a `||`, `and` a conjunction that ends here
  (`Complete`) or before an `&&` or a parenthesis (`Waiting`). Once it has
  refused, there is a token that no expression has at that place, or that is
  nested too deep (`Wrong`), and appending tokens cannot mend that. One lemma per
  action (`ReadComparisonKeeps`, `OpenKeeps`, `CloseKeeps`, ...) shows it kept;
  `MeaningFits` closes the gap on the other side: a text with a meaning has no
  `Wrong` token but for depth, so a refused text means nothing or is too deep.

**ServerProofs.** `StoreInv` ties the number of columns and the rules of every
collection to the place of the process in its start (`Phase`), whether or not
an earlier one died there; from it follow `RulesStay`, `SeedingIsWhole` and
`KeyIsStable` for any set of collections and columns. `LoginInv` says that the
comparisons made are the counted ones and those still to be counted
(`Counted`), which bounds them (`FewGuesses`) and means that a slot at the limit
is full of an identity's own failures (`OwnFailures`).

Only model-checked: liveness (`AllServed`, `AllAnswered`, `CatchesUp`,
`ShutdownEnds`), which TLAPS does not prove; and `ParserDescends`, because
`Descent` has recursive operators, which the provers cannot reason about. Every
other property of a passing run is stated by a theorem. `ENABLED` is not used.

## 5 Findings

- `lost_update`: two PATCHes of one record on two connections. The slower one
  read the row before the faster one revoked its sessions, and writes the old
  epoch back (`records.rs`, `update_core`): the sessions just revoked are
  accepted again. The same write restores an old password or `verified`.
- `same_email`: two signups check `email_taken` before either inserts; no index
  refuses the second. The README promises uniqueness.
- `refresh_race`: `auth_refresh` checks the epoch on its first checkout, and
  mints with the epoch of its second. A revocation between the two is undone
  for that session, with one connection too.
- `failed_edit`: `collections_update` commits a column at a time. When a later
  statement fails it returns with the rule stored and `cols_version` not
  bumped; streams go on with the old rule until another edit succeeds.

Other places where a text of the repository and the code part, which no run is
about because one step shows them, or which a passing run states as an exception
of its property:

- `records.rs:608`: a PATCH of the address of a verified record leaves it
  verified, though `records.rs:28` calls the field "Whether the address on an
  auth record has been proven".
- `db.rs:187`: the migration is guarded by its first column. A process that dies
  between two `ALTER`s leaves a file on which every later start succeeds and
  every collection answers 404 (`SeededWhole` has the exception `torn`).
- `db.rs:168`: `src/README.md:111` says that `users` is seeded on first start. It
  is seeded at every start: one that an admin deleted comes back, with NULL
  rules, which is closed to all but the admin.
- `filter.rs:512`: "The two backends must return the same verdict". They do not
  for the operands that `BackendsAgree` names: `flag ~ 'true'` holds in memory
  and `flag !~ 'true'` in SQL, and `score != inf` in SQL only. But for orderings
  and such literals, either side can be the one that grants.
  `src/src/rules.rs:10-11` and `src/README.md:436-437` say the same as the test.
- `records.rs:241`: a page number whose product with `perPage` leaves 32 bits
  wraps in a release build, and the answer then has the rows of another page.
- `collections.rs:259`: a crash between the two DELETEs leaves records that a
  collection of the same name has when it is created again; and the sweep at
  line 268 can remove files uploaded to such a collection.

`src/README.md` is older than the code in places no property is about: it says
that there is one connection behind a mutex, no cache (line 616) and no graceful
shutdown (line 620).

## 6 What is not modelled

In the parts that are modelled: ticket expiry and the list of tickets (a ticket
that expires is one nobody presents); PATCH of an account inside a batch, which
runs in the batch's transaction; rules of an auth collection other than the
defaults; the topics filter and keep-alives of a stream (wording of frames); and
several collections in one cache (the cache is cleared whole, so topics do not
affect each other). `validate` and the schema of a collection: a body it refuses
is a request that ends. `?expand=`, `?fields=`, sort fields other than the
default, the view of one record and the download of a file only read. Multipart
parsing and file names are input checks on one request. The lexing of a filter
(quotes, numbers, field names) is abstracted to tokens and operands. `main`'s
environment, an `RB_JWT_SECRET` given from outside, and a port in use.
Passwords longer than what bcrypt takes, JSON syntax and timestamps carry no
property.

Parts left out: `backup.rs` leaves the snapshot to SQLite and is I/O otherwise;
the HTTP shell is stateless; the admin page (`assets/`) is a client.

## 7 Plan

Done: all modules of section 2 and the theorems of section 4; every safety
property that a passing run checks is proved, but for `ParserDescends`. What
would come next: a schema that an admin replaces while records are written
against the old one, in `Records`.
