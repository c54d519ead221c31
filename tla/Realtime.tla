------------------------------ MODULE Realtime ------------------------------
(***************************************************************************)
(* The SSE stream of one topic: admins edit the collection (collections.rs),*)
(* requests change its records and publish the changes on the broadcast    *)
(* channel (records.rs, batch.rs), subscribers take them off the channel   *)
(* and gate each one with a rule they cache (realtime.rs).                 *)
(*                                                                         *)
(* A view rule is the set of subscribers that it lets read the topic; a    *)
(* NULL rule and a deleted collection are the empty set.  The channel is   *)
(* tokio's: a log of which only the last Cap entries can still be received. *)
(* Admins are the streams opened with the admin token.                     *)
(***************************************************************************)
EXTENDS Naturals, Sequences, FiniteSets

CONSTANTS Subscribers, Admins, Audiences,
          Editors,    \* POST, PATCH and DELETE requests on the collection
          Writers,    \* requests that change records: one, or a batch
          Cap,        \* slots of the channel, 64 in build_app
          MaxBatch    \* sub-requests in one of them, 50 in batch.rs

ASSUME RealtimeAssumption ==
  /\ Admins \subseteq Subscribers
  /\ Audiences \subseteq SUBSET Subscribers /\ Audiences # {}
  /\ Cap \in Nat \ {0} /\ MaxBatch \in Nat \ {0}

VARIABLES
  rules,    \* the view rules of the row in _collections so far; last = stored
  version,  \* App::cols_version
  acked,    \* history: the last rule whose editor was answered 200
  edit,     \* where each editor is
  wrote,    \* history: the rule each editor stored, 0 = none
  log,      \* the events broadcast since the start
  write,    \* where each writer is
  events,   \* changes in the buffer of a batch, still to be published
  sent,     \* of them, those published
  next,     \* the receiver's position in the log, 0 = not connected
  hand,     \* the event it took and has not decided about, 0 = none
  loaded,   \* whether visible() has compared the versions for it
  cache,    \* its RuleCache: a version, and an index in rules, 0 = no entry
  frame     \* the last frame that the client was sent

editVars == <<rules, version, acked, edit, wrote>>
writeVars == <<write, events, sent>>
streamVars == <<next, hand, loaded, cache, frame>>
vars == <<rules, version, acked, edit, wrote, log, write, events, sent,
          next, hand, loaded, cache, frame>>

Hello == [kind |-> "hello", n |-> 0]

Init ==
  /\ \E a \in Audiences : rules = <<a>>
  /\ version = 0
  /\ acked = 1
  /\ edit = [e \in Editors |-> "new"]
  /\ wrote = [e \in Editors |-> 0]
  /\ log = <<>>
  /\ write = [w \in Writers |-> "new"]
  /\ events = [w \in Writers |-> 0]
  /\ sent = [w \in Writers |-> 0]
  /\ next = [s \in Subscribers |-> 0]
  /\ hand = [s \in Subscribers |-> 0]
  /\ loaded = [s \in Subscribers |-> FALSE]
  /\ cache = [s \in Subscribers |-> [version |-> 0, rule |-> 0]]
  /\ frame = [s \in Subscribers |-> Hello]

-----------------------------------------------------------------------------
(* Editing the collection. *)

\* The statement, in autocommit mode, that changes what the view rule is:
\* INSERT, UPDATE ... view_rule, or DELETE.
EditRule(e) ==
  /\ edit[e] = "new"
  /\ \E a \in Audiences : rules' = Append(rules, a)
  /\ wrote' = [wrote EXCEPT ![e] = Len(rules) + 1]
  /\ edit' = [edit EXCEPT ![e] = "stored"]
  /\ UNCHANGED <<version, acked, log, writeVars, streamVars>>

\* A statement fails (busy, disk): a 500, or a panic, before bump().  Without
\* an EditRule the handler changed nothing, with one it had committed already.
EditFails(e) ==
  /\ edit[e] \in {"new", "stored"}
  /\ edit' = [edit EXCEPT ![e] = "done"]
  /\ UNCHANGED <<rules, version, acked, wrote, log, writeVars, streamVars>>

Later(m, n) == IF m > n THEN m ELSE n

\* Mutant: no bump.
EditReturns_NoBump(e) ==
  /\ edit[e] = "stored"
  /\ acked' = Later(acked, wrote[e])
  /\ edit' = [edit EXCEPT ![e] = "done"]
  /\ UNCHANGED <<rules, version, wrote, log, writeVars, streamVars>>

\* The other statements, then bump(), then the 200.
EditReturns(e) ==
  /\ edit[e] = "stored"
  /\ version' = version + 1
  /\ acked' = Later(acked, wrote[e])
  /\ edit' = [edit EXCEPT ![e] = "done"]
  /\ UNCHANGED <<rules, wrote, log, writeVars, streamVars>>

-----------------------------------------------------------------------------
(* Changing records. *)

\* Mutant: a sub-request publishes its event itself.
SubRequest_Sends(w) ==
  /\ write[w] = "new"
  /\ events[w] < MaxBatch
  /\ events' = [events EXCEPT ![w] = @ + 1]
  /\ sent' = [sent EXCEPT ![w] = @ + 1]
  /\ log' = Append(log, [by |-> w, no |-> events[w] + 1, acked |-> acked])
  /\ UNCHANGED <<write, editVars, streamVars>>

\* One more change inside the transaction; its event goes to the buffer.
SubRequest(w) ==
  /\ write[w] = "new"
  /\ events[w] < MaxBatch
  /\ events' = [events EXCEPT ![w] = @ + 1]
  /\ UNCHANGED <<write, sent, log, editVars, streamVars>>

\* A sub-request is refused, or the commit fails: the buffer is dropped.
Rollback(w) ==
  /\ write[w] = "new"
  /\ write' = [write EXCEPT ![w] = "refused"]
  /\ events' = [events EXCEPT ![w] = 0]
  /\ UNCHANGED <<sent, log, editVars, streamVars>>

Commit(w) ==
  /\ write[w] = "new"
  /\ events[w] > 0
  /\ write' = [write EXCEPT ![w] = "committed"]
  /\ UNCHANGED <<events, sent, log, editVars, streamVars>>

\* Mutant: one event too many.
Broadcast_OffByOne(w) ==
  /\ write[w] = "committed"
  /\ sent[w] <= events[w]
  /\ sent' = [sent EXCEPT ![w] = @ + 1]
  /\ log' = Append(log, [by |-> w, no |-> sent[w] + 1, acked |-> acked])
  /\ UNCHANGED <<write, events, editVars, streamVars>>

\* broadcast_change, after drop(db): others may commit and publish before it.
Broadcast(w) ==
  /\ write[w] = "committed"
  /\ sent[w] < events[w]
  /\ sent' = [sent EXCEPT ![w] = @ + 1]
  /\ log' = Append(log, [by |-> w, no |-> sent[w] + 1, acked |-> acked])
  /\ UNCHANGED <<write, events, editVars, streamVars>>

\* Uploaded files cannot be written: a 500 for a row that is there, no event.
FilesFail(w) ==
  /\ write[w] = "committed"
  /\ events[w] = 1 /\ sent[w] = 0
  /\ write' = [write EXCEPT ![w] = "failed"]
  /\ UNCHANGED <<events, sent, log, editVars, streamVars>>

-----------------------------------------------------------------------------
(* A stream. *)

Connect(s) ==
  /\ next[s] = 0
  /\ next' = [next EXCEPT ![s] = Len(log) + 1]
  /\ UNCHANGED <<editVars, log, writeVars, hand, loaded, cache, frame>>

Disconnect(s) ==
  /\ next[s] # 0
  /\ next' = [next EXCEPT ![s] = 0]
  /\ hand' = [hand EXCEPT ![s] = 0]
  /\ loaded' = [loaded EXCEPT ![s] = FALSE]
  /\ cache' = [cache EXCEPT ![s] = [version |-> 0, rule |-> 0]]
  /\ frame' = [frame EXCEPT ![s] = Hello]
  /\ UNCHANGED <<editVars, log, writeVars>>

Waiting(s) == hand[s] = 0 /\ next[s] \in 1 .. Len(log)

\* How many events the receiver can get at no more.
Missed(s) ==
  IF next[s] + Cap <= Len(log) THEN Len(log) + 1 - (next[s] + Cap) ELSE 0

\* Mutant: the client is told, the receiver stays where it is.
Lagged_Stays(s) ==
  /\ Waiting(s)
  /\ Missed(s) > 0
  /\ frame' = [frame EXCEPT ![s] = [kind |-> "lagged", n |-> Missed(s)]]
  /\ UNCHANGED <<editVars, log, writeVars, next, hand, loaded, cache>>

\* recv fails with Lagged(n) and moves on to the oldest event there is.
Lagged(s) ==
  /\ Waiting(s)
  /\ Missed(s) > 0
  /\ next' = [next EXCEPT ![s] = @ + Missed(s)]
  /\ frame' = [frame EXCEPT ![s] = [kind |-> "lagged", n |-> Missed(s)]]
  /\ UNCHANGED <<editVars, log, writeVars, hand, loaded, cache>>

Recv(s) ==
  /\ s \notin Admins
  /\ Waiting(s)
  /\ Missed(s) = 0
  /\ hand' = [hand EXCEPT ![s] = next[s]]
  /\ next' = [next EXCEPT ![s] = @ + 1]
  /\ UNCHANGED <<editVars, log, writeVars, loaded, cache, frame>>

\* An admin's stream passes every event on, with no look at the cache.
RecvAsAdmin(s) ==
  /\ s \in Admins
  /\ Waiting(s)
  /\ Missed(s) = 0
  /\ frame' = [frame EXCEPT ![s] = [kind |-> "event", n |-> next[s]]]
  /\ next' = [next EXCEPT ![s] = @ + 1]
  /\ UNCHANGED <<editVars, log, writeVars, hand, loaded, cache>>

\* Mutant: the new version is noted and the rules are kept.
LoadVersion_KeepsRules(s) ==
  /\ hand[s] # 0 /\ ~loaded[s]
  /\ loaded' = [loaded EXCEPT ![s] = TRUE]
  /\ cache' = [cache EXCEPT ![s].version = version]
  /\ UNCHANGED <<editVars, log, writeVars, next, hand, frame>>

\* A changed version clears the whole map.
LoadVersion(s) ==
  /\ hand[s] # 0 /\ ~loaded[s]
  /\ loaded' = [loaded EXCEPT ![s] = TRUE]
  /\ IF cache[s].version = version THEN UNCHANGED cache
     ELSE cache' = [cache EXCEPT ![s] = [version |-> version, rule |-> 0]]
  /\ UNCHANGED <<editVars, log, writeVars, next, hand, frame>>

\* The rule of this topic, read from the database if it is not in the map.
Gate(s) == IF cache[s].rule = 0 THEN Len(rules) ELSE cache[s].rule

\* The lookup, the verdict and, if it is favourable, the frame.
Decide(s) ==
  /\ loaded[s]
  /\ cache' = [cache EXCEPT ![s].rule = Gate(s)]
  /\ frame' = IF s \in rules[Gate(s)]
               THEN [frame EXCEPT ![s] = [kind |-> "event", n |-> hand[s]]]
               ELSE frame
  /\ hand' = [hand EXCEPT ![s] = 0]
  /\ loaded' = [loaded EXCEPT ![s] = FALSE]
  /\ UNCHANGED <<editVars, log, writeVars, next>>

Stream(s) ==
  Lagged(s) \/ Recv(s) \/ RecvAsAdmin(s) \/ LoadVersion(s) \/ Decide(s)

Next ==
  \/ \E e \in Editors : EditRule(e) \/ EditFails(e) \/ EditReturns(e)
  \/ \E w \in Writers : SubRequest(w) \/ Rollback(w) \/ Commit(w)
                        \/ Broadcast(w) \/ FilesFail(w)
  \/ \E s \in Subscribers : Connect(s) \/ Disconnect(s) \/ Stream(s)

\* A client that reads has its stream polled; nobody has to send requests.
Fairness == \A s \in Subscribers : WF_vars(Stream(s))

Spec == Init /\ [][Next]_vars /\ Fairness

-----------------------------------------------------------------------------
Frame == [kind : {"hello", "event", "lagged"}, n : Nat]

TypeOK ==
  /\ rules \in Seq(Audiences) /\ rules # <<>>
  /\ version \in Nat
  /\ acked \in 1 .. Len(rules)
  /\ edit \in [Editors -> {"new", "stored", "done"}]
  /\ wrote \in [Editors -> 0 .. Len(rules)]
  /\ log \in Seq([by : Writers, no : 1 .. MaxBatch, acked : 1 .. Len(rules)])
  /\ write \in [Writers -> {"new", "refused", "committed", "failed"}]
  /\ events \in [Writers -> 0 .. MaxBatch]
  /\ sent \in [Writers -> 0 .. MaxBatch]
  /\ next \in [Subscribers -> 0 .. Len(log) + 1]
  /\ hand \in [Subscribers -> 0 .. Len(log)]
  /\ loaded \in [Subscribers -> BOOLEAN]
  /\ cache \in [Subscribers -> [version : Nat, rule : 0 .. Len(rules)]]
  /\ frame \in [Subscribers -> Frame]

\* "the staleness window is zero for any event broadcast after the PATCH
\* response returns" (realtime.rs): the rule that such an event is about to be
\* gated by, cached or read, is not older than the one the PATCH stored.
AckedRuleApplies ==
  \A s \in Subscribers : loaded[s] => Gate(s) >= log[hand[s]].acked

\* "Nothing is broadcast on rollback", and what is broadcast comes "only after
\* commit, in order" (specs/batch.md), however the writers interleave.
OnlyCommittedInOrder ==
  \A i \in DOMAIN log :
    LET w == log[i].by
        mine == {j \in 1 .. i : log[j].by = w}
    IN write[w] = "committed" /\ log[i].no = Cardinality(mine)

\* The stream implements Feed: its place in the log is the event in its hand,
\* if it holds one.
Promise == INSTANCE Feed WITH
  log <- [i \in DOMAIN log |-> log[i].acked],
  pos <- [s \in Subscribers |-> IF hand[s] # 0 THEN hand[s] ELSE next[s]]

ImplementsFeed == Promise!Spec

\* A connected client is never left behind: it hears of what was published,
\* or that it missed it.
CatchesUp ==
  \A s \in Subscribers :
    next[s] # 0 ~> next[s] = 0 \/ (hand[s] = 0 /\ next[s] = Len(log) + 1)

\* "Called by each handler that writes _collections, before it returns"
\* (collections.rs): once a handler that stored a rule has returned, a rule
\* that a stream would still take from its cache is not an older one.
ReturnedEditsInvalidate ==
  \A e \in Editors, s \in Subscribers :
    /\ edit[e] = "done" /\ wrote[e] # 0
    /\ cache[s].version = version /\ cache[s].rule # 0
    => cache[s].rule >= wrote[e]
=============================================================================
