--------------------------- MODULE RealtimeProofs ---------------------------
(***************************************************************************)
(* Proofs about Realtime for any number of subscribers, editors and        *)
(* writers, any capacity and any batch size.                               *)
(***************************************************************************)
EXTENDS Realtime, SequenceTheorems, FiniteSetTheorems, TLAPS

\* A rule that a stream would still take from its cache is as new as the last
\* acknowledged edit; the one it has settled on for the event in its hand, as
\* new as the last edit acknowledged when that event was broadcast.
CacheIsFresh(s) ==
  /\ cache[s].version <= version
  /\ cache[s].version = version /\ cache[s].rule # 0 => cache[s].rule >= acked
  /\ loaded[s] => /\ hand[s] # 0
                  /\ cache[s].rule # 0 => cache[s].rule >= log[hand[s]].acked

\* A stored rule is acknowledged when its editor returns, and not before.
Stored(e) == edit[e] = "stored" => wrote[e] # 0

(* The invariant, in parts that different actions disturb.                  *)

RulesTyped == rules \in Seq(Audiences) /\ Len(rules) \in Nat \ {0}

EditsTyped ==
  /\ version \in Nat
  /\ acked \in 1 .. Len(rules)
  /\ edit \in [Editors -> {"new", "stored", "done"}]
  /\ wrote \in [Editors -> 0 .. Len(rules)]
  /\ \A e \in Editors : Stored(e)

WritesTyped ==
  /\ write \in [Writers -> {"new", "refused", "committed", "failed"}]
  /\ events \in [Writers -> 0 .. MaxBatch]
  /\ sent \in [Writers -> 0 .. MaxBatch]

Entry(n) == [by : Writers, no : 1 .. MaxBatch, acked : 1 .. n]

LogTyped ==
  /\ log \in Seq(Entry(Len(rules)))
  /\ \A i \in 1 .. Len(log) : log[i].acked <= acked

StreamsInv ==
  /\ next \in [Subscribers -> 0 .. Len(log) + 1]
  /\ hand \in [Subscribers -> 0 .. Len(log)]
  /\ loaded \in [Subscribers -> BOOLEAN]
  /\ cache \in [Subscribers -> [version : Nat, rule : 0 .. Len(rules)]]
  /\ frame \in [Subscribers -> Frame]
  /\ \A s \in Subscribers : CacheIsFresh(s)

RealtimeInv == RulesTyped /\ EditsTyped /\ WritesTyped /\ LogTyped /\ StreamsInv

LEMMA InvIsTyped == RealtimeInv => TypeOK
<1> SUFFICES ASSUME RealtimeInv PROVE TypeOK
    OBVIOUS
<1>1. rules \in Seq(Audiences) /\ rules # <<>>
  BY DEF RealtimeInv, RulesTyped
<1> QED BY <1>1 DEF RealtimeInv, TypeOK, EditsTyped, WritesTyped, LogTyped,
           StreamsInv, Entry

\* An entry of the log, for the steps that compare acknowledged rules.
LEMMA EntryAcked ==
  ASSUME RulesTyped, LogTyped, NEW i \in 1 .. Len(log)
  PROVE  log[i].acked \in 1 .. Len(rules)
<1>1. log[i] \in Entry(Len(rules))
  BY DEF LogTyped
<1> QED BY <1>1 DEF Entry

EditStep(e) == EditRule(e) \/ EditFails(e) \/ EditReturns(e)

LEMMA EditSteps ==
  ASSUME RealtimeInv, NEW e \in Editors, EditStep(e)
  PROVE  RealtimeInv'
<1>1. RulesTyped /\ EditsTyped /\ WritesTyped /\ LogTyped /\ StreamsInv
  BY DEF RealtimeInv
<1>2. WritesTyped' /\ log' = log
  BY <1>1 DEF EditStep, EditRule, EditFails, EditReturns, writeVars, WritesTyped
<1>3. CASE EditRule(e)
  <2>1. PICK a \in Audiences : rules' = Append(rules, a)
    BY <1>3 DEF EditRule
  <2>2. RulesTyped' /\ Len(rules') = Len(rules) + 1
    BY <1>1, <2>1 DEF RulesTyped
  <2>3. /\ acked' = acked /\ version' = version
        /\ edit' = [edit EXCEPT ![e] = "stored"]
        /\ wrote' = [wrote EXCEPT ![e] = Len(rules) + 1]
    BY <1>3 DEF EditRule
  <2>4. EditsTyped'
    BY <1>1, <2>2, <2>3 DEF EditsTyped, RulesTyped, Stored
  <2>5. LogTyped'
    <3>1. Entry(Len(rules)) \subseteq Entry(Len(rules'))
      BY <1>1, <2>2 DEF Entry, RulesTyped
    <3> QED BY <1>1, <1>2, <2>3, <3>1 DEF LogTyped
  <2>6. StreamsInv'
    <3>1. cache \in [Subscribers -> [version : Nat, rule : 0 .. Len(rules')]]
      BY <1>1, <2>2 DEF StreamsInv, RulesTyped
    <3> QED BY <1>1, <1>2, <1>3, <2>3, <3>1
            DEF StreamsInv, CacheIsFresh, EditRule, streamVars
  <2> QED BY <1>2, <2>2, <2>4, <2>5, <2>6 DEF RealtimeInv
<1>4. CASE EditFails(e)
  <2>1. RulesTyped' /\ EditsTyped' /\ LogTyped' /\ StreamsInv'
    BY <1>1, <1>4 DEF EditFails, RulesTyped, EditsTyped, LogTyped, Stored,
                      StreamsInv, CacheIsFresh, streamVars
  <2> QED BY <1>2, <2>1 DEF RealtimeInv
<1>5. CASE EditReturns(e)
  <2>1. /\ rules' = rules /\ wrote' = wrote /\ version' = version + 1
        /\ edit' = [edit EXCEPT ![e] = "done"]
        /\ acked' = Later(acked, wrote[e])
    BY <1>5 DEF EditReturns
  <2>2. acked' \in 1 .. Len(rules) /\ acked' >= acked
    BY <1>1, <2>1 DEF EditsTyped, RulesTyped, Later
  <2>3. RulesTyped' /\ EditsTyped'
    BY <1>1, <2>1, <2>2 DEF RulesTyped, EditsTyped, Stored
  <2>4. LogTyped'
    <3>1. \A i \in 1 .. Len(log) : log[i].acked <= acked'
      BY <1>1, <2>2, EntryAcked DEF LogTyped, EditsTyped, RulesTyped
    <3> QED BY <1>1, <1>2, <2>1, <3>1 DEF LogTyped
  <2>5. StreamsInv'
    <3>1. ASSUME NEW s \in Subscribers PROVE CacheIsFresh(s)'
      <4>1. cache[s].version \in Nat /\ cache[s].version <= version
        BY <1>1 DEF StreamsInv, CacheIsFresh
      <4> QED BY <1>1, <1>2, <1>5, <2>1, <4>1
              DEF StreamsInv, EditsTyped, CacheIsFresh, EditReturns, streamVars
    <3> QED BY <1>1, <1>2, <1>5, <2>1, <3>1
            DEF StreamsInv, EditReturns, streamVars
  <2> QED BY <1>2, <2>3, <2>4, <2>5 DEF RealtimeInv
<1> QED BY <1>3, <1>4, <1>5 DEF EditStep

WriteStep(w) ==
  SubRequest(w) \/ Rollback(w) \/ Commit(w) \/ Broadcast(w) \/ FilesFail(w)

LEMMA WriteSteps ==
  ASSUME RealtimeInv, NEW w \in Writers, WriteStep(w)
  PROVE  RealtimeInv'
<1>1. RulesTyped /\ EditsTyped /\ WritesTyped /\ LogTyped /\ StreamsInv
  BY DEF RealtimeInv
<1>2. /\ UNCHANGED <<rules, version, acked, edit, wrote>>
      /\ UNCHANGED <<next, hand, loaded, cache, frame>>
  BY DEF WriteStep, SubRequest, Rollback, Commit, Broadcast, FilesFail,
         editVars, streamVars
<1>3. RulesTyped' /\ EditsTyped'
  BY <1>1, <1>2 DEF RulesTyped, EditsTyped, Stored
<1>4. WritesTyped'
  <2> USE <1>1, RealtimeAssumption DEF WritesTyped
  <2>1. CASE SubRequest(w)
    BY <2>1 DEF SubRequest
  <2>2. CASE Rollback(w)
    BY <2>2 DEF Rollback
  <2>3. CASE Commit(w)
    BY <2>3 DEF Commit
  <2>4. CASE Broadcast(w)
    BY <2>4 DEF Broadcast
  <2>5. CASE FilesFail(w)
    BY <2>5 DEF FilesFail
  <2> QED BY <2>1, <2>2, <2>3, <2>4, <2>5 DEF WriteStep
<1>5. CASE SubRequest(w) \/ Rollback(w) \/ Commit(w) \/ FilesFail(w)
  <2>1. log' = log
    BY <1>5 DEF SubRequest, Rollback, Commit, FilesFail
  <2>2. LogTyped' /\ StreamsInv'
    BY <1>1, <1>2, <2>1 DEF LogTyped, StreamsInv, CacheIsFresh
  <2> QED BY <1>3, <1>4, <2>2 DEF RealtimeInv
<1>6. CASE Broadcast(w)
  <2> DEFINE ev == [by |-> w, no |-> sent[w] + 1, acked |-> acked]
  <2>1. ev \in Entry(Len(rules)) /\ ev.acked = acked
    <3>1. sent[w] + 1 \in 1 .. MaxBatch
      BY <1>1, <1>6, RealtimeAssumption DEF Broadcast, WritesTyped
    <3> QED BY <1>1, <3>1 DEF EditsTyped, Entry
  <2>2. log' = Append(log, ev)
    BY <1>6 DEF Broadcast
  <2> HIDE DEF ev
  <2>3. /\ log' \in Seq(Entry(Len(rules)))
        /\ Len(log') = Len(log) + 1 /\ Len(log) \in Nat
        /\ \A i \in 1 .. Len(log) : log'[i] = log[i]
        /\ log'[Len(log) + 1] = ev
    BY <1>1, <2>1, <2>2 DEF LogTyped
  <2>4. LogTyped'
    <3>1. acked <= acked
      BY <1>1 DEF EditsTyped, RulesTyped
    <3> QED BY <1>1, <1>2, <2>1, <2>3, <3>1 DEF LogTyped
  <2>5. StreamsInv'
    <3>1. ASSUME NEW s \in Subscribers PROVE CacheIsFresh(s)'
      <4>1. CacheIsFresh(s) /\ hand[s] \in 0 .. Len(log)
        BY <1>1 DEF StreamsInv
      <4>2. hand[s] # 0 => log'[hand[s]] = log[hand[s]]
        BY <2>3, <4>1
      <4> QED BY <1>2, <4>1, <4>2 DEF CacheIsFresh
    <3>2. Len(log) + 1 \in Nat /\ Len(log') = Len(log) + 1 /\ Len(log) \in Nat
      BY <2>3
    <3> HIDE <2>3
    <3>3. /\ next \in [Subscribers -> 0 .. Len(log') + 1]
          /\ hand \in [Subscribers -> 0 .. Len(log')]
      BY <1>1, <3>2 DEF StreamsInv
    <3> QED BY <1>1, <1>2, <3>1, <3>3 DEF StreamsInv
  <2> QED BY <1>3, <1>4, <2>4, <2>5 DEF RealtimeInv
<1> QED BY <1>5, <1>6 DEF WriteStep

LEMMA StreamSteps ==
  ASSUME RealtimeInv, NEW s \in Subscribers,
         Connect(s) \/ Disconnect(s) \/ Stream(s)
  PROVE  RealtimeInv'
<1>1. RulesTyped /\ EditsTyped /\ WritesTyped /\ LogTyped /\ StreamsInv
  BY DEF RealtimeInv
<1>2. /\ UNCHANGED <<rules, version, acked, edit, wrote>>
      /\ UNCHANGED <<write, events, sent>> /\ log' = log
  BY DEF Connect, Disconnect, Stream, Lagged, Recv, RecvAsAdmin, LoadVersion,
         Decide, editVars, writeVars
<1>3. RulesTyped' /\ EditsTyped' /\ WritesTyped' /\ LogTyped'
  BY <1>1, <1>2 DEF RulesTyped, EditsTyped, WritesTyped, LogTyped, Stored
<1>4. /\ Len(rules) \in Nat \ {0} /\ Len(log) \in Nat
      /\ version \in Nat /\ acked \in 1 .. Len(rules)
  BY <1>1 DEF RulesTyped, LogTyped, EditsTyped
<1>5. SUFFICES StreamsInv'
  BY <1>3 DEF RealtimeInv
<1>6. /\ next[s] \in 0 .. Len(log) + 1 /\ hand[s] \in 0 .. Len(log)
      /\ cache[s].rule \in 0 .. Len(rules) /\ cache[s].version \in Nat
      /\ CacheIsFresh(s)
  BY <1>1 DEF StreamsInv
<1> USE <1>1, <1>2, <1>4, <1>6 DEF StreamsInv
<1>7. CASE Connect(s)
  BY <1>7 DEF Connect, CacheIsFresh
<1>8. CASE Disconnect(s)
  BY <1>8 DEF Disconnect, CacheIsFresh, Frame, Hello
<1>9. CASE Lagged(s)
  <2>1. Missed(s) \in Nat /\ next[s] + Missed(s) \in 0 .. Len(log) + 1
    BY <1>9, RealtimeAssumption DEF Lagged, Missed, Waiting
  <2> QED BY <1>9, <2>1 DEF Lagged, CacheIsFresh, Frame
<1>10. CASE Recv(s)
  <2>1. ~loaded[s]
    BY <1>10 DEF Recv, Waiting, CacheIsFresh
  <2> QED BY <1>10, <2>1 DEF Recv, Waiting, CacheIsFresh
<1>11. CASE RecvAsAdmin(s)
  BY <1>11 DEF RecvAsAdmin, Waiting, CacheIsFresh, Frame
<1>12. CASE LoadVersion(s)
  <2>1. hand[s] \in 1 .. Len(log)
    BY <1>12 DEF LoadVersion
  <2>2. log[hand[s]].acked <= acked /\ log[hand[s]].acked \in 1 .. Len(rules)
    BY <2>1, EntryAcked DEF LogTyped
  <2>3. /\ cache' \in [Subscribers -> [version : Nat, rule : 0 .. Len(rules)]]
        /\ loaded' \in [Subscribers -> BOOLEAN]
    <3>1. [version |-> version, rule |-> 0]
            \in [version : Nat, rule : 0 .. Len(rules)]
      OBVIOUS
    <3> QED BY <1>12, <3>1 DEF LoadVersion
  <2>4. CacheIsFresh(s)'
    <3>1. /\ cache'[s].version = version
          /\ cache'[s].rule # 0 => cache'[s].rule = cache[s].rule
                                    /\ cache[s].version = version
      BY <1>12 DEF LoadVersion
    <3>2. hand'[s] = hand[s]
      BY <1>12 DEF LoadVersion
    <3> QED BY <2>1, <2>2, <3>1, <3>2 DEF CacheIsFresh
  <2>5. \A q \in Subscribers : CacheIsFresh(q)'
    BY <1>12, <2>4 DEF LoadVersion, CacheIsFresh
  <2> QED BY <1>12, <2>3, <2>5 DEF LoadVersion
<1>13. CASE Decide(s)
  <2>1. Gate(s) \in 1 .. Len(rules)
    BY DEF Gate
  <2>2. cache' \in [Subscribers -> [version : Nat, rule : 0 .. Len(rules)]]
    BY <1>13, <2>1 DEF Decide
  <2>3. frame' \in [Subscribers -> Frame]
    BY <1>13 DEF Decide, Frame
  <2>4. CacheIsFresh(s)'
    <3>1. cache[s].version = version => Gate(s) >= acked
      BY DEF CacheIsFresh, Gate
    <3>2. /\ cache'[s].rule = Gate(s) /\ cache'[s].version = cache[s].version
          /\ ~loaded'[s]
      BY <1>13 DEF Decide
    <3> QED BY <3>1, <3>2 DEF CacheIsFresh
  <2>5. \A q \in Subscribers : CacheIsFresh(q)'
    BY <1>13, <2>4 DEF Decide, CacheIsFresh
  <2> QED BY <1>13, <2>2, <2>3, <2>5 DEF Decide
<1> QED BY <1>7, <1>8, <1>9, <1>10, <1>11, <1>12, <1>13 DEF Stream

-----------------------------------------------------------------------------
LEMMA InvInitially == Init => RealtimeInv
BY RealtimeAssumption
   DEF Init, RealtimeInv, RulesTyped, EditsTyped, WritesTyped, LogTyped,
       StreamsInv, CacheIsFresh, Stored, Entry, Frame, Hello

LEMMA InvInductive == RealtimeInv /\ [Next]_vars => RealtimeInv'
<1> SUFFICES ASSUME RealtimeInv, [Next]_vars PROVE RealtimeInv'
    OBVIOUS
<1>1. CASE Next
  BY <1>1, EditSteps, WriteSteps, StreamSteps DEF Next, EditStep, WriteStep
<1>2. CASE UNCHANGED vars
  BY <1>2 DEF vars, RealtimeInv, RulesTyped, EditsTyped, WritesTyped, LogTyped,
              StreamsInv, CacheIsFresh, Stored
<1> QED BY <1>1, <1>2

LEMMA Invariant == Spec => []RealtimeInv
BY InvInitially, InvInductive, PTL DEF Spec

\* The state of the streams is well typed in every run.
THEOREM StreamsTyped == Spec => []TypeOK
BY Invariant, InvIsTyped, PTL

\* realtime.rs's zero staleness window, for any number of editors storing and
\* acknowledging rules in any order.
THEOREM ZeroStaleness == Spec => []AckedRuleApplies
<1>1. RealtimeInv => AckedRuleApplies
  <2> SUFFICES ASSUME RealtimeInv, NEW s \in Subscribers, loaded[s]
               PROVE  Gate(s) >= log[hand[s]].acked
      BY DEF AckedRuleApplies
  <2>1. hand[s] \in 1 .. Len(log)
    BY DEF RealtimeInv, StreamsInv, LogTyped, CacheIsFresh
  <2>2. log[hand[s]].acked \in 1 .. Len(rules)
    BY <2>1, EntryAcked DEF RealtimeInv
  <2> QED BY <2>2 DEF RealtimeInv, RulesTyped, StreamsInv, CacheIsFresh, Gate
<1> QED BY Invariant, <1>1, PTL

-----------------------------------------------------------------------------
(* The order of the events.                                                *)

\* The first n events of a log that come from w.
Mine(l, w, n) == {j \in 1 .. n : l[j].by = w}

\* Every event is the next one of a writer that has committed, and a writer
\* has as many of them in the log as it has sent.
EventsInOrder ==
  /\ \A i \in 1 .. Len(log) : /\ write[log[i].by] = "committed"
                              /\ log[i].no = Cardinality(Mine(log, log[i].by, i))
  /\ \A w \in Writers : /\ sent[w] = Cardinality(Mine(log, w, Len(log)))
                        /\ write[w] # "committed" => sent[w] = 0

LEMMA EntryBy ==
  ASSUME LogTyped, NEW i \in 1 .. Len(log)
  PROVE  log[i].by \in Writers
<1>1. log[i] \in Entry(Len(rules))
  BY DEF LogTyped
<1> QED BY <1>1 DEF Entry

LEMMA MineFinite ==
  ASSUME NEW l, NEW w, NEW n \in Nat
  PROVE  IsFiniteSet(Mine(l, w, n))
<1>1. IsFiniteSet(1 .. n)
  BY FS_Interval
<1> QED BY <1>1, FS_Subset DEF Mine

LEMMA OrderInitially == Init => EventsInOrder
<1> SUFFICES ASSUME Init PROVE EventsInOrder
    OBVIOUS
<1>1. log = <<>> /\ Len(log) = 0 /\ sent = [w \in Writers |-> 0]
  BY DEF Init
<1>2. \A w \in Writers : Mine(log, w, Len(log)) = {}
  BY <1>1 DEF Mine
<1>3. Cardinality({}) = 0
  BY FS_EmptySet
<1>4. \A w \in Writers : sent[w] = 0
  BY <1>1
<1>5. 1 .. Len(log) = {}
  BY <1>1
<1> QED BY <1>2, <1>3, <1>4, <1>5 DEF EventsInOrder

\* A writer that has sent nothing has nothing in the log.
LEMMA NothingSent ==
  ASSUME LogTyped, EventsInOrder, NEW w \in Writers, sent[w] = 0
  PROVE  \A i \in 1 .. Len(log) : log[i].by # w
<1>1. Len(log) \in Nat
  BY DEF LogTyped
<1>2. Mine(log, w, Len(log)) = {}
  BY <1>1, MineFinite, FS_EmptySet DEF EventsInOrder
<1> QED BY <1>2 DEF Mine

LEMMA BroadcastInOrder ==
  ASSUME RealtimeInv, EventsInOrder, NEW w \in Writers, Broadcast(w)
  PROVE  EventsInOrder'
<1> DEFINE ev == [by |-> w, no |-> sent[w] + 1, acked |-> acked]
           n == Len(log)
<1>1. /\ log' = Append(log, ev) /\ write' = write /\ write[w] = "committed"
      /\ sent' = [sent EXCEPT ![w] = @ + 1]
  BY DEF Broadcast
<1>2. /\ log \in Seq(Entry(Len(rules))) /\ sent \in [Writers -> 0 .. MaxBatch]
  BY DEF RealtimeInv, LogTyped, WritesTyped
<1>3. ev.by = w /\ ev.no = sent[w] + 1
  OBVIOUS
<1>4. ev \in Entry(Len(rules))
  <2>1. sent[w] + 1 \in 1 .. MaxBatch
    BY RealtimeAssumption DEF RealtimeInv, Broadcast, WritesTyped
  <2> QED BY <2>1 DEF RealtimeInv, EditsTyped, Entry
<1> HIDE DEF ev
<1>5. /\ Len(log') = n + 1 /\ n \in Nat
      /\ \A i \in 1 .. n : log'[i] = log[i]
      /\ log'[n + 1] = ev
  <2>1. log' = Append(log, ev) /\ log \in Seq(Entry(Len(rules))) /\ n \in Nat
    BY <1>1, <1>2
  <2>2. /\ Len(Append(log, ev)) = n + 1
        /\ \A i \in 1 .. n : Append(log, ev)[i] = log[i]
        /\ Append(log, ev)[n + 1] = ev
    BY <1>4, <2>1, AppendProperties
  <2> QED BY <2>1, <2>2
<1> HIDE DEF n
<1>6. \A v, i : i \in 0 .. n => Mine(log', v, i) = Mine(log, v, i)
  BY <1>5 DEF Mine
<1>7. Mine(log', w, n + 1) = Mine(log, w, n) \cup {n + 1}
  BY <1>3, <1>5 DEF Mine
<1>8. \A v : v # w => Mine(log', v, n + 1) = Mine(log, v, n)
  BY <1>3, <1>5 DEF Mine
<1>9. Cardinality(Mine(log', w, n + 1)) = sent[w] + 1
  <2>1. n + 1 \notin Mine(log, w, n)
    BY <1>5 DEF Mine
  <2>2. Cardinality(Mine(log, w, n)) = sent[w]
    BY DEF EventsInOrder, n
  <2>3. IsFiniteSet(Mine(log, w, n))
    BY <1>5, MineFinite
  <2> QED BY <1>7, <2>1, <2>2, <2>3, FS_AddElement
<1>10. ASSUME NEW i \in 1 .. n + 1
       PROVE  /\ write'[log'[i].by] = "committed"
              /\ log'[i].no = Cardinality(Mine(log', log'[i].by, i))
  <2>1. CASE i = n + 1
    BY <1>1, <1>3, <1>5, <1>9, <2>1
  <2>2. CASE i # n + 1
    <3>1. i \in 1 .. n /\ i \in 0 .. n
      BY <1>5, <2>2
    <3>2. /\ write[log[i].by] = "committed"
          /\ log[i].no = Cardinality(Mine(log, log[i].by, i))
      BY <3>1 DEF EventsInOrder, n
    <3> QED BY <1>1, <1>5, <1>6, <3>1, <3>2
  <2> QED BY <2>1, <2>2
<1>11. ASSUME NEW v \in Writers
       PROVE  /\ sent'[v] = Cardinality(Mine(log', v, n + 1))
              /\ write'[v] # "committed" => sent'[v] = 0
  <2>1. CASE v = w
    BY <1>1, <1>2, <1>9, <2>1
  <2>2. CASE v # w
    <3>1. /\ sent[v] = Cardinality(Mine(log, v, n))
          /\ write[v] # "committed" => sent[v] = 0
      BY DEF EventsInOrder, n
    <3> QED BY <1>1, <1>2, <1>8, <2>2, <3>1
  <2> QED BY <2>1, <2>2
<1> QED BY <1>5, <1>10, <1>11 DEF EventsInOrder

LEMMA OrderInductive ==
  ASSUME RealtimeInv, EventsInOrder, [Next]_vars
  PROVE  EventsInOrder'
<1>1. LogTyped /\ WritesTyped
  BY DEF RealtimeInv
<1>2. CASE UNCHANGED <<log, write, sent>>
  BY <1>2 DEF EventsInOrder
<1>3. ASSUME NEW w \in Writers, Rollback(w) \/ Commit(w) \/ FilesFail(w)
      PROVE  EventsInOrder'
  <2>1. sent[w] = 0 /\ UNCHANGED <<log, sent>>
    BY <1>3 DEF EventsInOrder, Rollback, Commit, FilesFail
  <2>2. \A v \in Writers \ {w} : write'[v] = write[v]
    BY <1>1, <1>3 DEF WritesTyped, Rollback, Commit, FilesFail
  <2>3. \A i \in 1 .. Len(log) : log[i].by \in Writers \ {w}
    BY <1>1, <2>1, NothingSent, EntryBy
  <2>4. ASSUME NEW i \in 1 .. Len(log)
        PROVE  /\ write'[log[i].by] = "committed"
               /\ log[i].no = Cardinality(Mine(log, log[i].by, i))
    BY <2>2, <2>3 DEF EventsInOrder
  <2>5. ASSUME NEW v \in Writers
        PROVE  /\ sent[v] = Cardinality(Mine(log, v, Len(log)))
               /\ write'[v] # "committed" => sent[v] = 0
    BY <2>1, <2>2 DEF EventsInOrder
  <2>6. log' = log /\ sent' = sent
    BY <2>1
  <2> QED BY <2>4, <2>5, <2>6 DEF EventsInOrder
<1>4. ASSUME NEW w \in Writers, SubRequest(w)
      PROVE  UNCHANGED <<log, write, sent>>
  BY <1>4 DEF SubRequest
<1>5. ASSUME NEW e \in Editors, EditStep(e)
      PROVE  UNCHANGED <<log, write, sent>>
  BY <1>5 DEF EditStep, EditRule, EditFails, EditReturns, writeVars
<1>6. ASSUME NEW s \in Subscribers, Connect(s) \/ Disconnect(s) \/ Stream(s)
      PROVE  UNCHANGED <<log, write, sent>>
  BY <1>6 DEF Connect, Disconnect, Stream, Lagged, Recv, RecvAsAdmin, LoadVersion,
              Decide, writeVars
<1>7. UNCHANGED vars => UNCHANGED <<log, write, sent>>
  BY DEF vars
<1> QED BY <1>2, <1>3, <1>4, <1>5, <1>6, <1>7, BroadcastInOrder DEF Next, EditStep

\* Nothing is broadcast before its commit or after a rollback, and the events
\* of a batch come in its order, for any number of writers between them.
THEOREM EventsAfterCommit == Spec => []OnlyCommittedInOrder
<1>1. RealtimeInv /\ EventsInOrder => OnlyCommittedInOrder
  <2> SUFFICES ASSUME RealtimeInv, EventsInOrder PROVE OnlyCommittedInOrder
      OBVIOUS
  <2>1. DOMAIN log = 1 .. Len(log)
    BY DEF RealtimeInv, LogTyped
  <2>2. \A i \in 1 .. Len(log) :
          /\ write[log[i].by] = "committed"
          /\ log[i].no = Cardinality({j \in 1 .. i : log[j].by = log[i].by})
    BY DEF EventsInOrder, Mine
  <2> QED BY <2>1, <2>2 DEF OnlyCommittedInOrder
<1>2. RealtimeInv /\ EventsInOrder /\ [Next]_vars => EventsInOrder'
  BY OrderInductive
<1> QED BY <1>1, <1>2, OrderInitially, Invariant, PTL DEF Spec

-----------------------------------------------------------------------------
(* The stream implements Feed.                                              *)

\* The event in hand is the one before the receiver's position.
Taken(s) == hand[s] # 0 => next[s] = hand[s] + 1 /\ s \notin Admins

StreamInv == RealtimeInv /\ \A s \in Subscribers : Taken(s)

LEMMA TakenInitially == Init => \A s \in Subscribers : Taken(s)
BY DEF Init, Taken

LEMMA TakenInductive ==
  ASSUME StreamInv, [Next]_vars
  PROVE  \A s \in Subscribers : Taken(s)'
<1> USE DEF StreamInv, Taken
<1>1. /\ next \in [Subscribers -> Nat]
      /\ hand \in [Subscribers -> Nat]
  BY DEF RealtimeInv, StreamsInv, LogTyped
<1>2. ASSUME NEW e \in Editors, EditStep(e) PROVE UNCHANGED <<next, hand>>
  BY <1>2 DEF EditStep, EditRule, EditFails, EditReturns, streamVars
<1>3. ASSUME NEW w \in Writers, WriteStep(w) PROVE UNCHANGED <<next, hand>>
  BY <1>3 DEF WriteStep, SubRequest, Rollback, Commit, Broadcast, FilesFail,
              streamVars
<1>4. ASSUME NEW s \in Subscribers, Connect(s) \/ Disconnect(s) \/ Stream(s)
      PROVE  \A q \in Subscribers : Taken(q)'
  <2>1. CASE Connect(s) \/ Disconnect(s)
    <3>1. CASE Connect(s)
      <4>1. hand[s] = 0
        BY <1>1, <3>1 DEF Connect
      <4> QED BY <1>1, <3>1, <4>1 DEF Connect
    <3>2. CASE Disconnect(s)
      BY <1>1, <3>2 DEF Disconnect
    <3> QED BY <2>1, <3>1, <3>2
  <2>2. CASE Lagged(s)
    BY <1>1, <2>2 DEF Lagged, Waiting
  <2>3. CASE Recv(s) \/ RecvAsAdmin(s)
    BY <1>1, <2>3 DEF Recv, RecvAsAdmin, Waiting
  <2>4. CASE LoadVersion(s) \/ Decide(s)
    BY <1>1, <2>4 DEF LoadVersion, Decide
  <2> QED BY <1>4, <2>1, <2>2, <2>3, <2>4 DEF Stream
<1>5. CASE UNCHANGED vars
  BY <1>5 DEF vars
<1> QED BY <1>2, <1>3, <1>4, <1>5 DEF Next, EditStep, WriteStep

\* The log and the positions of the refinement mapping.
AckedLog == [i \in DOMAIN log |-> log[i].acked]
Place == [s \in Subscribers |-> IF hand[s] # 0 THEN hand[s] ELSE next[s]]

LEMMA SequenceMaps ==
  ASSUME NEW n \in Nat, NEW l \in Seq(Entry(n))
  PROVE  LET m == [i \in DOMAIN l |-> l[i].acked] IN
         /\ m \in Seq(Nat) /\ Len(m) = Len(l)
         /\ \A i \in 1 .. Len(l) : m[i] = l[i].acked
<1> DEFINE m == [i \in DOMAIN l |-> l[i].acked]
<1>1. DOMAIN l = 1 .. Len(l) /\ Len(l) \in Nat
  OBVIOUS
<1>2. \A i \in 1 .. Len(l) : l[i] \in Entry(n)
  OBVIOUS
<1>3. m \in [1 .. Len(l) -> Nat]
  BY <1>1, <1>2 DEF Entry
<1> QED BY <1>1, <1>3

LEMMA LogMaps ==
  ASSUME RealtimeInv
  PROVE  /\ AckedLog \in Seq(Nat) /\ Len(AckedLog) = Len(log)
         /\ Len(log) \in Nat
         /\ \A i \in 1 .. Len(log) : AckedLog[i] = log[i].acked
BY SequenceMaps DEF RealtimeInv, RulesTyped, LogTyped, AckedLog

LEMMA MapsInitially == Init => Promise!Init
BY DEF Init, Promise!Init, Hello, Promise!Hello

\* A step that touches nothing that the mapping shows.
LEMMA Stutters ==
  ASSUME UNCHANGED <<rules, acked, log, frame>>, Place' = Place
  PROVE  UNCHANGED Promise!vars
BY DEF Promise!vars, Place

LEMMA EditsMap ==
  ASSUME StreamInv, NEW e \in Editors, EditStep(e)
  PROVE  Promise!Next \/ UNCHANGED Promise!vars
<1>1. log' = log /\ UNCHANGED <<next, hand, frame>>
  BY DEF EditStep, EditRule, EditFails, EditReturns, streamVars
<1>2. CASE EditRule(e)
  BY <1>1, <1>2 DEF EditRule, Promise!Next, Promise!SetRule
<1>3. CASE EditFails(e)
  BY <1>1, <1>3, Stutters DEF EditFails, Place
<1>4. CASE EditReturns(e)
  <2>1. acked' \in acked .. Len(rules) /\ rules' = rules
    BY <1>4 DEF EditReturns, Later, StreamInv, RealtimeInv, RulesTyped, EditsTyped
  <2> QED BY <1>1, <2>1 DEF Promise!Next, Promise!Acknowledge
<1> QED BY <1>2, <1>3, <1>4 DEF EditStep

LEMMA WritesMap ==
  ASSUME StreamInv, NEW w \in Writers, WriteStep(w)
  PROVE  Promise!Next \/ UNCHANGED Promise!vars
<1>1. UNCHANGED <<rules, acked, next, hand, frame>>
  BY DEF WriteStep, SubRequest, Rollback, Commit, Broadcast, FilesFail,
         editVars, streamVars
<1>2. CASE SubRequest(w) \/ Rollback(w) \/ Commit(w) \/ FilesFail(w)
  BY <1>1, <1>2, Stutters DEF SubRequest, Rollback, Commit, FilesFail, Place
<1>3. CASE Broadcast(w)
  <2>1. RealtimeInv /\ RealtimeInv'
    BY WriteSteps DEF StreamInv
  <2> DEFINE ev == [by |-> w, no |-> sent[w] + 1, acked |-> acked]
  <2>2. log' = Append(log, ev) /\ ev.acked = acked
    BY <1>3 DEF Broadcast
  <2> HIDE DEF ev
  <2>3. log \in Seq(Entry(Len(rules)))
    BY <2>1 DEF RealtimeInv, LogTyped
  <2>4. /\ Len(log') = Len(log) + 1 /\ DOMAIN log' = 1 .. Len(log) + 1
        /\ \A i \in 1 .. Len(log) : log'[i] = log[i]
        /\ log'[Len(log) + 1] = ev
    BY <2>2, <2>3
  <2>5. AckedLog' = Append(AckedLog, acked)
    <3>1. /\ AckedLog \in Seq(Nat) /\ Len(AckedLog) = Len(log)
          /\ Len(log) \in Nat
          /\ \A i \in 1 .. Len(log) : AckedLog[i] = log[i].acked
      BY <2>1, LogMaps
    <3>2. /\ AckedLog' \in Seq(Nat) /\ Len(AckedLog') = Len(log')
          /\ \A i \in 1 .. Len(log') : AckedLog'[i] = log'[i].acked
      <4>1. log' \in Seq(Entry(Len(rules'))) /\ Len(rules') \in Nat
        BY <2>1 DEF RealtimeInv, RulesTyped, LogTyped
      <4> QED BY <4>1, SequenceMaps DEF AckedLog
    <3>3. acked \in Nat
      BY <2>1 DEF RealtimeInv, RulesTyped, EditsTyped
    <3> DEFINE t == Append(AckedLog, acked)
    <3>4. /\ t \in Seq(Nat) /\ Len(t) = Len(log) + 1
          /\ \A i \in 1 .. Len(log) : t[i] = AckedLog[i]
          /\ t[Len(log) + 1] = acked
      BY <3>1, <3>3, AppendProperties
    <3> HIDE DEF t
    <3>5. ASSUME NEW i \in 1 .. Len(log') PROVE AckedLog'[i] = t[i]
      <4>1. CASE i = Len(log) + 1
        BY <2>2, <2>4, <3>2, <3>4, <4>1
      <4>2. CASE i \in 1 .. Len(log)
        <5>1. AckedLog'[i] = log[i].acked
          BY <2>4, <3>2, <4>2
        <5> QED BY <3>1, <3>4, <4>2, <5>1
      <4> QED BY <2>4, <3>1, <4>1, <4>2
    <3>6. AckedLog' = t
      BY <2>4, <3>2, <3>4, <3>5, SeqEqual
    <3> QED BY <3>6 DEF t
  <2> QED BY <1>1, <2>5 DEF AckedLog, Promise!Next, Promise!Publish
<1> QED BY <1>2, <1>3 DEF WriteStep

LEMMA StreamsMap ==
  ASSUME StreamInv, NEW s \in Subscribers,
         Connect(s) \/ Disconnect(s) \/ Stream(s)
  PROVE  Promise!Next \/ UNCHANGED Promise!vars
<1>1. UNCHANGED <<rules, acked, log>>
  BY DEF Connect, Disconnect, Stream, Lagged, Recv, RecvAsAdmin, LoadVersion,
         Decide, editVars
<1>2. /\ next \in [Subscribers -> 0 .. Len(log) + 1]
      /\ hand \in [Subscribers -> 0 .. Len(log)]
      /\ Len(log) \in Nat /\ Taken(s)
  BY LogMaps DEF StreamInv, RealtimeInv, StreamsInv
<1>3. Len(AckedLog) = Len(log)
  BY LogMaps DEF StreamInv
<1>4. CASE Connect(s)
  <2>1. Place[s] = 0 /\ Place' = [Place EXCEPT ![s] = Len(AckedLog) + 1]
    <3>1. next[s] = 0 /\ hand[s] = 0
      BY <1>2, <1>4 DEF Connect, Taken
    <3>2. hand' = hand /\ next' = [next EXCEPT ![s] = Len(AckedLog) + 1]
      BY <1>3, <1>4 DEF Connect
    <3> QED BY <3>1, <3>2, <1>2 DEF Place
  <2>2. frame' = frame
    BY <1>4 DEF Connect
  <2>3. Promise!Join(s)
    BY <1>1, <2>1, <2>2 DEF Promise!Join, Place, AckedLog
  <2> QED BY <2>3 DEF Promise!Next
<1>5. CASE Disconnect(s)
  <2>1. Place[s] # 0 /\ Place' = [Place EXCEPT ![s] = 0]
    BY <1>2, <1>5 DEF Disconnect, Place
  <2>2. frame' = [frame EXCEPT ![s] = Promise!Hello]
    BY <1>5 DEF Disconnect, Hello, Promise!Hello
  <2>3. Promise!Leave(s)
    BY <1>1, <2>1, <2>2 DEF Promise!Leave, Place
  <2> QED BY <2>3 DEF Promise!Next
<1>6. CASE Lagged(s)
  <2> DEFINE n == Missed(s)
  <2>1. /\ hand[s] = 0 /\ next[s] \in 1 .. Len(log)
        /\ n = (Len(AckedLog) + 1 - next[s]) - Cap /\ n > 0
    BY <1>2, <1>3, <1>6, RealtimeAssumption DEF Lagged, Waiting, Missed
  <2>2. Place[s] = next[s] /\ Place' = [Place EXCEPT ![s] = @ + n]
    BY <1>2, <1>6, <2>1 DEF Lagged, Place
  <2>3. frame' = [frame EXCEPT ![s] = [kind |-> "lagged", n |-> n]]
    BY <1>6 DEF Lagged
  <2> HIDE DEF n
  <2>4. Promise!Miss(s)
    BY <1>1, <1>3, <2>1, <2>2, <2>3
       DEF Promise!Miss, Promise!Pending, Place, AckedLog
  <2> QED BY <2>4 DEF Promise!Next
<1>7. CASE Recv(s)
  BY <1>1, <1>2, <1>7, Stutters DEF Recv, Waiting, Place
<1>8. CASE RecvAsAdmin(s)
  <2>1. /\ Place[s] \in 1 .. Len(AckedLog) /\ s \in Admins
        /\ Place' = [Place EXCEPT ![s] = @ + 1]
    BY <1>2, <1>3, <1>8 DEF RecvAsAdmin, Waiting, Place
  <2>2. frame' = [frame EXCEPT ![s] = [kind |-> "event", n |-> Place[s]]]
    BY <1>8 DEF RecvAsAdmin, Waiting, Place
  <2>3. Promise!Send(s)
    BY <1>1, <2>1, <2>2 DEF Promise!Send, Promise!Pending, Place, AckedLog
  <2> QED BY <2>3 DEF Promise!Next
<1>9. CASE LoadVersion(s)
  BY <1>1, <1>9, Stutters DEF LoadVersion, Place
<1>10. CASE Decide(s)
  <2>1. /\ loaded[s] /\ hand[s] \in 1 .. Len(log) /\ s \notin Admins
        /\ next[s] = hand[s] + 1
    BY <1>2, <1>10 DEF Decide, StreamInv, RealtimeInv, StreamsInv, CacheIsFresh,
                       Taken
  <2>2. /\ Place[s] = hand[s] /\ Place[s] \in 1 .. Len(AckedLog)
        /\ Place' = [Place EXCEPT ![s] = @ + 1]
    <3>1. next' = next /\ hand' = [hand EXCEPT ![s] = 0]
      BY <1>10 DEF Decide
    <3>2. Place[s] = hand[s]
      BY <2>1 DEF Place
    <3>3. Place' = [Place EXCEPT ![s] = hand[s] + 1]
      BY <1>2, <2>1, <3>1 DEF Place
    <3> QED BY <1>3, <2>1, <3>2, <3>3
  <2>3. Gate(s) \in AckedLog[Place[s]] .. Len(rules)
    <3>1. log[hand[s]].acked \in 1 .. Len(rules)
      BY <2>1, EntryAcked DEF StreamInv, RealtimeInv
    <3>2. AckedLog[Place[s]] = log[hand[s]].acked
      BY <2>1, <2>2, LogMaps DEF StreamInv
    <3> QED BY <2>1, <3>1, <3>2
            DEF StreamInv, RealtimeInv, RulesTyped, StreamsInv, CacheIsFresh, Gate
  <2>4. CASE s \in rules[Gate(s)]
    <3>1. frame' = [frame EXCEPT ![s] = [kind |-> "event", n |-> Place[s]]]
      BY <1>10, <2>2, <2>4 DEF Decide
    <3>2. Promise!Send(s)
      BY <1>1, <2>2, <2>3, <2>4, <3>1
         DEF Promise!Send, Promise!Pending, Promise!Current, Place, AckedLog
    <3> QED BY <3>2 DEF Promise!Next
  <2>5. CASE s \notin rules[Gate(s)]
    <3>1. frame' = frame
      BY <1>10, <2>5 DEF Decide
    <3>2. Promise!Withhold(s)
      BY <1>1, <2>1, <2>2, <2>3, <2>5, <3>1
         DEF Promise!Withhold, Promise!Pending, Promise!Current, Place, AckedLog
    <3> QED BY <3>2 DEF Promise!Next
  <2> QED BY <2>4, <2>5
<1> QED BY <1>4, <1>5, <1>6, <1>7, <1>8, <1>9, <1>10 DEF Stream

LEMMA StepsMap == StreamInv /\ [Next]_vars => [Promise!Next]_(Promise!vars)
<1> SUFFICES ASSUME StreamInv, [Next]_vars
             PROVE  Promise!Next \/ UNCHANGED Promise!vars
    OBVIOUS
<1>1. CASE Next
  BY <1>1, EditsMap, WritesMap, StreamsMap DEF Next, EditStep, WriteStep
<1>2. CASE UNCHANGED vars
  BY <1>2, Stutters DEF vars, Place
<1> QED BY <1>1, <1>2

\* Each change published is sent, withheld by a rule no older than the last
\* acknowledged edit, or counted in a lag frame; in order and once.
THEOREM StreamImplementsFeed == Spec => ImplementsFeed
<1>1. StreamInv /\ [Next]_vars => StreamInv'
  BY InvInductive, TakenInductive DEF StreamInv
<1>2. Init => StreamInv
  BY InvInitially, TakenInitially DEF StreamInv
<1> QED BY <1>1, <1>2, MapsInitially, StepsMap, PTL
        DEF Spec, ImplementsFeed, Promise!Spec
=============================================================================
