-------------------------------- MODULE Feed --------------------------------
(***************************************************************************)
(* What GET /api/realtime promises a subscriber: of every change published *)
(* after it joined it is sent an event, or the change is one that a view   *)
(* rule in force since the last acknowledged edit withholds from it, or it *)
(* is told how many changes it missed.  In order, each once.               *)
(***************************************************************************)
EXTENDS Naturals, Sequences

CONSTANTS Subscribers, Admins, Audiences, Cap

VARIABLES
  rules,   \* the view rules of the topic so far, as who may read; last in force
  acked,   \* the last of them that an admin was answered about
  log,     \* for each change published, acked at that time
  pos,     \* the change each subscriber is to hear of next, 0 if not connected
  frame    \* the last frame it was sent

Hello == [kind |-> "hello", n |-> 0]

vars == <<rules, acked, log, pos, frame>>

Init ==
  /\ \E a \in Audiences : rules = <<a>>
  /\ acked = 1
  /\ log = <<>>
  /\ pos = [s \in Subscribers |-> 0]
  /\ frame = [s \in Subscribers |-> Hello]

SetRule ==
  /\ \E a \in Audiences : rules' = Append(rules, a)
  /\ UNCHANGED <<acked, log, pos, frame>>

Acknowledge ==
  /\ acked' \in acked .. Len(rules)
  /\ UNCHANGED <<rules, log, pos, frame>>

Publish ==
  /\ log' = Append(log, acked)
  /\ UNCHANGED <<rules, acked, pos, frame>>

Join(s) ==
  /\ pos[s] = 0
  /\ pos' = [pos EXCEPT ![s] = Len(log) + 1]
  /\ UNCHANGED <<rules, acked, log, frame>>

Leave(s) ==
  /\ pos[s] # 0
  /\ pos' = [pos EXCEPT ![s] = 0]
  /\ frame' = [frame EXCEPT ![s] = Hello]
  /\ UNCHANGED <<rules, acked, log>>

\* The rules that a change at position n may be judged by from now on.
Current(n) == {rules[i] : i \in log[n] .. Len(rules)}

Pending(s) == pos[s] \in 1 .. Len(log)

Send(s) ==
  /\ Pending(s)
  /\ s \in Admins \/ \E a \in Current(pos[s]) : s \in a
  /\ frame' = [frame EXCEPT ![s] = [kind |-> "event", n |-> pos[s]]]
  /\ pos' = [pos EXCEPT ![s] = @ + 1]
  /\ UNCHANGED <<rules, acked, log>>

Withhold(s) ==
  /\ Pending(s)
  /\ s \notin Admins /\ \E a \in Current(pos[s]) : s \notin a
  /\ pos' = [pos EXCEPT ![s] = @ + 1]
  /\ UNCHANGED <<rules, acked, log, frame>>

\* Only who is more than Cap changes behind misses any, and exactly those
\* that are no longer among the last Cap.
Miss(s) ==
  /\ Pending(s)
  /\ LET n == (Len(log) + 1 - pos[s]) - Cap IN
       /\ n > 0
       /\ frame' = [frame EXCEPT ![s] = [kind |-> "lagged", n |-> n]]
       /\ pos' = [pos EXCEPT ![s] = @ + n]
  /\ UNCHANGED <<rules, acked, log>>

Next ==
  \/ SetRule \/ Acknowledge \/ Publish
  \/ \E s \in Subscribers :
       Join(s) \/ Leave(s) \/ Send(s) \/ Withhold(s) \/ Miss(s)

Spec == Init /\ [][Next]_vars
=============================================================================
