------------------------------ MODULE Listing -------------------------------
(***************************************************************************)
(* GET /api/collections/{name}/records: a COUNT and a page SELECT in one   *)
(* read transaction, and a client that walks from page to page while other *)
(* requests insert and delete records.                                     *)
(*                                                                         *)
(* The table has the rows that the list rule and the filter select, in the *)
(* order of their rowids; the order is the default one, created and then   *)
(* rowid.  created is read off the clock in a statement before the INSERT, *)
(* so that a row may come to lie before rows inserted earlier.             *)
(***************************************************************************)
EXTENDS Integers, FiniteSets, Sequences, SequencesExt

CONSTANTS Writers, Ids,
          MaxClock,  \* bound on the clock, in milliseconds
          Params,    \* values of ?page= and ?perPage= that clients send
          MaxPer,    \* 500
          Word       \* 2^32: pages and counts are u32

ASSUME ListingAssumption ==
  /\ MaxPer \in Nat \ {0} /\ Word \in Nat \ {0} /\ MaxPer < Word
  /\ Params \subseteq 0 .. Word - 1 /\ MaxClock \in Nat
  /\ IsFiniteSet(Ids) /\ Cardinality(Ids) < Word

VARIABLES
  clock,
  table,  \* the rows [id, created], by rowid
  stamp,  \* the timestamp a writer has read for its INSERT, -1 if none
  req,    \* the list request: where it is, page, perPage, its snapshot, answer
  start,  \* of a walk: the ids listed first, <<>> if no walk goes on
  seen,   \* the ids that it has been shown
  moved   \* whether a row was deleted during it, or inserted in front of one it is shown

vars == <<clock, table, stamp, req, start, seen, moved>>

-----------------------------------------------------------------------------
(* Arithmetic of the handler. *)

Page(p) == IF p < 1 THEN 1 ELSE p
PerPage(n) == IF n < 1 THEN 1 ELSE IF n > MaxPer THEN MaxPer ELSE n

\* (page - 1) * per_page, which wraps in a release build.
Offset(page, per) == ((page - 1) * per) % Word

\* Mutant: a last page that is not full is not counted.
TotalPages_Floor(total, per) == (total % Word) \div per

\* (total as u32).div_ceil(per_page)
TotalPages(total, per) == ((total % Word) + per - 1) \div per

\* ORDER BY created ASC, rowid ASC LIMIT per OFFSET skip.
Before(rows, i, j) ==
  \/ rows[i].created < rows[j].created
  \/ rows[i].created = rows[j].created /\ i < j
Rank(rows, i) == Cardinality({j \in DOMAIN rows : Before(rows, j, i)}) + 1
Sorted(rows) ==
  [n \in DOMAIN rows |-> rows[CHOOSE i \in DOMAIN rows : Rank(rows, i) = n].id]
Select(rows, skip, limit) ==
  SubSeq(Sorted(rows), skip + 1,
         IF skip + limit < Len(rows) THEN skip + limit ELSE Len(rows))

-----------------------------------------------------------------------------
NoReq == [pc |-> "idle", page |-> 1, per |-> 1, snap |-> <<>>, total |-> 0, items |-> <<>>]

Init ==
  /\ clock = 0
  /\ table = <<>>
  /\ stamp = [w \in Writers |-> -1]
  /\ req = NoReq
  /\ start = <<>> /\ seen = <<>> /\ moved = FALSE

Tick ==
  /\ clock < MaxClock
  /\ clock' = clock + 1
  /\ UNCHANGED <<table, stamp, req, start, seen, moved>>

\* now(db), in create_core.
Stamp(w) ==
  /\ stamp[w] = -1
  /\ stamp' = [stamp EXCEPT ![w] = clock]
  /\ UNCHANGED <<clock, table, req, start, seen, moved>>

\* What the walk has been shown and what the answer under way will show it.
Shown == seen \o (IF start # <<>> /\ req.pc \in {"open", "counted"}
                  THEN Select(req.snap, Offset(req.page, req.per), req.per) ELSE <<>>)

\* The INSERT.  It disturbs a walk if the row lies before one that is shown.
Insert(w) ==
  /\ stamp[w] # -1
  /\ \E id \in Ids :
       /\ \A i \in DOMAIN table : table[i].id # id
       /\ ~Contains(start, id) /\ ~Contains(seen, id)
       /\ table' = Append(table, [id |-> id, created |-> stamp[w]])
  /\ stamp' = [stamp EXCEPT ![w] = -1]
  /\ moved' = (moved \/ \E i \in DOMAIN table :
                          table[i].created > stamp[w] /\ Contains(Shown, table[i].id))
  /\ UNCHANGED <<clock, req, start, seen>>

\* A DELETE, or a PATCH after which the filter selects the row no longer.
RowGoes ==
  /\ \E i \in DOMAIN table : table' = RemoveAt(table, i)
  /\ moved' = (start # <<>>)
  /\ UNCHANGED <<clock, stamp, req, start, seen>>

\* The read transaction, and the snapshot its first statement takes.
Open(page, per) ==
  req' = [NoReq EXCEPT !.pc = "open", !.page = page, !.per = per, !.snap = table]

\* A client asks for some page.
Ask ==
  /\ req.pc = "idle" /\ start = <<>>
  /\ \E p, n \in Params : Open(Page(p), PerPage(n))
  /\ UNCHANGED <<clock, table, stamp, start, seen, moved>>

\* A client asks for the first page, to go on from there.
Walk ==
  /\ req.pc = "idle" /\ start = <<>> /\ table # <<>>
  /\ \E n \in Params : Open(1, PerPage(n))
  /\ start' = Sorted(table)
  /\ seen' = <<>> /\ moved' = FALSE
  /\ UNCHANGED <<clock, table, stamp>>

Count ==
  /\ req.pc = "open"
  /\ req' = [req EXCEPT !.pc = "counted", !.total = Len(req.snap)]
  /\ UNCHANGED <<clock, table, stamp, start, seen, moved>>

\* ?skipTotal=1.
SkipTotal ==
  /\ req.pc = "open"
  /\ req' = [req EXCEPT !.pc = "counted", !.total = -1]
  /\ UNCHANGED <<clock, table, stamp, start, seen, moved>>

\* Mutant: two queries without a transaction.
Answer_NoTransaction ==
  /\ req.pc = "counted"
  /\ LET items == Select(table, Offset(req.page, req.per), req.per) IN
       /\ req' = [req EXCEPT !.pc = "answered", !.items = items]
       /\ seen' = IF start = <<>> THEN seen ELSE seen \o items
  /\ UNCHANGED <<clock, table, stamp, start, moved>>

Answer ==
  /\ req.pc = "counted"
  /\ LET items == Select(req.snap, Offset(req.page, req.per), req.per) IN
       /\ req' = [req EXCEPT !.pc = "answered", !.items = items]
       /\ seen' = IF start = <<>> THEN seen ELSE seen \o items
  /\ UNCHANGED <<clock, table, stamp, start, moved>>

\* Whether there is a page after the one answered.
LastPage ==
  IF req.total = -1 THEN Len(req.items) < req.per
  ELSE req.page >= TotalPages(req.total, req.per)

NextPage ==
  /\ req.pc = "answered" /\ start # <<>> /\ ~LastPage
  /\ Open(req.page + 1, req.per)
  /\ UNCHANGED <<clock, table, stamp, start, seen, moved>>

Leave ==
  /\ req.pc = "answered" /\ (start # <<>> => LastPage)
  /\ req' = NoReq
  /\ start' = <<>> /\ seen' = <<>> /\ moved' = FALSE
  /\ UNCHANGED <<clock, table, stamp>>

Next ==
  \/ Tick \/ RowGoes \/ Ask \/ Walk \/ Count \/ SkipTotal \/ Answer \/ NextPage \/ Leave
  \/ \E w \in Writers : Stamp(w) \/ Insert(w)

Spec == Init /\ [][Next]_vars

-----------------------------------------------------------------------------
(* Properties. *)

\* totalItems, totalPages and items of one answer are of one state of the
\* table, whatever commits between the two queries (records.rs:166-169): the
\* page has as many rows as the count leaves for it, and none past the last
\* page, unless the product of page and perPage does not fit in 32 bits.
AnswerAgrees ==
  req.pc = "answered" /\ req.total >= 0 =>
    LET skip == (req.page - 1) * req.per
        left == req.total - skip
    IN /\ left > 0 => Len(req.items) = (IF left < req.per THEN left ELSE req.per)
       /\ left > 0 <=> req.page <= TotalPages(req.total, req.per)
       /\ left <= 0 /\ skip < Word => req.items = <<>>

\* A client that walks through the pages is shown every record that was there
\* when it began, in their order and once ("pagination repeats or skips
\* records", records.rs:207-211), whatever is inserted behind what it was shown.
\* Deletions disturb it, and rows that overtake: created is read before the
\* INSERT, and a row that was slow to arrive lies before rows already shown.
WalkSeesAll ==
  start # <<>> /\ req.pc = "answered" /\ ~moved =>
    /\ \A i, j \in DOMAIN seen : seen[i] = seen[j] => i = j
    /\ \A i, j \in DOMAIN start, l \in DOMAIN seen :
         i < j /\ seen[l] = start[j] => \E k \in 1 .. l - 1 : seen[k] = start[i]
    /\ LastPage => \A i \in DOMAIN start : Contains(seen, start[i])
=============================================================================
