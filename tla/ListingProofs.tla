--------------------------- MODULE ListingProofs ----------------------------
(***************************************************************************)
(* What an answer of records_list says, for every bound on pages and words *)
(* and any number of records that fits in a word.                          *)
(***************************************************************************)
EXTENDS Listing, FiniteSetTheorems, SequenceTheorems, TLAPS

USE ListingAssumption

\* Multiplication and order.
LEMMA Products ==
  ASSUME NEW a \in Int, NEW b \in Int, NEW n \in Nat, a <= b
  PROVE  a * n <= b * n
<1>1. (b - a) * n >= 0
  OBVIOUS
<1>2. (b - a) * n = b * n - a * n
  OBVIOUS
<1> QED
  BY <1>1, <1>2

LEMMA Quotient ==
  ASSUME NEW a \in Nat, NEW n \in Nat \ {0}
  PROVE  /\ a \div n \in Nat
         /\ (a \div n) * n <= a
         /\ a < (a \div n) * n + n
  OBVIOUS

LEMMA SmallRemainder ==
  ASSUME NEW a \in Nat, NEW n \in Nat, a < n
  PROVE  a % n = a
  OBVIOUS

\* div_ceil: a page begins before the end exactly if it is one of the pages.
LEMMA Ceiling ==
  ASSUME NEW total \in Nat, NEW per \in Nat \ {0}, NEW page \in Nat \ {0}
  PROVE  (page - 1) * per < total <=> page <= (total + per - 1) \div per
<1> DEFINE last == (total + per - 1) \div per
<1>1. last \in Nat /\ last * per <= total + per - 1 /\ total + per - 1 < last * per + per
  BY Quotient, total + per - 1 \in Nat
<1> HIDE DEF last
<1>2. ASSUME page <= last PROVE (page - 1) * per < total
  <2>1. page * per <= last * per
    BY <1>1, <1>2, Products
  <2>2. (page - 1) * per = page * per - per /\ page * per \in Int
    OBVIOUS
  <2>3. last * per \in Int
    BY <1>1
  <2> QED
    BY <1>1, <2>1, <2>2, <2>3
<1>3. ASSUME ~(page <= last) PROVE ~((page - 1) * per < total)
  <2>1. last * per <= (page - 1) * per
    BY <1>1, <1>3, Products
  <2>2. last * per \in Int /\ (page - 1) * per \in Int
    BY <1>1
  <2> QED
    BY <1>1, <2>1, <2>2
<1> QED
  BY <1>2, <1>3 DEF last

-----------------------------------------------------------------------------
(* The invariant: a snapshot has fewer rows than a word counts, for their ids *)
(* differ, and the parts of an answer are computed from one snapshot.         *)

Row == [id : Ids, created : Int]

TableOK ==
  /\ table \in Seq(Row)
  /\ \A i, j \in DOMAIN table : table[i].id = table[j].id => i = j

StampsOK == clock \in Int /\ stamp \in [Writers -> Int]

ReqOK ==
  /\ req \in [pc : {"idle", "open", "counted", "answered"}, page : Nat \ {0}, per : Nat \ {0},
              snap : Seq(Row), total : Int, items : {req.items}]
  /\ Len(req.snap) < Word /\ req.total >= -1
  /\ req.pc \in {"counted", "answered"} /\ req.total >= 0 => req.total = Len(req.snap)
  /\ req.pc = "answered" =>
       req.items = Select(req.snap, Offset(req.page, req.per), req.per)

Inv == TableOK /\ StampsOK /\ ReqOK

LEMMA TableFits ==
  ASSUME TableOK
  PROVE  Len(table) < Word
<1> DEFINE f == [i \in 1 .. Len(table) |-> table[i].id]
<1>1. f \in Injection(1 .. Len(table), Ids)
  <2>1. \A i \in 1 .. Len(table) : table[i] \in Row /\ table[i].id \in Ids
    <3>1. \A i \in 1 .. Len(table) : table[i] \in Row
      BY DEF TableOK
    <3> QED
      BY <3>1 DEF Row
  <2>2. f \in [1 .. Len(table) -> Ids]
    BY <2>1
  <2>3. \A i, j \in 1 .. Len(table) : f[i] = f[j] => i = j
    BY DEF TableOK
  <2> QED
    BY <2>2, <2>3 DEF Injection, IsInjective
<1>2. Cardinality(1 .. Len(table)) <= Cardinality(Ids)
  BY <1>1, FS_Injection
<1>3. Len(table) \in Nat
  BY DEF TableOK
<1>4. Cardinality(1 .. Len(table)) = Len(table)
  <2>1. Cardinality(1 .. Len(table)) = IF 1 > Len(table) THEN 0 ELSE Len(table) - 1 + 1
    BY <1>3, FS_Interval, 1 \in Int, Len(table) \in Int
  <2> QED
    BY <1>3, <2>1
<1>5. Cardinality(Ids) \in Nat
  BY FS_CardinalityType
<1> QED
  BY <1>2, <1>3, <1>4, <1>5

LEMMA InitInv == Init => Inv
<1> SUFFICES ASSUME Init PROVE Inv
  OBVIOUS
<1>1. TableOK /\ StampsOK
  BY DEF Init, TableOK, StampsOK
<1>2. ReqOK
  BY DEF Init, NoReq, ReqOK
<1> QED
  BY <1>1, <1>2 DEF Inv

\* A new request opens on the table as it is.
LEMMA OpenOK ==
  ASSUME TableOK, NEW page \in Nat \ {0}, NEW per \in Nat \ {0}, Open(page, per)
  PROVE  ReqOK'
<1>1. /\ req' = [pc |-> "open", page |-> page, per |-> per, snap |-> table,
                 total |-> 0, items |-> <<>>]
  BY DEF Open, NoReq
<1>2. table \in Seq(Row) /\ Len(table) < Word
  BY TableFits DEF TableOK
<1> QED
  BY <1>1, <1>2 DEF ReqOK

LEMMA Clamped ==
  ASSUME NEW n \in Params
  PROVE  Page(n) \in Nat \ {0} /\ PerPage(n) \in Nat \ {0}
  BY DEF Page, PerPage

LEMMA StepInv == Inv /\ [Next]_vars => Inv'
<1> SUFFICES ASSUME Inv, [Next]_vars PROVE Inv'
  OBVIOUS
<1> USE DEF Inv
<1>1. CASE Tick
  BY <1>1 DEF Tick, TableOK, StampsOK, ReqOK
<1>2. CASE RowGoes
  <2>1. PICK i \in DOMAIN table : table' = RemoveAt(table, i)
    BY <1>2 DEF RowGoes
  <2>2. /\ table \in Seq(Row) /\ i \in 1 .. Len(table) /\ Len(table) \in Nat
    BY DEF TableOK
  <2>3. table' = SubSeq(table, 1, i - 1) \o SubSeq(table, i + 1, Len(table))
    BY <2>1 DEF RemoveAt
  <2>4. /\ table' \in Seq(Row) /\ Len(table') = Len(table) - 1
        /\ \A j \in 1 .. Len(table') : table'[j] = table[IF j < i THEN j ELSE j + 1]
    <3> DEFINE front == SubSeq(table, 1, i - 1)
               back == SubSeq(table, i + 1, Len(table))
    <3>1. \A j \in 1 .. Len(table) : table[j] \in Row
      BY <2>2
    <3>2. /\ front \in Seq(Row) /\ Len(front) = i - 1
          /\ \A j \in 1 .. i - 1 : front[j] = table[j]
      BY <2>2, <3>1, SubSeqProperties
    <3>3. /\ back \in Seq(Row) /\ Len(back) = Len(table) - i
          /\ \A j \in 1 .. Len(table) - i : back[j] = table[i + j]
      BY <2>2, <3>1, SubSeqProperties
    <3> HIDE DEF front, back
    <3>4. table' = front \o back
      BY <2>3 DEF front, back
    <3>5. table' \in Seq(Row) /\ Len(table') = Len(table) - 1
      BY <2>2, <3>2, <3>3, <3>4
    <3>6. ASSUME NEW j \in 1 .. Len(table')
          PROVE  table'[j] = table[IF j < i THEN j ELSE j + 1]
      <4>1. table'[j] = IF j <= i - 1 THEN front[j] ELSE back[j - (i - 1)]
        BY <2>2, <3>2, <3>3, <3>4, <3>5, SMTT(30)
      <4>2. CASE j < i
        BY <2>2, <3>2, <4>1, <4>2
      <4>3. CASE ~(j < i)
        <5>1. j - (i - 1) \in 1 .. Len(table) - i
          BY <2>2, <3>5, <4>3
        <5>2. i + (j - (i - 1)) = j + 1
          BY <2>2
        <5> QED
          BY <2>2, <3>3, <4>1, <4>3, <5>1, <5>2, SMTT(30)
      <4> QED
        BY <4>2, <4>3
    <3> QED
      BY <3>5, <3>6
  <2>5. TableOK'
    <3>1. \A j \in DOMAIN table' : (IF j < i THEN j ELSE j + 1) \in DOMAIN table
      BY <2>2, <2>4
    <3>2. \A j, k \in DOMAIN table' :
            (IF j < i THEN j ELSE j + 1) = (IF k < i THEN k ELSE k + 1) => j = k
      BY <2>2, <2>4
    <3>3. DOMAIN table' = 1 .. Len(table')
      BY <2>4
    <3> QED
      BY <2>2, <2>4, <3>1, <3>2, <3>3 DEF TableOK
  <2> QED
    BY <1>2, <2>5 DEF RowGoes, StampsOK, ReqOK
<1>3. CASE Ask
  <2>1. PICK p \in Params, n \in Params : Open(Page(p), PerPage(n))
    BY <1>3 DEF Ask
  <2>2. ReqOK'
    BY <2>1, Clamped, OpenOK
  <2> QED
    BY <1>3, <2>2 DEF Ask, TableOK, StampsOK
<1>4. CASE Walk
  <2>1. PICK n \in Params : Open(1, PerPage(n))
    BY <1>4 DEF Walk
  <2>2. ReqOK'
    BY <2>1, Clamped, OpenOK
  <2> QED
    BY <1>4, <2>2 DEF Walk, TableOK, StampsOK
<1>5. CASE NextPage
  <2>1. Open(req.page + 1, req.per) /\ req.page + 1 \in Nat \ {0} /\ req.per \in Nat \ {0}
    BY <1>5 DEF NextPage, ReqOK
  <2>2. ReqOK'
    BY <2>1, OpenOK
  <2> QED
    BY <1>5, <2>2 DEF NextPage, TableOK, StampsOK
<1>6. CASE Count
  <2>1. ReqOK'
    <3>1. /\ req.pc = "open"
          /\ req' = [req EXCEPT !.pc = "counted", !.total = Len(req.snap)]
      BY <1>6 DEF Count
    <3>2. req.snap \in Seq(Row) /\ Len(req.snap) \in Nat
      BY DEF ReqOK
    <3>3. /\ req'.total = Len(req.snap) /\ req'.pc = "counted" /\ req'.items = req.items
          /\ req'.page = req.page /\ req'.per = req.per /\ req'.snap = req.snap
      BY <3>1 DEF ReqOK
    <3>4. req' \in [pc : {"idle", "open", "counted", "answered"}, page : Nat \ {0},
                    per : Nat \ {0}, snap : Seq(Row), total : Int, items : {req.items}]
      <4>1. \A n \in Int : [req EXCEPT !.pc = "counted", !.total = n]
              \in [pc : {"idle", "open", "counted", "answered"}, page : Nat \ {0},
                   per : Nat \ {0}, snap : Seq(Row), total : Int, items : {req.items}]
        BY DEF ReqOK
      <4>2. Len(req.snap) \in Int
        BY <3>2
      <4> QED
        BY ONLY <3>1, <4>1, <4>2
    <3> QED
      BY <3>2, <3>3, <3>4 DEF ReqOK
  <2> QED
    BY <1>6, <2>1 DEF Count, TableOK, StampsOK
<1>7. CASE SkipTotal
  <2>1. ReqOK'
    <3>1. req.pc = "open" /\ req' = [req EXCEPT !.pc = "counted", !.total = -1]
      BY <1>7 DEF SkipTotal
    <3>2. req'.total = -1 /\ req'.pc = "counted" /\ req'.items = req.items
          /\ req'.page = req.page /\ req'.per = req.per /\ req'.snap = req.snap
      BY <3>1 DEF ReqOK
    <3>3. req' \in [pc : {"idle", "open", "counted", "answered"}, page : Nat \ {0},
                    per : Nat \ {0}, snap : Seq(Row), total : Int, items : {req.items}]
      BY <3>1, -1 \in Int DEF ReqOK
    <3> QED
      BY <3>2, <3>3, ~(-1 >= 0) DEF ReqOK
  <2> QED
    BY <1>7, <2>1 DEF SkipTotal, TableOK, StampsOK
<1>8. CASE Answer
  <2>1. req.pc = "counted" /\ req' = [req EXCEPT !.pc = "answered",
          !.items = Select(req.snap, Offset(req.page, req.per), req.per)]
    BY <1>8 DEF Answer
  <2>2. ReqOK'
    BY <2>1 DEF ReqOK
  <2> QED
    BY <1>8, <2>2 DEF Answer, TableOK, StampsOK
<1>9. CASE Leave
  <2>1. ReqOK'
    BY <1>9 DEF Leave, NoReq, ReqOK
  <2> QED
    BY <1>9, <2>1 DEF Leave, TableOK, StampsOK
<1>10. ASSUME NEW w \in Writers, Stamp(w) PROVE Inv'
  BY <1>10 DEF Stamp, TableOK, StampsOK, ReqOK
<1>11. ASSUME NEW w \in Writers, Insert(w) PROVE Inv'
  <2>1. PICK id \in Ids : /\ \A i \in DOMAIN table : table[i].id # id
                          /\ table' = Append(table, [id |-> id, created |-> stamp[w]])
    BY <1>11 DEF Insert
  <2>2. [id |-> id, created |-> stamp[w]] \in Row
    BY DEF StampsOK, Row
  <2>3. TableOK'
    BY <2>1, <2>2 DEF TableOK
  <2> QED
    BY <1>11, <2>3 DEF Insert, StampsOK, ReqOK
<1>12. CASE UNCHANGED vars
  BY <1>12 DEF vars, TableOK, StampsOK, ReqOK
<1> QED
  BY <1>1, <1>2, <1>3, <1>4, <1>5, <1>6, <1>7, <1>8, <1>9, <1>10, <1>11, <1>12 DEF Next

-----------------------------------------------------------------------------
\* A page is as long as what is left of the snapshot.
LEMMA SelectLength ==
  ASSUME NEW rows \in Seq(Row), NEW skip \in Nat, NEW limit \in Nat \ {0}
  PROVE  /\ skip < Len(rows) =>
              Len(Select(rows, skip, limit))
                = IF Len(rows) - skip < limit THEN Len(rows) - skip ELSE limit
         /\ Len(rows) <= skip => Select(rows, skip, limit) = <<>>
<1> DEFINE all == Sorted(rows)
           end == IF skip + limit < Len(rows) THEN skip + limit ELSE Len(rows)
           T == {all[n] : n \in DOMAIN rows}
<1>1. end \in Int /\ skip + 1 \in Int
  OBVIOUS
<1>2. DOMAIN all = 1 .. Len(rows)
  BY DEF Sorted
<1>3. \A i \in skip + 1 .. end : all[i] \in T
  OBVIOUS
<1>4. Len(SubSeq(all, skip + 1, end)) = IF skip + 1 <= end THEN end - (skip + 1) + 1 ELSE 0
  BY <1>1, <1>3, SubSeqProperties
<1>5. Select(rows, skip, limit) = SubSeq(all, skip + 1, end)
  BY DEF Select
<1>6. ASSUME Len(rows) <= skip PROVE Select(rows, skip, limit) = <<>>
  BY <1>1, <1>5, <1>6, SubSeqEmpty, end < skip + 1
<1> QED
  BY <1>4, <1>5, <1>6

\* The parts of one answer agree.
THEOREM PagesAgree == Spec => []AnswerAgrees
<1>1. Inv => AnswerAgrees
  <2> SUFFICES ASSUME Inv, req.pc = "answered", req.total >= 0
               PROVE  LET skip == (req.page - 1) * req.per
                          left == req.total - skip
                      IN /\ left > 0 => Len(req.items) = (IF left < req.per THEN left ELSE req.per)
                         /\ left > 0 <=> req.page <= TotalPages(req.total, req.per)
                         /\ left <= 0 /\ skip < Word => req.items = <<>>
    BY DEF AnswerAgrees
  <2> DEFINE skip == (req.page - 1) * req.per
             total == Len(req.snap)
  <2>1. /\ req.page \in Nat \ {0} /\ req.per \in Nat \ {0} /\ req.snap \in Seq(Row)
        /\ req.total = total /\ total \in Nat /\ total < Word
        /\ req.items = Select(req.snap, Offset(req.page, req.per), req.per)
    BY DEF Inv, ReqOK
  <2>2. skip \in Nat
    BY <2>1
  <2>3. skip < Word => Offset(req.page, req.per) = skip
    BY <2>2 DEF Offset
  <2>4. TotalPages(req.total, req.per) = (total + req.per - 1) \div req.per
    BY <2>1, SmallRemainder DEF TotalPages
  <2>5. skip < total <=> req.page <= TotalPages(req.total, req.per)
    BY <2>1, <2>4, Ceiling
  <2>6. skip < total => Len(req.items)
                          = IF total - skip < req.per THEN total - skip ELSE req.per
    <3>1. skip < total => skip < Word
      BY <2>1, <2>2
    <3>2. skip < total => req.items = Select(req.snap, skip, req.per)
      BY <2>1, <2>3, <3>1
    <3> HIDE DEF skip
    <3> QED
      BY <2>1, <2>2, <3>2, SelectLength
  <2>7. total <= skip /\ skip < Word => req.items = <<>>
    BY <2>1, <2>2, <2>3, SelectLength
  <2> QED
    BY <2>1, <2>2, <2>5, <2>6, <2>7
<1> QED
  BY InitInv, StepInv, <1>1, PTL DEF Spec

-----------------------------------------------------------------------------
(* The order of a page.  Before is a strict total order, so that the ranks of *)
(* the rows are the numbers from 1 to their count, and Sorted has the row of  *)
(* rank n at n.                                                               *)

Smaller(rows, i) == {j \in DOMAIN rows : Before(rows, j, i)}

LEMMA BeforeOrder ==
  ASSUME NEW rows \in Seq(Row)
  PROVE  /\ \A i \in DOMAIN rows : ~Before(rows, i, i)
         /\ \A i, j \in DOMAIN rows : i # j => Before(rows, i, j) \/ Before(rows, j, i)
         /\ \A i, j, k \in DOMAIN rows :
              Before(rows, i, j) /\ Before(rows, j, k) => Before(rows, i, k)
<1>1. \A i \in DOMAIN rows : i \in Int /\ rows[i].created \in Int
  <2>1. \A i \in DOMAIN rows : i \in Int /\ rows[i] \in Row
    OBVIOUS
  <2> QED
    BY <2>1 DEF Row
<1> QED
  BY <1>1 DEF Before

LEMMA SmallerFinite ==
  ASSUME NEW rows \in Seq(Row), NEW i \in DOMAIN rows
  PROVE  /\ IsFiniteSet(Smaller(rows, i)) /\ Cardinality(Smaller(rows, i)) \in Nat
         /\ Rank(rows, i) = Cardinality(Smaller(rows, i)) + 1
         /\ Rank(rows, i) \in DOMAIN rows
<1> DEFINE S == Smaller(rows, i)
           D == DOMAIN rows
<1>1. D = 1 .. Len(rows) /\ Len(rows) \in Nat
  OBVIOUS
<1>2. IsFiniteSet(D) /\ Cardinality(D) = Len(rows)
  <2>1. /\ IsFiniteSet(1 .. Len(rows))
        /\ Cardinality(1 .. Len(rows)) = IF 1 > Len(rows) THEN 0 ELSE Len(rows) - 1 + 1
    BY <1>1, FS_Interval, 1 \in Int, Len(rows) \in Int
  <2> QED
    BY <1>1, <2>1
<1>3. S \in SUBSET D /\ i \in D /\ i \notin S
  BY BeforeOrder DEF Smaller
<1>4. Rank(rows, i) = Cardinality(S) + 1
  BY DEF Rank, Smaller
<1> HIDE DEF S, D
<1>5. IsFiniteSet(S) /\ Cardinality(S) <= Len(rows) /\ (Len(rows) = Cardinality(S) => S = D)
  BY <1>2, <1>3, FS_Subset
<1>6. Cardinality(S) \in Nat
  BY <1>5, FS_CardinalityType
<1>7. Cardinality(S) # Len(rows)
  BY <1>3, <1>5
<1>8. Cardinality(S) + 1 \in D
  BY <1>1, <1>5, <1>6, <1>7 DEF D
<1> QED
  BY <1>4, <1>5, <1>6, <1>8 DEF S, D

LEMMA RankGrows ==
  ASSUME NEW rows \in Seq(Row), NEW i \in DOMAIN rows, NEW j \in DOMAIN rows,
         Before(rows, i, j)
  PROVE  Rank(rows, i) < Rank(rows, j)
<1> DEFINE S == Smaller(rows, i)
           T == Smaller(rows, j)
<1>1. /\ IsFiniteSet(T) /\ Cardinality(S) \in Nat /\ Cardinality(T) \in Nat
      /\ Rank(rows, i) = Cardinality(S) + 1 /\ Rank(rows, j) = Cardinality(T) + 1
  BY SmallerFinite
<1>2. S \in SUBSET T /\ i \in T /\ i \notin S
  BY BeforeOrder DEF Smaller
<1> HIDE DEF S, T
<1>3. Cardinality(S) <= Cardinality(T) /\ (Cardinality(T) = Cardinality(S) => T = S)
  BY <1>1, <1>2, FS_Subset
<1> QED
  BY <1>1, <1>2, <1>3

LEMMA RankInjective ==
  ASSUME NEW rows \in Seq(Row), NEW i \in DOMAIN rows, NEW j \in DOMAIN rows,
         Rank(rows, i) = Rank(rows, j)
  PROVE  i = j
<1>1. Rank(rows, i) \in Int /\ Rank(rows, j) \in Int
  BY SmallerFinite
<1>2. ~Before(rows, i, j) /\ ~Before(rows, j, i)
  BY <1>1, RankGrows
<1> QED
  BY <1>2, BeforeOrder

LEMMA RankOnto ==
  ASSUME NEW rows \in Seq(Row), NEW n \in DOMAIN rows
  PROVE  \E i \in DOMAIN rows : Rank(rows, i) = n
<1> DEFINE D == DOMAIN rows
           f == [i \in D |-> Rank(rows, i)]
<1>1. f \in [D -> D]
  BY SmallerFinite
<1>2. \A i, j \in D : f[i] = f[j] => i = j
  BY RankInjective
<1>3. IsFiniteSet(D)
  <2>1. IsFiniteSet(1 .. Len(rows))
    BY FS_Interval, 1 \in Int, Len(rows) \in Int
  <2> QED
    BY <2>1
<1> HIDE DEF D
<1>4. f \in Injection(D, D)
  BY <1>1, <1>2 DEF Injection, IsInjective
<1>5. f \in Surjection(D, D)
  BY <1>3, <1>4, FS_Injection
<1>6. \E i \in D : f[i] = n
  BY <1>5 DEF Surjection, D
<1> QED
  BY <1>6 DEF D

\* The row of rank n is at n, and every place of Sorted has a row.
LEMMA SortedByRank ==
  ASSUME NEW rows \in Seq(Row)
  PROVE  /\ DOMAIN Sorted(rows) = DOMAIN rows
         /\ \A i \in DOMAIN rows : /\ Rank(rows, i) \in DOMAIN rows
                                   /\ Sorted(rows)[Rank(rows, i)] = rows[i].id
         /\ \A n \in DOMAIN rows : \E i \in DOMAIN rows :
              Rank(rows, i) = n /\ Sorted(rows)[n] = rows[i].id
         /\ Sorted(rows) \in Seq(Ids) /\ Len(Sorted(rows)) = Len(rows)
<1>1. ASSUME NEW i \in DOMAIN rows
      PROVE  /\ Rank(rows, i) \in DOMAIN rows
             /\ Sorted(rows)[Rank(rows, i)] = rows[i].id
  <2>1. Rank(rows, i) \in DOMAIN rows
    BY SmallerFinite
  <2>2. (CHOOSE j \in DOMAIN rows : Rank(rows, j) = Rank(rows, i)) = i
    BY RankInjective
  <2> QED
    BY <2>1, <2>2 DEF Sorted
<1>2. ASSUME NEW n \in DOMAIN rows
      PROVE  \E i \in DOMAIN rows : Rank(rows, i) = n /\ Sorted(rows)[n] = rows[i].id
  <2>1. PICK i \in DOMAIN rows : Rank(rows, i) = n
    BY RankOnto
  <2> QED
    BY <1>1, <2>1
<1>3. DOMAIN Sorted(rows) = DOMAIN rows
  BY DEF Sorted
<1>4. ASSUME NEW n \in 1 .. Len(rows) PROVE Sorted(rows)[n] \in Ids
  <2>1. PICK i \in DOMAIN rows : Sorted(rows)[n] = rows[i].id
    BY <1>2
  <2>2. rows[i] \in Row
    OBVIOUS
  <2> QED
    BY <2>1, <2>2 DEF Row
<1> DEFINE all == Sorted(rows)
<1>5. all = [n \in 1 .. Len(rows) |-> all[n]] /\ Len(rows) \in Nat
  BY DEF Sorted
<1>6. \A n \in 1 .. Len(rows) : all[n] \in Ids
  BY <1>4
<1> HIDE DEF all
<1>7. all \in [1 .. Len(rows) -> Ids]
  BY <1>5, <1>6
<1>8. all \in Seq(Ids) /\ Len(all) = Len(rows)
  BY <1>5, <1>7, SeqDef, LenProperties
<1> QED
  BY <1>1, <1>2, <1>3, <1>8 DEF all

\* A row that comes last and is not older changes no rank.
LEMMA AppendKeepsRank ==
  ASSUME NEW rows \in Seq(Row), NEW x \in Row, NEW i \in DOMAIN rows,
         rows[i].created <= x.created
  PROVE  Rank(Append(rows, x), i) = Rank(rows, i)
<1> DEFINE more == Append(rows, x)
           last == Len(rows) + 1
<1>1. /\ DOMAIN rows = 1 .. Len(rows) /\ Len(rows) \in Nat
      /\ DOMAIN more = 1 .. last
      /\ more[last] = x /\ \A j \in DOMAIN rows : more[j] = rows[j]
  OBVIOUS
<1>2. x.created \in Int /\ rows[i].created \in Int
  <2>1. rows[i] \in Row
    BY <1>1
  <2> QED
    BY <2>1 DEF Row
<1> HIDE DEF more
<1>3. ~Before(more, last, i)
  BY <1>1, <1>2 DEF Before
<1>4. \A j \in DOMAIN rows : Before(more, j, i) <=> Before(rows, j, i)
  BY <1>1 DEF Before
<1>5. \A j \in DOMAIN more : j = last \/ j \in DOMAIN rows
  BY <1>1
<1>6. \A j \in DOMAIN rows : j \in DOMAIN more
  BY <1>1
<1>7. {j \in DOMAIN more : Before(more, j, i)} = {j \in DOMAIN rows : Before(rows, j, i)}
  BY <1>3, <1>4, <1>5, <1>6
<1> QED
  BY <1>7 DEF Rank, more

\* The first n elements of s.
First(s, n) == [i \in 1 .. n |-> s[i]]

LEMMA FirstProperties ==
  ASSUME NEW S, NEW s \in Seq(S), NEW n \in Nat, n <= Len(s)
  PROVE  /\ First(s, n) \in Seq(S) /\ Len(First(s, n)) = n
         /\ DOMAIN First(s, n) = 1 .. n
         /\ \A i \in 1 .. n : First(s, n)[i] = s[i]
         /\ First(s, Len(s)) = s
         /\ \A x \in S : First(Append(s, x), n) = First(s, n)
<1>1. \A i \in 1 .. n : s[i] \in S
  OBVIOUS
<1>2. First(s, n) \in [1 .. n -> S]
  BY <1>1 DEF First
<1>3. First(s, n) \in Seq(S) /\ Len(First(s, n)) = n
  BY <1>2, SeqDef, LenProperties
<1>4. First(s, Len(s)) = s
  BY LenProperties DEF First
<1>5. ASSUME NEW x \in S PROVE First(Append(s, x), n) = First(s, n)
  <2>1. \A i \in 1 .. n : Append(s, x)[i] = s[i]
    OBVIOUS
  <2> QED
    BY <2>1 DEF First
<1> QED
  BY <1>3, <1>4, <1>5 DEF First

\* A row is before another in a table if it is so among the first rows of it.
LEMMA FirstOrder ==
  ASSUME NEW rows \in Seq(Row), NEW n \in Nat, n <= Len(rows),
         NEW i \in 1 .. n, NEW j \in 1 .. n
  PROVE  Before(First(rows, n), i, j) <=> Before(rows, i, j)
BY FirstProperties DEF Before

\* What stands in a page.
LEMMA SelectItems ==
  ASSUME NEW rows \in Seq(Row), NEW skip \in Nat, NEW limit \in Nat \ {0}
  PROVE  /\ Select(rows, skip, limit) \in Seq(Ids)
         /\ \A m \in DOMAIN Select(rows, skip, limit) :
              /\ skip + m \in DOMAIN rows
              /\ Select(rows, skip, limit)[m] = Sorted(rows)[skip + m]
<1> DEFINE all == Sorted(rows)
           end == IF skip + limit < Len(rows) THEN skip + limit ELSE Len(rows)
           page == SubSeq(all, skip + 1, end)
<1>1. end \in Int /\ skip + 1 \in Int /\ end <= Len(rows) /\ Len(rows) \in Nat
  OBVIOUS
<1>2. all \in Seq(Ids) /\ Len(all) = Len(rows)
  BY SortedByRank
<1>3. Select(rows, skip, limit) = page
  BY DEF Select
<1> HIDE DEF all, end
<1>4. \A i \in skip + 1 .. end : all[i] \in Ids
  BY <1>1, <1>2
<1>5. /\ page \in Seq(Ids)
      /\ Len(page) = IF skip + 1 <= end THEN end - (skip + 1) + 1 ELSE 0
      /\ \A m \in 1 .. end - (skip + 1) + 1 : page[m] = all[skip + 1 + m - 1]
  BY <1>1, <1>4, SubSeqProperties
<1> HIDE DEF page
<1>6. ASSUME NEW m \in DOMAIN page
      PROVE  skip + m \in DOMAIN rows /\ page[m] = all[skip + m]
  <2>1. m \in 1 .. Len(page)
    BY <1>5
  <2>2. m \in 1 .. end - (skip + 1) + 1 /\ skip + 1 + m - 1 = skip + m
    <3>1. /\ m \in 1 .. Len(page)
          /\ Len(page) = IF skip + 1 <= end THEN end - (skip + 1) + 1 ELSE 0
      BY <1>5, <2>1
    <3>2. end \in Int /\ skip \in Int
      BY <1>1
    <3>3. skip + 1 <= end /\ m \in Int
      BY <3>1
    <3>4. m \in 1 .. end - (skip + 1) + 1
      BY ONLY <3>1, <3>3
    <3> QED
      BY ONLY <3>2, <3>3, <3>4
  <2>3. page[m] = all[skip + m]
    <3>1. page[m] = all[skip + 1 + m - 1]
      BY <1>5, <2>2
    <3> QED
      BY <2>2, <3>1
  <2>4. skip + m \in 1 .. Len(rows)
    BY <1>1, <2>2
  <2> QED
    BY <2>3, <2>4
<1> QED
  BY <1>3, <1>5, <1>6 DEF all

-----------------------------------------------------------------------------
(* The walk.  As long as nothing disturbs it, the rows shown so far and those *)
(* on the page under way are the first ones of the sorted snapshot, and stay  *)
(* the first ones of the sorted table while rows are inserted.                *)

\* How many rows the walk has been shown when the page is answered.
Reach == LET all == req.page * req.per
         IN  IF all < Len(req.snap) THEN all ELSE Len(req.snap)

WalkOK ==
  start # <<>> /\ ~moved =>
    /\ req.pc # "idle"
    /\ start \in Seq(Ids) /\ seen \in Seq(Ids)
    /\ Len(start) <= Len(req.snap) /\ Len(req.snap) <= Len(table)
    /\ req.snap = First(table, Len(req.snap))
    /\ start = Sorted(First(table, Len(start)))
    /\ (req.page - 1) * req.per <= Len(req.snap)
    /\ Len(seen) = IF req.pc = "answered" THEN Reach ELSE (req.page - 1) * req.per
    /\ \A n \in 1 .. Len(seen) : seen[n] = Sorted(req.snap)[n]
    /\ \A n \in 1 .. Reach : Sorted(table)[n] = Sorted(req.snap)[n]

\* A walk that nothing has disturbed.
Walking == start # <<>> /\ ~moved

LEMMA ReachTyped ==
  ASSUME ReqOK
  PROVE  /\ Reach \in Nat /\ Reach <= Len(req.snap) /\ Len(req.snap) \in Nat
         /\ req.page \in Nat \ {0} /\ req.per \in Nat \ {0} /\ req.snap \in Seq(Row)
         /\ (req.page - 1) * req.per \in Nat
         /\ req.page * req.per = (req.page - 1) * req.per + req.per
         /\ req.page * req.per \in Nat
         /\ Reach = IF req.page * req.per < Len(req.snap) THEN req.page * req.per
                    ELSE Len(req.snap)
<1>1. /\ req.page \in Nat \ {0} /\ req.per \in Nat \ {0} /\ req.snap \in Seq(Row)
      /\ Len(req.snap) \in Nat
  BY DEF ReqOK
<1>2. req.page - 1 \in Nat /\ (req.page - 1) * req.per \in Nat /\ req.page * req.per \in Nat
  BY <1>1
<1>3. req.page * req.per = (req.page - 1) * req.per + req.per
  BY <1>1
<1> QED
  BY <1>1, <1>2, <1>3 DEF Reach

\* The page under way continues what was shown: its offset does not wrap.
LEMMA PageContinues ==
  ASSUME Inv, WalkOK, Walking, req.pc \in {"open", "counted"}
  PROVE  LET all == seen \o Select(req.snap, Offset(req.page, req.per), req.per)
         IN  /\ all \in Seq(Ids) /\ Len(all) = Reach
             /\ \A n \in 1 .. Reach : all[n] = Sorted(req.snap)[n]
<1> DEFINE k == Len(seen)
           L == Len(req.snap)
           items == Select(req.snap, Offset(req.page, req.per), req.per)
           all == seen \o items
<1>1. /\ seen \in Seq(Ids) /\ k \in Nat /\ k <= L /\ k = (req.page - 1) * req.per
      /\ \A n \in 1 .. k : seen[n] = Sorted(req.snap)[n]
  BY DEF Inv, WalkOK, Walking
<1>2. L \in Nat /\ L < Word /\ req.snap \in Seq(Row) /\ req.per \in Nat \ {0}
  BY ReachTyped DEF Inv, ReqOK
<1>3. Offset(req.page, req.per) = k
  BY <1>1, <1>2, SmallRemainder DEF Offset
<1>4. Reach = IF k + req.per < L THEN k + req.per ELSE L
  <2>1. req.page * req.per = k + req.per
    <3>1. req.page * req.per = (req.page - 1) * req.per + req.per
      BY ReachTyped DEF Inv
    <3> QED
      BY <1>1, <3>1
  <2> QED
    BY <2>1 DEF Reach
<1>3a. items = Select(req.snap, k, req.per)
  BY <1>3
<1> HIDE DEF items
<1>5. /\ items \in Seq(Ids)
      /\ \A m \in DOMAIN items : items[m] = Sorted(req.snap)[k + m]
  <2>1. req.snap \in Seq(Row) /\ k \in Nat /\ req.per \in Nat \ {0}
    BY <1>1, <1>2
  <2>2. /\ Select(req.snap, k, req.per) \in Seq(Ids)
        /\ \A m \in DOMAIN Select(req.snap, k, req.per) :
             Select(req.snap, k, req.per)[m] = Sorted(req.snap)[k + m]
    <3> HIDE DEF k
    <3> QED
      BY ONLY <2>1, SelectItems
  <2> QED
    BY <1>3a, <2>2
<1>6. Len(items) = Reach - k
  <2>1. k < L => Len(items) = IF L - k < req.per THEN L - k ELSE req.per
    BY <1>1, <1>2, <1>3a, SelectLength
  <2>2. L <= k => Len(items) = 0
    BY <1>1, <1>2, <1>3a, SelectLength
  <2> HIDE DEF k, L
  <2> QED
    BY <1>1, <1>2, <1>4, <2>1, <2>2
<1>7. /\ all \in Seq(Ids) /\ Len(all) = k + Len(items)
      /\ \A n \in 1 .. k + Len(items) :
           all[n] = IF n <= k THEN seen[n] ELSE items[n - k]
  <2>1. seen \in Seq(Ids) /\ items \in Seq(Ids)
    BY <1>1, <1>5
  <2> QED
    BY ONLY <2>1, ConcatProperties
<1> HIDE DEF k, L, all
<1>8. Reach \in Nat /\ Len(items) \in Nat
  BY <1>5, ReachTyped DEF Inv
<1>9. k + Len(items) = Reach
  BY <1>1, <1>6, <1>8
<1>10. ASSUME NEW n \in 1 .. Reach PROVE all[n] = Sorted(req.snap)[n]
  <2>1. CASE n <= k
    BY <1>1, <1>7, <1>9, <2>1
  <2>2. CASE ~(n <= k)
    <3>1. n - k \in 1 .. Len(items) /\ k + (n - k) = n
      BY <1>1, <1>8, <1>9, <2>2
    <3>2. n - k \in DOMAIN items
      BY <1>5, <3>1
    <3>3. items[n - k] = Sorted(req.snap)[n]
      BY <1>5, <3>1, <3>2
    <3> QED
      BY <1>7, <1>9, <2>2, <3>3
  <2> QED
    BY <2>1, <2>2
<1> QED
  BY <1>7, <1>9, <1>10 DEF all, items

\* What Insert compares with: the first rows of the snapshot, all of them.
LEMMA ShownIsFirst ==
  ASSUME Inv, WalkOK, Walking, NEW n \in 1 .. Reach
  PROVE  Contains(Shown, Sorted(req.snap)[n])
<1>1. CASE req.pc \in {"open", "counted"}
  <2> DEFINE all == seen \o Select(req.snap, Offset(req.page, req.per), req.per)
  <2>1. Len(all) = Reach /\ all[n] = Sorted(req.snap)[n]
    BY <1>1, PageContinues
  <2>2. Shown = all
    BY <1>1 DEF Shown, Walking
  <2> QED
    BY <2>1, <2>2 DEF Contains
<1>2. CASE req.pc = "answered"
  <2>1. Shown = seen /\ Len(seen) = Reach /\ seen[n] = Sorted(req.snap)[n]
    <3>1. seen \in Seq(Ids) /\ Len(seen) = Reach /\ seen[n] = Sorted(req.snap)[n]
      BY <1>2 DEF WalkOK, Walking
    <3>2. Shown = seen \o <<>>
      BY <1>2 DEF Shown
    <3>3. seen \o <<>> = seen
      BY <3>1, ConcatEmptySeq
    <3> QED
      BY <3>1, <3>2, <3>3
  <2> QED
    BY <2>1 DEF Contains
<1>3. req.pc \in {"open", "counted", "answered"}
  BY DEF WalkOK, Walking, Inv, ReqOK
<1> QED
  BY <1>1, <1>2, <1>3

\* The first page, of a walk that begins.
LEMMA WalkBegins ==
  ASSUME Inv, Walk
  PROVE  WalkOK'
<1>1. /\ table # <<>> /\ start' = Sorted(table) /\ seen' = <<>> /\ table' = table
  BY DEF Walk
<1>2. req'.pc = "open" /\ req'.page = 1 /\ req'.snap = table /\ req'.per \in Nat
  <2>1. PICK n \in Params : Open(1, PerPage(n))
    BY DEF Walk
  <2> QED
    BY <2>1, Clamped DEF Open, NoReq
<1>3. table \in Seq(Row) /\ Len(table) \in Nat
  BY DEF Inv, TableOK
<1>4. Sorted(table) \in Seq(Ids) /\ Len(Sorted(table)) = Len(table)
  BY <1>3, SortedByRank
<1>5. First(table, Len(table)) = table
  BY <1>3, FirstProperties
<1>6. Len(seen') = 0 /\ seen' \in Seq(Ids) /\ (req'.page - 1) * req'.per = 0
  BY <1>1, <1>2
<1> QED
  BY <1>1, <1>2, <1>3, <1>4, <1>5, <1>6 DEF WalkOK

\* An answer shows the page.
LEMMA WalkAnswers ==
  ASSUME Inv, WalkOK, Answer
  PROVE  WalkOK'
<1> SUFFICES ASSUME Walking PROVE WalkOK'
  BY DEF Answer, Walking, WalkOK
<1> DEFINE items == Select(req.snap, Offset(req.page, req.per), req.per)
<1>1. /\ req.pc = "counted" /\ seen' = seen \o items
      /\ req' = [req EXCEPT !.pc = "answered", !.items = items]
      /\ UNCHANGED <<table, start, moved>>
  BY DEF Answer, Walking
<1>2. /\ req'.pc = "answered" /\ req'.page = req.page /\ req'.per = req.per
      /\ req'.snap = req.snap
  BY <1>1 DEF Inv, ReqOK
<1>3. Reach' = Reach
  BY <1>2 DEF Reach
<1>4. /\ seen' \in Seq(Ids) /\ Len(seen') = Reach
      /\ \A n \in 1 .. Reach : seen'[n] = Sorted(req.snap)[n]
  BY <1>1, PageContinues
<1>5. Reach <= Len(req.snap)
  BY ReachTyped DEF Inv
<1> HIDE DEF items
<1> QED
  BY <1>1, <1>2, <1>3, <1>4, <1>5 DEF WalkOK, Walking

LEMMA CeilingNext ==
  ASSUME NEW total \in Nat, NEW per \in Nat \ {0}, NEW page \in Nat \ {0}
  PROVE  page * per < total <=> page + 1 <= (total + per - 1) \div per
<1>1. page + 1 \in Nat \ {0} /\ page + 1 - 1 = page
  OBVIOUS
<1>2. (page + 1 - 1) * per < total <=> page + 1 <= (total + per - 1) \div per
  BY <1>1, Ceiling
<1> QED
  BY <1>1, <1>2

\* If there is a next page, every row up to it has been shown.
LEMMA NotLast ==
  ASSUME Inv, req.pc = "answered", ~LastPage, (req.page - 1) * req.per <= Len(req.snap)
  PROVE  req.page * req.per <= Len(req.snap)
<1> DEFINE L == Len(req.snap)
           all == req.page * req.per
           skip == (req.page - 1) * req.per
<1>1. /\ L \in Nat /\ all \in Nat /\ skip \in Nat /\ req.per \in Nat \ {0}
      /\ req.page \in Nat \ {0} /\ all = skip + req.per /\ L < Word
      /\ skip <= L
  BY ReachTyped DEF Inv, ReqOK
<1> HIDE DEF all, skip
<1>1a. req.items = Select(req.snap, skip, req.per) /\ req.snap \in Seq(Row)
  <2>1. Offset(req.page, req.per) = skip
    <3>1. skip % Word = skip
      <4>1. skip \in Nat /\ L \in Nat /\ L < Word /\ skip <= L /\ Word \in Nat \ {0}
        BY <1>1, ListingAssumption
      <4>2. skip < Word
        BY ONLY <4>1
      <4> QED
        BY ONLY <4>1, <4>2, SmallRemainder
    <3> QED
      BY <3>1 DEF Offset, skip
  <2> QED
    BY <1>1, <2>1 DEF Inv, ReqOK
<1>2. CASE req.total = -1
  <2>1. Len(req.items) >= req.per
    <3>1. req.items \in Seq(Ids)
      BY <1>1, <1>1a, SelectItems
    <3> QED
      BY <1>1, <1>2, <3>1 DEF LastPage
  <2>2. skip < L => Len(req.items) = IF L - skip < req.per THEN L - skip ELSE req.per
    <3>1. skip \in Nat /\ req.per \in Nat \ {0} /\ req.snap \in Seq(Row)
      BY <1>1, <1>1a
    <3>2. skip < L => Len(Select(req.snap, skip, req.per))
                        = IF L - skip < req.per THEN L - skip ELSE req.per
      BY ONLY <3>1, SelectLength
    <3> QED
      BY <1>1a, <3>2
  <2>3. L <= skip => Len(req.items) = 0
    BY <1>1, <1>1a, SelectLength
  <2> QED
    <3>1. all <= L
      BY <1>1, <2>1, <2>2, <2>3
    <3> QED
      BY <3>1 DEF all
<1>3. CASE req.total # -1
  <2>1. ~(req.page >= TotalPages(req.total, req.per)) /\ req.total >= 0
    BY <1>3 DEF LastPage, Inv, ReqOK
  <2>2. req.total = L
    BY <2>1 DEF Inv, ReqOK
  <2>3. TotalPages(req.total, req.per) = (L + req.per - 1) \div req.per
    BY <1>1, <2>2, SmallRemainder DEF TotalPages
  <2>4. (L + req.per - 1) \div req.per \in Nat
    BY <1>1, Quotient, L + req.per - 1 \in Nat
  <2>5. req.page + 1 <= (L + req.per - 1) \div req.per
    BY <1>1, <2>1, <2>3, <2>4
  <2>6. all < L
    BY <1>1, <2>5, CeilingNext DEF all
  <2> QED
    BY <1>1, <2>6 DEF all
<1> QED
  BY <1>2, <1>3

\* A last page ends where the snapshot ends.
LEMMA LastShown ==
  ASSUME Inv, req.pc = "answered", LastPage, (req.page - 1) * req.per <= Len(req.snap)
  PROVE  Reach = Len(req.snap)
<1> DEFINE L == Len(req.snap)
           all == req.page * req.per
           skip == (req.page - 1) * req.per
<1>1. /\ L \in Nat /\ all \in Nat /\ skip \in Nat /\ req.per \in Nat \ {0}
      /\ req.page \in Nat \ {0} /\ all = skip + req.per /\ L < Word
      /\ skip <= L /\ Reach = IF all < L THEN all ELSE L
  BY ReachTyped DEF Inv, ReqOK
<1> HIDE DEF all, skip
<1>2. req.items = Select(req.snap, skip, req.per) /\ req.snap \in Seq(Row)
  <2>1. skip % Word = skip
    BY <1>1, SmallRemainder
  <2>2. Offset(req.page, req.per) = skip
    BY <2>1 DEF Offset, skip
  <2> QED
    BY <1>1, <2>2 DEF Inv, ReqOK
<1>3. CASE req.total = -1
  <2>1. Len(req.items) < req.per
    BY <1>3 DEF LastPage
  <2>2. skip < L => Len(req.items) = IF L - skip < req.per THEN L - skip ELSE req.per
    <3>1. skip \in Nat /\ req.per \in Nat \ {0} /\ req.snap \in Seq(Row)
      BY <1>1, <1>2
    <3>2. skip < L => Len(Select(req.snap, skip, req.per))
                        = IF L - skip < req.per THEN L - skip ELSE req.per
      BY ONLY <3>1, SelectLength
    <3> QED
      BY <1>2, <3>2
  <2> QED
    BY <1>1, <2>1, <2>2
<1>4. CASE req.total # -1
  <2>1. req.page >= TotalPages(req.total, req.per) /\ req.total >= 0
    BY <1>4 DEF LastPage, Inv, ReqOK
  <2>2. req.total = L
    BY <2>1 DEF Inv, ReqOK
  <2>3. TotalPages(req.total, req.per) = (L + req.per - 1) \div req.per
    BY <1>1, <2>2, SmallRemainder DEF TotalPages
  <2>4. ~(req.page + 1 <= (L + req.per - 1) \div req.per)
    <3>1. L + req.per - 1 \in Nat
      BY <1>1
    <3>2. (L + req.per - 1) \div req.per \in Nat
      BY <1>1, <3>1, Quotient
    <3> QED
      BY <1>1, <2>1, <2>3, <3>2
  <2>5. ~(all < L)
    BY <1>1, <2>4, CeilingNext DEF all
  <2> QED
    BY <1>1, <2>5
<1> QED
  BY <1>3, <1>4

\* The next page opens on the table as it is by now, whose first rows are the
\* ones that were shown.
LEMMA WalkGoesOn ==
  ASSUME Inv, WalkOK, NextPage
  PROVE  WalkOK'
<1> SUFFICES ASSUME Walking PROVE WalkOK'
  BY DEF NextPage, Walking, WalkOK
<1> DEFINE k == Len(seen)
<1>1. /\ req.pc = "answered" /\ ~LastPage /\ UNCHANGED <<table, start, seen, moved>>
      /\ req'.pc = "open" /\ req'.page = req.page + 1 /\ req'.per = req.per
      /\ req'.snap = table
  BY DEF NextPage, Open, NoReq
<1>2. /\ Len(start) <= Len(req.snap) /\ Len(req.snap) <= Len(table)
      /\ start \in Seq(Ids) /\ seen \in Seq(Ids)
      /\ start = Sorted(First(table, Len(start)))
      /\ k = Reach /\ k \in Nat
      /\ \A n \in 1 .. k : seen[n] = Sorted(req.snap)[n]
      /\ \A n \in 1 .. k : Sorted(table)[n] = Sorted(req.snap)[n]
  BY <1>1 DEF WalkOK, Walking
<1>3. table \in Seq(Row) /\ Len(table) \in Nat
  BY DEF Inv, TableOK
<1>4. k = req.page * req.per
  <2>1. Len(req.snap) <= req.page * req.per \/ Reach = req.page * req.per
    BY ReachTyped DEF Inv
  <2>2. (req.page - 1) * req.per <= Len(req.snap) => req.page * req.per <= Len(req.snap)
    BY <1>1, NotLast
  <2>3. (req.page - 1) * req.per <= Len(req.snap)
    BY DEF WalkOK, Walking
  <2> QED
    BY <1>2, <2>1, <2>2, <2>3, ReachTyped DEF Inv
<1>5. (req'.page - 1) * req'.per = k
  BY <1>1, <1>4, ReachTyped DEF Inv
<1>6. First(table, Len(table)) = table
  BY <1>3, FirstProperties
<1>7. Len(start) <= Len(table) /\ k <= Len(table)
  BY <1>2, <1>3, ReachTyped DEF Inv
<1> QED
  BY <1>1, <1>2, <1>3, <1>5, <1>6, <1>7 DEF WalkOK, Walking

\* An INSERT that does not disturb the walk leaves the first rows where they are.
LEMMA WalkSurvivesInsert ==
  ASSUME Inv, WalkOK, NEW w \in Writers, Insert(w)
  PROVE  WalkOK'
<1> SUFFICES ASSUME Walking, ~moved' PROVE WalkOK'
  BY DEF Insert, Walking, WalkOK
<1>1. PICK id \in Ids : table' = Append(table, [id |-> id, created |-> stamp[w]])
  BY DEF Insert
<1> DEFINE x == [id |-> id, created |-> stamp[w]]
           L == Len(req.snap)
<1>2. /\ UNCHANGED <<req, start, seen>>
      /\ \A i \in DOMAIN table : Contains(Shown, table[i].id) => ~(table[i].created > stamp[w])
  BY DEF Insert
<1>3. table \in Seq(Row) /\ x \in Row /\ Len(table) \in Nat /\ table' = Append(table, x)
  BY <1>1 DEF Inv, TableOK, StampsOK, Row
<1>4. x.created = stamp[w] /\ stamp[w] \in Int
  BY DEF Inv, StampsOK
<1> HIDE DEF x
<1>5. /\ table' \in Seq(Row) /\ Len(table') = Len(table) + 1
      /\ \A i \in DOMAIN table : i \in DOMAIN table' /\ table'[i] = table[i]
  BY <1>3
<1>6. /\ Len(start) <= L /\ L <= Len(table) /\ L \in Nat
      /\ start \in Seq(Ids) /\ Len(start) \in Nat /\ Len(start) <= Len(table)
      /\ req.snap = First(table, L) /\ start = Sorted(First(table, Len(start)))
      /\ Reach \in Nat /\ Reach <= L
      /\ \A n \in 1 .. Reach : Sorted(table)[n] = Sorted(req.snap)[n]
  BY <1>3, ReachTyped DEF WalkOK, Walking, Inv
<1>7. First(table', L) = First(table, L)
  BY <1>3, <1>6, FirstProperties
<1>8. First(table', Len(start)) = First(table, Len(start))
  BY <1>3, <1>6, FirstProperties
<1>9. ASSUME NEW n \in 1 .. Reach PROVE Sorted(table')[n] = Sorted(table)[n]
  <2>1. n \in DOMAIN table
    BY <1>3, <1>6
  <2>2. PICK i \in DOMAIN table : Rank(table, i) = n /\ Sorted(table)[n] = table[i].id
    BY <1>3, <2>1, SortedByRank
  <2>3. Contains(Shown, table[i].id)
    BY <1>6, <2>2, ShownIsFirst
  <2>4. table[i].created <= x.created
    <3>1. table[i].created \in Int
      <4>1. table[i] \in Row
        BY <1>3
      <4> QED
        BY <4>1 DEF Row
    <3> QED
      BY <1>2, <1>4, <2>3, <3>1
  <2>5. Rank(table', i) = n
    BY <1>3, <2>2, <2>4, AppendKeepsRank
  <2>6. Sorted(table')[n] = table'[i].id
    BY <1>5, <2>5, SortedByRank
  <2> QED
    BY <1>5, <2>2, <2>6
<1>10. Reach' = Reach
  BY <1>2 DEF Reach
<1> QED
  BY <1>2, <1>3, <1>5, <1>6, <1>7, <1>8, <1>9, <1>10 DEF WalkOK, Walking

LEMMA WalkInitially == Init => WalkOK
BY DEF Init, WalkOK

LEMMA WalkInductive == Inv /\ WalkOK /\ [Next]_vars => WalkOK'
<1> SUFFICES ASSUME Inv, WalkOK, [Next]_vars PROVE WalkOK'
  OBVIOUS
<1>1. CASE Tick \/ UNCHANGED vars \/ \E w \in Writers : Stamp(w)
  <2>1. UNCHANGED <<table, req, start, seen, moved>>
    BY <1>1 DEF Tick, Stamp, vars
  <2> QED
    BY <2>1 DEF WalkOK, Reach
<1>2. CASE Count \/ SkipTotal
  <2>1. /\ UNCHANGED <<table, start, seen, moved>>
        /\ req.pc = "open" /\ req'.pc = "counted" /\ req'.page = req.page
        /\ req'.per = req.per /\ req'.snap = req.snap
    BY <1>2 DEF Count, SkipTotal, Inv, ReqOK
  <2>2. Reach' = Reach
    BY <2>1 DEF Reach
  <2> QED
    BY <2>1, <2>2 DEF WalkOK
<1>3. CASE RowGoes \/ Ask \/ Leave
  BY <1>3 DEF RowGoes, Ask, Leave, WalkOK
<1> QED
  BY <1>1, <1>2, <1>3, WalkBegins, WalkAnswers, WalkGoesOn, WalkSurvivesInsert DEF Next

\* A client that walks from page to page sees every record that was there when
\* it began, once and in their order, for any number of records, page size and
\* word width, as long as no row goes or overtakes.
THEOREM WalksSeeAll == Spec => []WalkSeesAll
<1>1. ASSUME Inv, WalkOK, Walking, req.pc = "answered"
      PROVE  /\ \A i, j \in DOMAIN seen : seen[i] = seen[j] => i = j
             /\ \A i, j \in DOMAIN start, l \in DOMAIN seen :
                  i < j /\ seen[l] = start[j] => \E k \in 1 .. l - 1 : seen[k] = start[i]
             /\ LastPage => \A i \in DOMAIN start : Contains(seen, start[i])
  <2> DEFINE L == Len(req.snap)
             n0 == Len(start)
             old == First(table, n0)
  <2>1. table \in Seq(Row) /\ Len(table) \in Nat /\ DOMAIN table = 1 .. Len(table)
    BY <1>1 DEF Inv, TableOK
  <2>2. \A i, j \in DOMAIN table : table[i].id = table[j].id => i = j
    BY <1>1 DEF Inv, TableOK
  <2>3. /\ start \in Seq(Ids) /\ seen \in Seq(Ids) /\ n0 <= L /\ L <= Len(table)
        /\ req.snap = First(table, L) /\ start = Sorted(old)
        /\ Len(seen) = Reach /\ Reach \in Nat /\ Reach <= L /\ L \in Nat /\ n0 \in Nat
        /\ \A n \in 1 .. Len(seen) : seen[n] = Sorted(req.snap)[n]
        /\ \A n \in 1 .. Len(seen) : seen[n] = Sorted(table)[n]
    BY <1>1, ReachTyped DEF WalkOK, Walking, Inv
  <2>4. n0 <= Len(table) /\ DOMAIN seen = 1 .. Len(seen) /\ DOMAIN start = 1 .. n0
    BY <2>1, <2>3
  <2> HIDE DEF n0, L
  <2>5. /\ old \in Seq(Row) /\ Len(old) = n0 /\ DOMAIN old = 1 .. n0
        /\ \A i \in 1 .. n0 : old[i] = table[i] /\ i \in DOMAIN table
    BY <2>1, <2>3, <2>4, FirstProperties
  <2> HIDE DEF old
  <2>6. ASSUME NEW l \in DOMAIN seen
        PROVE  \E i \in DOMAIN table : Rank(table, i) = l /\ seen[l] = table[i].id
    <3>1. l \in DOMAIN table
      BY <2>1, <2>3, <2>4
    <3>2. PICK i \in DOMAIN table : Rank(table, i) = l /\ Sorted(table)[l] = table[i].id
      BY <2>1, <3>1, SortedByRank
    <3> QED
      BY <2>3, <2>4, <3>2
  <2>7. ASSUME NEW i \in DOMAIN start
        PROVE  \E a \in 1 .. n0 : Rank(old, a) = i /\ start[i] = table[a].id
    <3>1. i \in DOMAIN old
      BY <2>4, <2>5
    <3>2. PICK a \in DOMAIN old : Rank(old, a) = i /\ Sorted(old)[i] = old[a].id
      BY <2>5, <3>1, SortedByRank
    <3> QED
      BY <2>3, <2>5, <3>2
  <2>8. ASSUME NEW i \in DOMAIN seen, NEW j \in DOMAIN seen, seen[i] = seen[j]
        PROVE  i = j
    BY <2>2, <2>6, <2>8
  <2>9. ASSUME NEW i \in DOMAIN start, NEW j \in DOMAIN start, NEW l \in DOMAIN seen,
               i < j, seen[l] = start[j]
        PROVE  \E k \in 1 .. l - 1 : seen[k] = start[i]
    <3>1. PICK a \in 1 .. n0 : Rank(old, a) = i /\ start[i] = table[a].id
      BY <2>7
    <3>2. PICK b \in 1 .. n0 : Rank(old, b) = j /\ start[j] = table[b].id
      BY <2>7
    <3>3. Rank(table, b) = l
      BY <2>2, <2>5, <2>6, <2>9, <3>2
    <3>4. Before(old, a, b)
      <4>1. a # b /\ i \in Int /\ j \in Int
        BY <2>4, <2>9, <3>1, <3>2
      <4>2. ~Before(old, b, a)
        BY <2>5, <2>9, <3>1, <3>2, <4>1, RankGrows
      <4> QED
        BY <2>5, <4>1, <4>2, BeforeOrder
    <3>5. Before(table, a, b)
      BY <2>1, <2>3, <2>4, <3>4, FirstOrder DEF old
    <3>6. /\ Rank(table, a) < l /\ Rank(table, a) \in 1 .. Len(table)
          /\ Sorted(table)[Rank(table, a)] = table[a].id
      BY <2>1, <2>5, <3>3, <3>5, RankGrows, SortedByRank
    <3>7. Rank(table, a) \in 1 .. l - 1 /\ Rank(table, a) \in 1 .. Len(seen)
      BY <2>3, <2>4, <3>6
    <3> QED
      BY <2>3, <3>1, <3>6, <3>7
  <2>10. ASSUME LastPage, NEW i \in DOMAIN start PROVE Contains(seen, start[i])
    <3>1. Len(seen) = L
      BY <1>1, <2>3, <2>10, LastShown DEF L, WalkOK, Walking
    <3>2. PICK a \in 1 .. n0 : start[i] = table[a].id
      BY <2>7, <2>10
    <3>3. a \in DOMAIN req.snap /\ req.snap[a] = table[a] /\ req.snap \in Seq(Row)
      <4>1. /\ First(table, L) \in Seq(Row) /\ Len(First(table, L)) = L
            /\ \A k \in 1 .. L : First(table, L)[k] = table[k]
        BY <2>1, <2>3, FirstProperties
      <4>2. a \in 1 .. L
        BY <2>3
      <4> QED
        BY <2>3, <4>1, <4>2
    <3>4. /\ Rank(req.snap, a) \in 1 .. L
          /\ Sorted(req.snap)[Rank(req.snap, a)] = table[a].id
      <4>1. DOMAIN req.snap = 1 .. L
        BY <3>3, LenProperties DEF L
      <4> QED
        BY <3>3, <4>1, SortedByRank
    <3> QED
      BY <2>3, <3>1, <3>2, <3>4 DEF Contains
  <2> QED
    BY <2>8, <2>9, <2>10
<1>2. Inv /\ WalkOK => WalkSeesAll
  BY <1>1 DEF WalkSeesAll, Walking
<1>3. Init => Inv /\ WalkOK
  BY InitInv, WalkInitially
<1>4. Inv /\ WalkOK /\ [Next]_vars => Inv' /\ WalkOK'
  BY StepInv, WalkInductive
<1> QED
  BY <1>2, <1>3, <1>4, PTL DEF Spec
=============================================================================
