---------------------------- MODULE FilterProofs ----------------------------
(***************************************************************************)
(* What the parser and the two backends of Filter do with an expression of *)
(* any length.  The recursive functions of the module are inductions over  *)
(* the length of a text or the height of a tree: those are sets of         *)
(* numbers here, as in ComparisonProofs.                                   *)
(***************************************************************************)
EXTENDS Filter, ComparisonProofs

-----------------------------------------------------------------------------
(* Induction, and functions that are defined by it.                        *)

LEMMA StrongInduction ==
  ASSUME NEW S \in SUBSET Nat, \A n \in Nat : (\A m \in Nat : m < n => m \in S) => n \in S
  PROVE  \A n \in Nat : n \in S
<1> SUFFICES ASSUME Nat \ S # {} PROVE FALSE
  OBVIOUS
<1>1. PICK n \in Nat \ S : \A m \in Nat \ S : n <= m
  <2>1. Nat \ S \in SUBSET Nat
    OBVIOUS
  <2> QED
    BY <2>1, LeastNat
<1>2. ASSUME NEW m \in Nat, m < n PROVE m \in S
  <2>1. ~(n <= m)
    BY <1>2
  <2> QED
    BY <1>1, <2>1
<1> QED
  BY <1>1, <1>2

\* A function that looks at what is smaller only.
Descends(D, T, rank, step) ==
  \A f, g \in [D -> T], x \in D :
    (\A y \in D : rank[y] < rank[x] => f[y] = g[y]) => step[f][x] = step[g][x]

Solved(D, T, step) == \E f \in [D -> T] : f = step[f]

LEMMA Recursion ==
  ASSUME NEW D, NEW T, NEW rank \in [D -> Nat], NEW step \in [[D -> T] -> [D -> T]],
         T # {}, Descends(D, T, rank, step)
  PROVE  Solved(D, T, step)
<1> DEFINE Upto(f, n) == \A x \in D : rank[x] < n => f[x] = step[f][x]
           S == {n \in Nat : \E f \in [D -> T] : Upto(f, n)}
\* Two that are right up to n agree up to n.
<1>1. ASSUME NEW f \in [D -> T], NEW g \in [D -> T], NEW n \in Nat, Upto(f, n), Upto(g, n)
      PROVE  \A x \in D : rank[x] < n => f[x] = g[x]
  <2> DEFINE R == {k \in Nat : \A x \in D : rank[x] = k /\ k < n => f[x] = g[x]}
  <2>1. ASSUME NEW k \in Nat, \A j \in Nat : j < k => j \in R PROVE k \in R
    <3>1. ASSUME NEW x \in D, rank[x] = k, k < n PROVE f[x] = g[x]
      <4>1. ASSUME NEW y \in D, rank[y] < rank[x] PROVE f[y] = g[y]
        <5>1. rank[y] \in Nat /\ rank[y] < k /\ rank[y] < n
          BY <3>1, <4>1
        <5> QED
          BY <2>1, <5>1
      <4>2. step[f][x] = step[g][x]
        BY <4>1 DEF Descends
      <4>3. f[x] = step[f][x] /\ g[x] = step[g][x]
        BY <1>1, <3>1
      <4> QED
        BY <4>2, <4>3
    <3> QED
      BY <3>1
  <2>2. R \in SUBSET Nat
    OBVIOUS
  <2> HIDE DEF R
  <2>3. \A k \in Nat : k \in R
    BY ONLY <2>1, <2>2, StrongInduction
  <2> USE DEF R
  <2> QED
    BY <2>3
<1>2. 0 \in S
  <2>1. PICK c \in T : TRUE
    OBVIOUS
  <2>2. [x \in D |-> c] \in [D -> T]
    OBVIOUS
  <2>3. Upto([x \in D |-> c], 0)
    OBVIOUS
  <2> QED
    BY <2>2, <2>3
<1>3. ASSUME NEW n \in S PROVE n + 1 \in S
  <2>1. PICK f \in [D -> T] : Upto(f, n)
    OBVIOUS
  <2>2. step[f] \in [D -> T] /\ n \in Nat
    OBVIOUS
  <2>3. ASSUME NEW x \in D, rank[x] < n + 1 PROVE step[f][x] = step[step[f]][x]
    <3>1. ASSUME NEW y \in D, rank[y] < rank[x] PROVE f[y] = step[f][y]
      <4>1. rank[y] \in Nat /\ rank[x] \in Nat /\ rank[y] < n
        BY <2>2, <2>3, <3>1
      <4> QED
        BY <2>1, <4>1
    <3> QED
      BY <2>2, <3>1 DEF Descends
  <2>4. Upto(step[f], n + 1)
    BY <2>3
  <2> QED
    BY <2>2, <2>4
<1>4. \A n \in Nat : \E f \in [D -> T] : Upto(f, n)
  <2>1. S \in SUBSET Nat
    OBVIOUS
  <2> HIDE DEF S
  <2>2. \A n \in Nat : n \in S
    BY ONLY <1>2, <1>3, <2>1, SetInduction
  <2> USE DEF S
  <2> QED
    BY <2>2
<1> DEFINE Nth(n) == CHOOSE f \in [D -> T] : Upto(f, n)
           F == [x \in D |-> Nth(rank[x] + 1)[x]]
<1>5. ASSUME NEW n \in Nat PROVE Nth(n) \in [D -> T] /\ Upto(Nth(n), n)
  BY <1>4
<1> HIDE DEF Nth
<1>6. F \in [D -> T]
  <2>1. ASSUME NEW x \in D PROVE Nth(rank[x] + 1)[x] \in T
    BY <1>5
  <2> QED
    BY <2>1
<1>7. ASSUME NEW n \in Nat, NEW x \in D, rank[x] < n PROVE F[x] = Nth(n)[x]
  <2> DEFINE r == rank[x]
  <2>1. r \in Nat /\ r + 1 \in Nat /\ r + 1 <= n
    BY <1>7
  <2>2. Nth(r + 1) \in [D -> T] /\ Nth(n) \in [D -> T]
    BY <1>5, <2>1
  <2>3. Upto(Nth(r + 1), r + 1) /\ Upto(Nth(n), r + 1)
    <3>1. Upto(Nth(r + 1), r + 1) /\ Upto(Nth(n), n)
      BY <1>5, <2>1
    <3>2. \A y \in D : rank[y] < r + 1 => rank[y] < n
      BY <2>1
    <3> QED
      BY <3>1, <3>2
  <2>4. rank[x] < r + 1
    BY <2>1
  <2> HIDE DEF Upto, r
  <2>5. Nth(r + 1)[x] = Nth(n)[x]
    BY <1>1, <2>1, <2>2, <2>3, <2>4
  <2> QED
    BY <2>5 DEF r
<1>8. ASSUME NEW x \in D PROVE F[x] = step[F][x]
  <2> DEFINE g == Nth(rank[x] + 1)
  <2>1. rank[x] + 1 \in Nat /\ rank[x] < rank[x] + 1
    OBVIOUS
  <2>2. g \in [D -> T] /\ g[x] = step[g][x]
    BY <1>5, <2>1
  <2>3. F[x] = g[x]
    OBVIOUS
  <2>4. ASSUME NEW y \in D, rank[y] < rank[x] PROVE F[y] = g[y]
    <3>1. rank[y] < rank[x] + 1
      BY <2>4
    <3> QED
      BY <1>7, <2>1, <3>1
  <2> HIDE DEF g, F
  <2>5. step[F][x] = step[g][x]
    BY <1>6, <2>2, <2>4 DEF Descends
  <2> QED
    BY <2>2, <2>3, <2>5
<1>9. F = step[F]
  <2>1. F \in [D -> T] /\ step[F] \in [D -> T]
    BY <1>6
  <2> HIDE DEF F
  <2> QED
    BY <1>8, <2>1
<1> QED
  BY <1>6, <1>9 DEF Solved

-----------------------------------------------------------------------------
(* Trees.                                                                  *)

Grown(T) == Cmps \cup [k : {"or", "and"}, l : T, r : T]

LEMMA TreesAre == \A h \in Nat : Trees[h] = IF h = 0 THEN Cmps ELSE Grown(Trees[h - 1])
<1> DEFINE Upto(g, n) == \A h \in 0 .. n : g[h] = IF h = 0 THEN Cmps ELSE Grown(g[h - 1])
           S == {n \in Nat : \E g : Upto(g, n)}
<1>1. ASSUME NEW f, NEW g, NEW n \in Nat, Upto(f, n), Upto(g, n)
      PROVE  \A h \in 0 .. n : f[h] = g[h]
  <2> DEFINE R == {k \in Nat : k <= n => f[k] = g[k]}
  <2>1. 0 \in R
    BY <1>1
  <2>2. ASSUME NEW k \in R PROVE k + 1 \in R
    <3>1. ASSUME k + 1 <= n PROVE f[k + 1] = g[k + 1]
      <4>1. k + 1 \in 0 .. n /\ k + 1 # 0 /\ (k + 1) - 1 = k /\ k <= n
        BY <3>1
      <4>2. f[k + 1] = Grown(f[k]) /\ g[k + 1] = Grown(g[k])
        BY <1>1, <4>1
      <4>3. f[k] = g[k]
        BY <4>1
      <4> QED
        BY <4>2, <4>3
    <3> QED
      BY <3>1
  <2>3. R \in SUBSET Nat
    OBVIOUS
  <2> HIDE DEF R
  <2>4. \A k \in Nat : k \in R
    BY ONLY <2>1, <2>2, <2>3, SetInduction
  <2> USE DEF R
  <2> QED
    BY <2>4
<1>2. 0 \in S
  <2>1. Upto([h \in {0} |-> Cmps], 0)
    OBVIOUS
  <2> QED
    BY <2>1
<1>3. ASSUME NEW n \in S PROVE n + 1 \in S
  <2>1. PICK g : Upto(g, n)
    OBVIOUS
  <2> DEFINE f == [h \in 0 .. n + 1 |-> IF h = n + 1 THEN Grown(g[n]) ELSE g[h]]
  <2>2. n \in Nat
    OBVIOUS
  <2>3. ASSUME NEW h \in 0 .. n + 1 PROVE f[h] = IF h = 0 THEN Cmps ELSE Grown(f[h - 1])
    <3>1. CASE h = n + 1
      <4>1. n \in 0 .. n + 1 /\ n # n + 1 /\ h # 0 /\ h - 1 = n
        BY <2>2, <3>1
      <4> QED
        BY <3>1, <4>1
    <3>2. CASE h \in 0 .. n /\ h # 0
      <4>1. h - 1 \in 0 .. n + 1 /\ h - 1 # n + 1 /\ h # n + 1
        BY <2>2, <3>2
      <4>2. g[h] = Grown(g[h - 1])
        BY <2>1, <3>2
      <4> QED
        BY <4>1, <4>2, <3>2
    <3>3. CASE h = 0
      BY <2>1, <2>2, <3>3
    <3> QED
      BY <2>2, <3>1, <3>2, <3>3
  <2>4. Upto(f, n + 1)
    BY <2>3
  <2> HIDE DEF f, Upto
  <2> QED
    BY <2>2, <2>4
<1>4. \A n \in Nat : \E g : Upto(g, n)
  <2>1. S \in SUBSET Nat
    OBVIOUS
  <2> HIDE DEF S
  <2>2. \A n \in Nat : n \in S
    BY ONLY <1>2, <1>3, <2>1, SetInduction
  <2> USE DEF S
  <2> QED
    BY <2>2
<1> DEFINE Nth(n) == CHOOSE g : Upto(g, n)
           F == [h \in Nat |-> Nth(h)[h]]
<1>5. ASSUME NEW n \in Nat PROVE Upto(Nth(n), n)
  BY <1>4
<1> HIDE DEF Nth
<1>6. ASSUME NEW h \in Nat PROVE F[h] = IF h = 0 THEN Cmps ELSE Grown(F[h - 1])
  <2>1. CASE h = 0
    BY <1>5, <2>1
  <2>2. CASE h # 0
    <3>1. h - 1 \in Nat /\ h \in 0 .. h /\ h - 1 \in 0 .. h - 1
      BY <2>2
    <3>2. Upto(Nth(h), h) /\ Upto(Nth(h - 1), h - 1)
      BY <1>5, <3>1
    <3>3. Upto(Nth(h), h - 1)
      <4>1. \A j \in 0 .. h - 1 : j \in 0 .. h
        BY <3>1
      <4> QED
        BY <3>2, <4>1
    <3>4. Nth(h)[h - 1] = Nth(h - 1)[h - 1]
      <4> HIDE DEF Upto
      <4> QED
        BY <1>1, <3>1, <3>2, <3>3
    <3>5. Nth(h)[h] = Grown(Nth(h)[h - 1])
      BY <2>2, <3>1, <3>2
    <3> QED
      BY <2>2, <3>1, <3>4, <3>5
  <2> QED
    BY <2>1, <2>2
<1>7. F = [h \in Nat |-> IF h = 0 THEN Cmps ELSE Grown(F[h - 1])]
  BY <1>6
<1>8. Trees = CHOOSE f : f = [h \in Nat |-> IF h = 0 THEN Cmps ELSE Grown(f[h - 1])]
  BY DEF Trees, Grown
<1> HIDE DEF F
<1>9. Trees = [h \in Nat |-> IF h = 0 THEN Cmps ELSE Grown(Trees[h - 1])]
  BY <1>7, <1>8
<1> QED
  BY <1>9

LEMMA TreesFirst == Trees[0] = Cmps
BY TreesAre

LEMMA TreesNext == ASSUME NEW h \in Nat PROVE Trees[h + 1] = Grown(Trees[h])
<1>1. h + 1 \in Nat /\ h + 1 # 0 /\ (h + 1) - 1 = h
  OBVIOUS
<1> QED
  BY <1>1, TreesAre

LEMMA TreesGrow == \A h \in Nat : Trees[h] \subseteq Trees[h + 1]
<1> DEFINE S == {h \in Nat : Trees[h] \subseteq Trees[h + 1]}
<1>1. 0 \in S
  <2>1. Trees[0 + 1] = Grown(Cmps)
    BY TreesFirst, TreesNext
  <2>2. 0 + 1 = 1
    OBVIOUS
  <2> QED
    BY <2>1, <2>2, TreesFirst DEF Grown
<1>2. ASSUME NEW h \in S PROVE h + 1 \in S
  <2>1. h \in Nat /\ h + 1 \in Nat /\ Trees[h] \subseteq Trees[h + 1]
    OBVIOUS
  <2>2. Trees[h + 1] = Grown(Trees[h]) /\ Trees[(h + 1) + 1] = Grown(Trees[h + 1])
    BY <2>1, TreesNext
  <2>3. Grown(Trees[h]) \subseteq Grown(Trees[h + 1])
    BY <2>1 DEF Grown
  <2> QED
    BY <2>1, <2>2, <2>3
<1>3. S \in SUBSET Nat
  OBVIOUS
<1> HIDE DEF S
<1>4. \A h \in Nat : h \in S
  BY ONLY <1>1, <1>2, <1>3, SetInduction
<1> USE DEF S
<1> QED
  BY <1>4

LEMMA TreesMonotone ==
  ASSUME NEW g \in Nat, NEW h \in Nat, g <= h
  PROVE  Trees[g] \subseteq Trees[h]
<1> DEFINE S == {d \in Nat : Trees[g] \subseteq Trees[g + d]}
<1>1. 0 \in S
  <2>1. g + 0 = g
    OBVIOUS
  <2> QED
    BY <2>1
<1>2. ASSUME NEW d \in S PROVE d + 1 \in S
  <2>1. d \in Nat /\ g + d \in Nat /\ g + (d + 1) = (g + d) + 1
    OBVIOUS
  <2> QED
    BY <2>1, TreesGrow
<1>3. S \in SUBSET Nat
  OBVIOUS
<1> HIDE DEF S
<1>4. \A d \in Nat : d \in S
  BY ONLY <1>1, <1>2, <1>3, SetInduction
<1> USE DEF S
<1>5. h - g \in Nat /\ g + (h - g) = h
  OBVIOUS
<1> QED
  BY <1>4, <1>5

LEMMA Branches ==
  ASSUME NEW h \in Nat, NEW n \in Trees[h], n.k # "cmp"
  PROVE  h > 0 /\ n.l \in Trees[h - 1] /\ n.r \in Trees[h - 1] /\ n.k \in {"or", "and"}
<1>1. h # 0
  <2>1. n \notin Cmps
    BY DEF Cmps
  <2> QED
    BY <2>1, TreesFirst
<1>2. h > 0 /\ h - 1 \in Nat /\ (h - 1) + 1 = h
  BY <1>1
<1>3. n \in Grown(Trees[h - 1])
  BY <1>2, TreesNext
<1> QED
  BY <1>2, <1>3 DEF Grown, Cmps

LEMMA Leaf == ASSUME NEW h \in Nat, NEW n \in Trees[h], n.k = "cmp" PROVE n \in Cmps
<1>1. CASE h = 0
  BY <1>1, TreesFirst
<1>2. CASE h # 0
  <2>1. h - 1 \in Nat /\ (h - 1) + 1 = h
    BY <1>2
  <2>2. n \in Grown(Trees[h - 1])
    BY <2>1, TreesNext
  <2> QED
    BY <2>2 DEF Grown
<1> QED
  BY <1>1, <1>2

Height(n) == CHOOSE h \in Nat : n \in Trees[h] /\ \A g \in Nat : n \in Trees[g] => h <= g

LEMMA HeightIs ==
  ASSUME NEW n \in Node
  PROVE  /\ Height(n) \in Nat /\ n \in Trees[Height(n)]
         /\ \A g \in Nat : n \in Trees[g] => Height(n) <= g
<1> DEFINE S == {h \in Nat : n \in Trees[h]}
<1>1. S \in SUBSET Nat /\ S # {}
  BY FilterAssumption DEF Node
<1>2. PICK h \in S : \A g \in S : h <= g
  <2> HIDE DEF S
  <2> QED
    BY ONLY <1>1, LeastNat
<1>3. \E m \in Nat : n \in Trees[m] /\ \A g \in Nat : n \in Trees[g] => m <= g
  BY <1>2
<1> QED
  BY <1>3 DEF Height

LEMMA Below ==
  ASSUME NEW n \in Node, n.k # "cmp"
  PROVE  /\ n.l \in Node /\ n.r \in Node
         /\ Height(n.l) < Height(n) /\ Height(n.r) < Height(n)
<1>1. MaxTokens \in Nat /\ n \in Trees[MaxTokens]
  BY FilterAssumption DEF Node
<1>2. MaxTokens - 1 \in Nat /\ n.l \in Trees[MaxTokens - 1] /\ n.r \in Trees[MaxTokens - 1]
  BY <1>1, Branches
<1>3. n.l \in Node /\ n.r \in Node
  <2>1. MaxTokens - 1 <= MaxTokens
    BY <1>1
  <2>2. Trees[MaxTokens - 1] \subseteq Trees[MaxTokens]
    BY <1>1, <1>2, <2>1, TreesMonotone
  <2> QED
    BY <1>2, <2>2 DEF Node
<1> DEFINE h == Height(n)
<1>4. h \in Nat /\ n \in Trees[h]
  BY HeightIs
<1>5. h - 1 \in Nat /\ n.l \in Trees[h - 1] /\ n.r \in Trees[h - 1]
  <2> HIDE DEF h
  <2> QED
    BY <1>4, Branches
<1>6. Height(n.l) \in Nat /\ Height(n.l) <= h - 1
  BY <1>3, <1>5, HeightIs
<1>7. Height(n.r) \in Nat /\ Height(n.r) <= h - 1
  BY <1>3, <1>5, HeightIs
<1> QED
  BY <1>3, <1>4, <1>6, <1>7

-----------------------------------------------------------------------------
(* Texts and trees: the equations of Sql, Eval and Means.                  *)

SqlOf(n, l, r) ==
  IF n.k = "cmp" THEN <<n.a>>
  ELSE IF n.k = "or" THEN l \o <<"||">> \o r
  ELSE Wrapped(n.l, l) \o <<"&&">> \o Wrapped(n.r, r)

LEMMA AtomToken == ASSUME NEW n \in Cmps PROVE n.a \in Atoms /\ n.a \in Tokens
BY DEF Cmps, Tokens

LEMMA PlusTokens ==
  /\ \A x, y \in Seq(Tokens) : x \o y \in Seq(Tokens)
  /\ \A t \in Tokens : <<t>> \in Seq(Tokens)
  /\ \A t \in Signs : t \in Tokens
BY DEF Tokens

LEMMA WrappedTokens == ASSUME NEW n, NEW x \in Seq(Tokens) PROVE Wrapped(n, x) \in Seq(Tokens)
<1>1. Paren(x) \in Seq(Tokens)
  BY PlusTokens DEF Paren, Signs
<1> QED
  BY <1>1 DEF Wrapped

LEMMA NodeIs == ASSUME NEW n \in Node PROVE n.k = "cmp" => n \in Cmps
BY FilterAssumption, Leaf DEF Node

LEMMA SqlOfTokens ==
  ASSUME NEW n \in Node, NEW l \in Seq(Tokens), NEW r \in Seq(Tokens)
  PROVE  SqlOf(n, l, r) \in Seq(Tokens)
<1>1. CASE n.k = "cmp"
  BY <1>1, NodeIs, AtomToken, PlusTokens DEF SqlOf
<1>2. CASE n.k = "or"
  BY <1>2, PlusTokens DEF SqlOf, Signs
<1>3. CASE n.k # "cmp" /\ n.k # "or"
  BY <1>3, PlusTokens, WrappedTokens DEF SqlOf, Signs
<1> QED
  BY <1>1, <1>2, <1>3

LEMMA NodeInduction ==
  ASSUME NEW S \in SUBSET Node,
         \A n \in Node : (n.k # "cmp" => n.l \in S /\ n.r \in S) => n \in S
  PROVE  Node \subseteq S
<1> DEFINE R == {h \in Nat : \A n \in Node : Height(n) = h => n \in S}
<1>1. ASSUME NEW h \in Nat, \A g \in Nat : g < h => g \in R PROVE h \in R
  <2>1. ASSUME NEW n \in Node, Height(n) = h PROVE n \in S
    <3>1. ASSUME n.k # "cmp" PROVE n.l \in S /\ n.r \in S
      <4>1. /\ n.l \in Node /\ Height(n.l) \in Nat /\ Height(n.l) < h
            /\ n.r \in Node /\ Height(n.r) \in Nat /\ Height(n.r) < h
        BY <2>1, <3>1, Below, HeightIs
      <4> QED
        BY <1>1, <4>1
    <3> QED
      BY <3>1
  <2> QED
    BY <2>1
<1>2. R \in SUBSET Nat
  OBVIOUS
<1> HIDE DEF R
<1>3. \A h \in Nat : h \in R
  BY ONLY <1>1, <1>2, StrongInduction
<1> USE DEF R
<1> QED
  BY <1>3, HeightIs

SqlStep == [f \in [Node -> Seq(Tokens)] |-> [n \in Node |-> SqlOf(n, f[n.l], f[n.r])]]

LEMMA SqlIs == Sql \in [Node -> Seq(Tokens)] /\ \A n \in Node : Sql[n] = SqlOf(n, Sql[n.l], Sql[n.r])
<1> DEFINE rank == [n \in Node |-> Height(n)]
           T == Seq(Tokens)
<1>1. rank \in [Node -> Nat]
  BY HeightIs
<1>2. SqlStep \in [[Node -> T] -> [Node -> T]]
  <2>1. ASSUME NEW f \in [Node -> T], NEW n \in Node PROVE SqlOf(n, f[n.l], f[n.r]) \in T
    <3>1. CASE n.k = "cmp"
      BY <3>1, NodeIs, AtomToken, PlusTokens DEF SqlOf
    <3>2. CASE n.k # "cmp"
      <4>1. f[n.l] \in T /\ f[n.r] \in T
        BY <3>2, Below
      <4> QED
        BY <4>1, SqlOfTokens
    <3> QED
      BY <3>1, <3>2
  <2> QED
    BY <2>1 DEF SqlStep
<1>3. Descends(Node, T, rank, SqlStep)
  <2> SUFFICES ASSUME NEW f \in [Node -> T], NEW g \in [Node -> T], NEW n \in Node,
                      \A m \in Node : rank[m] < rank[n] => f[m] = g[m]
               PROVE  SqlStep[f][n] = SqlStep[g][n]
    BY DEF Descends
  <2>1. SqlStep[f][n] = SqlOf(n, f[n.l], f[n.r]) /\ SqlStep[g][n] = SqlOf(n, g[n.l], g[n.r])
    BY DEF SqlStep
  <2>2. CASE n.k = "cmp"
    BY <2>1, <2>2 DEF SqlOf
  <2>3. CASE n.k # "cmp"
    <3>1. f[n.l] = g[n.l] /\ f[n.r] = g[n.r]
      BY <2>3, Below
    <3> QED
      BY <2>1, <3>1
  <2> QED
    BY <2>2, <2>3
<1>4. T # {}
  <2>1. <<>> \in Seq(Tokens)
    OBVIOUS
  <2> QED
    BY <2>1
<1>5. Solved(Node, T, SqlStep)
  <2> HIDE DEF rank, T
  <2> QED
    BY ONLY <1>1, <1>2, <1>3, <1>4, Recursion
<1>6. PICK f \in [Node -> T] : f = SqlStep[f]
  BY <1>5 DEF Solved
<1>7. f = [n \in Node |-> SqlOf(n, f[n.l], f[n.r])]
  BY <1>6 DEF SqlStep
<1>8. Sql = CHOOSE s : s = [n \in Node |-> SqlOf(n, s[n.l], s[n.r])]
  BY Zenon DEF Sql, SqlOf
<1>9. Sql = [n \in Node |-> SqlOf(n, Sql[n.l], Sql[n.r])]
  <2> HIDE DEF T
  <2> QED
    BY <1>7, <1>8
<1> DEFINE S == {n \in Node : Sql[n] \in Seq(Tokens)}
<1>10. ASSUME NEW n \in Node, n.k # "cmp" => n.l \in S /\ n.r \in S PROVE n \in S
  <2>1. Sql[n] = SqlOf(n, Sql[n.l], Sql[n.r])
    BY <1>9
  <2>2. CASE n.k = "cmp"
    BY <2>1, <2>2, NodeIs, AtomToken, PlusTokens DEF SqlOf
  <2>3. CASE n.k # "cmp"
    BY <1>10, <2>1, <2>3, SqlOfTokens
  <2> QED
    BY <2>2, <2>3
<1>11. S \in SUBSET Node
  OBVIOUS
<1> HIDE DEF S
<1>12. Node \subseteq S
  BY ONLY <1>10, <1>11, NodeInduction
<1> USE DEF S
<1>13. \A n \in Node : Sql[n] \in Seq(Tokens)
  BY <1>12
<1>14. Sql \in [Node -> Seq(Tokens)]
  BY <1>9, <1>13
<1> QED
  BY <1>9, <1>14

EvalOf(n, p, q, atom) ==
  IF n.k = "cmp" THEN atom[n.a] = 2 ELSE IF n.k = "or" THEN p \/ q ELSE p /\ q

EvalStep(atom) == [f \in [Node -> BOOLEAN] |-> [n \in Node |-> EvalOf(n, f[n.l], f[n.r], atom)]]
Evaluation(atom) == CHOOSE e : e = [n \in Node |-> EvalOf(n, e[n.l], e[n.r], atom)]

LEMMA EvalOfIs == ASSUME NEW n, NEW p, NEW q, NEW atom PROVE EvalOf(n, p, q, atom) \in BOOLEAN
BY DEF EvalOf

LEMMA EvaluationIs ==
  ASSUME NEW atom
  PROVE  Evaluation(atom) = [n \in Node |-> EvalOf(n, Evaluation(atom)[n.l], Evaluation(atom)[n.r], atom)]
<1> DEFINE rank == [n \in Node |-> Height(n)]
           T == BOOLEAN
           step == EvalStep(atom)
<1>1. rank \in [Node -> Nat]
  BY HeightIs
<1>2. step \in [[Node -> T] -> [Node -> T]]
  <2>1. ASSUME NEW f \in [Node -> T], NEW n \in Node PROVE EvalOf(n, f[n.l], f[n.r], atom) \in T
    BY EvalOfIs
  <2> QED
    BY <2>1 DEF EvalStep
<1>3. Descends(Node, T, rank, step)
  <2> SUFFICES ASSUME NEW f \in [Node -> T], NEW g \in [Node -> T], NEW n \in Node,
                      \A m \in Node : rank[m] < rank[n] => f[m] = g[m]
               PROVE  step[f][n] = step[g][n]
    BY DEF Descends
  <2>1. step[f][n] = EvalOf(n, f[n.l], f[n.r], atom) /\ step[g][n] = EvalOf(n, g[n.l], g[n.r], atom)
    BY DEF EvalStep
  <2>2. CASE n.k = "cmp"
    BY <2>1, <2>2 DEF EvalOf
  <2>3. CASE n.k # "cmp"
    <3>1. f[n.l] = g[n.l] /\ f[n.r] = g[n.r]
      BY <2>3, Below
    <3> QED
      BY <2>1, <3>1
  <2> QED
    BY <2>2, <2>3
<1>4. T # {}
  OBVIOUS
<1>5. Solved(Node, T, step)
  <2> HIDE DEF rank, T, step
  <2> QED
    BY ONLY <1>1, <1>2, <1>3, <1>4, Recursion
<1>6. PICK f \in [Node -> T] : f = step[f]
  BY <1>5 DEF Solved
<1>7. f = [n \in Node |-> EvalOf(n, f[n.l], f[n.r], atom)]
  BY <1>6 DEF EvalStep
<1> QED
  BY <1>7 DEF Evaluation

LEMMA EvalIs ==
  ASSUME NEW atom, NEW n \in Node
  PROVE  /\ Eval(n, atom) \in BOOLEAN
         /\ n.k = "cmp" => (Eval(n, atom) <=> atom[n.a] = 2)
         /\ n.k = "or" => (Eval(n, atom) <=> Eval(n.l, atom) \/ Eval(n.r, atom))
         /\ n.k = "and" => (Eval(n, atom) <=> Eval(n.l, atom) /\ Eval(n.r, atom))
<1>1. ASSUME NEW m PROVE Eval(m, atom) = Evaluation(atom)[m]
  BY Zenon DEF Eval, EvalOf, Evaluation
<1>2. Eval(n, atom) = EvalOf(n, Eval(n.l, atom), Eval(n.r, atom), atom)
  BY <1>1, EvaluationIs
<1> QED
  BY <1>2, EvalOfIs DEF EvalOf

-----------------------------------------------------------------------------
(* Positions of a text: the last one of a set, and pieces.                 *)

LEMMA MaxIs ==
  ASSUME NEW k \in Nat, NEW S \in SUBSET (1 .. k), S # {}
  PROVE  Max(S) \in S /\ \A x \in S : x <= Max(S)
<1> DEFINE R == {k - x : x \in S}
<1>1. R \in SUBSET Nat /\ R # {}
  OBVIOUS
<1>2. PICK d \in R : \A e \in R : d <= e
  <2> HIDE DEF R
  <2> QED
    BY ONLY <1>1, LeastNat
<1>3. PICK m \in S : d = k - m
  BY <1>2
<1>4. \A x \in S : m >= x
  <2>1. ASSUME NEW x \in S PROVE m >= x
    <3>1. k - m <= k - x
      BY <1>2, <1>3
    <3> QED
      BY <3>1
  <2> QED
    BY <2>1
<1> HIDE DEF R
<1>5. \E y \in S : \A x \in S : y >= x
  BY <1>4
<1>6. Max(S) \in S /\ \A x \in S : Max(S) >= x
  BY <1>5 DEF Max
<1> QED
  BY <1>6

LEMMA TopsIn ==
  ASSUME NEW x \in Seq(Tokens), NEW t
  PROVE  Tops(x, t) \in SUBSET (1 .. Len(x)) /\ Len(x) \in Nat
BY DEF Tops

LEMMA LastTop ==
  ASSUME NEW x \in Seq(Tokens), NEW t, Tops(x, t) # {}
  PROVE  /\ Max(Tops(x, t)) \in Tops(x, t) /\ Max(Tops(x, t)) \in 1 .. Len(x)
         /\ \A j \in Tops(x, t) : j <= Max(Tops(x, t))
<1> HIDE DEF Tops
<1> QED
  BY TopsIn, MaxIs

LEMMA PieceIs ==
  ASSUME NEW x \in Seq(Tokens), NEW a \in Nat, NEW b \in Int, a >= 1, b <= Len(x), a <= b + 1
  PROVE  /\ SubSeq(x, a, b) \in Seq(Tokens)
         /\ Len(SubSeq(x, a, b)) = (b + 1) - a
         /\ \A i \in 1 .. (b + 1) - a : SubSeq(x, a, b)[i] = x[(a + i) - 1]
<1>1. CASE a <= b
  <2>1. b - a + 1 = (b + 1) - a
    OBVIOUS
  <2> QED
    BY <1>1, <2>1
<1>2. CASE a = b + 1
  <2>1. SubSeq(x, a, b) = <<>> 
    BY <1>2
  <2> QED
    BY <1>2, <2>1
<1> QED
  BY <1>1, <1>2

LEMMA TextInduction ==
  ASSUME NEW S \in SUBSET Seq(Tokens),
         \A x \in Seq(Tokens) : (\A y \in Seq(Tokens) : Len(y) < Len(x) => y \in S) => x \in S
  PROVE  \A x \in Seq(Tokens) : x \in S
<1> DEFINE R == {k \in Nat : \A x \in Seq(Tokens) : Len(x) = k => x \in S}
<1>1. ASSUME NEW k \in Nat, \A j \in Nat : j < k => j \in R PROVE k \in R
  <2>1. ASSUME NEW x \in Seq(Tokens), Len(x) = k PROVE x \in S
    <3>1. ASSUME NEW y \in Seq(Tokens), Len(y) < k PROVE y \in S
      <4>1. Len(y) \in Nat
        OBVIOUS
      <4> QED
        BY <1>1, <3>1, <4>1
    <3> QED
      BY <2>1, <3>1
  <2> QED
    BY <2>1
<1>2. R \in SUBSET Nat
  OBVIOUS
<1> HIDE DEF R
<1>3. \A k \in Nat : k \in R
  BY ONLY <1>1, <1>2, StrongInduction
<1> USE DEF R
<1>4. \A x \in Seq(Tokens) : Len(x) \in Nat
  OBVIOUS
<1> QED
  BY <1>3, <1>4

-----------------------------------------------------------------------------
(* The meaning of a text. *)

LEMMA HalvesAre ==
  ASSUME NEW x \in Seq(Tokens), NEW i \in 1 .. Len(x)
  PROVE  /\ Before(x, i) \in Seq(Tokens) /\ Len(Before(x, i)) = i - 1
         /\ \A j \in 1 .. i - 1 : Before(x, i)[j] = x[j]
         /\ After(x, i) \in Seq(Tokens) /\ Len(After(x, i)) = Len(x) - i
         /\ \A j \in 1 .. Len(x) - i : After(x, i)[j] = x[i + j]
<1>1. Len(x) \in Nat /\ i \in Nat /\ i >= 1 /\ i <= Len(x)
  OBVIOUS
<1>2. /\ Before(x, i) \in Seq(Tokens) /\ Len(Before(x, i)) = ((i - 1) + 1) - 1
      /\ \A j \in 1 .. ((i - 1) + 1) - 1 : Before(x, i)[j] = x[(1 + j) - 1]
  <2>1. 1 \in Nat /\ i - 1 \in Int /\ 1 >= 1 /\ i - 1 <= Len(x) /\ 1 <= (i - 1) + 1
    BY <1>1
  <2> QED
    BY <2>1, PieceIs DEF Before
<1>3. /\ After(x, i) \in Seq(Tokens) /\ Len(After(x, i)) = (Len(x) + 1) - (i + 1)
      /\ \A j \in 1 .. (Len(x) + 1) - (i + 1) : After(x, i)[j] = x[((i + 1) + j) - 1]
  <2>1. i + 1 \in Nat /\ Len(x) \in Int /\ i + 1 >= 1 /\ Len(x) <= Len(x) /\ i + 1 <= Len(x) + 1
    BY <1>1
  <2> QED
    BY <2>1, PieceIs DEF After
<1>4. /\ ((i - 1) + 1) - 1 = i - 1 /\ (Len(x) + 1) - (i + 1) = Len(x) - i
      /\ \A j \in 1 .. i - 1 : (1 + j) - 1 = j
      /\ \A j \in 1 .. Len(x) - i : ((i + 1) + j) - 1 = i + j
  BY <1>1
<1> QED
  BY <1>2, <1>3, <1>4

LEMMA InnerIs ==
  ASSUME NEW x \in Seq(Tokens), Len(x) > 2
  PROVE  /\ SubSeq(x, 2, Len(x) - 1) \in Seq(Tokens)
         /\ Len(SubSeq(x, 2, Len(x) - 1)) = Len(x) - 2
         /\ \A j \in 1 .. Len(x) - 2 : SubSeq(x, 2, Len(x) - 1)[j] = x[1 + j]
<1>1. /\ 2 \in Nat /\ Len(x) \in Nat /\ Len(x) - 1 \in Int /\ 2 >= 1 /\ Len(x) - 1 <= Len(x)
      /\ 2 <= (Len(x) - 1) + 1
  OBVIOUS
<1>2. /\ SubSeq(x, 2, Len(x) - 1) \in Seq(Tokens)
      /\ Len(SubSeq(x, 2, Len(x) - 1)) = ((Len(x) - 1) + 1) - 2
      /\ \A j \in 1 .. ((Len(x) - 1) + 1) - 2 : SubSeq(x, 2, Len(x) - 1)[j] = x[(2 + j) - 1]
  BY <1>1, PieceIs
<1>3. ((Len(x) - 1) + 1) - 2 = Len(x) - 2 /\ \A j \in 1 .. Len(x) - 2 : (2 + j) - 1 = 1 + j
  BY <1>1
<1> QED
  BY <1>2, <1>3

Worths == -1 .. 2

LEMMA EitherBoth ==
  ASSUME NEW u \in Worths, NEW v \in Worths
  PROVE  /\ Either(u, v) \in Worths /\ Both(u, v) \in Worths
         /\ u # -1 /\ v # -1 => Either(u, v) # -1 /\ Both(u, v) # -1
         /\ Either(u, v) # -1 => u # -1 /\ v # -1
         /\ Both(u, v) # -1 => u # -1 /\ v # -1
         /\ u # -1 /\ v # -1 => (Either(u, v) = 2 <=> u = 2 \/ v = 2)
         /\ u # -1 /\ v # -1 => (Both(u, v) = 2 <=> u = 2 /\ v = 2)
BY DEF Either, Both, Worths

LEMMA Associative ==
  ASSUME NEW u \in Worths, NEW v \in Worths, NEW w \in Worths
  PROVE  /\ Either(u, Either(v, w)) = Either(Either(u, v), w)
         /\ Both(u, Both(v, w)) = Both(Both(u, v), w)
BY DEF Either, Both, Worths

IsMeaning(m, atom) == m = [x \in Seq(Tokens) |-> Meaning(x, m, atom)]

\* A meaning looks at shorter texts only, and is one of four.
LEMMA MeaningLooks ==
  ASSUME NEW atom \in Assignments, NEW x \in Seq(Tokens), NEW m, NEW n,
         \A y \in Seq(Tokens) : Len(y) < Len(x) => m[y] \in Worths /\ m[y] = n[y]
  PROVE  Meaning(x, m, atom) \in Worths /\ Meaning(x, m, atom) = Meaning(x, n, atom)
<1>1. ASSUME NEW i \in 1 .. Len(x)
      PROVE  /\ m[Before(x, i)] \in Worths /\ m[Before(x, i)] = n[Before(x, i)]
             /\ m[After(x, i)] \in Worths /\ m[After(x, i)] = n[After(x, i)]
  BY HalvesAre
<1>2. CASE Tops(x, "||") # {}
  <2> DEFINE i == Max(Tops(x, "||"))
  <2>1. i \in 1 .. Len(x)
    BY <1>2, LastTop
  <2>2. /\ Meaning(x, m, atom) = Either(m[Before(x, i)], m[After(x, i)])
        /\ Meaning(x, n, atom) = Either(n[Before(x, i)], n[After(x, i)])
    BY <1>2 DEF Meaning
  <2> HIDE DEF i
  <2> QED
    BY <1>1, <2>1, <2>2, EitherBoth
<1>3. CASE Tops(x, "||") = {} /\ Tops(x, "&&") # {}
  <2> DEFINE i == Max(Tops(x, "&&"))
  <2>1. i \in 1 .. Len(x)
    BY <1>3, LastTop
  <2>2. /\ Meaning(x, m, atom) = Both(m[Before(x, i)], m[After(x, i)])
        /\ Meaning(x, n, atom) = Both(n[Before(x, i)], n[After(x, i)])
    BY <1>3 DEF Meaning
  <2> HIDE DEF i
  <2> QED
    BY <1>1, <2>1, <2>2, EitherBoth
<1>4. CASE Tops(x, "||") = {} /\ Tops(x, "&&") = {}
  <2>1. CASE Len(x) = 1 /\ x[1] \in DOMAIN atom
    BY <1>4, <2>1 DEF Meaning, Assignments, Worths
  <2>2. CASE ~ (Len(x) = 1 /\ x[1] \in DOMAIN atom) /\ Len(x) > 2 /\ x[1] = "(" /\ x[Len(x)] = ")"
    <3>1. m[SubSeq(x, 2, Len(x) - 1)] \in Worths /\ m[SubSeq(x, 2, Len(x) - 1)] = n[SubSeq(x, 2, Len(x) - 1)]
      <4> DEFINE y == SubSeq(x, 2, Len(x) - 1)
      <4>1. y \in Seq(Tokens) /\ Len(y) = Len(x) - 2 /\ Len(x) \in Nat
        BY <2>2, InnerIs
      <4> HIDE DEF y
      <4>2. Len(y) < Len(x)
        BY <4>1
      <4>3. m[y] \in Worths /\ m[y] = n[y]
        BY <4>1, <4>2
      <4> QED
        BY <4>3 DEF y
    <3> QED
      BY <1>4, <2>2, <3>1 DEF Meaning
  <2>3. CASE ~ (Len(x) = 1 /\ x[1] \in DOMAIN atom) /\ ~ (Len(x) > 2 /\ x[1] = "(" /\ x[Len(x)] = ")")
    <3>1. -1 \in Worths
      BY DEF Worths
    <3> QED
      BY <1>4, <2>3, <3>1 DEF Meaning
  <2> QED
    BY <2>1, <2>2, <2>3
<1> QED
  BY <1>2, <1>3, <1>4

MeaningStep(atom) == [m \in [Seq(Tokens) -> Worths] |-> [x \in Seq(Tokens) |-> Meaning(x, m, atom)]]
Chosen(atom) == CHOOSE m : IsMeaning(m, atom)

LEMMA ChosenIs == ASSUME NEW atom \in Assignments PROVE IsMeaning(Chosen(atom), atom)
<1> DEFINE D == Seq(Tokens)
           T == Worths
           rank == [x \in D |-> Len(x)]
           step == MeaningStep(atom)
<1>1. rank \in [D -> Nat]
  OBVIOUS
<1>2. step \in [[D -> T] -> [D -> T]]
  <2>1. ASSUME NEW m \in [D -> T], NEW x \in D PROVE Meaning(x, m, atom) \in T
    <3>1. \A y \in D : m[y] \in T /\ m[y] = m[y]
      OBVIOUS
    <3> QED
      BY <3>1, MeaningLooks
  <2> QED
    BY <2>1 DEF MeaningStep
<1>3. Descends(D, T, rank, step)
  <2> SUFFICES ASSUME NEW f \in [D -> T], NEW g \in [D -> T], NEW x \in D,
                      \A y \in D : rank[y] < rank[x] => f[y] = g[y]
               PROVE  step[f][x] = step[g][x]
    BY DEF Descends
  <2>1. step[f][x] = Meaning(x, f, atom) /\ step[g][x] = Meaning(x, g, atom)
    BY DEF MeaningStep
  <2>2. \A y \in D : Len(y) < Len(x) => f[y] \in T /\ f[y] = g[y]
    OBVIOUS
  <2>3. Meaning(x, f, atom) = Meaning(x, g, atom)
    BY <2>2, MeaningLooks
  <2> QED
    BY <2>1, <2>3
<1>4. T # {}
  BY DEF Worths
<1>5. Solved(D, T, step)
  <2> HIDE DEF rank, D, T, step
  <2> QED
    BY ONLY <1>1, <1>2, <1>3, <1>4, Recursion
<1>6. PICK m \in [D -> T] : m = step[m]
  BY <1>5 DEF Solved
<1>7. IsMeaning(m, atom)
  BY <1>6 DEF MeaningStep, IsMeaning
<1> QED
  BY <1>7 DEF Chosen

LEMMA MeansIs ==
  ASSUME NEW atom \in Assignments, NEW x \in Seq(Tokens)
  PROVE  Means(x, atom) = Chosen(atom)[x] /\ Chosen(atom)[x] = Meaning(x, Chosen(atom), atom)
<1>1. Means(x, atom) = Chosen(atom)[x]
  BY Zenon DEF Means, Chosen, IsMeaning
<1>2. Chosen(atom) = [y \in Seq(Tokens) |-> Meaning(y, Chosen(atom), atom)]
  BY ChosenIs DEF IsMeaning
<1> QED
  BY <1>1, <1>2

LEMMA ChosenWorths ==
  ASSUME NEW atom \in Assignments
  PROVE  \A x \in Seq(Tokens) : Chosen(atom)[x] \in Worths
<1> DEFINE m == Chosen(atom)
           S == {x \in Seq(Tokens) : m[x] \in Worths}
<1>1. ASSUME NEW x \in Seq(Tokens), \A y \in Seq(Tokens) : Len(y) < Len(x) => y \in S PROVE x \in S
  <2>1. \A y \in Seq(Tokens) : Len(y) < Len(x) => m[y] \in Worths /\ m[y] = m[y]
    BY <1>1
  <2>2. m[x] = Meaning(x, m, atom)
    BY MeansIs
  <2> HIDE DEF m
  <2>3. Meaning(x, m, atom) \in Worths
    BY <2>1, MeaningLooks
  <2> QED
    BY <2>2, <2>3
<1>2. S \in SUBSET Seq(Tokens)
  OBVIOUS
<1> HIDE DEF S
<1>3. \A x \in Seq(Tokens) : x \in S
  BY ONLY <1>1, <1>2, TextInduction
<1> USE DEF S
<1> QED
  BY <1>3

\* The five cases of Means, as a reader of the module takes them.
LEMMA MeansWorths ==
  ASSUME NEW atom \in Assignments, NEW x \in Seq(Tokens)
  PROVE  Means(x, atom) \in Worths
BY MeansIs, ChosenWorths

LEMMA MeansEither ==
  ASSUME NEW atom \in Assignments, NEW x \in Seq(Tokens), Tops(x, "||") # {}
  PROVE  Means(x, atom) = Either(Means(Before(x, Max(Tops(x, "||"))), atom),
                                 Means(After(x, Max(Tops(x, "||"))), atom))
<1> DEFINE i == Max(Tops(x, "||"))
<1>1. i \in 1 .. Len(x)
  BY LastTop
<1>2. Meaning(x, Chosen(atom), atom) = Either(Chosen(atom)[Before(x, i)], Chosen(atom)[After(x, i)])
  BY DEF Meaning
<1> HIDE DEF i
<1>3. Before(x, i) \in Seq(Tokens) /\ After(x, i) \in Seq(Tokens)
  BY <1>1, HalvesAre
<1>4. Means(x, atom) = Either(Means(Before(x, i), atom), Means(After(x, i), atom))
  BY <1>2, <1>3, MeansIs
<1> QED
  BY <1>4 DEF i

LEMMA MeansBoth ==
  ASSUME NEW atom \in Assignments, NEW x \in Seq(Tokens), Tops(x, "||") = {}, Tops(x, "&&") # {}
  PROVE  Means(x, atom) = Both(Means(Before(x, Max(Tops(x, "&&"))), atom),
                               Means(After(x, Max(Tops(x, "&&"))), atom))
<1> DEFINE i == Max(Tops(x, "&&"))
<1>1. i \in 1 .. Len(x)
  BY LastTop
<1>2. Meaning(x, Chosen(atom), atom) = Both(Chosen(atom)[Before(x, i)], Chosen(atom)[After(x, i)])
  BY DEF Meaning
<1> HIDE DEF i
<1>3. Before(x, i) \in Seq(Tokens) /\ After(x, i) \in Seq(Tokens)
  BY <1>1, HalvesAre
<1>4. Means(x, atom) = Both(Means(Before(x, i), atom), Means(After(x, i), atom))
  BY <1>2, <1>3, MeansIs
<1> QED
  BY <1>4 DEF i

LEMMA MeansOne ==
  ASSUME NEW atom \in Assignments, NEW x \in Seq(Tokens), Tops(x, "||") = {}, Tops(x, "&&") = {}
  PROVE  /\ Len(x) = 1 /\ x[1] \in Atoms \cup {Row} => Means(x, atom) = atom[x[1]]
         /\ Len(x) > 2 /\ x[1] = "(" /\ x[Len(x)] = ")"
              => Means(x, atom) = Means(SubSeq(x, 2, Len(x) - 1), atom)
         /\ Means(x, atom) = -1 \/ (Len(x) = 1 /\ x[1] \in Atoms \cup {Row})
              \/ (Len(x) > 2 /\ x[1] = "(" /\ x[Len(x)] = ")")
<1>1. DOMAIN atom = Atoms \cup {Row}
  BY DEF Assignments
<1>2. Means(x, atom) = Meaning(x, Chosen(atom), atom)
  BY MeansIs
<1>3. ASSUME Len(x) > 2
      PROVE  Chosen(atom)[SubSeq(x, 2, Len(x) - 1)] = Means(SubSeq(x, 2, Len(x) - 1), atom)
  <2>1. SubSeq(x, 2, Len(x) - 1) \in Seq(Tokens)
    BY <1>3, InnerIs
  <2> QED
    BY <2>1, MeansIs
<1>4. CASE Len(x) = 1 /\ x[1] \in Atoms \cup {Row}
  BY <1>1, <1>2, <1>4 DEF Meaning
<1>5. CASE ~ (Len(x) = 1 /\ x[1] \in Atoms \cup {Row}) /\ Len(x) > 2 /\ x[1] = "(" /\ x[Len(x)] = ")"
  BY <1>1, <1>2, <1>3, <1>5 DEF Meaning
<1>6. CASE ~ (Len(x) = 1 /\ x[1] \in Atoms \cup {Row}) /\ ~ (Len(x) > 2 /\ x[1] = "(" /\ x[Len(x)] = ")")
  BY <1>1, <1>2, <1>6 DEF Meaning
<1> QED
  BY <1>4, <1>5, <1>6

-----------------------------------------------------------------------------
(* Parentheses. *)

Count(x, i, t) == Cardinality({j \in 1 .. i : x[j] = t})

LEMMA CountStep ==
  ASSUME NEW x, NEW i \in Nat, NEW t
  PROVE  /\ Count(x, i, t) \in Nat
         /\ x[i + 1] = t => Count(x, i + 1, t) = Count(x, i, t) + 1
         /\ x[i + 1] # t => Count(x, i + 1, t) = Count(x, i, t)
<1> DEFINE S == {j \in 1 .. i : x[j] = t}
<1>1. IsFiniteSet(S)
  <2>1. IsFiniteSet(1 .. i)
    BY FS_Interval
  <2> QED
    BY <2>1, FS_Subset
<1>2. Cardinality(S) \in Nat
  BY <1>1, FS_CardinalityType
<1>3. i + 1 \notin S
  OBVIOUS
<1>4. CASE x[i + 1] = t
  <2>1. {j \in 1 .. i + 1 : x[j] = t} = S \cup {i + 1}
    BY <1>4
  <2> HIDE DEF S
  <2>2. Cardinality(S \cup {i + 1}) = Cardinality(S) + 1
    BY <1>1, <1>3, FS_AddElement
  <2> QED
    BY <1>2, <1>4, <2>1, <2>2 DEF Count, S
<1>5. CASE x[i + 1] # t
  <2>1. {j \in 1 .. i + 1 : x[j] = t} = S
    BY <1>5
  <2> QED
    BY <1>2, <1>5, <2>1 DEF Count
<1> QED
  BY <1>4, <1>5

LEMMA NestedCounts == ASSUME NEW x, NEW i PROVE Nested(x, i) = Count(x, i, "(") - Count(x, i, ")")
BY DEF Nested, Count

LEMMA NestedFirst == ASSUME NEW x PROVE Nested(x, 0) = 0
<1>1. \A t : {j \in 1 .. 0 : x[j] = t} = {}
  OBVIOUS
<1>2. Cardinality({}) = 0
  BY FS_EmptySet
<1> QED
  BY <1>1, <1>2 DEF Nested

LEMMA NestedStep ==
  ASSUME NEW x, NEW i \in Nat
  PROVE  /\ Nested(x, i) \in Int
         /\ x[i + 1] = "(" => Nested(x, i + 1) = Nested(x, i) + 1
         /\ x[i + 1] = ")" => Nested(x, i + 1) = Nested(x, i) - 1
         /\ x[i + 1] \notin {"(", ")"} => Nested(x, i + 1) = Nested(x, i)
<1> DEFINE a == Count(x, i, "(")  b == Count(x, i, ")")
           a2 == Count(x, i + 1, "(")  b2 == Count(x, i + 1, ")")
<1>1. i + 1 \in Nat
  OBVIOUS
<1>2. Nested(x, i) = a - b /\ Nested(x, i + 1) = a2 - b2
  BY NestedCounts
<1>3. a \in Nat /\ (x[i + 1] = "(" => a2 = a + 1) /\ (x[i + 1] # "(" => a2 = a)
  BY CountStep
<1>4. b \in Nat /\ (x[i + 1] = ")" => b2 = b + 1) /\ (x[i + 1] # ")" => b2 = b)
  BY CountStep
<1> HIDE DEF a, b, a2, b2
<1> QED
  BY <1>2, <1>3, <1>4

\* y is what stands in x behind a.
Piece(y, x, a, n) == \A i \in 1 .. n : y[i] = x[a + i]

LEMMA NestedPiece ==
  ASSUME NEW x, NEW y, NEW a \in Nat, NEW n \in Nat, Piece(y, x, a, n)
  PROVE  \A k \in 0 .. n : Nested(x, a + k) = Nested(x, a) + Nested(y, k)
<1> DEFINE S == {k \in Nat : k <= n => Nested(x, a + k) = Nested(x, a) + Nested(y, k)}
<1>1. 0 \in S
  <2>1. Nested(x, a) \in Int /\ a + 0 = a
    BY NestedStep
  <2> QED
    BY <2>1, NestedFirst
<1>2. ASSUME NEW k \in S PROVE k + 1 \in S
  <2>1. k \in Nat /\ a + k \in Nat /\ a + (k + 1) = (a + k) + 1
    OBVIOUS
  <2>2. ASSUME k + 1 <= n PROVE Nested(x, a + (k + 1)) = Nested(x, a) + Nested(y, k + 1)
    <3>1. Nested(x, a + k) = Nested(x, a) + Nested(y, k)
      BY <2>1, <2>2
    <3>2. k + 1 \in 1 .. n
      BY <2>1, <2>2
    <3>3. y[k + 1] = x[(a + k) + 1]
      BY <2>1, <3>2 DEF Piece
    <3>4. Nested(x, a) \in Int /\ Nested(y, k) \in Int
      BY <2>1, NestedStep
    <3> DEFINE t == y[k + 1]
    <3>5. CASE t = "("
      <4>1. Nested(x, (a + k) + 1) = Nested(x, a + k) + 1 /\ Nested(y, k + 1) = Nested(y, k) + 1
        BY <2>1, <3>3, <3>5, NestedStep
      <4> QED
        BY ONLY <2>1, <3>1, <3>4, <4>1
    <3>6. CASE t = ")"
      <4>1. Nested(x, (a + k) + 1) = Nested(x, a + k) - 1 /\ Nested(y, k + 1) = Nested(y, k) - 1
        BY <2>1, <3>3, <3>6, NestedStep
      <4> QED
        BY ONLY <2>1, <3>1, <3>4, <4>1
    <3>7. CASE t \notin {"(", ")"}
      <4>1. Nested(x, (a + k) + 1) = Nested(x, a + k) /\ Nested(y, k + 1) = Nested(y, k)
        BY <2>1, <3>3, <3>7, NestedStep
      <4> QED
        BY ONLY <2>1, <3>1, <3>4, <4>1
    <3> QED
      BY <3>5, <3>6, <3>7
  <2> QED
    BY <2>1, <2>2
<1>3. S \in SUBSET Nat
  OBVIOUS
<1> HIDE DEF S
<1>4. \A k \in Nat : k \in S
  BY ONLY <1>1, <1>2, <1>3, SetInduction
<1> USE DEF S
<1> QED
  BY <1>4

LEMMA NestedPrefix ==
  ASSUME NEW x, NEW y, NEW n \in Nat, \A i \in 1 .. n : y[i] = x[i]
  PROVE  \A k \in 0 .. n : Nested(y, k) = Nested(x, k)
<1>1. Piece(y, x, 0, n)
  <2>1. \A i \in 1 .. n : 0 + i = i
    OBVIOUS
  <2> QED
    BY <2>1 DEF Piece
<1>2. ASSUME NEW k \in 0 .. n PROVE Nested(y, k) = Nested(x, k)
  <2>1. Nested(x, 0 + k) = Nested(x, 0) + Nested(y, k)
    BY <1>1, NestedPiece
  <2>2. 0 + k = k /\ k \in Nat
    OBVIOUS
  <2>3. Nested(y, k) \in Int
    BY <2>2, NestedStep
  <2> QED
    BY <2>1, <2>2, <2>3, NestedFirst
<1> QED
  BY <1>2

-----------------------------------------------------------------------------
(* A text split at a connective outside parentheses. *)

LEMMA NestedHalves ==
  ASSUME NEW x \in Seq(Tokens), NEW i \in 1 .. Len(x), Nested(x, i) = 0
  PROVE  /\ \A k \in 0 .. i - 1 : Nested(Before(x, i), k) = Nested(x, k)
         /\ \A k \in 0 .. Len(x) - i : Nested(After(x, i), k) = Nested(x, i + k)
<1>1. Len(x) \in Nat /\ i \in Nat /\ i - 1 \in Nat /\ Len(x) - i \in Nat
  OBVIOUS
<1>2. \A k \in 0 .. i - 1 : Nested(Before(x, i), k) = Nested(x, k)
  BY ZenonT(40), <1>1, HalvesAre, NestedPrefix
<1>3. Piece(After(x, i), x, i, Len(x) - i)
  BY HalvesAre DEF Piece
<1>4. ASSUME NEW k \in 0 .. Len(x) - i PROVE Nested(After(x, i), k) = Nested(x, i + k)
  <2>1. Nested(x, i + k) = Nested(x, i) + Nested(After(x, i), k)
    BY <1>1, <1>3, NestedPiece
  <2>2. k \in Nat
    BY <1>1
  <2>3. Nested(After(x, i), k) \in Int
    BY <2>2, NestedStep
  <2> QED
    BY <2>1, <2>3
<1> QED
  BY <1>2, <1>4

LEMMA TopsBefore ==
  ASSUME NEW x \in Seq(Tokens), NEW i \in 1 .. Len(x), Nested(x, i) = 0, NEW t, NEW j
  PROVE  j \in Tops(Before(x, i), t) <=> j \in Tops(x, t) /\ j < i
<1>1. Len(x) \in Nat /\ i \in Nat
  OBVIOUS
<1>2. DOMAIN Before(x, i) = 1 .. i - 1 /\ DOMAIN x = 1 .. Len(x)
  BY HalvesAre
<1>3. \A k \in 1 .. i - 1 : k \in 1 .. Len(x) /\ k < i
  BY <1>1
<1>4. \A k \in 1 .. Len(x) : k < i => k \in 1 .. i - 1
  BY <1>1
<1>5. \A k \in 1 .. i - 1 : Before(x, i)[k] = x[k] /\ Nested(Before(x, i), k) = Nested(x, k)
  BY SMTT(40), <1>1, HalvesAre, NestedHalves
<1> QED
  BY <1>2, <1>3, <1>4, <1>5 DEF Tops

LEMMA TopsAfter ==
  ASSUME NEW x \in Seq(Tokens), NEW i \in 1 .. Len(x), Nested(x, i) = 0, NEW t, NEW j
  PROVE  j \in Tops(After(x, i), t) <=> j \in 1 .. Len(x) - i /\ i + j \in Tops(x, t)
<1>1. Len(x) \in Nat /\ i \in Nat
  OBVIOUS
<1>2. DOMAIN After(x, i) = 1 .. Len(x) - i /\ DOMAIN x = 1 .. Len(x)
  BY HalvesAre
<1>3. \A k \in 1 .. Len(x) - i : i + k \in 1 .. Len(x)
  BY <1>1
<1>4. \A k \in 1 .. Len(x) - i : After(x, i)[k] = x[i + k] /\ Nested(After(x, i), k) = Nested(x, i + k)
  <2>1. \A k \in 1 .. Len(x) - i : After(x, i)[k] = x[i + k]
    BY HalvesAre
  <2>2. \A k \in 0 .. Len(x) - i : Nested(After(x, i), k) = Nested(x, i + k)
    BY NestedHalves
  <2>3. \A k \in 1 .. Len(x) - i : k \in 0 .. Len(x) - i
    BY <1>1
  <2> QED
    BY <2>1, <2>2, <2>3
<1> QED
  BY <1>2, <1>3, <1>4 DEF Tops

LEMMA SameText ==
  ASSUME NEW x \in Seq(Tokens), NEW y \in Seq(Tokens), Len(x) = Len(y),
         \A i \in 1 .. Len(x) : x[i] = y[i]
  PROVE  x = y
OBVIOUS

LEMMA TwoCuts ==
  ASSUME NEW x \in Seq(Tokens), NEW i \in 1 .. Len(x), NEW j \in 1 .. Len(x), i < j
  PROVE  /\ i \in 1 .. Len(Before(x, j)) /\ j - i \in 1 .. Len(After(x, i))
         /\ Before(Before(x, j), i) = Before(x, i)
         /\ After(Before(x, j), i) = Before(After(x, i), j - i)
         /\ After(After(x, i), j - i) = After(x, j)
<1> DEFINE n == Len(x)
           b == Before(x, j)
           a == After(x, i)
           d == j - i
<1>1. n \in Nat /\ i \in Nat /\ j \in Nat /\ i >= 1 /\ j <= n /\ d \in Nat /\ d >= 1 /\ i + d = j
  OBVIOUS
<1>2. /\ b \in Seq(Tokens) /\ Len(b) = j - 1 /\ \A k \in 1 .. j - 1 : b[k] = x[k]
      /\ After(x, j) \in Seq(Tokens) /\ Len(After(x, j)) = n - j
      /\ \A k \in 1 .. n - j : After(x, j)[k] = x[j + k]
  BY HalvesAre
<1>3. /\ a \in Seq(Tokens) /\ Len(a) = n - i /\ \A k \in 1 .. n - i : a[k] = x[i + k]
      /\ Before(x, i) \in Seq(Tokens) /\ Len(Before(x, i)) = i - 1
      /\ \A k \in 1 .. i - 1 : Before(x, i)[k] = x[k]
  BY HalvesAre
<1>4. i \in 1 .. Len(b) /\ d \in 1 .. Len(a)
  BY <1>1, <1>2, <1>3
<1> HIDE DEF n, b, a, d
<1>5. /\ Before(b, i) \in Seq(Tokens) /\ Len(Before(b, i)) = i - 1
      /\ \A k \in 1 .. i - 1 : Before(b, i)[k] = b[k]
      /\ After(b, i) \in Seq(Tokens) /\ Len(After(b, i)) = Len(b) - i
      /\ \A k \in 1 .. Len(b) - i : After(b, i)[k] = b[i + k]
  BY <1>2, <1>4, HalvesAre
<1>6. /\ Before(a, d) \in Seq(Tokens) /\ Len(Before(a, d)) = d - 1
      /\ \A k \in 1 .. d - 1 : Before(a, d)[k] = a[k]
      /\ After(a, d) \in Seq(Tokens) /\ Len(After(a, d)) = Len(a) - d
      /\ \A k \in 1 .. Len(a) - d : After(a, d)[k] = a[d + k]
  BY <1>3, <1>4, HalvesAre
<1>7. Before(b, i) = Before(x, i)
  <2>1. ASSUME NEW k \in 1 .. i - 1 PROVE Before(b, i)[k] = Before(x, i)[k]
    <3>1. k \in 1 .. j - 1
      BY <1>1
    <3> QED
      BY <1>2, <1>3, <1>5, <3>1
  <2> QED
    BY <1>3, <1>5, <2>1, SameText
<1>8. After(b, i) = Before(a, d)
  <2>1. Len(b) - i = d - 1
    BY ONLY <1>1, <1>2
  <2>2. ASSUME NEW k \in 1 .. d - 1 PROVE After(b, i)[k] = Before(a, d)[k]
    <3>1. i + k \in 1 .. j - 1 /\ k \in 1 .. n - i
      BY ONLY <1>1, <2>2
    <3>2. After(b, i)[k] = b[i + k] /\ Before(a, d)[k] = a[k]
      BY <1>5, <1>6, <2>1
    <3>3. b[i + k] = x[i + k] /\ a[k] = x[i + k]
      BY <1>2, <1>3, <3>1
    <3> QED
      BY <3>2, <3>3
  <2> QED
    BY <1>5, <1>6, <2>1, <2>2, SameText
<1>9. After(a, d) = After(x, j)
  <2>1. Len(a) - d = n - j
    BY ONLY <1>1, <1>3
  <2>2. ASSUME NEW k \in 1 .. n - j PROVE After(a, d)[k] = After(x, j)[k]
    <3>1. d + k \in 1 .. n - i /\ i + (d + k) = j + k
      BY ONLY <1>1, <2>2
    <3>2. After(a, d)[k] = a[d + k] /\ After(x, j)[k] = x[j + k]
      BY <1>2, <1>6, <2>1
    <3>3. a[d + k] = x[i + (d + k)]
      BY <1>3, <3>1
    <3> QED
      BY <3>1, <3>2, <3>3
  <2> QED
    BY <1>2, <1>6, <2>1, <2>2, SameText
<1> QED
  BY <1>4, <1>7, <1>8, <1>9 DEF a, b, d

LEMMA TopIs ==
  ASSUME NEW x \in Seq(Tokens), NEW t, NEW i \in Tops(x, t)
  PROVE  i \in 1 .. Len(x) /\ x[i] = t /\ Nested(x, i) = 0
BY DEF Tops

\* The connective a text is split at.
Loosest(x, t) == t = "||" \/ (t = "&&" /\ Tops(x, "||") = {})
Joined(t, u, v) == IF t = "||" THEN Either(u, v) ELSE Both(u, v)

LEMMA MeansJoined ==
  ASSUME NEW atom \in Assignments, NEW x \in Seq(Tokens), NEW t, Loosest(x, t), Tops(x, t) # {}
  PROVE  Means(x, atom) = Joined(t, Means(Before(x, Max(Tops(x, t))), atom),
                                    Means(After(x, Max(Tops(x, t))), atom))
<1>1. CASE t = "||"
  BY <1>1, MeansEither DEF Joined
<1>2. CASE t = "&&" /\ Tops(x, "||") = {}
  BY <1>2, MeansBoth DEF Joined
<1> QED
  BY <1>1, <1>2 DEF Loosest

LEMMA LoosestHalves ==
  ASSUME NEW x \in Seq(Tokens), NEW t, Loosest(x, t), NEW i \in 1 .. Len(x), Nested(x, i) = 0
  PROVE  Loosest(Before(x, i), t) /\ Loosest(After(x, i), t)
<1>1. CASE t = "||"
  BY <1>1 DEF Loosest
<1>2. CASE t = "&&" /\ Tops(x, "||") = {}
  <2>1. \A j : j \notin Tops(Before(x, i), "||") /\ j \notin Tops(After(x, i), "||")
    BY <1>2, TopsBefore, TopsAfter
  <2>2. Tops(Before(x, i), "||") = {} /\ Tops(After(x, i), "||") = {}
    BY <2>1
  <2> QED
    BY <1>2, <2>2 DEF Loosest
<1> QED
  BY <1>1, <1>2 DEF Loosest

LEMMA JoinedAssociative ==
  ASSUME NEW t, NEW u \in Worths, NEW v \in Worths, NEW w \in Worths
  PROVE  Joined(t, u, Joined(t, v, w)) = Joined(t, Joined(t, u, v), w)
BY Associative DEF Joined

\* Any loosest connective outside parentheses may be the one to split at.
LEMMA AnySplit ==
  ASSUME NEW atom \in Assignments, NEW t
  PROVE  \A x \in Seq(Tokens) : Loosest(x, t) => \A i \in Tops(x, t) :
           Means(x, atom) = Joined(t, Means(Before(x, i), atom), Means(After(x, i), atom))
<1> DEFINE Split(x) == Loosest(x, t) => \A i \in Tops(x, t) :
             Means(x, atom) = Joined(t, Means(Before(x, i), atom), Means(After(x, i), atom))
           S == {x \in Seq(Tokens) : Split(x)}
<1>1. ASSUME NEW x \in Seq(Tokens), \A y \in Seq(Tokens) : Len(y) < Len(x) => y \in S PROVE x \in S
  <2>1. ASSUME Loosest(x, t), NEW i \in Tops(x, t)
        PROVE  Means(x, atom) = Joined(t, Means(Before(x, i), atom), Means(After(x, i), atom))
    <3> DEFINE j == Max(Tops(x, t))
    <3>1. Tops(x, t) # {}
      BY <2>1
    <3>2. j \in Tops(x, t) /\ i <= j
      BY <3>1, LastTop
    <3>3. Means(x, atom) = Joined(t, Means(Before(x, j), atom), Means(After(x, j), atom))
      BY <2>1, <3>1, MeansJoined
    <3> HIDE DEF j
    <3>4. i \in 1 .. Len(x) /\ Nested(x, i) = 0 /\ j \in 1 .. Len(x) /\ Nested(x, j) = 0
      BY <3>2, TopIs
    <3>5. CASE i < j
      <4> DEFINE b == Before(x, j)
                 a == After(x, i)
                 v == After(b, i)
      <4>1. /\ b \in Seq(Tokens) /\ Len(b) = j - 1 /\ a \in Seq(Tokens) /\ Len(a) = Len(x) - i
            /\ Before(x, i) \in Seq(Tokens) /\ After(x, j) \in Seq(Tokens)
        BY <3>4, HalvesAre
      <4>2. Len(b) < Len(x) /\ Len(a) < Len(x)
        BY <3>4, <4>1
      <4>3. b \in S /\ a \in S
        BY <1>1, <4>1, <4>2
      <4>4. i \in Tops(b, t)
        BY <3>4, <3>5, TopsBefore
      <4>5. j - i \in Tops(a, t)
        <5>1. j - i \in 1 .. Len(x) - i /\ i + (j - i) = j
          BY <3>4, <3>5
        <5> QED
          BY <3>2, <3>4, <5>1, TopsAfter
      <4>6. Loosest(b, t) /\ Loosest(a, t)
        BY <2>1, <3>4, LoosestHalves
      <4>7. Means(b, atom) = Joined(t, Means(Before(b, i), atom), Means(After(b, i), atom))
        BY <4>3, <4>4, <4>6
      <4>8. Means(a, atom) = Joined(t, Means(Before(a, j - i), atom), Means(After(a, j - i), atom))
        BY <4>3, <4>5, <4>6
      <4>9. Before(b, i) = Before(x, i) /\ Before(a, j - i) = v /\ After(a, j - i) = After(x, j)
        BY <3>4, <3>5, TwoCuts
      <4>10. v \in Seq(Tokens)
        <5>1. i \in 1 .. Len(b)
          BY <3>4, <3>5, TwoCuts
        <5> HIDE DEF b
        <5> QED
          BY <4>1, <5>1, HalvesAre
      <4> HIDE DEF b, a
      <4>11. Means(x, atom) = Joined(t, Joined(t, Means(Before(x, i), atom), Means(v, atom)), Means(After(x, j), atom))
        BY <3>3, <4>7, <4>9 DEF b
      <4>12. Means(a, atom) = Joined(t, Means(v, atom), Means(After(x, j), atom))
        BY <4>8, <4>9
      <4> HIDE DEF v
      <4>13. Means(Before(x, i), atom) \in Worths /\ Means(v, atom) \in Worths /\ Means(After(x, j), atom) \in Worths
        BY <4>1, <4>10, MeansWorths
      <4> QED
        BY <4>11, <4>12, <4>13, JoinedAssociative DEF a
    <3>6. CASE i = j
      BY <3>3, <3>6
    <3> QED
      BY <3>2, <3>4, <3>5, <3>6
  <2> QED
    BY <2>1
<1>2. S \in SUBSET Seq(Tokens)
  OBVIOUS
<1> HIDE DEF S
<1>3. \A x \in Seq(Tokens) : x \in S
  BY ONLY <1>1, <1>2, TextInduction
<1> USE DEF S
<1> QED
  BY <1>3

-----------------------------------------------------------------------------
(* Texts that say what a tree says.                                        *)

\* What the tree grants is what the text is true of.
Reads(x, n) ==
  \A atom \in Assignments :
    Means(x, atom) # -1 /\ (Eval(n, atom) <=> Means(x, atom) = 2)

Join(t, l, r) == IF t = "||" THEN Or(l, r) ELSE And(l, r)

Balanced(x) == Nested(x, Len(x)) = 0 /\ \A j \in 0 .. Len(x) : Nested(x, j) >= 0

LEMMA EvalJoin ==
  ASSUME NEW atom, NEW t, NEW l, NEW r, Join(t, l, r) \in Node
  PROVE  /\ t = "||" => (Eval(Join(t, l, r), atom) <=> Eval(l, atom) \/ Eval(r, atom))
         /\ t # "||" => (Eval(Join(t, l, r), atom) <=> Eval(l, atom) /\ Eval(r, atom))
<1> DEFINE n == Join(t, l, r)
<1>1. /\ n.k = "or" => (Eval(n, atom) <=> Eval(n.l, atom) \/ Eval(n.r, atom))
      /\ n.k = "and" => (Eval(n, atom) <=> Eval(n.l, atom) /\ Eval(n.r, atom))
  BY EvalIs
<1>2. n.l = l /\ n.r = r /\ (t = "||" => n.k = "or") /\ (t # "||" => n.k = "and")
  BY DEF Join, Or, And
<1> QED
  BY <1>1, <1>2

LEMMA ReadsJoined ==
  ASSUME NEW x \in Seq(Tokens), NEW t, Loosest(x, t), NEW i \in Tops(x, t), NEW l, NEW r,
         Reads(Before(x, i), l), Reads(After(x, i), r), Join(t, l, r) \in Node
  PROVE  Reads(x, Join(t, l, r))
<1> DEFINE n == Join(t, l, r)
<1> SUFFICES ASSUME NEW atom \in Assignments
             PROVE  Means(x, atom) # -1 /\ (Eval(n, atom) <=> Means(x, atom) = 2)
  BY DEF Reads
<1> DEFINE u == Means(Before(x, i), atom)
           v == Means(After(x, i), atom)
<1>1. Means(x, atom) = Joined(t, u, v)
  BY AnySplit
<1>2. u \in Worths /\ v \in Worths
  BY TopIs, HalvesAre, MeansWorths
<1>3. u # -1 /\ v # -1 /\ (Eval(l, atom) <=> u = 2) /\ (Eval(r, atom) <=> v = 2)
  BY DEF Reads
<1> HIDE DEF u, v
<1>4. CASE t = "||"
  <2>1. Joined(t, u, v) # -1 /\ (Joined(t, u, v) = 2 <=> u = 2 \/ v = 2)
    BY <1>2, <1>3, <1>4, EitherBoth DEF Joined
  <2>2. Eval(n, atom) <=> Eval(l, atom) \/ Eval(r, atom)
    BY <1>4, EvalJoin
  <2> HIDE DEF n
  <2> QED
    BY <1>1, <1>3, <2>1, <2>2
<1>5. CASE t # "||"
  <2>1. Joined(t, u, v) # -1 /\ (Joined(t, u, v) = 2 <=> u = 2 /\ v = 2)
    BY <1>2, <1>3, <1>5, EitherBoth DEF Joined
  <2>2. Eval(n, atom) <=> Eval(l, atom) /\ Eval(r, atom)
    BY <1>5, EvalJoin
  <2> HIDE DEF n
  <2> QED
    BY <1>1, <1>3, <2>1, <2>2
<1> QED
  BY <1>4, <1>5

LEMMA OneToken ==
  ASSUME NEW a \in Atoms \cup {Row}, NEW x \in Seq(Tokens), Len(x) = 1, x[1] = a
  PROVE  /\ Balanced(x) /\ \A t \in {"||", "&&"} : Tops(x, t) = {}
         /\ \A atom \in Assignments : Means(x, atom) = atom[a] /\ atom[a] \in 0 .. 2
<1>1. a \notin Signs
  BY FilterAssumption
<1>2. \A t \in {"||", "&&"} : Tops(x, t) = {}
  BY <1>1 DEF Tops, Signs
<1>3. Nested(x, 0) = 0 /\ Nested(x, 1) = 0
  <2>1. x[0 + 1] \notin {"(", ")"} /\ 0 + 1 = 1
    BY <1>1 DEF Signs
  <2> QED
    BY <2>1, NestedFirst, NestedStep
<1>4. Balanced(x)
  <2>1. \A j \in 0 .. 1 : j = 0 \/ j = 1
    OBVIOUS
  <2> QED
    BY <1>3, <2>1 DEF Balanced
<1>5. ASSUME NEW atom \in Assignments PROVE Means(x, atom) = atom[a] /\ atom[a] \in 0 .. 2
  <2>1. Means(x, atom) = atom[a]
    BY <1>2, MeansOne
  <2>2. atom[a] \in 0 .. 2
    BY DEF Assignments
  <2> QED
    BY <2>1, <2>2
<1> QED
  BY <1>2, <1>4, <1>5

LEMMA ReadsAtom ==
  ASSUME NEW a \in Atoms, NEW x \in Seq(Tokens), Len(x) = 1, x[1] = a
  PROVE  Reads(x, Cmp(a))
<1>1. Cmp(a) \in Node /\ Cmp(a).k = "cmp" /\ Cmp(a).a = a
  <2>1. Cmp(a) \in Trees[0]
    BY TreesFirst DEF Cmp, Cmps
  <2>2. Trees[0] \subseteq Trees[MaxTokens]
    BY FilterAssumption, TreesMonotone
  <2> QED
    BY <2>1, <2>2 DEF Cmp, Node
<1>2. ASSUME NEW atom \in Assignments
      PROVE  Means(x, atom) # -1 /\ (Eval(Cmp(a), atom) <=> Means(x, atom) = 2)
  <2>1. Means(x, atom) = atom[a] /\ atom[a] \in 0 .. 2
    BY OneToken
  <2>2. Eval(Cmp(a), atom) <=> atom[a] = 2
    BY <1>1, EvalIs
  <2> QED
    BY <2>1, <2>2
<1> QED
  BY <1>2 DEF Reads

\* p is x in parentheses.
LEMMA Enclosed ==
  ASSUME NEW x \in Seq(Tokens), NEW p \in Seq(Tokens), Len(x) > 0, Balanced(x),
         Len(p) = Len(x) + 2, p[1] = "(", p[Len(p)] = ")", SubSeq(p, 2, Len(p) - 1) = x
  PROVE  /\ Balanced(p) /\ \A t \in {"||", "&&"} : Tops(p, t) = {}
         /\ \A atom \in Assignments : Means(p, atom) = Means(x, atom)
<1> DEFINE n == Len(x)
<1>1. n \in Nat /\ n > 0 /\ Len(p) = n + 2 /\ Len(p) > 2
  OBVIOUS
<1>2. \A j \in 1 .. n : x[j] = p[1 + j]
  <2>1. Len(p) - 2 = n
    BY <1>1
  <2> QED
    BY <1>1, <2>1, InnerIs
<1>3. Nested(p, 0) = 0 /\ Nested(p, 1) = 1
  <2>1. p[0 + 1] = "(" /\ 0 + 1 = 1
    OBVIOUS
  <2> QED
    BY <2>1, NestedFirst, NestedStep
<1>4. ASSUME NEW k \in 0 .. n PROVE Nested(p, 1 + k) = 1 + Nested(x, k)
  <2>1. Piece(x, p, 1, n)
    BY <1>2 DEF Piece
  <2> HIDE DEF n
  <2> QED
    BY <1>1, <1>3, <2>1, NestedPiece
<1>5. \A k \in 0 .. n : Nested(x, k) >= 0 /\ Nested(x, k) \in Int
  <2>1. \A k \in 0 .. n : k \in Nat
    BY <1>1
  <2> QED
    BY <2>1, NestedStep DEF Balanced
<1>6. Nested(p, n + 2) = 0
  <2>1. n \in 0 .. n /\ 1 + n \in Nat /\ (1 + n) + 1 = n + 2
    BY <1>1
  <2>2. Nested(p, 1 + n) = 1
    BY <1>4, <2>1 DEF Balanced
  <2>3. p[(1 + n) + 1] = ")"
    BY <1>1, <2>1
  <2>4. Nested(p, (1 + n) + 1) = Nested(p, 1 + n) - 1
    BY <2>1, <2>3, NestedStep
  <2> QED
    BY <2>1, <2>2, <2>4
<1> HIDE DEF n
<1>7. ASSUME NEW j \in 0 .. n + 2 PROVE j = 0 \/ j = n + 2 \/ (j - 1 \in 0 .. n /\ j = 1 + (j - 1))
  BY <1>1
<1>8. Balanced(p)
  <2>1. ASSUME NEW j \in 0 .. n + 2 PROVE Nested(p, j) >= 0
    <3>1. CASE j - 1 \in 0 .. n /\ j = 1 + (j - 1)
      <4>1. Nested(p, j) = 1 + Nested(x, j - 1)
        BY <1>4, <3>1
      <4> QED
        BY <1>5, <3>1, <4>1
    <3> QED
      BY <1>3, <1>6, <1>7, <3>1
  <2> QED
    BY <1>1, <1>6, <2>1 DEF Balanced
<1>9. ASSUME NEW t \in {"||", "&&"}, NEW j \in Tops(p, t) PROVE FALSE
  <2>1. j \in 1 .. n + 2 /\ p[j] = t /\ Nested(p, j) = 0
    BY <1>1, TopIs
  <2>2. j # 1 /\ j # n + 2
    BY <1>1, <2>1
  <2>3. j - 1 \in 0 .. n /\ j = 1 + (j - 1)
    BY <1>1, <2>1, <2>2
  <2>4. Nested(p, j) = 1 + Nested(x, j - 1)
    BY <1>4, <2>3
  <2> QED
    BY <1>5, <2>1, <2>3, <2>4
<1>10. \A t \in {"||", "&&"} : Tops(p, t) = {}
  BY <1>9
<1>11. ASSUME NEW atom \in Assignments PROVE Means(p, atom) = Means(x, atom)
  BY <1>1, <1>10, MeansOne
<1> QED
  BY <1>8, <1>10, <1>11

LEMMA BalancedHalves ==
  ASSUME NEW x \in Seq(Tokens), NEW t \in {"||", "&&"}, NEW i \in 1 .. Len(x), x[i] = t,
         Balanced(Before(x, i)), Balanced(After(x, i))
  PROVE  /\ i \in Tops(x, t) /\ Balanced(x)
         /\ \A s : s # t /\ Tops(Before(x, i), s) = {} /\ Tops(After(x, i), s) = {} => Tops(x, s) = {}
<1> DEFINE u == Before(x, i)
           v == After(x, i)
           n == Len(x)
<1>1. n \in Nat /\ i \in Nat /\ i >= 1 /\ i <= n /\ i - 1 \in Nat /\ (i - 1) + 1 = i /\ n - i \in Nat
  OBVIOUS
<1>2. Len(u) = i - 1 /\ Len(v) = n - i /\ \A j \in 1 .. i - 1 : u[j] = x[j]
  BY HalvesAre
<1>3. \A k \in 0 .. i - 1 : Nested(u, k) = Nested(x, k)
  BY <1>1, <1>2, NestedPrefix
<1>4. Nested(x, i) = 0
  <2>1. Nested(x, i - 1) = 0
    <3>1. i - 1 \in 0 .. i - 1
      BY <1>1
    <3> QED
      BY <1>2, <1>3, <3>1 DEF Balanced
  <2>2. x[(i - 1) + 1] \notin {"(", ")"}
    BY <1>1
  <2> QED
    BY <1>1, <2>1, <2>2, NestedStep
<1>5. \A k \in 0 .. n - i : Nested(v, k) = Nested(x, i + k)
  BY <1>4, NestedHalves
<1>6. i \in Tops(x, t)
  BY <1>4 DEF Tops
<1> HIDE DEF u, v
<1>7. Balanced(x)
  <2>1. ASSUME NEW j \in 0 .. n PROVE Nested(x, j) >= 0
    <3>1. CASE j < i
      <4>1. j \in 0 .. i - 1
        BY <1>1, <3>1
      <4> QED
        BY <1>2, <1>3, <4>1 DEF Balanced, u
    <3>2. CASE j >= i
      <4>1. j - i \in 0 .. n - i /\ i + (j - i) = j
        BY <1>1, <3>2
      <4> QED
        BY <1>2, <1>5, <4>1 DEF Balanced, v
    <3> QED
      BY <1>1, <3>1, <3>2
  <2>2. Nested(x, n) = 0
    <3>1. n - i \in 0 .. n - i /\ i + (n - i) = n
      BY <1>1
    <3> QED
      BY <1>2, <1>5, <3>1 DEF Balanced, v
  <2> QED
    BY <2>1, <2>2 DEF Balanced
<1>8. ASSUME NEW s, s # t, Tops(u, s) = {}, Tops(v, s) = {}, NEW j \in Tops(x, s) PROVE FALSE
  <2>1. j \in 1 .. n /\ x[j] = s
    BY <1>8, TopIs
  <2>2. CASE j < i
    BY <1>4, <1>8, <2>2, TopsBefore DEF u
  <2>3. CASE j > i
    <3>1. j - i \in 1 .. n - i /\ i + (j - i) = j
      BY <1>1, <2>1, <2>3
    <3>2. j - i \in Tops(v, s)
      BY <1>4, <1>8, <3>1, TopsAfter DEF v
    <3> QED
      BY <1>8, <3>2
  <2>4. j # i
    BY <1>8, <2>1
  <2> QED
    BY <1>1, <2>1, <2>2, <2>3, <2>4
<1> QED
  BY <1>6, <1>7, <1>8 DEF u, v

LEMMA Glued ==
  ASSUME NEW u \in Seq(Tokens), NEW v \in Seq(Tokens), NEW t \in {"||", "&&"},
         NEW x, x = u \o <<t>> \o v
  PROVE  /\ x \in Seq(Tokens) /\ Len(x) = Len(u) + Len(v) + 1
         /\ Len(u) + 1 \in 1 .. Len(x) /\ x[Len(u) + 1] = t
         /\ Before(x, Len(u) + 1) = u /\ After(x, Len(u) + 1) = v
<1> DEFINE m == Len(u)
           n == Len(v)
           i == m + 1
<1>1. m \in Nat /\ n \in Nat /\ i \in Nat
  OBVIOUS
<1>2. t \in Tokens
  BY PlusTokens DEF Signs
<1>3. x \in Seq(Tokens) /\ Len(x) = m + n + 1
  BY <1>2
<1>4. i \in 1 .. Len(x)
  BY <1>1, <1>3
<1>5. x[i] = t
  BY <1>1
<1>6. \A j \in 1 .. m : x[j] = u[j]
  BY <1>1
<1>7. \A j \in 1 .. n : x[i + j] = v[j]
  BY <1>1
<1>8. i - 1 = m /\ Len(x) - i = n
  BY <1>1, <1>3
<1> HIDE DEF m, n, i
<1>9. Before(x, i) = u
  <2>1. Before(x, i) \in Seq(Tokens) /\ Len(Before(x, i)) = m /\ \A j \in 1 .. m : Before(x, i)[j] = x[j]
    BY <1>3, <1>4, <1>8, HalvesAre
  <2> QED
    BY <1>6, <2>1, SameText DEF m
<1>10. After(x, i) = v
  <2>1. After(x, i) \in Seq(Tokens) /\ Len(After(x, i)) = n /\ \A j \in 1 .. n : After(x, i)[j] = x[i + j]
    BY <1>3, <1>4, <1>8, HalvesAre
  <2> QED
    BY <1>7, <2>1, SameText DEF n
<1> QED
  BY <1>3, <1>4, <1>5, <1>9, <1>10 DEF m, n, i

-----------------------------------------------------------------------------
(* The SQL text of a tree.                                                 *)

LEMMA NodeJoin ==
  ASSUME NEW n \in Node, n.k # "cmp"
  PROVE  (n.k = "or" /\ n = Join("||", n.l, n.r)) \/ (n.k = "and" /\ n = Join("&&", n.l, n.r))
<1>1. MaxTokens \in Nat /\ n \in Trees[MaxTokens]
  BY FilterAssumption DEF Node
<1>2. MaxTokens - 1 \in Nat /\ (MaxTokens - 1) + 1 = MaxTokens
  BY <1>1, Branches
<1>3. n \in Grown(Trees[MaxTokens - 1])
  BY <1>1, <1>2, TreesNext
<1>4. n \notin Cmps
  BY DEF Cmps
<1>5. n \in [k : {"or", "and"}, l : Trees[MaxTokens - 1], r : Trees[MaxTokens - 1]]
  BY <1>3, <1>4 DEF Grown
<1>6. n.k \in {"or", "and"} /\ n = [k |-> n.k, l |-> n.l, r |-> n.r]
  BY <1>5
<1>7. CASE n.k = "or"
  BY <1>6, <1>7 DEF Join, Or
<1>8. CASE n.k = "and"
  BY <1>6, <1>8 DEF Join, And
<1> QED
  BY <1>6, <1>7, <1>8

Faithful(x, n) == x \in Seq(Tokens) /\ Len(x) > 0 /\ Balanced(x) /\ Reads(x, n)

LEMMA ParenIs ==
  ASSUME NEW x \in Seq(Tokens)
  PROVE  /\ Paren(x) \in Seq(Tokens) /\ Len(Paren(x)) = Len(x) + 2
         /\ Paren(x)[1] = "(" /\ Paren(x)[Len(Paren(x))] = ")"
         /\ Len(x) > 0 => SubSeq(Paren(x), 2, Len(Paren(x)) - 1) = x
<1> DEFINE p == Paren(x)
           n == Len(x)
<1>1. n \in Nat
  OBVIOUS
<1>2. "(" \in Tokens /\ ")" \in Tokens
  BY PlusTokens DEF Signs
<1>3. p \in Seq(Tokens) /\ Len(p) = n + 2
  BY <1>2 DEF Paren
<1>4. p[1] = "(" /\ p[n + 2] = ")"
  BY <1>1 DEF Paren
<1>5. \A j \in 1 .. n : p[1 + j] = x[j]
  BY <1>1 DEF Paren
<1> HIDE DEF p
<1>6. ASSUME n > 0 PROVE SubSeq(p, 2, Len(p) - 1) = x
  <2>1. Len(p) > 2 /\ Len(p) - 2 = n
    BY <1>1, <1>3, <1>6
  <2> DEFINE q == SubSeq(p, 2, Len(p) - 1)
  <2>2. q \in Seq(Tokens) /\ Len(q) = n /\ \A j \in 1 .. n : q[j] = p[1 + j]
    BY <1>3, <2>1, InnerIs
  <2> HIDE DEF q
  <2>3. q = x
    BY <1>5, <2>2, SameText
  <2> QED
    BY <2>3 DEF q
<1> QED
  BY <1>3, <1>4, <1>6 DEF p

LEMMA WrappedFaithful ==
  ASSUME NEW n, NEW x, Faithful(x, n), n.k # "or" => Tops(x, "||") = {}
  PROVE  Faithful(Wrapped(n, x), n) /\ Tops(Wrapped(n, x), "||") = {}
<1>1. CASE n.k # "or"
  BY <1>1 DEF Wrapped
<1>2. CASE n.k = "or"
  <2> DEFINE p == Paren(x)
  <2>1. x \in Seq(Tokens) /\ Len(x) > 0 /\ Balanced(x) /\ Reads(x, n)
    BY DEF Faithful
  <2>2. /\ p \in Seq(Tokens) /\ Len(p) = Len(x) + 2 /\ p[1] = "(" /\ p[Len(p)] = ")"
        /\ SubSeq(p, 2, Len(p) - 1) = x
    BY <2>1, ParenIs
  <2> HIDE DEF p
  <2>3. /\ Balanced(p) /\ \A t \in {"||", "&&"} : Tops(p, t) = {}
        /\ \A atom \in Assignments : Means(p, atom) = Means(x, atom)
    BY <2>1, <2>2, Enclosed
  <2>4. Reads(p, n)
    BY <2>1, <2>3 DEF Reads
  <2>5. Len(p) > 0
    BY <2>1, <2>2
  <2> QED
    BY <1>2, <2>2, <2>3, <2>4, <2>5 DEF Wrapped, Faithful, p
<1> QED
  BY <1>1, <1>2

LEMMA GluedFaithful ==
  ASSUME NEW t \in {"||", "&&"}, NEW u, NEW v, NEW l, NEW r, Faithful(u, l), Faithful(v, r),
         t = "&&" => Tops(u, "||") = {} /\ Tops(v, "||") = {}, Join(t, l, r) \in Node
  PROVE  /\ Faithful(u \o <<t>> \o v, Join(t, l, r))
         /\ t = "&&" => Tops(u \o <<t>> \o v, "||") = {}
<1> DEFINE x == u \o <<t>> \o v
           i == Len(u) + 1
<1>1. u \in Seq(Tokens) /\ v \in Seq(Tokens) /\ Balanced(u) /\ Balanced(v) /\ Reads(u, l) /\ Reads(v, r)
  BY DEF Faithful
<1>2. /\ x \in Seq(Tokens) /\ Len(x) = Len(u) + Len(v) + 1 /\ i \in 1 .. Len(x) /\ x[i] = t
      /\ Before(x, i) = u /\ After(x, i) = v
  BY <1>1, Glued
<1>3. Len(x) > 0
  <2>1. Len(u) \in Nat /\ Len(v) \in Nat
    BY <1>1
  <2> QED
    BY <1>2, <2>1
<1> HIDE DEF x, i
<1>4. /\ i \in Tops(x, t) /\ Balanced(x)
      /\ t = "&&" => Tops(x, "||") = {}
  BY <1>1, <1>2, BalancedHalves
<1>5. Loosest(x, t)
  BY <1>4 DEF Loosest
<1>6. Reads(x, Join(t, l, r))
  BY <1>1, <1>2, <1>4, <1>5, ReadsJoined
<1> QED
  BY <1>2, <1>3, <1>4, <1>6 DEF Faithful, x

LEMMA SqlFaithful ==
  ASSUME NEW n \in Node
  PROVE  Faithful(Sql[n], n) /\ (n.k # "or" => Tops(Sql[n], "||") = {})
<1> DEFINE S == {m \in Node : Faithful(Sql[m], m) /\ (m.k # "or" => Tops(Sql[m], "||") = {})}
<1>1. ASSUME NEW m \in Node, m.k # "cmp" => m.l \in S /\ m.r \in S PROVE m \in S
  <2>1. Sql[m] = SqlOf(m, Sql[m.l], Sql[m.r])
    BY SqlIs
  <2>2. CASE m.k = "cmp"
    <3>1. Sql[m] = <<m.a>> /\ m = Cmp(m.a) /\ m.a \in Atoms
      BY <2>1, <2>2, NodeIs DEF SqlOf, Cmp, Cmps
    <3> DEFINE x == <<m.a>>
    <3>2. x \in Seq(Tokens) /\ Len(x) = 1 /\ x[1] = m.a
      BY <3>1 DEF Tokens
    <3> HIDE DEF x
    <3>3. Reads(x, m) /\ Balanced(x) /\ Tops(x, "||") = {}
      BY <3>1, <3>2, ReadsAtom, OneToken
    <3>4. Faithful(x, m)
      BY <3>2, <3>3 DEF Faithful
    <3>5. Sql[m] = x
      BY <3>1 DEF x
    <3> QED
      BY <3>3, <3>4, <3>5
  <2>3. CASE m.k = "or"
    <3>1. m = Join("||", m.l, m.r)
      BY <2>3, NodeJoin
    <3>2. Faithful(Sql[m.l], m.l) /\ Faithful(Sql[m.r], m.r)
      BY <1>1, <2>3
    <3>3. Sql[m] = Sql[m.l] \o <<"||">> \o Sql[m.r]
      BY <2>1, <2>3 DEF SqlOf
    <3>4. Faithful(Sql[m.l] \o <<"||">> \o Sql[m.r], m)
      BY <3>1, <3>2, GluedFaithful
    <3> QED
      BY <2>3, <3>3, <3>4
  <2>4. CASE m.k = "and"
    <3>1. m = Join("&&", m.l, m.r)
      BY <2>4, NodeJoin
    <3> DEFINE u == Wrapped(m.l, Sql[m.l])
               v == Wrapped(m.r, Sql[m.r])
    <3>2. m.l \in S /\ m.r \in S
      BY <1>1, <2>4
    <3>3. Faithful(u, m.l) /\ Tops(u, "||") = {} /\ Faithful(v, m.r) /\ Tops(v, "||") = {}
      BY <3>2, WrappedFaithful
    <3>4. Sql[m] = u \o <<"&&">> \o v
      BY <2>1, <2>4 DEF SqlOf
    <3> HIDE DEF u, v
    <3>5. Faithful(u \o <<"&&">> \o v, m) /\ Tops(u \o <<"&&">> \o v, "||") = {}
      BY <3>1, <3>3, GluedFaithful
    <3> QED
      BY <3>4, <3>5
  <2> QED
    BY <2>2, <2>3, <2>4, NodeJoin
<1>2. S \in SUBSET Node
  OBVIOUS
<1> HIDE DEF S
<1>3. Node \subseteq S
  BY ONLY <1>1, <1>2, NodeInduction
<1> USE DEF S
<1> QED
  BY <1>3

\* The fragment behind a conjunct of the host query.
LEMMA Spliced ==
  ASSUME NEW n \in Node, NEW atom \in Assignments
  PROVE  Means(<<Row, "&&">> \o ToSql(n), atom) = 2 <=> atom[Row] = 2 /\ Eval(n, atom)
<1> DEFINE u == <<Row>>
           v == ToSql(n)
           x == u \o <<"&&">> \o v
           i == Len(u) + 1
<1>1. Faithful(v, n) /\ Tops(v, "||") = {}
  BY SqlFaithful, WrappedFaithful DEF ToSql
<1>2. u \in Seq(Tokens) /\ Len(u) = 1 /\ u[1] = Row
  BY DEF Tokens
<1> HIDE DEF u, v
<1>3. Balanced(u) /\ Tops(u, "||") = {} /\ Means(u, atom) = atom[Row] /\ atom[Row] \in 0 .. 2
  BY <1>2, OneToken
<1>4. v \in Seq(Tokens) /\ Balanced(v) /\ Means(v, atom) # -1 /\ (Eval(n, atom) <=> Means(v, atom) = 2)
  BY <1>1 DEF Faithful, Reads
<1>5. x \in Seq(Tokens) /\ i \in 1 .. Len(x) /\ x[i] = "&&" /\ Before(x, i) = u /\ After(x, i) = v
  BY ZenonT(40), <1>2, <1>4, Glued
<1>6. <<Row, "&&">> \o ToSql(n) = x
  <2>1. <<Row, "&&">> = <<Row>> \o <<"&&">>
    OBVIOUS
  <2> QED
    BY <2>1 DEF u, v
<1> HIDE DEF x, i
<1>7. i \in Tops(x, "&&") /\ Tops(x, "||") = {}
  BY <1>1, <1>3, <1>4, <1>5, BalancedHalves
<1>8. Means(x, atom) = Both(Means(u, atom), Means(v, atom))
  <2>1. Loosest(x, "&&")
    BY <1>7 DEF Loosest
  <2>2. Means(x, atom) = Joined("&&", Means(u, atom), Means(v, atom))
    BY <1>5, <1>7, <2>1, AnySplit
  <2> QED
    BY <2>2 DEF Joined
<1>9. Means(u, atom) \in Worths /\ Means(v, atom) \in Worths /\ Means(u, atom) # -1
  BY <1>2, <1>3, <1>4, MeansWorths
<1>10. Means(x, atom) = 2 <=> Means(u, atom) = 2 /\ Means(v, atom) = 2
  BY <1>4, <1>8, <1>9, EitherBoth
<1> QED
  BY <1>3, <1>4, <1>6, <1>10

-----------------------------------------------------------------------------
(* The activations of the parser.                                          *)

Says(x, n) == Faithful(x, n) /\ n \in Trees[Len(x)]
Conjunction(x, n) == Says(x, n) /\ Tops(x, "||") = {}

Frame == [or : Node \cup {NoNode}, and : Node \cup {NoNode}, from : Nat, mid : Nat]

\* Up to e, the activation f has read from its beginning, with || behind the
\* alternatives it has a tree of.
Begun(x, f, e) ==
  /\ e \in Nat /\ 1 <= f.from /\ f.from <= f.mid /\ f.mid <= e + 1 /\ e <= Len(x)
  /\ \/ f.or = NoNode /\ f.mid = f.from
     \/ /\ f.from < f.mid - 1 /\ x[f.mid - 1] = "||"
        /\ Says(SubSeq(x, f.from, f.mid - 2), f.or)

\* It has read a whole conjunction, or waits for a unit of one.
Complete(x, f, e) ==
  /\ Begun(x, f, e)
  /\ f.mid <= e /\ Conjunction(SubSeq(x, f.mid, e), f.and)

Waiting(x, f, e) ==
  /\ Begun(x, f, e)
  /\ \/ f.and = NoNode /\ f.mid = e + 1
     \/ f.mid < e /\ x[e] = "&&" /\ Conjunction(SubSeq(x, f.mid, e - 1), f.and)

Starters == Atoms \cup {Row, "("}
AskedFor(x, i) == i = 0 \/ x[i] \in {"(", "&&", "||"}

\* No expression has token i of x there, or none that is nested as allowed.
Wrong(x, i) ==
  \/ Nested(x, i) > MAX_DEPTH \/ Nested(x, i) < 0
  \/ ~ (AskedFor(x, i - 1) <=> x[i] \in Starters)

\* An activation waits for the one above it, which began behind its "(".
Nesting(x, s) ==
  \A k \in 1 .. Len(s) - 1 :
    /\ s[k + 1].from - 1 \in 1 .. Len(x) /\ x[s[k + 1].from - 1] = "("
    /\ Waiting(x, s[k], s[k + 1].from - 2)

Running(x, s, w) ==
  /\ s # <<>> /\ s[1].from = 1
  /\ Len(s) = Nested(x, Len(x)) + 1
  /\ \A i \in 1 .. Len(x) : Nested(x, i) <= MAX_DEPTH
  /\ w <=> AskedFor(x, Len(x))
  /\ Nesting(x, s)
  /\ w => Waiting(x, s[Len(s)], Len(x))
  /\ ~w => Complete(x, s[Len(s)], Len(x))

ParserTypes ==
  /\ input \in Seq(Atoms \cup Signs) /\ Len(input) <= MaxTokens
  /\ stack \in Seq(Frame) /\ wants \in BOOLEAN

ParserInv ==
  /\ ParserTypes
  /\ \/ stack = <<>> /\ \E i \in 1 .. Len(input) : Wrong(input, i)
     \/ Running(input, stack, wants)

LEMMA SaysTyped ==
  ASSUME NEW x, NEW n, Says(x, n), Len(x) <= MaxTokens
  PROVE  n \in Node /\ n # NoNode /\ n # Bad /\ x \in Seq(Tokens)
<1>1. x \in Seq(Tokens) /\ Len(x) \in Nat /\ n \in Trees[Len(x)]
  BY DEF Says, Faithful
<1>2. n \in Node
  <2>1. Trees[Len(x)] \subseteq Trees[MaxTokens]
    BY <1>1, FilterAssumption, TreesMonotone
  <2> QED
    BY <1>1, <2>1 DEF Node
<1>3. n.k \in {"cmp", "or", "and"}
  BY <1>2, NodeJoin
<1>4. NoNode.k = "none" /\ Bad.k = "error"
  BY DEF NoNode, Bad
<1> QED
  BY <1>1, <1>2, <1>3, <1>4

LEMMA JoinGrows ==
  ASSUME NEW h \in Nat, NEW l \in Trees[h], NEW r \in Trees[h], NEW t
  PROVE  Join(t, l, r) \in Trees[h + 1]
<1>1. Trees[h + 1] = Grown(Trees[h])
  BY TreesNext
<1> QED
  BY <1>1 DEF Grown, Join, Or, And

LEMMA JoinSays ==
  ASSUME NEW x \in Seq(Tokens), Len(x) <= MaxTokens, NEW t \in {"||", "&&"}, NEW i \in 1 .. Len(x), x[i] = t,
         NEW l, NEW r, Says(Before(x, i), l), Says(After(x, i), r),
         t = "&&" => Tops(Before(x, i), "||") = {} /\ Tops(After(x, i), "||") = {}
  PROVE  Says(x, Join(t, l, r)) /\ (t = "&&" => Conjunction(x, Join(t, l, r)))
<1> DEFINE u == Before(x, i)
           v == After(x, i)
           n == Len(x)
           j == Join(t, l, r)
<1>1. n \in Nat /\ i \in Nat /\ i >= 1 /\ i <= n
  OBVIOUS
<1>2. Len(u) = i - 1 /\ Len(v) = n - i
  BY HalvesAre
<1>3. Balanced(u) /\ Balanced(v) /\ Reads(u, l) /\ Reads(v, r) /\ l \in Trees[i - 1] /\ r \in Trees[n - i]
  BY <1>2 DEF Says, Faithful
<1>4. j \in Trees[n]
  <2>1. i - 1 \in Nat /\ n - i \in Nat /\ n - 1 \in Nat /\ i - 1 <= n - 1 /\ n - i <= n - 1 /\ (n - 1) + 1 = n
    BY <1>1
  <2> HIDE DEF n, j
  <2>2. l \in Trees[n - 1] /\ r \in Trees[n - 1]
    BY <1>3, <2>1, TreesMonotone
  <2>3. j \in Trees[(n - 1) + 1]
    BY <2>1, <2>2, JoinGrows DEF j
  <2> QED
    BY <2>1, <2>3
<1>5. j \in Node
  <2>1. Trees[n] \subseteq Trees[MaxTokens]
    BY <1>1, FilterAssumption, TreesMonotone
  <2> HIDE DEF n, j
  <2> QED
    BY <1>4, <2>1 DEF Node
<1>6. i \in Tops(x, t) /\ Balanced(x) /\ (t = "&&" => Tops(x, "||") = {})
  BY <1>3, BalancedHalves
<1>7. Loosest(x, t)
  BY <1>6 DEF Loosest
<1>8. Reads(x, j)
  <2> HIDE DEF n
  <2> QED
    BY <1>3, <1>5, <1>6, <1>7, ReadsJoined
<1>9. n > 0
  BY <1>1
<1> QED
  BY <1>4, <1>6, <1>8, <1>9 DEF Says, Faithful, Conjunction

\* The same for what stands between a and b.
CutAt(x, a, b, i) ==
  /\ SubSeq(x, a, b) \in Seq(Tokens) /\ Len(SubSeq(x, a, b)) = (b + 1) - a
  /\ (i + 1) - a \in 1 .. Len(SubSeq(x, a, b))
  /\ SubSeq(x, a, b)[(i + 1) - a] = x[i]
  /\ Before(SubSeq(x, a, b), (i + 1) - a) = SubSeq(x, a, i - 1)
  /\ After(SubSeq(x, a, b), (i + 1) - a) = SubSeq(x, i + 1, b)

LEMMA CutPiece ==
  ASSUME NEW x \in Seq(Tokens), NEW a \in Nat, NEW b \in Nat, NEW i \in Nat,
         1 <= a, a <= i, i <= b, b <= Len(x)
  PROVE  CutAt(x, a, b, i)
<1> DEFINE w == SubSeq(x, a, b)
           d == (i + 1) - a
           m == (b + 1) - a
           p == SubSeq(x, a, i - 1)
           q == SubSeq(x, i + 1, b)
<1>1. d \in Nat /\ d >= 1 /\ m \in Nat /\ d <= m /\ d - 1 = i - a /\ m - d = b - i
  OBVIOUS
<1>2. w \in Seq(Tokens) /\ Len(w) = m /\ \A k \in 1 .. m : w[k] = x[(a + k) - 1]
  BY PieceIs
<1>3. p \in Seq(Tokens) /\ Len(p) = i - a /\ \A k \in 1 .. i - a : p[k] = x[(a + k) - 1]
  <2>1. i - 1 \in Int /\ i - 1 <= Len(x) /\ a <= (i - 1) + 1 /\ ((i - 1) + 1) - a = i - a
    OBVIOUS
  <2> QED
    BY <2>1, PieceIs
<1>4. q \in Seq(Tokens) /\ Len(q) = b - i /\ \A k \in 1 .. b - i : q[k] = x[i + k]
  <2>1. i + 1 \in Nat /\ i + 1 >= 1 /\ i + 1 <= b + 1 /\ (b + 1) - (i + 1) = b - i
    OBVIOUS
  <2>2. \A k \in 1 .. b - i : ((i + 1) + k) - 1 = i + k
    OBVIOUS
  <2>3. q \in Seq(Tokens) /\ Len(q) = (b + 1) - (i + 1) /\ \A k \in 1 .. (b + 1) - (i + 1) : q[k] = x[((i + 1) + k) - 1]
    BY <2>1, PieceIs
  <2> QED
    BY <2>1, <2>2, <2>3
<1>5. (a + d) - 1 = i /\ d \in 1 .. m
  BY <1>1
<1> HIDE DEF w, d, m, p, q
<1>6. w[d] = x[i]
  BY <1>2, <1>5
<1>7. /\ Before(w, d) \in Seq(Tokens) /\ Len(Before(w, d)) = i - a /\ \A k \in 1 .. i - a : Before(w, d)[k] = w[k]
      /\ After(w, d) \in Seq(Tokens) /\ Len(After(w, d)) = b - i /\ \A k \in 1 .. b - i : After(w, d)[k] = w[d + k]
  <2>1. d \in 1 .. Len(w)
    BY <1>2, <1>5
  <2>2. /\ Before(w, d) \in Seq(Tokens) /\ Len(Before(w, d)) = d - 1 /\ \A k \in 1 .. d - 1 : Before(w, d)[k] = w[k]
        /\ After(w, d) \in Seq(Tokens) /\ Len(After(w, d)) = Len(w) - d
        /\ \A k \in 1 .. Len(w) - d : After(w, d)[k] = w[d + k]
    BY <1>2, <2>1, HalvesAre
  <2> QED
    BY <1>1, <1>2, <2>2
<1>8. Before(w, d) = p
  <2>1. ASSUME NEW k \in 1 .. i - a PROVE Before(w, d)[k] = p[k]
    <3>1. k \in 1 .. m
      BY <1>1
    <3> QED
      BY <1>2, <1>3, <1>7, <3>1
  <2> QED
    BY <1>3, <1>7, <2>1, SameText
<1>9. After(w, d) = q
  <2>1. ASSUME NEW k \in 1 .. b - i PROVE After(w, d)[k] = q[k]
    <3>1. d + k \in 1 .. m /\ (a + (d + k)) - 1 = i + k
      BY <1>1 DEF d
    <3>2. After(w, d)[k] = w[d + k] /\ q[k] = x[i + k]
      BY <1>4, <1>7
    <3>3. w[d + k] = x[(a + (d + k)) - 1]
      BY <1>2, <3>1
    <3> QED
      BY <3>1, <3>2, <3>3
  <2> QED
    BY <1>4, <1>7, <2>1, SameText
<1> QED
  BY <1>2, <1>5, <1>6, <1>8, <1>9 DEF CutAt, w, d, m, p, q

LEMMA JoinPiece ==
  ASSUME NEW x \in Seq(Tokens), Len(x) <= MaxTokens, NEW a \in Nat, NEW b \in Nat, NEW i \in Nat,
         1 <= a, a <= i, i <= b, b <= Len(x), NEW t \in {"||", "&&"}, x[i] = t, NEW l, NEW r,
         Says(SubSeq(x, a, i - 1), l), Says(SubSeq(x, i + 1, b), r),
         t = "&&" => Tops(SubSeq(x, a, i - 1), "||") = {} /\ Tops(SubSeq(x, i + 1, b), "||") = {}
  PROVE  Says(SubSeq(x, a, b), Join(t, l, r)) /\ (t = "&&" => Conjunction(SubSeq(x, a, b), Join(t, l, r)))
<1> DEFINE w == SubSeq(x, a, b)
           d == (i + 1) - a
<1>1. /\ w \in Seq(Tokens) /\ Len(w) = (b + 1) - a /\ d \in 1 .. Len(w) /\ w[d] = t
      /\ Before(w, d) = SubSeq(x, a, i - 1) /\ After(w, d) = SubSeq(x, i + 1, b)
  <2>1. CutAt(x, a, b, i)
    BY CutPiece
  <2> QED
    BY <2>1 DEF CutAt
<1>2. Len(w) <= MaxTokens
  BY <1>1, FilterAssumption
<1> HIDE DEF w, d
<1>3. Says(w, Join(t, l, r)) /\ (t = "&&" => Conjunction(w, Join(t, l, r)))
  BY <1>1, <1>2, JoinSays
<1> QED
  BY <1>3 DEF w

LEMMA ParenPiece ==
  ASSUME NEW x \in Seq(Tokens), NEW a \in Nat, NEW b \in Nat,
         1 <= a, a < b, b <= Len(x), x[a] = "(", x[b] = ")", NEW n, Says(SubSeq(x, a + 1, b - 1), n)
  PROVE  Conjunction(SubSeq(x, a, b), n)
<1> DEFINE w == SubSeq(x, a + 1, b - 1)
           p == SubSeq(x, a, b)
           m == b - (a + 1)
<1>1. m \in Nat /\ (b + 1) - a = m + 2 /\ ((b - 1) + 1) - (a + 1) = m
  OBVIOUS
<1>2. p \in Seq(Tokens) /\ Len(p) = m + 2 /\ \A k \in 1 .. m + 2 : p[k] = x[(a + k) - 1]
  <2>1. b \in Int /\ a <= b + 1
    OBVIOUS
  <2> QED
    BY <1>1, <2>1, PieceIs
<1>3. w \in Seq(Tokens) /\ Len(w) = m /\ \A k \in 1 .. m : w[k] = x[((a + 1) + k) - 1]
  <2>1. a + 1 \in Nat /\ a + 1 >= 1 /\ b - 1 \in Int /\ b - 1 <= Len(x) /\ a + 1 <= (b - 1) + 1
    OBVIOUS
  <2> DEFINE c == a + 1
             d == b - 1
  <2>2. c \in Nat /\ d \in Int /\ c >= 1 /\ d <= Len(x) /\ c <= d + 1 /\ (d + 1) - c = m
    BY <1>1, <2>1
  <2>3. w = SubSeq(x, c, d) /\ \A k : x[((a + 1) + k) - 1] = x[(c + k) - 1]
    OBVIOUS
  <2> HIDE DEF c, d, w, m
  <2>4. /\ SubSeq(x, c, d) \in Seq(Tokens) /\ Len(SubSeq(x, c, d)) = (d + 1) - c
        /\ \A k \in 1 .. (d + 1) - c : SubSeq(x, c, d)[k] = x[(c + k) - 1]
    BY <2>2, PieceIs
  <2> QED
    BY <2>2, <2>3, <2>4
<1>4. Len(w) > 0 /\ Balanced(w) /\ Reads(w, n) /\ n \in Trees[Len(w)]
  BY DEF Says, Faithful
<1>5. p[1] = "(" /\ p[m + 2] = ")"
  <2>1. (a + 1) - 1 = a /\ (a + (m + 2)) - 1 = b /\ 1 \in 1 .. m + 2 /\ m + 2 \in 1 .. m + 2
    BY <1>1
  <2> HIDE DEF p, m
  <2> QED
    BY <1>2, <2>1
<1> HIDE DEF w, p, m
<1>6. SubSeq(p, 2, Len(p) - 1) = w
  <2> DEFINE q == SubSeq(p, 2, Len(p) - 1)
  <2>1. Len(p) > 2 /\ Len(p) - 2 = m
    BY <1>1, <1>2, <1>3, <1>4
  <2>2. q \in Seq(Tokens) /\ Len(q) = m /\ \A k \in 1 .. m : q[k] = p[1 + k]
    BY <1>2, <2>1, InnerIs
  <2> HIDE DEF q
  <2>3. ASSUME NEW k \in 1 .. m PROVE q[k] = w[k]
    <3>1. 1 + k \in 1 .. m + 2 /\ (a + (1 + k)) - 1 = ((a + 1) + k) - 1
      BY <1>1
    <3> QED
      BY <1>2, <1>3, <2>2, <3>1
  <2>4. q = w
    BY <1>3, <2>2, <2>3, SameText
  <2> QED
    BY <2>4 DEF q
<1>7. Len(p) = Len(w) + 2 /\ p[Len(p)] = ")"
  BY <1>2, <1>3, <1>5
<1>8. /\ Balanced(p) /\ \A t \in {"||", "&&"} : Tops(p, t) = {}
      /\ \A atom \in Assignments : Means(p, atom) = Means(w, atom)
  BY <1>2, <1>3, <1>4, <1>5, <1>6, <1>7, Enclosed
<1>9. Reads(p, n)
  BY <1>4, <1>8 DEF Reads
<1>10. n \in Trees[Len(p)] /\ Len(p) > 0
  <2>1. Len(w) \in Nat /\ Len(p) \in Nat /\ Len(w) <= Len(p) /\ Len(p) > 0
    BY <1>1, <1>2, <1>3
  <2> QED
    BY <1>4, <2>1, TreesMonotone
<1>11. Conjunction(p, n)
  BY <1>2, <1>8, <1>9, <1>10 DEF Conjunction, Says, Faithful
<1> QED
  BY <1>11 DEF p

\* What has been read stays as it is.
Longer(y, x) ==
  /\ x \in Seq(Tokens) /\ y \in Seq(Tokens) /\ Len(x) <= Len(y)
  /\ \A i \in 1 .. Len(x) : y[i] = x[i]

LEMMA SamePiece ==
  ASSUME NEW x, NEW y, Longer(y, x), NEW a \in Nat, NEW b \in Int, 1 <= a, a <= b + 1, b <= Len(x)
  PROVE  SubSeq(y, a, b) = SubSeq(x, a, b)
<1> DEFINE p == SubSeq(x, a, b)
           q == SubSeq(y, a, b)
           m == (b + 1) - a
<1>1. x \in Seq(Tokens) /\ y \in Seq(Tokens) /\ Len(x) \in Nat /\ Len(y) \in Nat /\ b <= Len(y) /\ a >= 1
  BY DEF Longer
<1>2. p \in Seq(Tokens) /\ Len(p) = m /\ \A k \in 1 .. m : p[k] = x[(a + k) - 1]
  BY <1>1, PieceIs
<1>3. q \in Seq(Tokens) /\ Len(q) = m /\ \A k \in 1 .. m : q[k] = y[(a + k) - 1]
  BY <1>1, PieceIs
<1>4. ASSUME NEW k \in 1 .. m PROVE y[(a + k) - 1] = x[(a + k) - 1]
  <2>1. (a + k) - 1 \in 1 .. Len(x)
    BY <1>1
  <2> QED
    BY <2>1 DEF Longer
<1> HIDE DEF p, q, m
<1>5. p = q
  BY <1>2, <1>3, <1>4, SameText
<1> QED
  BY <1>5 DEF p, q

LEMMA BegunStays ==
  ASSUME NEW x, NEW y, Longer(y, x), NEW f \in Frame, NEW e, Begun(x, f, e)
  PROVE  Begun(y, f, e)
<1>1. f.from \in Nat /\ f.mid \in Nat /\ Len(x) \in Nat /\ Len(y) \in Nat /\ Len(x) <= Len(y)
  BY DEF Frame, Longer
<1>2. e \in Nat /\ 1 <= f.from /\ f.from <= f.mid /\ f.mid <= e + 1 /\ e <= Len(x)
  BY DEF Begun
<1>3. e <= Len(y)
  BY <1>1, <1>2
<1>4. CASE f.or = NoNode /\ f.mid = f.from
  BY <1>2, <1>3, <1>4 DEF Begun
<1>5. CASE /\ f.from < f.mid - 1 /\ x[f.mid - 1] = "||"
           /\ Says(SubSeq(x, f.from, f.mid - 2), f.or)
  <2>1. f.mid - 1 \in 1 .. Len(x) /\ f.mid - 2 \in Int /\ f.from <= (f.mid - 2) + 1 /\ f.mid - 2 <= Len(x)
    BY <1>1, <1>2, <1>5
  <2>2. y[f.mid - 1] = x[f.mid - 1]
    BY <2>1 DEF Longer
  <2>3. SubSeq(y, f.from, f.mid - 2) = SubSeq(x, f.from, f.mid - 2)
    BY ZenonT(40), <1>1, <1>2, <2>1, SamePiece
  <2> QED
    BY <1>2, <1>3, <1>5, <2>2, <2>3 DEF Begun
<1> QED
  BY <1>4, <1>5 DEF Begun

LEMMA WaitingStays ==
  ASSUME NEW x, NEW y, Longer(y, x), NEW f \in Frame, NEW e, Waiting(x, f, e)
  PROVE  Waiting(y, f, e)
<1>1. Begun(y, f, e) /\ Begun(x, f, e)
  BY BegunStays DEF Waiting
<1>2. f.from \in Nat /\ f.mid \in Nat /\ Len(x) \in Nat
  BY DEF Frame, Longer
<1>3. e \in Nat /\ 1 <= f.from /\ f.from <= f.mid /\ f.mid <= e + 1 /\ e <= Len(x)
  BY <1>1 DEF Begun
<1>4. CASE f.and = NoNode /\ f.mid = e + 1
  BY <1>1, <1>4 DEF Waiting
<1>5. CASE f.mid < e /\ x[e] = "&&" /\ Conjunction(SubSeq(x, f.mid, e - 1), f.and)
  <2>1. e \in 1 .. Len(x) /\ e - 1 \in Int /\ 1 <= f.mid /\ f.mid <= (e - 1) + 1 /\ e - 1 <= Len(x)
    BY <1>2, <1>3, <1>5
  <2>2. y[e] = x[e]
    BY <2>1 DEF Longer
  <2>3. SubSeq(y, f.mid, e - 1) = SubSeq(x, f.mid, e - 1)
    BY <1>2, <2>1, SamePiece
  <2> QED
    BY <1>1, <1>5, <2>2, <2>3 DEF Waiting
<1> QED
  BY <1>4, <1>5 DEF Waiting

LEMMA CompleteStays ==
  ASSUME NEW x, NEW y, Longer(y, x), NEW f \in Frame, NEW e, Complete(x, f, e)
  PROVE  Complete(y, f, e)
<1>1. Begun(y, f, e) /\ Begun(x, f, e) /\ f.mid <= e /\ Conjunction(SubSeq(x, f.mid, e), f.and)
  BY BegunStays DEF Complete
<1>2. f.from \in Nat /\ f.mid \in Nat /\ Len(x) \in Nat
  BY DEF Frame, Longer
<1>3. e \in Nat /\ 1 <= f.from /\ f.from <= f.mid /\ e <= Len(x)
  BY <1>1 DEF Begun
<1>4. e \in Int /\ 1 <= f.mid /\ f.mid <= e + 1
  BY <1>1, <1>2, <1>3
<1>5. SubSeq(y, f.mid, e) = SubSeq(x, f.mid, e)
  BY ZenonT(40), <1>2, <1>3, <1>4, SamePiece
<1> QED
  BY <1>1, <1>5 DEF Complete

\* unit() returns to the activation that waits for it.
LEMMA UnitCompletes ==
  ASSUME NEW x \in Seq(Tokens), Len(x) <= MaxTokens, NEW f \in Frame, NEW e, NEW g \in Nat,
         Waiting(x, f, e), e < g, g <= Len(x), NEW n, Conjunction(SubSeq(x, e + 1, g), n)
  PROVE  Complete(x, UnitRead(f, n), g) /\ UnitRead(f, n) \in Frame
<1> DEFINE c == IF f.and = NoNode THEN n ELSE And(f.and, n)
           h == UnitRead(f, n)
<1>1. f.from \in Nat /\ f.mid \in Nat /\ Len(x) \in Nat /\ f.or \in Node \cup {NoNode}
  BY DEF Frame
<1>2. /\ Begun(x, f, e) /\ e \in Nat /\ 1 <= f.from /\ f.from <= f.mid /\ f.mid <= e + 1
      /\ e <= Len(x)
  BY DEF Waiting, Begun
<1>3. f.mid <= g
  BY <1>1, <1>2
<1>4. Conjunction(SubSeq(x, f.mid, g), c)
  <2>1. CASE f.and = NoNode /\ f.mid = e + 1
    BY <2>1
  <2>2. CASE f.mid < e /\ x[e] = "&&" /\ Conjunction(SubSeq(x, f.mid, e - 1), f.and)
    <3>1. /\ Says(SubSeq(x, f.mid, e - 1), f.and) /\ Tops(SubSeq(x, f.mid, e - 1), "||") = {}
          /\ Says(SubSeq(x, e + 1, g), n) /\ Tops(SubSeq(x, e + 1, g), "||") = {}
      BY <2>2 DEF Conjunction
    <3>2. f.and # NoNode
      <4>1. /\ Len(SubSeq(x, f.mid, e - 1)) = ((e - 1) + 1) - f.mid
        <5>1. e - 1 \in Int /\ f.mid >= 1 /\ e - 1 <= Len(x) /\ f.mid <= (e - 1) + 1
          BY <1>1, <1>2, <2>2
        <5> QED
          BY <1>1, <5>1, PieceIs
      <4>2. Len(SubSeq(x, f.mid, e - 1)) <= MaxTokens
        BY <1>1, <1>2, <4>1, FilterAssumption
      <4> QED
        BY <3>1, <4>2, SaysTyped
    <3>3. 1 <= f.mid /\ f.mid <= e /\ e <= g
      BY <1>1, <1>2, <2>2
    <3>4. Conjunction(SubSeq(x, f.mid, g), Join("&&", f.and, n))
      BY <1>1, <1>2, <2>2, <3>1, <3>3, JoinPiece
    <3>5. Join("&&", f.and, n) = And(f.and, n)
      BY DEF Join
    <3> QED
      BY <3>2, <3>4, <3>5
  <2> QED
    BY <2>1, <2>2 DEF Waiting
<1> HIDE DEF c
<1>5. h = [f EXCEPT !.and = c]
  BY DEF UnitRead, c
<1>6. h.from = f.from /\ h.mid = f.mid /\ h.or = f.or /\ h.and = c
  BY <1>5 DEF Frame
<1>7. c \in Node
  <2>1. Len(SubSeq(x, f.mid, g)) <= MaxTokens
    <3>1. Len(SubSeq(x, f.mid, g)) = (g + 1) - f.mid
      <4>1. g \in Int /\ f.mid >= 1 /\ g <= Len(x) /\ f.mid <= g + 1
        BY <1>1, <1>2, <1>3
      <4> QED
        BY <1>1, <4>1, PieceIs
    <3> QED
      BY <1>1, <1>2, <3>1, FilterAssumption
  <2> QED
    BY <1>4, <2>1, SaysTyped DEF Conjunction
<1>8. h \in Frame
  BY <1>5, <1>7 DEF Frame
<1> HIDE DEF h
<1>9. Begun(x, h, g)
  <2>1. h.mid <= g + 1
    BY <1>1, <1>2, <1>3, <1>6
  <2>2. \/ h.or = NoNode /\ h.mid = h.from
        \/ /\ h.from < h.mid - 1 /\ x[h.mid - 1] = "||"
           /\ Says(SubSeq(x, h.from, h.mid - 2), h.or)
    BY <1>2, <1>6 DEF Begun
  <2> QED
    BY <1>2, <1>6, <2>1, <2>2 DEF Begun
<1>10. Complete(x, h, g)
  BY <1>3, <1>4, <1>6, <1>9 DEF Complete
<1> QED
  BY <1>8, <1>10 DEF h

\* expr() returns.
LEMMA ExprReadSays ==
  ASSUME NEW x \in Seq(Tokens), Len(x) <= MaxTokens, NEW f \in Frame, NEW e, Complete(x, f, e)
  PROVE  Says(SubSeq(x, f.from, e), ExprRead(f))
<1>1. f.from \in Nat /\ f.mid \in Nat /\ Len(x) \in Nat
  BY DEF Frame
<1>2. /\ e \in Nat /\ 1 <= f.from /\ f.from <= f.mid /\ f.mid <= e /\ e <= Len(x)
      /\ Says(SubSeq(x, f.mid, e), f.and)
  BY DEF Complete, Begun, Conjunction
<1>3. CASE f.or = NoNode /\ f.mid = f.from
  BY <1>2, <1>3 DEF ExprRead
<1>4. CASE /\ f.from < f.mid - 1 /\ x[f.mid - 1] = "||"
           /\ Says(SubSeq(x, f.from, f.mid - 2), f.or)
  <2> DEFINE i == f.mid - 1
  <2>1. i \in Nat /\ f.from <= i /\ i <= e /\ i - 1 = f.mid - 2 /\ i + 1 = f.mid
    BY <1>1, <1>2, <1>4
  <2>2. f.or # NoNode
    <3>1. f.mid - 2 \in Int /\ f.from <= (f.mid - 2) + 1 /\ f.mid - 2 <= Len(x)
      BY <1>1, <1>2, <1>4
    <3>2. Len(SubSeq(x, f.from, f.mid - 2)) = ((f.mid - 2) + 1) - f.from
      BY <1>1, <1>2, <3>1, PieceIs
    <3>3. Len(SubSeq(x, f.from, f.mid - 2)) <= MaxTokens
      BY <1>1, <1>2, <3>2, FilterAssumption
    <3> QED
      BY <1>4, <3>3, SaysTyped
  <2>3. Says(SubSeq(x, f.from, i - 1), f.or) /\ Says(SubSeq(x, i + 1, e), f.and) /\ x[i] = "||"
    BY <1>2, <1>4, <2>1
  <2> HIDE DEF i
  <2>4. Says(SubSeq(x, f.from, e), Join("||", f.or, f.and))
    BY <1>1, <1>2, <2>1, <2>3, JoinPiece
  <2> QED
    BY <2>2, <2>4 DEF ExprRead, Join
<1>5. \/ f.or = NoNode /\ f.mid = f.from
      \/ /\ f.from < f.mid - 1 /\ x[f.mid - 1] = "||"
         /\ Says(SubSeq(x, f.from, f.mid - 2), f.or)
  BY DEF Complete, Begun
<1> QED
  BY <1>3, <1>4, <1>5

-----------------------------------------------------------------------------
(* What means something is written as the grammar has it: a text that the  *)
(* parser refuses at one of its tokens means nothing.                      *)

Fits(x) ==
  /\ Len(x) > 0 /\ ~ AskedFor(x, Len(x)) /\ Balanced(x)
  /\ \A i \in 1 .. Len(x) : AskedFor(x, i - 1) <=> x[i] \in Starters

LEMMA StartersAre ==
  /\ \A t \in {"||", "&&", ")"} : t \notin Starters
  /\ "(" \in Starters
  /\ \A a \in Atoms \cup {Row} : a \in Starters /\ a \notin {"(", "&&", "||"}
BY FilterAssumption DEF Starters, Signs

LEMMA FitsHalves ==
  ASSUME NEW x \in Seq(Tokens), NEW t \in {"||", "&&"}, NEW i \in 1 .. Len(x), x[i] = t,
         Fits(Before(x, i)), Fits(After(x, i))
  PROVE  Fits(x)
<1> DEFINE u == Before(x, i)
           v == After(x, i)
           n == Len(x)
<1>1. n \in Nat /\ i \in Nat /\ i >= 1 /\ i <= n
  OBVIOUS
<1>2. /\ Len(u) = i - 1 /\ \A j \in 1 .. i - 1 : u[j] = x[j]
      /\ Len(v) = n - i /\ \A j \in 1 .. n - i : v[j] = x[i + j]
  BY HalvesAre
<1>3. Balanced(x)
  BY BalancedHalves DEF Fits
<1> HIDE DEF u, v, n
<1>4. i - 1 > 0 /\ n - i > 0
  BY <1>2 DEF Fits, u, v
<1>5. /\ ~ AskedFor(u, i - 1) /\ \A j \in 1 .. i - 1 : AskedFor(u, j - 1) <=> u[j] \in Starters
  BY <1>2 DEF Fits, u
<1>6. /\ ~ AskedFor(v, n - i) /\ \A j \in 1 .. n - i : AskedFor(v, j - 1) <=> v[j] \in Starters
  BY <1>2 DEF Fits, v
<1>7. ASSUME NEW j \in 0 .. i - 1 PROVE AskedFor(x, j) <=> AskedFor(u, j)
  <2>1. CASE j = 0
    BY <2>1 DEF AskedFor
  <2>2. CASE j # 0
    <3>1. j \in 1 .. i - 1
      BY <1>1, <2>2
    <3> QED
      BY <1>2, <3>1 DEF AskedFor
  <2> QED
    BY <2>1, <2>2
<1>8. ASSUME NEW j \in 1 .. n - i PROVE AskedFor(x, i + j) <=> AskedFor(v, j)
  <2>1. j # 0 /\ i + j # 0
    BY <1>1
  <2> QED
    BY <1>2, <2>1 DEF AskedFor
<1>9. AskedFor(x, i)
  BY <1>1 DEF AskedFor
<1>10. ~ AskedFor(x, n)
  <2>1. n - i \in 1 .. n - i /\ i + (n - i) = n
    BY <1>1, <1>4
  <2> QED
    BY <1>6, <1>8, <2>1
<1>11. ASSUME NEW j \in 1 .. n PROVE AskedFor(x, j - 1) <=> x[j] \in Starters
  <2>1. CASE j < i
    <3>1. j \in 1 .. i - 1 /\ j - 1 \in 0 .. i - 1
      BY <1>1, <2>1
    <3>2. (AskedFor(x, j - 1) <=> AskedFor(u, j - 1)) /\ u[j] = x[j]
      BY <1>2, <1>7, <3>1
    <3> QED
      BY <1>5, <3>1, <3>2
  <2>2. CASE j = i
    <3>1. i - 1 \in 0 .. i - 1
      BY <1>1
    <3>2. ~ AskedFor(x, i - 1)
      BY <1>5, <1>7, <3>1
    <3> QED
      BY <2>2, <3>2, StartersAre
  <2>3. CASE j = i + 1
    <3>1. 1 \in 1 .. n - i /\ j - 1 = i /\ 1 - 1 = 0
      BY <1>1, <1>4, <2>3
    <3>2. v[1] \in Starters
      <4>1. AskedFor(v, 0)
        BY DEF AskedFor
      <4> QED
        BY <1>6, <3>1, <4>1
    <3> QED
      BY <1>2, <1>9, <2>3, <3>1, <3>2
  <2>4. CASE j > i + 1
    <3> DEFINE k == j - i
    <3>1. k \in 1 .. n - i /\ k - 1 \in 1 .. n - i /\ i + k = j /\ i + (k - 1) = j - 1
      BY <1>1, <2>4
    <3> HIDE DEF k
    <3>2. (AskedFor(x, j - 1) <=> AskedFor(v, k - 1)) /\ v[k] = x[j]
      BY <1>2, <1>8, <3>1
    <3> QED
      BY <1>6, <3>1, <3>2
  <2> QED
    BY <1>1, <2>1, <2>2, <2>3, <2>4
<1>12. n > 0
  BY <1>1
<1> QED
  BY <1>3, <1>10, <1>11, <1>12 DEF Fits, n

LEMMA FitsParen ==
  ASSUME NEW p \in Seq(Tokens), Len(p) > 2, p[1] = "(", p[Len(p)] = ")",
         Fits(SubSeq(p, 2, Len(p) - 1))
  PROVE  Fits(p)
<1> DEFINE x == SubSeq(p, 2, Len(p) - 1)
           n == Len(p) - 2
<1>1. n \in Nat /\ n > 0 /\ Len(p) = n + 2
  OBVIOUS
<1>2. x \in Seq(Tokens) /\ Len(x) = n /\ \A j \in 1 .. n : x[j] = p[1 + j]
  BY InnerIs
<1>3. Balanced(x) /\ ~ AskedFor(x, n) /\ \A j \in 1 .. n : AskedFor(x, j - 1) <=> x[j] \in Starters
  BY <1>2 DEF Fits
<1>4. Balanced(p)
  <2>1. SubSeq(p, 2, Len(p) - 1) = x
    OBVIOUS
  <2> HIDE DEF x, n
  <2> QED
    BY <1>1, <1>2, <1>3, <2>1, Enclosed
<1> HIDE DEF x, n
<1>5. ASSUME NEW j \in 1 .. n PROVE AskedFor(p, 1 + j) <=> AskedFor(x, j)
  <2>1. j # 0 /\ 1 + j # 0
    BY <1>1
  <2> QED
    BY <1>2, <2>1 DEF AskedFor
<1>6. AskedFor(p, 0) /\ AskedFor(p, 1)
  BY DEF AskedFor
<1>7. ~ AskedFor(p, n + 2)
  BY <1>1 DEF AskedFor
<1>8. ASSUME NEW j \in 1 .. n + 2 PROVE AskedFor(p, j - 1) <=> p[j] \in Starters
  <2>1. CASE j = 1
    <3>1. j - 1 = 0
      BY <2>1
    <3> QED
      BY <1>6, <2>1, <3>1, StartersAre
  <2>2. CASE j = 2
    <3>1. j - 1 = 1 /\ 1 \in 1 .. n /\ 1 + 1 = 2 /\ 1 - 1 = 0
      BY <1>1, <2>2
    <3>2. AskedFor(x, 0)
      BY DEF AskedFor
    <3>3. x[1] \in Starters /\ x[1] = p[2]
      BY <1>2, <1>3, <3>1, <3>2
    <3> QED
      BY <1>6, <2>2, <3>1, <3>3
  <2>3. CASE j > 2 /\ j < n + 2
    <3> DEFINE k == j - 1
    <3>1. k \in 1 .. n /\ k - 1 \in 1 .. n /\ 1 + k = j /\ 1 + (k - 1) = j - 1
      BY <1>1, <2>3
    <3> HIDE DEF k
    <3>2. (AskedFor(p, j - 1) <=> AskedFor(x, k - 1)) /\ x[k] = p[j]
      BY <1>2, <1>5, <3>1
    <3> QED
      BY <1>3, <3>1, <3>2
  <2>4. CASE j = n + 2
    <3>1. n \in 1 .. n /\ 1 + n = j - 1
      BY <1>1, <2>4
    <3>2. ~ AskedFor(p, j - 1)
      BY <1>3, <1>5, <3>1
    <3>3. p[j] = ")"
      BY <1>1, <2>4
    <3> QED
      BY <3>2, <3>3, StartersAre
  <2> QED
    BY <1>1, <2>1, <2>2, <2>3, <2>4
<1> QED
  BY <1>1, <1>4, <1>7, <1>8 DEF Fits

LEMMA MeaningFits ==
  ASSUME NEW atom \in Assignments
  PROVE  \A x \in Seq(Tokens) : Means(x, atom) # -1 => Fits(x)
<1> DEFINE S == {x \in Seq(Tokens) : Means(x, atom) # -1 => Fits(x)}
<1>1. ASSUME NEW x \in Seq(Tokens), \A y \in Seq(Tokens) : Len(y) < Len(x) => y \in S PROVE x \in S
  <2> SUFFICES ASSUME Means(x, atom) # -1 PROVE Fits(x)
    OBVIOUS
  <2>1. ASSUME NEW t \in {"||", "&&"}, Loosest(x, t), Tops(x, t) # {} PROVE Fits(x)
    <3> DEFINE i == Max(Tops(x, t))
               u == Before(x, i)
               v == After(x, i)
    <3>1. Means(x, atom) = Joined(t, Means(u, atom), Means(v, atom))
      BY <2>1, MeansJoined
    <3>2. i \in 1 .. Len(x) /\ x[i] = t
      BY <2>1, LastTop, TopIs
    <3> HIDE DEF i
    <3>3. u \in Seq(Tokens) /\ Len(u) = i - 1 /\ v \in Seq(Tokens) /\ Len(v) = Len(x) - i
      BY <3>2, HalvesAre
    <3>4. Len(u) < Len(x) /\ Len(v) < Len(x)
      BY <3>2, <3>3
    <3>5. Means(u, atom) \in Worths /\ Means(v, atom) \in Worths
      BY <3>3, MeansWorths
    <3> HIDE DEF u, v
    <3>6. Means(u, atom) # -1 /\ Means(v, atom) # -1
      BY <3>1, <3>5, EitherBoth DEF Joined
    <3>7. Fits(u) /\ Fits(v)
      BY <1>1, <3>3, <3>4, <3>6
    <3> QED
      BY <3>2, <3>7, FitsHalves DEF u, v
  <2>2. CASE Tops(x, "||") # {}
    <3>1. Loosest(x, "||")
      BY DEF Loosest
    <3> QED
      BY <2>1, <2>2, <3>1
  <2>3. CASE Tops(x, "||") = {} /\ Tops(x, "&&") # {}
    <3>1. Loosest(x, "&&")
      BY <2>3 DEF Loosest
    <3> QED
      BY <2>1, <2>3, <3>1
  <2>4. CASE Tops(x, "||") = {} /\ Tops(x, "&&") = {}
    <3>1. CASE Len(x) = 1 /\ x[1] \in Atoms \cup {Row}
      <4>1. Balanced(x)
        BY <3>1, OneToken
      <4>2. ~ AskedFor(x, 1)
        BY <3>1, StartersAre DEF AskedFor
      <4>3. \A i \in 1 .. 1 : AskedFor(x, i - 1) <=> x[i] \in Starters
        <5>1. \A i \in 1 .. 1 : i = 1 /\ i - 1 = 0
          OBVIOUS
        <5>2. AskedFor(x, 0) /\ x[1] \in Starters
          BY <3>1, StartersAre DEF AskedFor
        <5> QED
          BY <5>1, <5>2
      <4> QED
        BY <3>1, <4>1, <4>2, <4>3 DEF Fits
    <3>2. CASE Len(x) > 2 /\ x[1] = "(" /\ x[Len(x)] = ")"
      <4> DEFINE y == SubSeq(x, 2, Len(x) - 1)
      <4>1. y \in Seq(Tokens) /\ Len(y) = Len(x) - 2 /\ Means(y, atom) = Means(x, atom)
        BY <2>4, <3>2, InnerIs, MeansOne
      <4> HIDE DEF y
      <4>2. Len(y) < Len(x)
        BY <4>1
      <4>3. Fits(y)
        BY <1>1, <4>1, <4>2
      <4> QED
        BY <3>2, <4>3, FitsParen DEF y
    <3> QED
      BY <2>4, <3>1, <3>2, MeansOne
  <2> QED
    BY <2>2, <2>3, <2>4
<1>2. S \in SUBSET Seq(Tokens)
  OBVIOUS
<1> HIDE DEF S
<1>3. \A x \in Seq(Tokens) : x \in S
  BY ONLY <1>1, <1>2, TextInduction
<1> USE DEF S
<1> QED
  BY <1>3

-----------------------------------------------------------------------------
(* A step of the parser.                                                   *)

LEMMA Appended ==
  ASSUME NEW x \in Seq(Tokens), NEW t \in Tokens, NEW y, y = Append(x, t)
  PROVE  /\ Longer(y, x) /\ Len(y) = Len(x) + 1 /\ y[Len(x) + 1] = t
         /\ \A k \in 0 .. Len(x) : Nested(y, k) = Nested(x, k)
         /\ \A k \in 0 .. Len(x) : AskedFor(y, k) <=> AskedFor(x, k)
         /\ AskedFor(y, Len(x) + 1) <=> t \in {"(", "&&", "||"}
<1>1. y \in Seq(Tokens) /\ Len(y) = Len(x) + 1 /\ y[Len(x) + 1] = t /\ Len(x) \in Nat
  OBVIOUS
<1>2. \A i \in 1 .. Len(x) : y[i] = x[i]
  OBVIOUS
<1>3. Longer(y, x)
  BY <1>1, <1>2 DEF Longer
<1>4. \A k \in 0 .. Len(x) : Nested(y, k) = Nested(x, k)
  BY <1>1, <1>2, NestedPrefix
<1>5. ASSUME NEW k \in 0 .. Len(x) PROVE AskedFor(y, k) <=> AskedFor(x, k)
  <2>1. CASE k = 0
    BY <2>1 DEF AskedFor
  <2>2. CASE k # 0
    <3>1. k \in 1 .. Len(x)
      BY <1>1, <2>2
    <3> QED
      BY <1>2, <3>1 DEF AskedFor
  <2> QED
    BY <2>1, <2>2
<1>6. AskedFor(y, Len(x) + 1) <=> t \in {"(", "&&", "||"}
  <2>1. Len(x) + 1 # 0
    BY <1>1
  <2> QED
    BY <1>1, <2>1 DEF AskedFor
<1> QED
  BY <1>1, <1>3, <1>4, <1>5, <1>6

LEMMA NestingStays ==
  ASSUME NEW x, NEW y, Longer(y, x), NEW s \in Seq(Frame), Nesting(x, s)
  PROVE  Nesting(y, s)
<1> SUFFICES ASSUME NEW k \in 1 .. Len(s) - 1
             PROVE  /\ s[k + 1].from - 1 \in 1 .. Len(y) /\ y[s[k + 1].from - 1] = "("
                    /\ Waiting(y, s[k], s[k + 1].from - 2)
  BY DEF Nesting
<1>1. /\ s[k + 1].from - 1 \in 1 .. Len(x) /\ x[s[k + 1].from - 1] = "("
      /\ Waiting(x, s[k], s[k + 1].from - 2)
  BY DEF Nesting
<1>2. s[k] \in Frame
  <2>1. k \in 1 .. Len(s)
    OBVIOUS
  <2> QED
    BY <2>1
<1>3. Waiting(y, s[k], s[k + 1].from - 2)
  BY <1>1, <1>2, WaitingStays
<1>4. y[s[k + 1].from - 1] = x[s[k + 1].from - 1]
  BY <1>1 DEF Longer
<1>5. \A i \in 1 .. Len(x) : i \in 1 .. Len(y)
  <2>1. Len(x) \in Nat /\ Len(y) \in Nat /\ Len(x) <= Len(y)
    BY DEF Longer
  <2> QED
    BY <2>1
<1> QED
  BY <1>1, <1>3, <1>4, <1>5

\* Only the activation at the top changes.
Topped(s, g) == [s EXCEPT ![Len(s)] = g]

LEMMA TopReplaced ==
  ASSUME NEW x, NEW s \in Seq(Frame), s # <<>>, Nesting(x, s), NEW g \in Frame,
         g.from = s[Len(s)].from, NEW r, r = Topped(s, g)
  PROVE  /\ r \in Seq(Frame) /\ r # <<>> /\ Len(r) = Len(s) /\ r[Len(s)] = g
         /\ r[1].from = s[1].from /\ Nesting(x, r)
<1>1. Len(s) \in Nat /\ Len(s) >= 1
  OBVIOUS
<1>2. r \in Seq(Frame) /\ Len(r) = Len(s) /\ r[Len(s)] = g
  BY <1>1 DEF Topped
<1>3. \A k \in 1 .. Len(s) : k # Len(s) => r[k] = s[k]
  BY DEF Topped
<1>4. \A k \in 1 .. Len(s) : r[k].from = s[k].from
  BY <1>2, <1>3
<1>5. ASSUME NEW k \in 1 .. Len(s) - 1
      PROVE  /\ r[k + 1].from - 1 \in 1 .. Len(x) /\ x[r[k + 1].from - 1] = "("
             /\ Waiting(x, r[k], r[k + 1].from - 2)
  <2>1. k \in 1 .. Len(s) /\ k # Len(s) /\ k + 1 \in 1 .. Len(s)
    BY <1>1
  <2>2. r[k + 1].from = s[k + 1].from /\ r[k] = s[k]
    BY <1>3, <1>4, <2>1
  <2> QED
    BY <2>2 DEF Nesting
<1>6. Nesting(x, r)
  BY <1>2, <1>5 DEF Nesting
<1>7. r[1].from = s[1].from /\ r # <<>>
  <2>1. 1 \in 1 .. Len(s)
    BY <1>1
  <2>2. Len(r) # Len(<<>>)
    BY <1>1, <1>2
  <2> HIDE DEF Nesting
  <2> QED
    BY ONLY <1>4, <2>1, <2>2
<1> QED
  BY <1>2, <1>6, <1>7

\* What a step has before it, and the part of Running that it need not look
\* into its activations for.
Stepping(t) ==
  /\ ParserTypes /\ Running(input, stack, wants)
  /\ t \in Atoms \cup Signs /\ Len(input) < MaxTokens /\ input' = Append(input, t)

LEMMA StepFacts ==
  ASSUME NEW t, Stepping(t)
  PROVE  /\ input \in Seq(Tokens) /\ input' \in Seq(Tokens) /\ Longer(input', input)
         /\ Len(input) \in Nat /\ Len(input') = Len(input) + 1 /\ Len(input') <= MaxTokens
         /\ input' \in Seq(Atoms \cup Signs)
         /\ input'[Len(input) + 1] = t
         /\ stack \in Seq(Frame) /\ Len(stack) \in Nat /\ Len(stack) >= 1 /\ stack[Len(stack)] \in Frame
         /\ Nesting(input', stack)
<1>1. input \in Seq(Atoms \cup Signs) /\ t \in Atoms \cup Signs /\ Len(input) < MaxTokens /\ input' = Append(input, t)
  BY DEF Stepping, ParserTypes
<1>2. input \in Seq(Tokens) /\ t \in Tokens
  <2>1. Atoms \cup Signs \subseteq Tokens
    BY DEF Tokens
  <2> QED
    BY <1>1, <2>1
<1>3. Longer(input', input) /\ Len(input') = Len(input) + 1 /\ input'[Len(input) + 1] = t
  BY <1>1, <1>2, Appended
<1>4. input' \in Seq(Tokens) /\ Len(input) \in Nat /\ Len(input') <= MaxTokens /\ input' \in Seq(Atoms \cup Signs)
  BY <1>1, <1>2, <1>3, FilterAssumption
<1>5. stack \in Seq(Frame) /\ stack # <<>> /\ Nesting(input, stack)
  BY DEF Stepping, ParserTypes, Running
<1>6. Len(stack) \in Nat /\ Len(stack) >= 1
  BY <1>5
<1>7. stack[Len(stack)] \in Frame
  BY <1>5, <1>6
<1>8. Nesting(input', stack)
  BY <1>3, <1>5, NestingStays
<1> QED
  BY <1>2, <1>3, <1>4, <1>5, <1>6, <1>7, <1>8

LEMMA NestedNext ==
  ASSUME NEW t, Stepping(t)
  PROVE  /\ Nested(input', Len(input')) \in Int /\ Len(stack) \in Int
         /\ t = "(" => Nested(input', Len(input')) = Len(stack)
         /\ t = ")" => Nested(input', Len(input')) = Len(stack) - 2
         /\ t \notin {"(", ")"} => Nested(input', Len(input')) = Len(stack) - 1
         /\ Depth = Len(stack) - 1
<1> DEFINE n == Len(input)
<1>1. n \in Nat /\ Len(input') = n + 1 /\ input'[n + 1] = t /\ Len(stack) \in Nat
  BY StepFacts
<1>2. t \in Tokens /\ input \in Seq(Tokens) /\ input' = Append(input, t)
  BY StepFacts DEF Stepping, Tokens
<1>3. Nested(input', n) = Nested(input, n)
  <2>1. n \in 0 .. n
    BY <1>1
  <2> QED
    BY <1>2, <2>1, Appended
<1>4. Len(stack) = Nested(input, n) + 1 /\ Nested(input, n) \in Int
  BY <1>1, NestedStep DEF Stepping, Running
<1> HIDE DEF n
<1>5. /\ t = "(" => Nested(input', n + 1) = Nested(input', n) + 1
      /\ t = ")" => Nested(input', n + 1) = Nested(input', n) - 1
      /\ t \notin {"(", ")"} => Nested(input', n + 1) = Nested(input', n)
  BY <1>1, NestedStep
<1>6. Nested(input', n + 1) \in Int /\ n + 1 \in Nat
  <2>1. n + 1 \in Nat
    BY <1>1
  <2> QED
    BY <2>1, NestedStep
<1>7. /\ t = "(" => Nested(input', n + 1) = Len(stack)
      /\ t = ")" => Nested(input', n + 1) = Len(stack) - 2
      /\ t \notin {"(", ")"} => Nested(input', n + 1) = Len(stack) - 1
  BY <1>1, <1>3, <1>4, <1>5
<1> QED
  BY <1>1, <1>6, <1>7 DEF Depth

LEMMA RunningNext ==
  ASSUME NEW t, Stepping(t), NEW s \in Seq(Frame), NEW w \in BOOLEAN,
         s # <<>>, s[1].from = 1, Len(s) = Nested(input', Len(input')) + 1,
         Nested(input', Len(input')) <= MAX_DEPTH, w <=> t \in {"(", "&&", "||"}, Nesting(input', s),
         w => Waiting(input', s[Len(s)], Len(input')),
         ~w => Complete(input', s[Len(s)], Len(input'))
  PROVE  Running(input', s, w)
<1> DEFINE n == Len(input)
<1>1. n \in Nat /\ Len(input') = n + 1 /\ t \in Tokens /\ input \in Seq(Tokens) /\ input' = Append(input, t)
  BY StepFacts DEF Stepping, Tokens
<1>2. AskedFor(input', n + 1) <=> t \in {"(", "&&", "||"}
  BY <1>1, Appended
<1>3. \A k \in 0 .. n : Nested(input', k) = Nested(input, k)
  BY <1>1, Appended
<1>4. \A i \in 1 .. n : Nested(input, i) <= MAX_DEPTH
  BY DEF Stepping, Running
<1>5. \A i \in 1 .. n + 1 : Nested(input', i) <= MAX_DEPTH
  <2>1. ASSUME NEW i \in 1 .. n + 1 PROVE Nested(input', i) <= MAX_DEPTH
    <3>1. CASE i \in 1 .. n
      <4>1. i \in 0 .. n
        BY <1>1, <3>1
      <4> QED
        BY <1>3, <1>4, <3>1, <4>1
    <3>2. CASE i = n + 1
      BY <1>1, <3>2
    <3> QED
      BY <1>1, <3>1, <3>2
  <2> QED
    BY <2>1
<1> QED
  BY <1>1, <1>2, <1>5 DEF Running

LEMMA DepthAllowed == ASSUME NEW t, Stepping(t) PROVE Len(stack) - 1 <= MAX_DEPTH /\ MAX_DEPTH \in Nat
<1> DEFINE n == Len(input)
<1>1. n \in Nat /\ Len(stack) = Nested(input, n) + 1 /\ \A i \in 1 .. n : Nested(input, i) <= MAX_DEPTH
  BY StepFacts DEF Stepping, Running
<1>2. Nested(input, n) \in Int /\ MAX_DEPTH \in Nat
  BY <1>1, NestedStep, FilterAssumption
<1>3. CASE n = 0
  <2>1. Nested(input, n) = 0
    BY <1>3, NestedFirst
  <2> QED
    BY <1>1, <1>2, <2>1
<1>4. CASE n # 0
  <2>1. n \in 1 .. n
    BY <1>1, <1>4
  <2> QED
    BY <1>1, <1>2, <2>1
<1> QED
  BY <1>3, <1>4

\* The next state, from what RunningNext asks of it.
LEMMA InvNext ==
  ASSUME NEW t, Stepping(t), stack' \in Seq(Frame), wants' \in BOOLEAN, Running(input', stack', wants')
  PROVE  ParserInv'
<1>1. ParserTypes'
  BY StepFacts DEF ParserTypes
<1> QED
  BY <1>1 DEF ParserInv

LEMMA WantsNext ==
  ASSUME NEW t, Stepping(t), Accepts(t)
  PROVE  /\ t \in Atoms \cup {"("} => wants /\ Waiting(input', stack[Len(stack)], Len(input))
         /\ t \in {")", "&&", "||"} => ~wants /\ Complete(input', stack[Len(stack)], Len(input))
         /\ t \in Atoms => t \notin Signs
<1>1. \A a \in Atoms : a \notin Signs
  BY FilterAssumption
<1>2. wants <=> t \in Atoms \cup {"("}
  BY DEF Accepts
<1>3. stack[Len(stack)] \in Frame /\ Longer(input', input)
  BY StepFacts
<1>4. wants => Waiting(input, stack[Len(stack)], Len(input))
  BY DEF Stepping, Running
<1>5. ~wants => Complete(input, stack[Len(stack)], Len(input))
  BY DEF Stepping, Running
<1>6. t \in {")", "&&", "||"} => ~wants
  BY <1>1, <1>2 DEF Signs
<1>7. wants => Waiting(input', stack[Len(stack)], Len(input))
  BY <1>3, <1>4, WaitingStays
<1>8. ~wants => Complete(input', stack[Len(stack)], Len(input))
  BY <1>3, <1>5, CompleteStays
<1> QED
  BY <1>1, <1>2, <1>6, <1>7, <1>8

LEMMA ReadComparisonKeeps ==
  ASSUME NEW t, Stepping(t), ReadComparison(t)
  PROVE  ParserInv'
<1> DEFINE x == input'
           n == Len(input)
           f == stack[Len(stack)]
           g == UnitRead(f, Cmp(t))
           w == SubSeq(x, n + 1, n + 1)
<1>1. Accepts(t) /\ t \in Atoms /\ t \notin {"(", ")", "&&", "||"}
  BY FilterAssumption DEF ReadComparison, Signs
<1>2. /\ n \in Nat /\ Len(x) = n + 1 /\ Len(x) <= MaxTokens /\ x \in Seq(Tokens) /\ x[n + 1] = t
      /\ stack \in Seq(Frame) /\ f \in Frame /\ Nesting(x, stack)
  BY StepFacts
<1>3. Waiting(x, f, n)
  BY <1>1, WantsNext
<1>4. Conjunction(w, Cmp(t))
  <2>1. w \in Seq(Tokens) /\ Len(w) = 1 /\ w[1] = t
    <3>1. n + 1 \in Nat /\ n + 1 >= 1 /\ n + 1 \in Int /\ ((n + 1) + 1) - (n + 1) = 1 /\ ((n + 1) + 1) - 1 = n + 1 /\ 1 \in 1 .. 1
      BY <1>2
    <3>2. n + 1 <= (n + 1) + 1 /\ n + 1 <= Len(x)
      BY <1>2
    <3> HIDE DEF n, x
    <3> QED
      BY <1>2, <3>1, <3>2, PieceIs
  <2> HIDE DEF w
  <2>2. Reads(w, Cmp(t)) /\ Balanced(w) /\ Tops(w, "||") = {}
    BY <1>1, <2>1, ReadsAtom, OneToken
  <2>3. Cmp(t) \in Trees[1]
    <3>1. Cmp(t) \in Trees[0]
      BY <1>1, TreesFirst DEF Cmp, Cmps
    <3>2. Trees[0] \subseteq Trees[1]
      BY TreesMonotone
    <3> QED
      BY <3>1, <3>2
  <2> QED
    BY <2>1, <2>2, <2>3 DEF Conjunction, Says, Faithful
<1>5. Complete(x, g, n + 1) /\ g \in Frame
  <2>1. n + 1 \in Nat /\ n < n + 1 /\ n + 1 <= Len(x)
    BY <1>2
  <2> HIDE DEF n, x, f
  <2> QED
    BY <1>2, <1>3, <1>4, <2>1, UnitCompletes DEF x
<1>6. g.from = f.from
  BY <1>2 DEF UnitRead, Frame
<1>7. stack' = [stack EXCEPT ![Len(stack)] = g] /\ wants' = FALSE
  BY DEF ReadComparison
<1>8. stack # <<>> /\ stack[1].from = 1
  BY DEF Stepping, Running
<1> HIDE DEF x, n, f, g, w
<1>9. /\ stack' \in Seq(Frame) /\ stack' # <<>> /\ Len(stack') = Len(stack) /\ stack'[Len(stack)] = g
      /\ stack'[1].from = 1 /\ Nesting(x, stack')
  <2>1. g.from = stack[Len(stack)].from /\ g \in Frame /\ stack \in Seq(Frame) /\ Nesting(x, stack)
    BY <1>2, <1>5, <1>6 DEF f
  <2>2. stack' = Topped(stack, g)
    BY <1>7 DEF Topped
  <2> QED
    BY ONLY <1>8, <2>1, <2>2, TopReplaced
<1>10. Nested(x, Len(x)) = Len(stack) - 1 /\ Len(stack) - 1 <= MAX_DEPTH /\ Len(stack) \in Int
  BY <1>1, NestedNext, DepthAllowed DEF x
<1>11. Running(x, stack', wants')
  <2>1. Len(stack') = Nested(x, Len(x)) + 1 /\ Nested(x, Len(x)) <= MAX_DEPTH
    BY <1>9, <1>10
  <2>2. Complete(x, stack'[Len(stack')], Len(x))
    BY <1>2, <1>5, <1>9
  <2> QED
    BY <1>1, <1>7, <1>9, <2>1, <2>2, RunningNext DEF x
<1> QED
  BY <1>7, <1>9, <1>11, InvNext DEF x

LEMMA OpenKeeps ==
  ASSUME NEW t, Stepping(t), Open(t)
  PROVE  ParserInv'
<1> DEFINE x == input'
           n == Len(input)
           d == Len(stack)
           g == Call(n + 2)
<1>1. Accepts(t) /\ t = "(" /\ stack' = Append(stack, g) /\ wants' = TRUE /\ Depth < MAX_DEPTH
  BY DEF Open, Accepts
<1>2. /\ n \in Nat /\ Len(x) = n + 1 /\ x[n + 1] = t
      /\ stack \in Seq(Frame) /\ d \in Nat /\ d >= 1 /\ stack[d] \in Frame /\ Nesting(x, stack)
  BY StepFacts
<1>3. Waiting(x, stack[d], n)
  BY <1>1, WantsNext
<1>4. /\ g.or = NoNode /\ g.and = NoNode /\ g.from = n + 2 /\ g.mid = n + 2 /\ g \in Frame
  BY <1>2 DEF Call, Frame
<1> HIDE DEF x, n, d, g
<1>5. Waiting(x, g, n + 1)
  <2>1. n + 1 \in Nat /\ 1 <= n + 2 /\ n + 2 <= n + 2 /\ n + 2 = (n + 1) + 1 /\ n + 1 <= Len(x) /\ n + 2 <= (n + 1) + 1
    BY <1>2
  <2>2. Begun(x, g, n + 1)
    BY <1>4, <2>1 DEF Begun
  <2> QED
    BY <1>4, <2>1, <2>2 DEF Waiting
<1>6. stack' \in Seq(Frame) /\ Len(stack') = d + 1 /\ stack'[d + 1] = g /\ \A k \in 1 .. d : stack'[k] = stack[k]
  BY <1>1, <1>2, <1>4 DEF d
<1>7. Nesting(x, stack')
  <2>1. ASSUME NEW k \in 1 .. d
        PROVE  /\ stack'[k + 1].from - 1 \in 1 .. Len(x) /\ x[stack'[k + 1].from - 1] = "("
               /\ Waiting(x, stack'[k], stack'[k + 1].from - 2)
    <3>1. CASE k = d
      <4>1. stack'[k + 1].from = n + 2 /\ stack'[k] = stack[d] /\ (n + 2) - 1 = n + 1 /\ (n + 2) - 2 = n
        BY <1>2, <1>4, <1>6, <3>1
      <4>2. n + 1 \in 1 .. Len(x)
        BY <1>2
      <4> QED
        BY <1>1, <1>2, <1>3, <4>1, <4>2
    <3>2. CASE k # d
      <4>1. k \in 1 .. d - 1 /\ k + 1 \in 1 .. d
        BY <1>2, <3>2
      <4>2. stack'[k + 1] = stack[k + 1] /\ stack'[k] = stack[k]
        BY <1>6, <4>1
      <4> QED
        BY <1>2, <4>1, <4>2 DEF Nesting, d
    <3> QED
      BY <3>1, <3>2
  <2>2. Len(stack') - 1 = d
    BY <1>2, <1>6
  <2> QED
    BY <2>1, <2>2 DEF Nesting
<1>8. stack' # <<>> /\ stack'[1].from = 1
  <2>1. 1 \in 1 .. d /\ stack[1].from = 1
    BY <1>2 DEF Stepping, Running
  <2> QED
    BY <1>2, <1>6, <2>1
<1>9. Nested(x, Len(x)) = d /\ Depth = d - 1 /\ d \in Int
  BY <1>1, NestedNext DEF x, d
<1>10. Running(x, stack', wants')
  <2>1. Len(stack') = Nested(x, Len(x)) + 1 /\ Nested(x, Len(x)) <= MAX_DEPTH
    BY <1>1, <1>6, <1>9, FilterAssumption
  <2>2. Waiting(x, stack'[Len(stack')], Len(x))
    BY <1>2, <1>5, <1>6
  <2> QED
    BY <1>1, <1>6, <1>7, <1>8, <2>1, <2>2, RunningNext DEF x
<1> QED
  BY <1>1, <1>6, <1>10, InvNext DEF x

LEMMA CloseKeeps ==
  ASSUME NEW t, Stepping(t), Close(t)
  PROVE  ParserInv'
<1> DEFINE x == input'
           n == Len(input)
           d == Len(stack)
           f == stack[d]
           a == f.from - 1
           c == stack[d - 1]
           g == UnitRead(c, ExprRead(f))
<1>1. Accepts(t) /\ t = ")" /\ wants' = FALSE /\ Depth > 0 /\ stack' = [Caller EXCEPT ![Depth] = UnitRead(@, ExprRead(f))]
  BY DEF Close, Accepts
<1>2. /\ n \in Nat /\ Len(x) = n + 1 /\ x[n + 1] = t /\ x \in Seq(Tokens) /\ Len(x) <= MaxTokens
      /\ stack \in Seq(Frame) /\ d \in Nat /\ f \in Frame /\ Nesting(x, stack)
  BY StepFacts
<1>3. Complete(x, f, n)
  BY <1>1, WantsNext
<1>4. Depth = d - 1 /\ d > 1
  <2>1. Depth = d - 1
    BY DEF Depth
  <2> QED
    BY <1>1, <1>2, <2>1
<1> HIDE DEF x, n
<1>5. d - 1 \in 1 .. d - 1 /\ d - 1 \in 1 .. d /\ (d - 1) + 1 = d /\ c \in Frame
  <2>1. d - 1 \in 1 .. d - 1 /\ d - 1 \in 1 .. d /\ (d - 1) + 1 = d
    BY <1>2, <1>4
  <2>2. d - 1 \in 1 .. Len(stack)
    BY <2>1
  <2> HIDE DEF d
  <2> QED
    BY <1>2, <2>1, <2>2
<1> HIDE DEF d
<1>6. a \in 1 .. Len(x) /\ x[a] = "(" /\ Waiting(x, c, f.from - 2)
  <2>1. Len(stack) - 1 = d - 1
    BY DEF d
  <2> QED
    BY <1>2, <1>5, <2>1 DEF Nesting
<1>7. /\ a \in Nat /\ a + 1 = f.from /\ (n + 1) - 1 = n /\ 1 <= a /\ a < n + 1 /\ n + 1 <= Len(x) /\ n + 1 \in Nat
      /\ f.from - 2 < n + 1 /\ (f.from - 2) + 1 = a
  <2>1. f.from \in Nat /\ f.mid \in Nat
    BY <1>2 DEF Frame
  <2>2. f.from <= f.mid /\ f.mid <= n
    BY <1>3 DEF Complete, Begun
  <2> QED
    BY SMTT(40), <1>2, <1>6, <2>1, <2>2
<1>8. Conjunction(SubSeq(x, a, n + 1), ExprRead(f))
  <2>1. Says(SubSeq(x, f.from, n), ExprRead(f))
    BY <1>2, <1>3, ExprReadSays
  <2>2. Says(SubSeq(x, a + 1, (n + 1) - 1), ExprRead(f))
    BY <1>7, <2>1
  <2> HIDE DEF a, f
  <2> QED
    BY <1>1, <1>2, <1>6, <1>7, <2>2, ParenPiece
<1>9. Complete(x, g, n + 1) /\ g \in Frame
  <2> DEFINE e == f.from - 2
  <2>1. Waiting(x, c, e) /\ e < n + 1 /\ e + 1 = a
    BY <1>6, <1>7
  <2>2. Conjunction(SubSeq(x, e + 1, n + 1), ExprRead(f))
    BY <1>8, <2>1
  <2> HIDE DEF e, a, c, f
  <2> QED
    BY <1>2, <1>5, <1>7, <2>1, <2>2, UnitCompletes
<1>10. g.from = c.from
  BY <1>5 DEF UnitRead, Frame
<1> DEFINE s == SubSeq(stack, 1, d - 1)
<1>11. s \in Seq(Frame) /\ Len(s) = d - 1 /\ \A k \in 1 .. d - 1 : s[k] = stack[k]
  <2>1. d = Len(stack)
    BY DEF d
  <2> QED
    BY <1>2, <1>4, <2>1
<1>12. s # <<>> /\ s[1].from = 1
  <2>1. stack[1].from = 1 /\ 1 \in 1 .. d - 1
    BY <1>2, <1>4 DEF Stepping, Running
  <2> HIDE DEF s
  <2> QED
    BY <1>2, <1>4, <1>11, <2>1
<1>13. Nesting(x, s)
  <2>1. ASSUME NEW k \in 1 .. (d - 1) - 1
        PROVE  /\ s[k + 1].from - 1 \in 1 .. Len(x) /\ x[s[k + 1].from - 1] = "("
               /\ Waiting(x, s[k], s[k + 1].from - 2)
    <3>1. k \in 1 .. Len(stack) - 1 /\ k \in 1 .. d - 1 /\ k + 1 \in 1 .. d - 1
      BY <1>2, <1>4 DEF d
    <3>2. s[k + 1] = stack[k + 1] /\ s[k] = stack[k]
      BY <1>11, <3>1
    <3> QED
      BY <1>2, <3>1, <3>2 DEF Nesting
  <2> HIDE DEF s
  <2> QED
    BY <1>11, <2>1 DEF Nesting
<1>14. stack' = Topped(s, g)
  <2>1. Caller = s
    BY DEF Caller, d
  <2>2. stack' = [s EXCEPT ![d - 1] = UnitRead(s[d - 1], ExprRead(f))]
    BY <1>1, <1>4, <2>1
  <2>3. s[d - 1] = c
    BY <1>5, <1>11
  <2> QED
    BY <1>11, <2>2, <2>3 DEF Topped
<1> HIDE DEF s, g, a, c, f
<1>15. g.from = s[Len(s)].from
  <2>1. s[d - 1] = stack[d - 1]
    BY <1>5, <1>11
  <2> QED
    BY <1>10, <1>11, <2>1 DEF c
<1>16. /\ stack' \in Seq(Frame) /\ stack' # <<>> /\ Len(stack') = Len(s) /\ stack'[Len(s)] = g
       /\ stack'[1].from = 1 /\ Nesting(x, stack')
  <2>1. g \in Frame /\ s \in Seq(Frame)
    BY <1>9, <1>11
  <2> QED
    BY ONLY <1>12, <1>13, <1>14, <1>15, <2>1, TopReplaced
<1>17. Nested(x, Len(x)) = d - 2 /\ d - 1 <= MAX_DEPTH /\ d \in Int /\ MAX_DEPTH \in Nat
  BY <1>1, NestedNext, DepthAllowed DEF x, d
<1>18. Running(x, stack', wants')
  <2>1. Len(stack') = Nested(x, Len(x)) + 1 /\ Nested(x, Len(x)) <= MAX_DEPTH
    BY <1>11, <1>16, <1>17
  <2>2. Complete(x, stack'[Len(stack')], Len(x))
    BY <1>2, <1>9, <1>16
  <2>3. wants' \in BOOLEAN /\ ~wants' /\ t \notin {"(", "&&", "||"}
    BY <1>1
  <2> QED
    BY <1>16, <2>1, <2>2, <2>3, RunningNext DEF x
<1> QED
  BY <1>1, <1>16, <1>18, InvNext DEF x

LEMMA AndThenKeeps ==
  ASSUME NEW t, Stepping(t), AndThen(t)
  PROVE  ParserInv'
<1> DEFINE x == input'
           n == Len(input)
           f == stack[Len(stack)]
<1>1. Accepts(t) /\ t = "&&" /\ wants' = TRUE /\ stack' = stack
  BY DEF AndThen
<1>2. /\ n \in Nat /\ Len(x) = n + 1 /\ x[n + 1] = t
      /\ stack \in Seq(Frame) /\ f \in Frame /\ Nesting(x, stack)
  BY StepFacts
<1>3. Complete(x, f, n)
  BY <1>1, WantsNext
<1> HIDE DEF x, n, f
<1>4. Waiting(x, f, n + 1)
  <2>1. f.mid <= n /\ f.mid \in Nat /\ n + 1 \in Nat /\ (n + 1) - 1 = n
    BY <1>2, <1>3 DEF Complete, Frame
  <2>2. Begun(x, f, n + 1)
    <3>1. f.mid <= (n + 1) + 1 /\ n + 1 <= Len(x)
      BY <1>2, <2>1
    <3> QED
      BY <1>3, <2>1, <3>1 DEF Complete, Begun
  <2>3. f.mid < n + 1
    BY <1>2, <2>1
  <2> QED
    BY <1>1, <1>2, <1>3, <2>1, <2>2, <2>3 DEF Waiting, Complete
<1>5. stack # <<>> /\ stack[1].from = 1
  BY DEF Stepping, Running
<1>6. Nested(x, Len(x)) = Len(stack) - 1 /\ Len(stack) - 1 <= MAX_DEPTH /\ Len(stack) \in Int
  BY <1>1, NestedNext, DepthAllowed DEF x
<1>7. Running(x, stack, TRUE)
  <2>1. Len(stack) = Nested(x, Len(x)) + 1 /\ Nested(x, Len(x)) <= MAX_DEPTH
    BY <1>6
  <2>2. Waiting(x, stack[Len(stack)], Len(x))
    BY <1>2, <1>4 DEF f
  <2> QED
    BY <1>1, <1>2, <1>5, <2>1, <2>2, RunningNext DEF x
<1> QED
  BY <1>1, <1>2, <1>7, InvNext DEF x

LEMMA OrElseKeeps ==
  ASSUME NEW t, Stepping(t), OrElse(t)
  PROVE  ParserInv'
<1> DEFINE x == input'
           n == Len(input)
           f == stack[Len(stack)]
           g == [or |-> ExprRead(f), and |-> NoNode, from |-> f.from, mid |-> n + 2]
<1>1. Accepts(t) /\ t = "||" /\ wants' = TRUE /\ stack' = [stack EXCEPT ![Len(stack)] = g]
  BY DEF OrElse
<1>2. /\ n \in Nat /\ Len(x) = n + 1 /\ x[n + 1] = t /\ x \in Seq(Tokens) /\ Len(x) <= MaxTokens
      /\ stack \in Seq(Frame) /\ f \in Frame /\ Nesting(x, stack)
  BY StepFacts
<1>3. Complete(x, f, n)
  BY <1>1, WantsNext
<1> HIDE DEF x, n, f
<1>4. Says(SubSeq(x, f.from, n), ExprRead(f))
  BY <1>2, <1>3, ExprReadSays
<1>5. f.from \in Nat /\ f.mid \in Nat /\ 1 <= f.from /\ f.from <= f.mid /\ f.mid <= n
  BY <1>2, <1>3 DEF Complete, Begun, Frame
<1>6. g \in Frame
  <2>1. Len(SubSeq(x, f.from, n)) = (n + 1) - f.from
    <3>1. n \in Int /\ f.from >= 1 /\ n <= Len(x) /\ f.from <= n + 1
      BY <1>2, <1>5
    <3> QED
      BY <1>2, <1>5, <3>1, PieceIs
  <2>2. Len(SubSeq(x, f.from, n)) <= MaxTokens
    BY <1>2, <1>5, <2>1, FilterAssumption
  <2>3. ExprRead(f) \in Node
    BY <1>4, <2>2, SaysTyped
  <2> QED
    BY <1>2, <1>5, <2>3 DEF Frame
<1>7. Waiting(x, g, n + 1)
  <2>1. /\ n + 1 \in Nat /\ f.from <= n + 2 /\ n + 2 <= (n + 1) + 1 /\ n + 1 <= Len(x)
        /\ f.from < (n + 2) - 1 /\ (n + 2) - 1 = n + 1 /\ (n + 2) - 2 = n /\ n + 2 = (n + 1) + 1
    BY <1>2, <1>5
  <2>2. g.from = f.from /\ g.mid = n + 2 /\ g.or = ExprRead(f) /\ g.and = NoNode
    OBVIOUS
  <2> HIDE DEF g
  <2>3. g.from < g.mid - 1 /\ x[g.mid - 1] = "||" /\ Says(SubSeq(x, g.from, g.mid - 2), g.or)
    BY <1>1, <1>2, <1>4, <2>1, <2>2
  <2>4. Begun(x, g, n + 1)
    BY <1>5, <2>1, <2>2, <2>3 DEF Begun
  <2> QED
    BY <2>1, <2>2, <2>4 DEF Waiting
<1>8. stack # <<>> /\ stack[1].from = 1
  BY DEF Stepping, Running
<1>9. stack' = Topped(stack, g) /\ g.from = stack[Len(stack)].from
  BY <1>1 DEF Topped, f
<1> HIDE DEF g
<1>10. /\ stack' \in Seq(Frame) /\ stack' # <<>> /\ Len(stack') = Len(stack) /\ stack'[Len(stack)] = g
       /\ stack'[1].from = 1 /\ Nesting(x, stack')
  <2>1. stack \in Seq(Frame) /\ Nesting(x, stack)
    BY <1>2
  <2> QED
    BY ONLY <1>6, <1>8, <1>9, <2>1, TopReplaced
<1>11. Nested(x, Len(x)) = Len(stack) - 1 /\ Len(stack) - 1 <= MAX_DEPTH /\ Len(stack) \in Int
  BY <1>1, NestedNext, DepthAllowed DEF x
<1>12. Running(x, stack', wants')
  <2>1. Len(stack') = Nested(x, Len(x)) + 1 /\ Nested(x, Len(x)) <= MAX_DEPTH
    BY <1>10, <1>11
  <2>2. Waiting(x, stack'[Len(stack')], Len(x))
    BY <1>2, <1>7, <1>10
  <2> QED
    BY <1>1, <1>10, <2>1, <2>2, RunningNext DEF x
<1> QED
  BY <1>1, <1>10, <1>12, InvNext DEF x

LEMMA WrongStays ==
  ASSUME NEW x \in Seq(Tokens), NEW t \in Tokens, NEW y, y = Append(x, t), NEW i \in 1 .. Len(x), Wrong(x, i)
  PROVE  Wrong(y, i)
<1>1. i \in 0 .. Len(x) /\ i - 1 \in 0 .. Len(x)
  OBVIOUS
<1>2. Nested(y, i) = Nested(x, i) /\ (AskedFor(y, i - 1) <=> AskedFor(x, i - 1))
  BY ZenonT(40), <1>1, Appended
<1>3. y[i] = x[i]
  BY Appended DEF Longer
<1> QED
  BY <1>2, <1>3 DEF Wrong

LEMMA RefuseKeeps ==
  ASSUME ParserInv, NEW t \in Atoms \cup Signs, Len(input) < MaxTokens, input' = Append(input, t), Refuse(t)
  PROVE  ParserInv'
<1> DEFINE n == Len(input)
<1>1. t \in Tokens /\ input \in Seq(Tokens) /\ input \in Seq(Atoms \cup Signs) /\ n \in Nat
  <2>1. Atoms \cup Signs \subseteq Tokens
    BY DEF Tokens
  <2>2. input \in Seq(Atoms \cup Signs)
    BY DEF ParserInv, ParserTypes
  <2> QED
    BY <2>1, <2>2
<1>2. ~ Accepts(t) /\ stack' = <<>> /\ wants' = FALSE
  BY DEF Refuse
<1>3. ParserTypes'
  <2>1. input' \in Seq(Atoms \cup Signs) /\ Len(input') <= MaxTokens
    BY <1>1, FilterAssumption
  <2>2. stack' \in Seq(Frame) /\ wants' \in BOOLEAN
    <3>1. <<>> \in Seq(Frame)
      OBVIOUS
    <3> QED
      BY <1>2, <3>1
  <2> QED
    BY <2>1, <2>2 DEF ParserTypes
<1>4. Len(input') = n + 1 /\ n + 1 \in 1 .. Len(input')
  BY <1>1
<1>5. CASE stack = <<>> /\ \E i \in 1 .. n : Wrong(input, i)
  <2>1. PICK i \in 1 .. n : Wrong(input, i)
    BY <1>5
  <2>2. Wrong(input', i)
    BY <1>1, <2>1, WrongStays
  <2>3. i \in 1 .. Len(input')
    BY <1>1, <1>4
  <2> QED
    BY <1>2, <1>3, <2>2, <2>3 DEF ParserInv
<1>6. CASE Running(input, stack, wants)
  <2>1. Stepping(t)
    BY <1>6 DEF Stepping, ParserInv
  <2>2. stack # <<>> /\ (wants <=> AskedFor(input, n))
    BY <1>6 DEF Running
  <2>3. /\ AskedFor(input', (n + 1) - 1) <=> wants
        /\ input'[n + 1] = t
    <3>1. n \in 0 .. n /\ (n + 1) - 1 = n
      BY <1>1
    <3>2. AskedFor(input', n) <=> AskedFor(input, n)
      BY <1>1, <3>1, Appended
    <3>3. input'[n + 1] = t
      BY <1>1, Appended
    <3> QED
      BY <2>2, <3>1, <3>2, <3>3
  <2>4. t \in Starters <=> t \in Atoms \cup {"("}
    BY FilterAssumption DEF Starters
  <2>5. \/ ~ (wants <=> t \in Atoms \cup {"("})
        \/ t = "(" /\ ~ (Depth < MAX_DEPTH)
        \/ t = ")" /\ ~ (Depth > 0)
    BY <1>2, <2>2 DEF Accepts
  <2>6. /\ Nested(input', n + 1) \in Int /\ Len(stack) \in Int /\ Depth = Len(stack) - 1 /\ MAX_DEPTH \in Nat
        /\ t = "(" => Nested(input', n + 1) = Len(stack)
        /\ t = ")" => Nested(input', n + 1) = Len(stack) - 2
    BY <1>4, <2>1, NestedNext, FilterAssumption
  <2>7. Wrong(input', n + 1)
    <3>1. CASE ~ (wants <=> t \in Atoms \cup {"("})
      BY <2>3, <2>4, <3>1 DEF Wrong
    <3>2. CASE t = "(" /\ ~ (Depth < MAX_DEPTH)
      BY <2>6, <3>2 DEF Wrong
    <3>3. CASE t = ")" /\ ~ (Depth > 0)
      BY <2>6, <3>3 DEF Wrong
    <3> QED
      BY <2>5, <3>1, <3>2, <3>3
  <2> QED
    BY <1>2, <1>3, <1>4, <2>7 DEF ParserInv
<1> QED
  BY <1>5, <1>6 DEF ParserInv

LEMMA AcceptsRuns ==
  ASSUME ParserInv, NEW t \in Atoms \cup Signs, Len(input) < MaxTokens, input' = Append(input, t), Accepts(t)
  PROVE  Stepping(t)
BY DEF Stepping, ParserInv, Accepts

LEMMA TypeKeeps == ASSUME ParserInv, Type PROVE ParserInv'
<1>1. PICK t \in Atoms \cup Signs :
        /\ Len(input) < MaxTokens /\ input' = Append(input, t)
        /\ Refuse(t) \/ ReadComparison(t) \/ Open(t) \/ Close(t) \/ AndThen(t) \/ OrElse(t)
  BY DEF Type
<1>2. CASE Refuse(t)
  BY <1>1, <1>2, RefuseKeeps
<1>3. CASE ReadComparison(t)
  <2>1. Stepping(t)
    BY <1>1, <1>3, AcceptsRuns DEF ReadComparison
  <2> QED
    BY <1>3, <2>1, ReadComparisonKeeps
<1>4. CASE Open(t)
  <2>1. Stepping(t)
    BY <1>1, <1>4, AcceptsRuns DEF Open
  <2> QED
    BY <1>4, <2>1, OpenKeeps
<1>5. CASE Close(t)
  <2>1. Stepping(t)
    BY <1>1, <1>5, AcceptsRuns DEF Close
  <2> QED
    BY <1>5, <2>1, CloseKeeps
<1>6. CASE AndThen(t)
  <2>1. Stepping(t)
    BY <1>1, <1>6, AcceptsRuns DEF AndThen
  <2> QED
    BY <1>6, <2>1, AndThenKeeps
<1>7. CASE OrElse(t)
  <2>1. Stepping(t)
    BY <1>1, <1>7, AcceptsRuns DEF OrElse
  <2> QED
    BY <1>7, <2>1, OrElseKeeps
<1> QED
  BY <1>1, <1>2, <1>3, <1>4, <1>5, <1>6, <1>7

LEMMA InitParser == Init => ParserInv
<1> SUFFICES ASSUME Init PROVE ParserInv
  OBVIOUS
<1> DEFINE g == Call(1)
<1>1. input = <<>> /\ stack = <<g>> /\ wants = TRUE
  BY DEF Init
<1>2. g.or = NoNode /\ g.and = NoNode /\ g.from = 1 /\ g.mid = 1 /\ g \in Frame
  BY DEF Call, Frame
<1> HIDE DEF g
<1>3. ParserTypes
  BY <1>1, <1>2, FilterAssumption DEF ParserTypes
<1>4. Len(input) = 0 /\ Len(stack) = 1 /\ stack[1] = g /\ stack # <<>>
  BY <1>1
<1>5. Waiting(input, g, 0)
  <2>1. Begun(input, g, 0)
    BY <1>2, <1>4 DEF Begun
  <2> QED
    BY <1>2, <2>1 DEF Waiting
<1>6. Nested(input, 0) = 0
  BY NestedFirst
<1>7. Nesting(input, stack)
  BY <1>4 DEF Nesting
<1>8. AskedFor(input, 0)
  BY DEF AskedFor
<1>9. Running(input, stack, wants)
  BY <1>1, <1>2, <1>4, <1>5, <1>6, <1>7, <1>8 DEF Running
<1> QED
  BY <1>3, <1>9 DEF ParserInv

\* The inductive invariant of the parser: an expression that is refused has a
\* token no grammatical one has there; of any other, the activations hold the
\* trees of the pieces that have been read.
LEMMA ParserInductive == Spec => []ParserInv
<1>1. Init => ParserInv
  BY InitParser
<1>2. ParserInv /\ [Next]_<<input, stack, wants, probe>> => ParserInv'
  <2> SUFFICES ASSUME ParserInv, [Next]_<<input, stack, wants, probe>> PROVE ParserInv'
    OBVIOUS
  <2>1. CASE Type
    BY <2>1, TypeKeeps
  <2>2. CASE UNCHANGED <<input, stack, wants>>
    BY <2>2 DEF ParserInv, ParserTypes, Running, Nesting, Waiting, Complete, Begun
  <2> QED
    BY <2>1, <2>2 DEF Next
<1> QED
  BY <1>1, <1>2, PTL DEF Spec

-----------------------------------------------------------------------------
(* What the invariant says of an expression that ends here.                *)

LEMMA ParsedIs ==
  ASSUME ParserInv
  PROVE  \/ Parsed = Bad /\ \E i \in 1 .. Len(input) : Wrong(input, i)
         \/ Parsed = Bad /\ (AskedFor(input, Len(input)) \/ Nested(input, Len(input)) # 0)
         \/ /\ Says(input, Parsed) /\ Parsed # Bad /\ Parsed \in Node
            /\ \A i \in 1 .. Len(input) : Nested(input, i) <= MAX_DEPTH
<1> DEFINE n == Len(input)
<1>1. input \in Seq(Tokens) /\ n \in Nat /\ n <= MaxTokens /\ stack \in Seq(Frame) /\ wants \in BOOLEAN
  <2>1. Atoms \cup Signs \subseteq Tokens
    BY DEF Tokens
  <2>2. input \in Seq(Atoms \cup Signs)
    BY DEF ParserInv, ParserTypes
  <2> QED
    BY <2>1, <2>2 DEF ParserInv, ParserTypes
<1>2. CASE stack = <<>> /\ \E i \in 1 .. n : Wrong(input, i)
  <2>1. Parsed = Bad
    BY <1>2 DEF Parsed
  <2> QED
    BY <1>2, <2>1
<1>3. CASE Running(input, stack, wants)
  <2>1. CASE wants
    <3>1. AskedFor(input, n)
      BY <1>3, <2>1 DEF Running
    <3>2. Parsed = Bad
      BY <2>1 DEF Parsed
    <3> QED
      BY <3>1, <3>2
  <2>2. CASE Len(stack) # 1
    <3>1. Parsed = Bad
      BY <2>2 DEF Parsed
    <3>2. Nested(input, n) # 0
      <4>1. Len(stack) = Nested(input, n) + 1 /\ Nested(input, n) \in Int
        BY <1>1, <1>3, NestedStep DEF Running
      <4> QED
        BY <2>2, <4>1
    <3> QED
      BY <3>1, <3>2
  <2>3. CASE ~wants /\ Len(stack) = 1
    <3> DEFINE f == stack[1]
    <3>1. f \in Frame /\ f.from = 1 /\ Complete(input, f, n) /\ \A i \in 1 .. n : Nested(input, i) <= MAX_DEPTH
      <4>1. 1 \in 1 .. Len(stack) /\ stack[Len(stack)] = f
        BY <2>3
      <4>2. f \in Frame
        BY <1>1, <4>1
      <4>3. f.from = 1 /\ Complete(input, stack[Len(stack)], n) /\ \A i \in 1 .. n : Nested(input, i) <= MAX_DEPTH
        BY <1>3, <2>3 DEF Running
      <4> QED
        BY <4>1, <4>2, <4>3
    <3>2. Says(SubSeq(input, f.from, n), ExprRead(f))
      <4> HIDE DEF f
      <4> QED
        BY <1>1, <3>1, ExprReadSays
    <3>3. SubSeq(input, 1, n) = input
      BY <1>1
    <3>4. Parsed = ExprRead(f)
      BY <2>3 DEF Parsed
    <3>5. Says(input, Parsed)
      BY <3>1, <3>2, <3>3, <3>4
    <3>6. Parsed # Bad /\ Parsed \in Node
      BY <1>1, <3>5, SaysTyped
    <3> QED
      BY <3>1, <3>5, <3>6
  <2> QED
    BY <2>1, <2>2, <2>3
<1> QED
  BY <1>2, <1>3 DEF ParserInv

LEMMA ParsedMeans == ASSUME ParserInv PROVE TreeMeansInput
<1> DEFINE Deep == \E i \in DOMAIN input : Nested(input, i) > MAX_DEPTH
<1>1. input \in Seq(Tokens) /\ Len(input) \in Nat /\ DOMAIN input = 1 .. Len(input) /\ MAX_DEPTH \in Nat
  <2>1. Atoms \cup Signs \subseteq Tokens
    BY DEF Tokens
  <2>2. input \in Seq(Atoms \cup Signs)
    BY DEF ParserInv, ParserTypes
  <2> QED
    BY <2>1, <2>2, FilterAssumption
<1> SUFFICES ASSUME NEW atom \in Assignments
             PROVE  /\ Parsed = Bad <=> Means(input, atom) = -1 \/ Deep
                    /\ Parsed # Bad => (Eval(Parsed, atom) <=> Means(input, atom) = 2)
  BY Zenon DEF TreeMeansInput
<1>2. Means(input, atom) # -1 => Fits(input)
  BY <1>1, MeaningFits
<1>3. CASE Parsed = Bad /\ \E i \in 1 .. Len(input) : Wrong(input, i)
  <2>1. PICK i \in 1 .. Len(input) : Wrong(input, i)
    BY <1>3
  <2>2. CASE Nested(input, i) > MAX_DEPTH
    <3>1. Deep
      BY <1>1, <2>2
    <3> QED
      BY <1>3, <3>1
  <2>3. CASE Nested(input, i) < 0
    <3>1. i \in 0 .. Len(input) /\ Nested(input, i) \in Int
      BY <1>1, NestedStep
    <3>2. ~ Fits(input)
      BY <2>3, <3>1 DEF Fits, Balanced
    <3> QED
      BY <1>2, <1>3, <3>2
  <2>4. CASE ~ (AskedFor(input, i - 1) <=> input[i] \in Starters)
    <3>1. ~ Fits(input)
      BY <2>4 DEF Fits
    <3> QED
      BY <1>2, <1>3, <3>1
  <2> QED
    BY <2>1, <2>2, <2>3, <2>4 DEF Wrong
<1>4. CASE Parsed = Bad /\ (AskedFor(input, Len(input)) \/ Nested(input, Len(input)) # 0)
  <2>1. ~ Fits(input)
    BY <1>4 DEF Fits, Balanced
  <2> QED
    BY <1>2, <1>4, <2>1
<1>5. CASE /\ Says(input, Parsed) /\ Parsed # Bad /\ Parsed \in Node
           /\ \A i \in 1 .. Len(input) : Nested(input, i) <= MAX_DEPTH
  <2>1. Means(input, atom) # -1 /\ (Eval(Parsed, atom) <=> Means(input, atom) = 2)
    BY <1>5 DEF Says, Faithful, Reads
  <2>2. ~ Deep
    <3>1. ASSUME NEW i \in 1 .. Len(input) PROVE ~ (Nested(input, i) > MAX_DEPTH)
      <4>1. Nested(input, i) <= MAX_DEPTH /\ Nested(input, i) \in Int
        <5>1. i \in Nat
          BY <1>1
        <5> QED
          BY <1>5, <5>1, NestedStep
      <4> QED
        BY <1>1, <4>1
    <3> QED
      BY <1>1, <3>1
  <2> HIDE DEF Deep
  <2> QED
    BY <1>5, <2>1, <2>2
<1> QED
  BY <1>3, <1>4, <1>5, ParsedIs

LEMMA ParsedSplices == ASSUME ParserInv PROVE SpliceMeansTree
<1>1. Parsed # Bad => Parsed \in Node
  BY ParsedIs
<1> SUFFICES ASSUME Parsed # Bad, NEW atom \in Assignments
             PROVE  Means(<<Row, "&&">> \o ToSql(Parsed), atom) = 2 <=> atom[Row] = 2 /\ Eval(Parsed, atom)
  BY Zenon DEF SpliceMeansTree
<1> DEFINE p == Parsed
<1>2. p \in Node
  BY <1>1
<1> HIDE DEF p
<1>3. Means(<<Row, "&&">> \o ToSql(p), atom) = 2 <=> atom[Row] = 2 /\ Eval(p, atom)
  BY <1>2, Spliced
<1> QED
  BY <1>3 DEF p

\* For expressions of any length over any comparisons, and any MAX_DEPTH: the
\* parser of filter.rs accepts exactly what its grammar does up to that depth,
\* and && binds tighter than || in the tree it makes.
THEOREM ParserIsRight == Spec => []TreeMeansInput
<1>1. ParserInv => TreeMeansInput
  BY ParsedMeans
<1> QED
  BY <1>1, ParserInductive, PTL

\* The SQL text of a parsed rule, behind "... AND", holds for exactly the rows
\* that the rule evaluated in memory holds for, among those the host selects.
THEOREM SpliceIsSafe == Spec => []SpliceMeansTree
<1>1. ParserInv => SpliceMeansTree
  BY ParsedSplices
<1> QED
  BY <1>1, ParserInductive, PTL
=============================================================================
