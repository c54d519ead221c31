-------------------------- MODULE ComparisonProofs --------------------------
(***************************************************************************)
(* The two backends agree on every comparison of Comparison, for texts of  *)
(* any length and any numbers.  Two facts carry it: LIKE with the pattern  *)
(* of like_escape is a search for the text, and two texts neither of which *)
(* precedes the other are the same.                                        *)
(***************************************************************************)
EXTENDS Comparison, FiniteSetTheorems, WellFoundedInduction, TLAPS

-----------------------------------------------------------------------------
(* Least numbers, and induction over a set of them.                        *)

LEMMA LeastNat ==
  ASSUME NEW S \in SUBSET Nat, S # {}
  PROVE  \E n \in S : \A m \in S : n <= m
<1> DEFINE R == {ss \in Nat \X Nat : ss[1] < ss[2]}
<1>1. IsWellFoundedOn(R, Nat)
  BY NatLessThanWellFounded DEF OpToRel
<1>2. PICK n \in S : \A m \in S : ~(<<m, n>> \in R)
  BY <1>1, WFMin
<1>3. ASSUME NEW m \in S PROVE n <= m
  <2>1. m \in Nat /\ n \in Nat
    OBVIOUS
  <2>2. ~(m < n)
    BY <1>2, <2>1
  <2> QED
    BY <2>1, <2>2
<1> QED
  BY <1>3

LEMMA SetInduction ==
  ASSUME NEW S \in SUBSET Nat, 0 \in S, \A n \in S : n + 1 \in S
  PROVE  \A n \in Nat : n \in S
<1> SUFFICES ASSUME Nat \ S # {} PROVE FALSE
  OBVIOUS
<1>1. PICK n \in Nat \ S : \A m \in Nat \ S : n <= m
  <2>1. Nat \ S \in SUBSET Nat
    OBVIOUS
  <2> QED
    BY <2>1, LeastNat
<1>2. n # 0 /\ n - 1 \in Nat
  BY <1>1
<1>3. n - 1 \in S
  BY <1>1, <1>2
<1> QED
  BY <1>1, <1>2, <1>3

-----------------------------------------------------------------------------
(* Where like_escape puts the characters of a text.                        *)

LEMMA PlaceStep ==
  ASSUME NEW s \in Seq(Nat)
  PROVE  /\ Place(s, 0) = 0
         /\ \A i \in Nat : Place(s, i) \in Nat
         /\ \A i \in 0 .. Len(s) - 1 :
              Place(s, i + 1) = Place(s, i) + (IF s[i + 1] \in Special THEN 2 ELSE 1)
<1> DEFINE C(i) == {j \in 1 .. i : s[j] \in Special}
<1>1. ASSUME NEW i \in Nat PROVE IsFiniteSet(C(i)) /\ Cardinality(C(i)) \in Nat
  <2>1. IsFiniteSet(1 .. i)
    BY FS_Interval
  <2>2. C(i) \subseteq 1 .. i
    OBVIOUS
  <2> QED
    BY <2>1, <2>2, FS_Subset, FS_CardinalityType
<1>2. \A i : Place(s, i) = i + Cardinality(C(i))
  BY DEF Place
<1>3. C(0) = {}
  OBVIOUS
<1>4. ASSUME NEW i \in 0 .. Len(s) - 1
      PROVE  Cardinality(C(i + 1)) =
               Cardinality(C(i)) + (IF s[i + 1] \in Special THEN 1 ELSE 0)
  <2>1. i \in Nat /\ i + 1 \in Nat /\ i + 1 \notin C(i)
    OBVIOUS
  <2>2. C(i + 1) = IF s[i + 1] \in Special THEN C(i) \cup {i + 1} ELSE C(i)
    <3>1. \A j : j \in 1 .. i + 1 <=> j \in 1 .. i \/ j = i + 1
      BY <2>1
    <3> QED
      BY <3>1
  <2>3. IsFiniteSet(C(i)) /\ Cardinality(C(i)) \in Nat
    BY <1>1, <2>1
  <2>4. Cardinality(C(i) \cup {i + 1}) = Cardinality(C(i)) + 1
    <3> HIDE DEF C
    <3> QED
      BY <2>1, <2>3, FS_AddElement
  <2> HIDE DEF C
  <2> QED
    BY <2>2, <2>3, <2>4
<1>5. Cardinality(C(0)) = 0
  BY <1>3, FS_EmptySet
<1> HIDE DEF C
<1>6. ASSUME NEW i \in 0 .. Len(s) - 1
      PROVE  Place(s, i + 1) = Place(s, i) + (IF s[i + 1] \in Special THEN 2 ELSE 1)
  <2>1. i \in Nat /\ i + 1 \in Nat
    OBVIOUS
  <2>2. Cardinality(C(i)) \in Nat
    BY <1>1, <2>1
  <2>3. Place(s, i) = i + Cardinality(C(i))
        /\ Place(s, i + 1) = i + 1 + Cardinality(C(i + 1))
    BY <1>2
  <2> QED
    BY <1>4, <2>1, <2>2, <2>3
<1>7. ASSUME NEW i \in Nat PROVE Place(s, i) \in Nat
  <2>1. Cardinality(C(i)) \in Nat
    BY <1>1
  <2>2. i + Cardinality(C(i)) \in Nat
    BY <2>1
  <2> QED
    BY <1>2, <2>2
<1>8. Place(s, 0) = 0
  BY <1>2, <1>5
<1> QED
  BY <1>6, <1>7, <1>8

LEMMA PlaceTyped ==
  ASSUME NEW s \in Seq(Nat), NEW i \in 0 .. Len(s)
  PROVE  Place(s, i) \in Nat
<1>1. i \in Nat
  OBVIOUS
<1> QED
  BY <1>1, PlaceStep

LEMMA PlaceNext ==
  ASSUME NEW s \in Seq(Nat), NEW i \in 1 .. Len(s)
  PROVE  /\ i - 1 \in 0 .. Len(s)
         /\ Place(s, i) = Place(s, i - 1) + (IF s[i] \in Special THEN 2 ELSE 1)
<1>1. i - 1 \in 0 .. Len(s) - 1 /\ i - 1 + 1 = i /\ i - 1 \in 0 .. Len(s)
  OBVIOUS
<1> QED
  BY <1>1, PlaceStep

LEMMA PlaceGrows ==
  ASSUME NEW s \in Seq(Nat), NEW i \in 0 .. Len(s), NEW j \in 0 .. Len(s), i < j
  PROVE  Place(s, i) < Place(s, j)
<1> DEFINE S == {n \in Nat : i < n /\ n <= Len(s) => Place(s, i) < Place(s, n)}
<1>1. 0 \in S
  OBVIOUS
<1>2. ASSUME NEW n \in S PROVE n + 1 \in S
  <2>1. n \in Nat /\ n + 1 \in Nat /\ Len(s) \in Nat /\ i \in Nat
    OBVIOUS
  <2>2. ASSUME i < n + 1, n + 1 <= Len(s) PROVE Place(s, i) < Place(s, n + 1)
    <3>1. n \in 0 .. Len(s) /\ n + 1 \in 1 .. Len(s) /\ n + 1 - 1 = n
      BY <2>1, <2>2
    <3>2. Place(s, n + 1) = Place(s, n) + (IF s[n + 1] \in Special THEN 2 ELSE 1)
      BY <3>1, PlaceNext
    <3>3. Place(s, n) \in Nat /\ Place(s, i) \in Nat
      BY <3>1, PlaceTyped
    <3>4. Place(s, n) < Place(s, n + 1)
      BY ONLY <3>2, <3>3
    <3>5. i = n \/ i < n
      BY <2>1, <2>2
    <3>6. i < n => Place(s, i) < Place(s, n)
      BY <2>1, <2>2
    <3>7. Place(s, n + 1) \in Nat
      BY ONLY <3>2, <3>3
    <3> QED
      BY ONLY <3>3, <3>4, <3>5, <3>6, <3>7
  <2> QED
    BY <2>1, <2>2
<1>3. j \in S
  <2>1. S \in SUBSET Nat /\ j \in Nat
    OBVIOUS
  <2> HIDE DEF S
  <2>2. \A n \in Nat : n \in S
    BY ONLY <1>1, <1>2, <2>1, SetInduction
  <2> QED
    BY <2>1, <2>2
<1> QED
  BY <1>3

\* Every place holds a character, or the backslash before a special one.
LEMMA PlaceCovers ==
  ASSUME NEW s \in Seq(Nat), NEW k \in 1 .. Place(s, Len(s))
  PROVE  \E i \in 1 .. Len(s) :
           k = Place(s, i) \/ (s[i] \in Special /\ k = Place(s, i) - 1)
<1> DEFINE S == {n \in 0 .. Len(s) : k <= Place(s, n)}
<1>1. Len(s) \in 0 .. Len(s) /\ Place(s, Len(s)) \in Nat
  <2>1. Len(s) \in 0 .. Len(s)
    OBVIOUS
  <2> QED
    BY <2>1, PlaceTyped
<1>2. k \in Nat /\ k > 0 /\ k <= Place(s, Len(s))
  BY <1>1
<1>3. S \in SUBSET Nat /\ Len(s) \in S
  BY <1>1, <1>2
<1>4. PICK n \in S : \A m \in S : n <= m
  <2> HIDE DEF S
  <2> QED
    BY <1>3, LeastNat
<1>5. n \in 0 .. Len(s) /\ k <= Place(s, n)
  OBVIOUS
<1>6. n \in 1 .. Len(s)
  <2>1. Place(s, 0) = 0
    BY PlaceStep
  <2> QED
    BY <1>2, <1>5, <2>1
<1>7. /\ n - 1 \in 0 .. Len(s)
      /\ Place(s, n) = Place(s, n - 1) + (IF s[n] \in Special THEN 2 ELSE 1)
  BY <1>6, PlaceNext
<1>8. Place(s, n) \in Nat /\ Place(s, n - 1) \in Nat
  BY <1>5, <1>7, PlaceTyped
<1>9. ~(k <= Place(s, n - 1))
  <2>1. n - 1 \notin S
    <3>1. ~(n <= n - 1)
      BY <1>6
    <3> QED
      BY <1>4, <3>1
  <2> QED
    BY <1>7, <2>1
<1>10. k = Place(s, n) \/ (s[n] \in Special /\ k = Place(s, n) - 1)
  <2>1. CASE s[n] \in Special
    <3>1. Place(s, n) = Place(s, n - 1) + 2
      BY <1>7, <2>1
    <3>2. k \in Nat /\ k <= Place(s, n)
      BY <1>2, <1>5
    <3>3. k = Place(s, n) \/ k = Place(s, n) - 1
      BY ONLY <1>8, <1>9, <3>1, <3>2
    <3> QED
      BY <2>1, <3>3
  <2>2. CASE s[n] \notin Special
    <3>1. Place(s, n) = Place(s, n - 1) + 1
      BY <1>7, <2>2
    <3>2. k \in Nat /\ k <= Place(s, n)
      BY <1>2, <1>5
    <3> QED
      BY ONLY <1>8, <1>9, <3>1, <3>2
  <2> QED
    BY <2>1, <2>2
<1> QED
  BY <1>6, <1>10

\* No two characters share a place, and no character the place of a backslash.
LEMMA PlacesDiffer ==
  ASSUME NEW t \in Seq(Nat), NEW i \in 1 .. Len(t), NEW j \in 1 .. Len(t)
  PROVE  /\ Place(t, i) = Place(t, j) => i = j
         /\ t[i] \in Special => Place(t, j) # Place(t, i) - 1
<1>1. /\ i \in 0 .. Len(t) /\ i - 1 \in 0 .. Len(t) /\ j \in 0 .. Len(t)
      /\ Place(t, i) = Place(t, i - 1) + (IF t[i] \in Special THEN 2 ELSE 1)
  BY PlaceNext
<1>2. Place(t, i) \in Nat /\ Place(t, i - 1) \in Nat /\ Place(t, j) \in Nat
  BY <1>1, PlaceTyped
<1>3. Place(t, i) > Place(t, i - 1) /\ (t[i] \in Special => Place(t, i) - 1 > Place(t, i - 1))
  <2>1. t[i] \in Special => Place(t, i) = Place(t, i - 1) + 2
    BY <1>1
  <2>2. t[i] \notin Special => Place(t, i) = Place(t, i - 1) + 1
    BY <1>1
  <2> QED
    BY ONLY <1>2, <2>1, <2>2
<1>4. CASE j = i
  BY ONLY <1>2, <1>4
<1>5. CASE i < j
  <2>1. Place(t, i) < Place(t, j)
    BY <1>1, <1>5, PlaceGrows
  <2> QED
    BY ONLY <1>2, <2>1
<1>6. CASE j < i
  <2>1. Place(t, j) <= Place(t, i - 1)
    <3>1. CASE j = i - 1
      <4>1. Place(t, j) = Place(t, i - 1)
        BY <3>1
      <4> QED
        BY ONLY <1>2, <4>1
    <3>2. CASE j < i - 1
      <4>1. Place(t, j) < Place(t, i - 1)
        BY <1>1, <3>2, PlaceGrows
      <4> QED
        BY ONLY <1>2, <4>1
    <3> QED
      BY <1>6, <3>1, <3>2
  <2> QED
    BY ONLY <1>2, <1>3, <2>1
<1> QED
  BY <1>4, <1>5, <1>6

\* fn like_escape leaves each character and puts a backslash before the special.
LEMMA EscapedText ==
  ASSUME NEW s \in Seq(Nat)
  PROVE  /\ LikeEscape(s) \in Seq(Nat) /\ Len(LikeEscape(s)) = Place(s, Len(s))
         /\ \A i \in 1 .. Len(s) :
              /\ Place(s, i) \in 1 .. Place(s, Len(s))
              /\ LikeEscape(s)[Place(s, i)] = s[i]
              /\ s[i] \in Special =>
                   /\ Place(s, i) - 1 \in 1 .. Place(s, Len(s))
                   /\ LikeEscape(s)[Place(s, i) - 1] = Backslash
<1> DEFINE M == Place(s, Len(s))
           At(k) == CHOOSE i \in DOMAIN s : Place(s, i) = k
<1>1. Len(s) \in 0 .. Len(s) /\ Len(s) \in Nat /\ DOMAIN s = 1 .. Len(s)
  OBVIOUS
<1>2. M \in Nat
  BY <1>1, PlaceTyped
<1>3. Place(s, 0) = 0
  BY PlaceStep
<1>4. ASSUME NEW i \in 1 .. Len(s)
      PROVE  /\ Place(s, i) \in 1 .. M
             /\ s[i] \in Special => Place(s, i) - 1 \in 1 .. M
             /\ Place(s, i) = Place(s, i - 1) + (IF s[i] \in Special THEN 2 ELSE 1)
             /\ i \in 0 .. Len(s) /\ i - 1 \in 0 .. Len(s)
  <2>1. /\ i - 1 \in 0 .. Len(s)
        /\ Place(s, i) = Place(s, i - 1) + (IF s[i] \in Special THEN 2 ELSE 1)
    BY PlaceNext
  <2>2. i \in 0 .. Len(s) /\ (i = Len(s) \/ i < Len(s))
    OBVIOUS
  <2>3. Place(s, i) \in Nat /\ Place(s, i - 1) \in Nat
    BY <2>1, <2>2, PlaceTyped
  <2>4. Place(s, i) <= M
    <3>1. CASE i = Len(s)
      BY <1>2, <3>1
    <3>2. CASE i < Len(s)
      <4>1. Place(s, i) < Place(s, Len(s))
        BY <1>1, <2>2, <3>2, PlaceGrows
      <4>2. Place(s, i) < M
        BY <4>1
      <4> HIDE DEF M
      <4> QED
        BY <1>2, <2>3, <4>2
    <3> QED
      BY <2>2, <3>1, <3>2
  <2> HIDE DEF M
  <2>5. CASE s[i] \in Special
    <3>1. Place(s, i) = Place(s, i - 1) + 2
      BY <2>1, <2>5
    <3>2. Place(s, i) \in 1 .. M /\ Place(s, i) - 1 \in 1 .. M
      BY ONLY <1>2, <2>3, <2>4, <3>1
    <3> QED
      BY <2>1, <2>2, <3>2
  <2>6. CASE s[i] \notin Special
    <3>1. Place(s, i) = Place(s, i - 1) + 1
      BY <2>1, <2>6
    <3>2. Place(s, i) \in 1 .. M
      BY ONLY <1>2, <2>3, <2>4, <3>1
    <3> QED
      BY <2>1, <2>2, <2>6, <3>2
  <2> QED
    BY <2>5, <2>6
<1>5. ASSUME NEW i \in 1 .. Len(s), NEW j \in 1 .. Len(s), Place(s, i) = Place(s, j)
      PROVE  i = j
  BY <1>5, PlacesDiffer
<1>6. ASSUME NEW i \in 1 .. Len(s) PROVE At(Place(s, i)) = i
  BY <1>1, <1>5
<1>7. ASSUME NEW i \in 1 .. Len(s), s[i] \in Special, NEW j \in 1 .. Len(s)
      PROVE  Place(s, j) # Place(s, i) - 1
  BY <1>7, PlacesDiffer
<1>8. LikeEscape(s) =
        [k \in 1 .. M |-> IF \E i \in 1 .. Len(s) : Place(s, i) = k
                          THEN s[At(k)] ELSE Backslash]
  BY <1>1 DEF LikeEscape
<1> HIDE DEF M, At
<1>9. ASSUME NEW k \in 1 .. M, NEW i \in 1 .. Len(s), Place(s, i) = k
      PROVE  s[At(k)] \in Nat
  BY <1>6, <1>9
<1>10. LikeEscape(s) \in [1 .. M -> Nat]
  BY <1>8, <1>9 DEF Backslash
<1>11. LikeEscape(s) \in Seq(Nat) /\ Len(LikeEscape(s)) = M
  BY <1>2, <1>10
<1>12. ASSUME NEW i \in 1 .. Len(s)
       PROVE  /\ LikeEscape(s)[Place(s, i)] = s[i]
              /\ s[i] \in Special => LikeEscape(s)[Place(s, i) - 1] = Backslash
  <2>1. Place(s, i) \in 1 .. M /\ (s[i] \in Special => Place(s, i) - 1 \in 1 .. M)
    BY <1>4
  <2>2. LikeEscape(s)[Place(s, i)] = s[i]
    BY <1>6, <1>8, <2>1
  <2>3. ASSUME s[i] \in Special PROVE LikeEscape(s)[Place(s, i) - 1] = Backslash
    <3>1. ~ \E j \in 1 .. Len(s) : Place(s, j) = Place(s, i) - 1
      BY <1>7, <2>3
    <3> QED
      BY <1>8, <2>1, <2>3, <3>1
  <2> QED
    BY <2>2, <2>3
<1> QED
  BY <1>4, <1>11, <1>12 DEF M

-----------------------------------------------------------------------------
(* The pattern of a search for t: what is literal in it.                   *)

Contains(t) == <<Percent>> \o LikeEscape(t) \o <<Percent>>
End(t) == Place(t, Len(t)) + 2

LEMMA PatternText ==
  ASSUME NEW t \in Seq(Nat)
  PROVE  /\ Contains(t) \in Seq(Nat) /\ End(t) \in Nat /\ End(t) >= 2
         /\ Len(Contains(t)) = End(t) /\ DOMAIN Contains(t) = 1 .. End(t)
         /\ Contains(t)[1] = Percent /\ Contains(t)[End(t)] = Percent
         /\ \A i \in 1 .. Len(t) :
              /\ Place(t, i) + 1 \in 2 .. End(t) - 1
              /\ Contains(t)[Place(t, i) + 1] = t[i]
              /\ t[i] \in Special =>
                   Place(t, i) \in 2 .. End(t) - 1 /\ Contains(t)[Place(t, i)] = Backslash
<1> DEFINE e == LikeEscape(t)
           M == Place(t, Len(t))
<1>1. /\ e \in Seq(Nat) /\ Len(e) = M
      /\ \A i \in 1 .. Len(t) :
           /\ Place(t, i) \in 1 .. M /\ e[Place(t, i)] = t[i]
           /\ t[i] \in Special => Place(t, i) - 1 \in 1 .. M /\ e[Place(t, i) - 1] = Backslash
  BY EscapedText
<1>2. M \in Nat
  BY <1>1
<1> HIDE DEF e, M
<1>3. Percent \in Nat
  BY DEF Percent
<1>4. /\ Contains(t) \in Seq(Nat) /\ Len(Contains(t)) = M + 2
      /\ Contains(t)[1] = Percent /\ Contains(t)[M + 2] = Percent
      /\ \A k \in 1 .. M : Contains(t)[k + 1] = e[k]
  BY <1>1, <1>2, <1>3 DEF Contains, e
<1>5. End(t) = M + 2
  BY DEF End, M
<1>6. ASSUME NEW i \in 1 .. Len(t)
      PROVE  /\ Place(t, i) + 1 \in 2 .. M + 1
             /\ Contains(t)[Place(t, i) + 1] = t[i]
             /\ t[i] \in Special =>
                  Place(t, i) \in 2 .. M + 1 /\ Contains(t)[Place(t, i)] = Backslash
  <2>1. Place(t, i) \in 1 .. M /\ Contains(t)[Place(t, i) + 1] = t[i]
    BY <1>1, <1>4
  <2>2. ASSUME t[i] \in Special
        PROVE  Place(t, i) \in 2 .. M + 1 /\ Contains(t)[Place(t, i)] = Backslash
    <3>1. Place(t, i) - 1 \in 1 .. M /\ e[Place(t, i) - 1] = Backslash
      BY <1>1, <2>2
    <3>2. Place(t, i) - 1 + 1 = Place(t, i)
      BY <2>1, <1>2
    <3>3. Contains(t)[Place(t, i)] = Backslash
      BY <1>4, <3>1, <3>2
    <3> QED
      BY <1>2, <3>1, <3>2, <3>3
  <2> QED
    BY <1>2, <2>1, <2>2
<1> QED
  BY <1>2, <1>4, <1>5, <1>6

\* What is literal is determined from left to right.
LEMMA LiteralIs ==
  ASSUME NEW p \in Seq(Nat), NEW L \in SUBSET DOMAIN p,
         \A k \in DOMAIN p : k \in L <=> k > 1 /\ k - 1 \notin L /\ p[k - 1] = Backslash
  PROVE  Literal(p) = L
<1> DEFINE A == Literal(p)
           D == {k \in DOMAIN p : ~(k \in A <=> k \in L)}
<1>1. /\ A \in SUBSET DOMAIN p
      /\ \A k \in DOMAIN p : k \in A <=> k > 1 /\ k - 1 \notin A /\ p[k - 1] = Backslash
  BY DEF Literal
<1> HIDE DEF A
<1>2. SUFFICES ASSUME D # {} PROVE FALSE
  BY <1>1 DEF A
<1>3. D \in SUBSET Nat
  OBVIOUS
<1>4. PICK k \in D : \A m \in D : k <= m
  <2> HIDE DEF D
  <2> QED
    BY <1>2, <1>3, LeastNat
<1>5. k \in DOMAIN p /\ DOMAIN p = 1 .. Len(p) /\ k \in Nat /\ Len(p) \in Nat
  OBVIOUS
<1>6. k > 1
  BY <1>1, <1>4, <1>5
<1>7. k - 1 \in DOMAIN p /\ k - 1 \notin D
  <2>1. ~(k <= k - 1) /\ k - 1 \in DOMAIN p
    BY <1>5, <1>6
  <2> QED
    BY <1>4, <2>1
<1>8. k - 1 \in A <=> k - 1 \in L
  BY <1>7
<1>9. k \in A <=> k \in L
  BY <1>1, <1>5, <1>8
<1> QED
  BY <1>4, <1>9

\* Where the pattern of a search for t has an escaped character.
Escaped(t) == {k \in 1 .. End(t) : \E i \in 1 .. Len(t) : t[i] \in Special /\ k = Place(t, i) + 1}

\* A place in the pattern is one of four.
LEMMA PatternPlaces ==
  ASSUME NEW t \in Seq(Nat), NEW k \in 1 .. End(t)
  PROVE  \/ k = 1 \/ k = End(t)
         \/ \E i \in 1 .. Len(t) : k = Place(t, i) + 1 \/ (t[i] \in Special /\ k = Place(t, i))
<1>1. Place(t, Len(t)) \in Nat
  BY PlaceTyped
<1>2. End(t) = Place(t, Len(t)) + 2
  BY DEF End
<1>3. CASE k = 1 \/ k = End(t)
  BY <1>3
<1>4. CASE k \in 2 .. End(t) - 1
  <2>1. k - 1 \in 1 .. Place(t, Len(t))
    BY <1>1, <1>2, <1>4
  <2>2. PICK i \in 1 .. Len(t) :
          k - 1 = Place(t, i) \/ (t[i] \in Special /\ k - 1 = Place(t, i) - 1)
    BY <2>1, PlaceCovers
  <2>3. Place(t, i) \in Nat
    <3>1. i \in 0 .. Len(t)
      OBVIOUS
    <3> QED
      BY <3>1, PlaceTyped
  <2>4. k = Place(t, i) + 1 \/ (t[i] \in Special /\ k = Place(t, i))
    BY <2>2, <2>3, <1>4
  <2> QED
    BY <2>4
<1> QED
  BY <1>1, <1>2, <1>3, <1>4

\* Which places of the pattern are literal.
LEMMA EscapedPlaces ==
  ASSUME NEW t \in Seq(Nat)
  PROVE  /\ 1 \notin Escaped(t) /\ End(t) \notin Escaped(t)
         /\ \A i \in 1 .. Len(t) :
              /\ Place(t, i) + 1 \in Escaped(t) <=> t[i] \in Special
              /\ t[i] \in Special => Place(t, i) \notin Escaped(t)
<1>1. ASSUME NEW i \in 1 .. Len(t)
      PROVE  /\ Place(t, i) \in Nat /\ Place(t, i) + 1 \in 1 .. End(t)
             /\ Place(t, i) + 1 # 1 /\ Place(t, i) + 1 # End(t)
  <2>1. i \in 0 .. Len(t)
    OBVIOUS
  <2>2. Place(t, i) + 1 \in 2 .. End(t) - 1 /\ End(t) \in Nat
    BY PatternText
  <2>3. Place(t, i) \in Nat
    BY <2>1, PlaceTyped
  <2> QED
    BY ONLY <2>2, <2>3
<1>2. ASSUME NEW i \in 1 .. Len(t)
      PROVE  Place(t, i) + 1 \in Escaped(t) <=> t[i] \in Special
  <2>1. Place(t, i) + 1 \in 1 .. End(t)
    BY <1>1
  <2>2. ASSUME NEW j \in 1 .. Len(t), Place(t, i) + 1 = Place(t, j) + 1 PROVE i = j
    <3>1. Place(t, i) = Place(t, j)
      BY <1>1, <2>2
    <3> QED
      BY <3>1, PlacesDiffer
  <2> QED
    BY <2>1, <2>2 DEF Escaped
<1>3. ASSUME NEW i \in 1 .. Len(t), t[i] \in Special
      PROVE  Place(t, i) \notin Escaped(t)
  <2>1. ASSUME NEW j \in 1 .. Len(t), Place(t, i) = Place(t, j) + 1 PROVE FALSE
    <3>1. Place(t, j) = Place(t, i) - 1
      BY <1>1, <2>1
    <3> QED
      BY <1>3, <3>1, PlacesDiffer
  <2> QED
    BY <2>1 DEF Escaped
<1>4. 1 \notin Escaped(t) /\ End(t) \notin Escaped(t)
  <2>1. ASSUME NEW i \in 1 .. Len(t) PROVE 1 # Place(t, i) + 1 /\ End(t) # Place(t, i) + 1
    BY <1>1
  <2> QED
    BY <2>1 DEF Escaped
<1> QED
  BY <1>2, <1>3, <1>4

LEMMA LiteralCharacters ==
  ASSUME NEW t \in Seq(Nat)
  PROVE  Literal(Contains(t)) = Escaped(t)
<1> DEFINE p == Contains(t)
<1>1. /\ p \in Seq(Nat) /\ End(t) \in Nat /\ End(t) >= 2
      /\ Len(p) = End(t) /\ DOMAIN p = 1 .. End(t)
      /\ p[1] = Percent /\ p[End(t)] = Percent
      /\ \A i \in 1 .. Len(t) :
           /\ Place(t, i) + 1 \in 2 .. End(t) - 1 /\ p[Place(t, i) + 1] = t[i]
           /\ t[i] \in Special => Place(t, i) \in 2 .. End(t) - 1 /\ p[Place(t, i)] = Backslash
  BY PatternText
<1> HIDE DEF p
<1>2. ASSUME NEW i \in 1 .. Len(t) PROVE Place(t, i) \in Nat
  <2>1. i \in 0 .. Len(t)
    OBVIOUS
  <2> QED
    BY <2>1, PlaceTyped
\* What stands before a character, or before its backslash.
<1>3. ASSUME NEW i \in 0 .. Len(t)
      PROVE  ~(Place(t, i) + 1 \notin Escaped(t) /\ p[Place(t, i) + 1] = Backslash)
  <2>1. CASE i = 0
    <3>1. Place(t, i) + 1 = 1
      BY <2>1, PlaceStep
    <3> QED
      BY <1>1, <3>1 DEF Percent, Backslash
  <2>2. CASE i \in 1 .. Len(t)
    <3>1. p[Place(t, i) + 1] = t[i] /\ (Place(t, i) + 1 \in Escaped(t) <=> t[i] \in Special)
      BY <1>1, <2>2, EscapedPlaces
    <3> QED
      BY <3>1 DEF Special
  <2> QED
    BY <2>1, <2>2
<1>4. ASSUME NEW k \in 1 .. End(t)
      PROVE  k \in Escaped(t) <=> k > 1 /\ k - 1 \notin Escaped(t) /\ p[k - 1] = Backslash
  <2>1. CASE k = 1
    BY <2>1, EscapedPlaces
  <2>2. CASE k = End(t)
    <3>1. Len(t) \in 0 .. Len(t) /\ Place(t, Len(t)) \in Nat
      BY PlaceTyped
    <3>2. k - 1 = Place(t, Len(t)) + 1
      BY <2>2, <3>1 DEF End
    <3> QED
      BY <1>3, <2>2, <3>1, <3>2, EscapedPlaces
  <2>3. ASSUME NEW i \in 1 .. Len(t), k = Place(t, i) + 1, t[i] \in Special
        PROVE  k \in Escaped(t) /\ k > 1 /\ k - 1 \notin Escaped(t) /\ p[k - 1] = Backslash
    <3>1. k - 1 = Place(t, i) /\ k \in 2 .. End(t) - 1
      BY <1>1, <1>2, <2>3
    <3>2. p[Place(t, i)] = Backslash
      BY <1>1, <2>3
    <3> QED
      BY <2>3, <3>1, <3>2, EscapedPlaces
  <2>4. ASSUME NEW i \in 1 .. Len(t),
               \/ k = Place(t, i) + 1 /\ t[i] \notin Special
               \/ k = Place(t, i) /\ t[i] \in Special
        PROVE  k \notin Escaped(t) /\ ~(k - 1 \notin Escaped(t) /\ p[k - 1] = Backslash)
    <3>1. /\ i - 1 \in 0 .. Len(t)
          /\ Place(t, i) = Place(t, i - 1) + (IF t[i] \in Special THEN 2 ELSE 1)
      BY PlaceNext
    <3>2. Place(t, i - 1) \in Nat /\ Place(t, i) \in Nat
      BY <1>2, <3>1, PlaceTyped
    <3>3. k - 1 = Place(t, i - 1) + 1
      BY ONLY <2>4, <3>1, <3>2
    <3>4. k \notin Escaped(t)
      BY <2>4, EscapedPlaces
    <3> QED
      BY <1>3, <3>1, <3>3, <3>4
  <2> QED
    BY <2>1, <2>2, <2>3, <2>4, PatternPlaces
<1> QED
  <2>1. Escaped(t) \in SUBSET DOMAIN p
    BY <1>1 DEF Escaped
  <2>2. Literal(p) = Escaped(t)
    BY <1>1, <1>4, <2>1, LiteralIs
  <2> QED
    BY <2>2 DEF p

-----------------------------------------------------------------------------
(* LIKE with that pattern is a search.                                     *)

\* at[k] characters of s match the first k of the pattern of t.
Aligned(s, t, at) ==
  /\ at[0] = 0 /\ at[End(t)] = Len(s) /\ at[End(t)] >= at[End(t) - 1]
  /\ \A i \in 1 .. Len(t) :
       /\ at[Place(t, i) + 1] = at[Place(t, i - 1) + 1] + 1
       /\ Lower(s[at[Place(t, i) + 1]]) = Lower(t[i])
       /\ t[i] \in Special => at[Place(t, i)] = at[Place(t, i - 1) + 1]

\* What one place of the pattern asks for.
MatchesAt(s, p, lit, k, from, to) ==
  /\ k \notin lit /\ p[k] = Backslash => to = from
  /\ k \notin lit /\ p[k] = Percent => to >= from
  /\ k \in lit \/ p[k] \notin {Backslash, Percent} =>
       /\ to = from + 1
       /\ (k \notin lit /\ p[k] = Underscore) \/ Lower(s[to]) = Lower(p[k])

LEMMA LikeMeans ==
  ASSUME NEW s, NEW p
  PROVE  Like(s, p) <=>
           \E at \in [0 .. Len(p) -> 0 .. Len(s)] :
             /\ at[0] = 0 /\ at[Len(p)] = Len(s)
             /\ \A k \in 1 .. Len(p) :
                  MatchesAt(s, p, Literal(p), k, at[k - 1], at[k])
BY Zenon DEF Like, MatchesAt

LEMMA SomewhereMatches ==
  ASSUME NEW s, NEW p, NEW lit, NEW k, NEW from, NEW to
  PROVE  /\ k \notin lit /\ p[k] = Percent =>
              (MatchesAt(s, p, lit, k, from, to) <=> to >= from)
         /\ k \notin lit /\ p[k] = Backslash =>
              (MatchesAt(s, p, lit, k, from, to) <=> to = from)
         /\ k \in lit \/ p[k] \notin Special =>
              (MatchesAt(s, p, lit, k, from, to)
                 <=> to = from + 1 /\ Lower(s[to]) = Lower(p[k]))
<1>1. CASE k \notin lit /\ p[k] = Percent
  BY <1>1 DEF MatchesAt, Special, Percent, Backslash
<1>2. CASE k \notin lit /\ p[k] = Backslash
  BY <1>2 DEF MatchesAt, Special, Percent, Backslash
<1>3. CASE k \in lit \/ p[k] \notin Special
  BY <1>3 DEF MatchesAt, Special
<1> QED
  BY <1>1, <1>2, <1>3

LEMMA EndsMatch ==
  ASSUME NEW s, NEW t \in Seq(Nat), NEW from, NEW to
  PROVE  /\ MatchesAt(s, Contains(t), Escaped(t), 1, from, to) <=> to >= from
         /\ MatchesAt(s, Contains(t), Escaped(t), End(t), from, to) <=> to >= from
<1>1. Contains(t)[1] = Percent /\ Contains(t)[End(t)] = Percent
  BY PatternText
<1>2. 1 \notin Escaped(t) /\ End(t) \notin Escaped(t)
  BY EscapedPlaces
<1> QED
  BY <1>1, <1>2, SomewhereMatches

LEMMA CharacterMatches ==
  ASSUME NEW s, NEW t \in Seq(Nat), NEW i \in 1 .. Len(t), NEW from, NEW to
  PROVE  MatchesAt(s, Contains(t), Escaped(t), Place(t, i) + 1, from, to)
           <=> to = from + 1 /\ Lower(s[to]) = Lower(t[i])
<1>1. Contains(t)[Place(t, i) + 1] = t[i]
  BY PatternText
<1>2. Place(t, i) + 1 \in Escaped(t) <=> t[i] \in Special
  BY EscapedPlaces
<1> QED
  BY <1>1, <1>2, SomewhereMatches

LEMMA BackslashMatches ==
  ASSUME NEW s, NEW t \in Seq(Nat), NEW i \in 1 .. Len(t), t[i] \in Special,
         NEW from, NEW to
  PROVE  MatchesAt(s, Contains(t), Escaped(t), Place(t, i), from, to) <=> to = from
<1>1. Contains(t)[Place(t, i)] = Backslash
  BY PatternText
<1>2. Place(t, i) \notin Escaped(t)
  BY EscapedPlaces
<1> QED
  BY <1>1, <1>2, SomewhereMatches

LEMMA AlignedMeans ==
  ASSUME NEW s \in Seq(Nat), NEW t \in Seq(Nat),
         NEW at \in [0 .. End(t) -> 0 .. Len(s)], at[0] = 0, at[End(t)] = Len(s)
  PROVE  (\A k \in 1 .. End(t) :
            MatchesAt(s, Contains(t), Escaped(t), k, at[k - 1], at[k]))
           <=> Aligned(s, t, at)
<1> DEFINE Good(k) == MatchesAt(s, Contains(t), Escaped(t), k, at[k - 1], at[k])
<1>1. End(t) \in Nat /\ End(t) >= 2
  BY PatternText
<1>2. at[1] >= at[0]
  <2>1. 1 \in 0 .. End(t)
    BY ONLY <1>1
  <2>2. at[1] \in 0 .. Len(s)
    BY <2>1
  <2> QED
    BY ONLY <2>2, at[0] = 0, Len(s) \in Nat
<1>3. /\ Good(1) <=> at[1] >= at[1 - 1]
      /\ Good(End(t)) <=> at[End(t)] >= at[End(t) - 1]
  BY EndsMatch
<1>4. ASSUME NEW i \in 1 .. Len(t)
      PROVE  /\ Good(Place(t, i) + 1) <=>
                  /\ at[Place(t, i) + 1] = at[Place(t, i)] + 1
                  /\ Lower(s[at[Place(t, i) + 1]]) = Lower(t[i])
             /\ t[i] \in Special => (Good(Place(t, i)) <=> at[Place(t, i)] = at[Place(t, i) - 1])
             /\ Place(t, i) + 1 \in 1 .. End(t)
             /\ t[i] \in Special => Place(t, i) \in 1 .. End(t)
             /\ t[i] \in Special => Place(t, i) - 1 = Place(t, i - 1) + 1
             /\ t[i] \notin Special => Place(t, i) = Place(t, i - 1) + 1
  <2>1. /\ i - 1 \in 0 .. Len(t) /\ i \in 0 .. Len(t)
        /\ Place(t, i) = Place(t, i - 1) + (IF t[i] \in Special THEN 2 ELSE 1)
    BY PlaceNext
  <2>2. Place(t, i - 1) \in Nat /\ Place(t, i) \in Nat
    BY <2>1, PlaceTyped
  <2>3. (Place(t, i) + 1) - 1 = Place(t, i)
    BY <2>2
  <2>4. /\ Place(t, i) + 1 \in 2 .. End(t) - 1
        /\ t[i] \in Special => Place(t, i) \in 2 .. End(t) - 1
    BY PatternText
  <2>5. Good(Place(t, i) + 1) <=>
          /\ at[Place(t, i) + 1] = at[Place(t, i)] + 1
          /\ Lower(s[at[Place(t, i) + 1]]) = Lower(t[i])
    <3>1. Good(Place(t, i) + 1) <=>
            MatchesAt(s, Contains(t), Escaped(t), Place(t, i) + 1, at[Place(t, i)], at[Place(t, i) + 1])
      BY <2>3
    <3> HIDE DEF Good
    <3> QED
      BY ONLY <3>1, CharacterMatches, s \in Seq(Nat), t \in Seq(Nat), i \in 1 .. Len(t)
  <2>6. t[i] \in Special => (Good(Place(t, i)) <=> at[Place(t, i)] = at[Place(t, i) - 1])
    BY BackslashMatches
  <2>7. /\ Place(t, i) + 1 \in 1 .. End(t)
        /\ t[i] \in Special => Place(t, i) \in 1 .. End(t)
    BY ONLY <1>1, <2>2, <2>4
  <2>8. /\ t[i] \in Special => Place(t, i) - 1 = Place(t, i - 1) + 1
        /\ t[i] \notin Special => Place(t, i) = Place(t, i - 1) + 1
    BY ONLY <2>1, <2>2
  <2> HIDE DEF Good
  <2> QED
    BY ONLY <2>5, <2>6, <2>7, <2>8
<1>5. 1 \in 1 .. End(t) /\ End(t) \in 1 .. End(t) /\ 1 - 1 = 0
  BY <1>1
<1> HIDE DEF Good
<1>6. ASSUME \A k \in 1 .. End(t) : Good(k) PROVE Aligned(s, t, at)
  BY <1>3, <1>4, <1>5, <1>6 DEF Aligned
<1>7. ASSUME Aligned(s, t, at), NEW k \in 1 .. End(t) PROVE Good(k)
  BY <1>2, <1>3, <1>4, <1>5, <1>7, PatternPlaces DEF Aligned
<1> QED
  BY <1>6, <1>7 DEF Good

LEMMA LowerTextIs ==
  ASSUME NEW s \in Seq(Nat)
  PROVE  /\ LowerText(s) \in Seq(Nat) /\ Len(LowerText(s)) = Len(s)
         /\ \A i \in 1 .. Len(s) : LowerText(s)[i] = Lower(s[i])
<1>1. ASSUME NEW c \in Nat PROVE Lower(c) \in Nat
  BY DEF Lower
<1>2. LowerText(s) \in [1 .. Len(s) -> Nat]
  <2>1. DOMAIN s = 1 .. Len(s) /\ \A i \in 1 .. Len(s) : s[i] \in Nat
    OBVIOUS
  <2> QED
    BY <1>1, <2>1 DEF LowerText
<1>3. LowerText(s) \in Seq(Nat) /\ Len(LowerText(s)) = Len(s)
  BY <1>2
<1>4. \A i \in 1 .. Len(s) : LowerText(s)[i] = Lower(s[i])
  BY DEF LowerText
<1> QED
  BY <1>3, <1>4

\* What Within says of texts in lower case.
LEMMA WithinMeans ==
  ASSUME NEW s \in Seq(Nat), NEW t \in Seq(Nat)
  PROVE  Within(LowerText(t), LowerText(s)) <=>
           \E a \in 0 .. Len(s) - Len(t) :
             \A j \in 1 .. Len(t) : Lower(s[a + j]) = Lower(t[j])
<1>1. ASSUME NEW a \in 0 .. Len(s) - Len(t), NEW j \in 1 .. Len(t)
      PROVE  /\ LowerText(s)[a + j] = Lower(s[a + j])
             /\ LowerText(t)[j] = Lower(t[j])
  <2>1. a + j \in 1 .. Len(s)
    OBVIOUS
  <2> QED
    BY <2>1, LowerTextIs
<1>2. /\ Len(LowerText(s)) = Len(s) /\ Len(LowerText(t)) = Len(t)
      /\ DOMAIN LowerText(t) = 1 .. Len(t)
  BY LowerTextIs
<1>3. ASSUME NEW a \in 0 .. Len(s) - Len(t)
      PROVE  (\A j \in DOMAIN LowerText(t) : LowerText(s)[a + j] = LowerText(t)[j])
               <=> \A j \in 1 .. Len(t) : Lower(s[a + j]) = Lower(t[j])
  BY <1>1, <1>2
<1> QED
  BY <1>2, <1>3 DEF Within

\* Characters of t match one after the other.
LEMMA AlignedFinds ==
  ASSUME NEW s \in Seq(Nat), NEW t \in Seq(Nat),
         NEW at \in [0 .. End(t) -> 0 .. Len(s)], Aligned(s, t, at)
  PROVE  \E a \in 0 .. Len(s) - Len(t) :
           \A j \in 1 .. Len(t) : Lower(s[a + j]) = Lower(t[j])
<1> DEFINE a == at[1]
           N == Len(t)
           S == {n \in Nat : n <= N => at[Place(t, n) + 1] = a + n}
<1>1. End(t) \in Nat /\ End(t) >= 2 /\ N \in Nat /\ Len(s) \in Nat
  <2>1. End(t) \in Nat /\ End(t) >= 2
    BY PatternText
  <2> QED
    BY <2>1
<1>2. a \in 0 .. Len(s) /\ a \in Nat
  <2>1. 1 \in 0 .. End(t)
    BY ONLY <1>1
  <2>2. a \in 0 .. Len(s)
    BY <2>1
  <2> HIDE DEF a
  <2> QED
    BY ONLY <1>1, <2>2
<1> HIDE DEF a
<1>3. 0 \in S
  <2>1. Place(t, 0) + 1 = 1
    BY PlaceStep
  <2>2. at[Place(t, 0) + 1] = a + 0
    BY <1>2, <2>1 DEF a
  <2> QED
    BY <2>2
<1>4. ASSUME NEW n \in S PROVE n + 1 \in S
  <2>1. ASSUME n + 1 <= N PROVE at[Place(t, n + 1) + 1] = a + (n + 1)
    <3>1. n + 1 \in 1 .. N /\ (n + 1) - 1 = n /\ n \in Nat /\ n <= N
      BY <1>1, <2>1
    <3>2. at[Place(t, n + 1) + 1] = at[Place(t, n) + 1] + 1
      <4>1. at[Place(t, n + 1) + 1] = at[Place(t, (n + 1) - 1) + 1] + 1
        BY <3>1 DEF Aligned
      <4> QED
        BY <3>1, <4>1
    <3>3. at[Place(t, n) + 1] = a + n
      BY <3>1
    <3> QED
      BY ONLY <1>2, <3>1, <3>2, <3>3
  <2> QED
    BY <2>1
<1>5. \A n \in Nat : n \in S
  <2>1. S \in SUBSET Nat
    OBVIOUS
  <2> HIDE DEF S
  <2> QED
    BY ONLY <1>3, <1>4, <2>1, SetInduction
<1>6. ASSUME NEW j \in 1 .. N PROVE Lower(s[a + j]) = Lower(t[j])
  <2>1. j \in Nat /\ j <= N /\ j \in S
    BY <1>1, <1>5
  <2>2. at[Place(t, j) + 1] = a + j
    BY <2>1
  <2> QED
    BY <2>2 DEF Aligned
<1>7. a <= Len(s) - N
  <2>1. N \in S /\ N <= N
    BY <1>1, <1>5
  <2>2. at[Place(t, N) + 1] = a + N
    BY <2>1
  <2>3. Place(t, N) \in Nat
    <3>1. N \in 0 .. Len(t)
      BY <1>1
    <3> QED
      BY <3>1, PlaceTyped
  <2>4. End(t) - 1 = Place(t, N) + 1
    BY <2>3 DEF End
  <2>5. a + N <= Len(s)
    BY <2>2, <2>4 DEF Aligned
  <2> QED
    BY <1>1, <1>2, <2>5
<1>8. a \in 0 .. Len(s) - Len(t)
  BY <1>1, <1>2, <1>7
<1> QED
  BY <1>6, <1>8

\* How many characters of t come to lie in the first m places.
Done(t, m) ==
  CHOOSE n \in 0 .. Len(t) :
    /\ Place(t, n) <= m
    /\ \A j \in 0 .. Len(t) : Place(t, j) <= m => j <= n

LEMMA DoneIs ==
  ASSUME NEW t \in Seq(Nat), NEW n \in 0 .. Len(t)
  PROVE  /\ Done(t, Place(t, n)) = n
         /\ n > 0 /\ t[n] \in Special => Done(t, Place(t, n) - 1) = n - 1
<1>1. \A j \in 0 .. Len(t) : Place(t, j) \in Nat
  BY PlaceTyped
<1>2. ASSUME NEW j \in 0 .. Len(t), n < j PROVE Place(t, n) < Place(t, j)
  BY <1>2, PlaceGrows
<1>3. Done(t, Place(t, n)) = n
  <2>1. Place(t, n) <= Place(t, n)
    BY <1>1
  <2>2. ASSUME NEW j \in 0 .. Len(t), Place(t, j) <= Place(t, n) PROVE j <= n
    <3>1. ~(n < j)
      BY <1>1, <1>2, <2>2
    <3> QED
      BY <3>1
  <2>3. ASSUME NEW m \in 0 .. Len(t), \A j \in 0 .. Len(t) : Place(t, j) <= Place(t, n) => j <= m,
               Place(t, m) <= Place(t, n)
        PROVE  m = n
    <3>1. n <= m
      BY <2>1, <2>3
    <3>2. m <= n
      BY <2>2, <2>3
    <3> QED
      BY <3>1, <3>2
  <2> QED
    BY <2>1, <2>2, <2>3 DEF Done
<1>4. ASSUME n > 0, t[n] \in Special PROVE Done(t, Place(t, n) - 1) = n - 1
  <2>1. n \in 1 .. Len(t) /\ n - 1 \in 0 .. Len(t) /\ n - 1 \in Nat
    BY <1>4
  <2>2. Place(t, n) = Place(t, n - 1) + 2
    BY <1>4, <2>1, PlaceNext
  <2> DEFINE q == Place(t, n) - 1
  <2>3. q = Place(t, n - 1) + 1 /\ q \in Nat /\ Place(t, n - 1) \in Nat /\ Place(t, n) = q + 1
    BY <1>1, <2>1, <2>2
  <2> HIDE DEF q
  <2>4. Place(t, n - 1) <= q
    BY <2>3
  <2>5. ASSUME NEW j \in 0 .. Len(t), Place(t, j) <= q PROVE j <= n - 1
    <3>1. ~(n < j)
      BY <1>1, <1>2, <2>3, <2>5
    <3>2. j # n
      BY <1>1, <2>3, <2>5
    <3> QED
      BY <3>1, <3>2
  <2>6. ASSUME NEW m \in 0 .. Len(t), \A j \in 0 .. Len(t) : Place(t, j) <= q => j <= m,
               Place(t, m) <= q
        PROVE  m = n - 1
    <3>1. n - 1 <= m
      BY <2>1, <2>4, <2>6
    <3>2. m <= n - 1
      BY <2>5, <2>6
    <3> QED
      BY <2>1, <3>1, <3>2
  <2>7. Done(t, q) = n - 1
    BY <2>1, <2>4, <2>5, <2>6 DEF Done
  <2> QED
    BY <2>7 DEF q
<1> QED
  BY <1>3, <1>4

\* An occurrence of t at a gives the alignment.
LEMMA FoundAligns ==
  ASSUME NEW s \in Seq(Nat), NEW t \in Seq(Nat), NEW a \in 0 .. Len(s) - Len(t),
         \A j \in 1 .. Len(t) : Lower(s[a + j]) = Lower(t[j])
  PROVE  \E at \in [0 .. End(t) -> 0 .. Len(s)] : Aligned(s, t, at)
<1> DEFINE at == [k \in 0 .. End(t) |-> IF k = 0 THEN 0 ELSE IF k = End(t) THEN Len(s)
                                        ELSE a + Done(t, k - 1)]
<1>1. End(t) \in Nat /\ End(t) >= 2 /\ End(t) - 1 \in 1 .. End(t) - 1
  <2>1. End(t) \in Nat /\ End(t) >= 2
    BY PatternText
  <2> QED
    BY <2>1
<1>2. a \in Nat /\ Len(t) \in Nat /\ Len(s) \in Nat /\ a + Len(t) <= Len(s)
  OBVIOUS
<1>3. ASSUME NEW k \in 1 .. End(t) - 1 PROVE at[k] = a + Done(t, k - 1)
  BY <1>1
<1>4. at[0] = 0 /\ at[End(t)] = Len(s)
  BY <1>1
<1>5. DOMAIN at = 0 .. End(t)
  OBVIOUS
<1>5a. at = [k \in 0 .. End(t) |-> at[k]]
  OBVIOUS
<1> HIDE DEF at
\* After character n, and at the backslash before it.
<1>6. ASSUME NEW n \in 0 .. Len(t)
      PROVE  Place(t, n) + 1 \in 1 .. End(t) - 1 /\ at[Place(t, n) + 1] = a + n
  <2>1. Place(t, n) \in Nat /\ Place(t, n) + 1 \in 1 .. End(t) - 1
    <3>1. CASE n = 0
      <4>1. Place(t, 0) = 0
        BY PlaceStep
      <4> QED
        BY <1>1, <3>1, <4>1
    <3>2. CASE n \in 1 .. Len(t)
      <4>1. Place(t, n) + 1 \in 2 .. End(t) - 1
        BY <3>2, PatternText
      <4>2. Place(t, n) \in Nat
        BY PlaceTyped
      <4> QED
        BY ONLY <1>1, <4>1, <4>2
    <3> QED
      BY <3>1, <3>2
  <2>2. (Place(t, n) + 1) - 1 = Place(t, n)
    BY <2>1
  <2>3. Done(t, Place(t, n)) = n
    BY DoneIs
  <2> QED
    BY <1>3, <2>1, <2>2, <2>3
<1>7. ASSUME NEW i \in 1 .. Len(t), t[i] \in Special
      PROVE  Place(t, i) \in 1 .. End(t) - 1 /\ at[Place(t, i)] = a + (i - 1)
  <2>1. Place(t, i) \in 2 .. End(t) - 1
    BY <1>7, PatternText
  <2>2. Place(t, i) \in 1 .. End(t) - 1
    BY ONLY <1>1, <2>1
  <2>3. Done(t, Place(t, i) - 1) = i - 1
    <3>1. i \in 0 .. Len(t) /\ i > 0
      OBVIOUS
    <3> QED
      BY <1>7, <3>1, DoneIs
  <2> QED
    BY <1>3, <2>2, <2>3
<1>8. ASSUME NEW k \in 0 .. End(t) PROVE at[k] \in 0 .. Len(s)
  <2>1. CASE k = 0 \/ k = End(t)
    BY <1>2, <1>4, <2>1
  <2>2. CASE k = 1
    <3>1. Place(t, 0) = 0 /\ 0 \in 0 .. Len(t)
      BY PlaceStep, <1>2
    <3>2. at[Place(t, 0) + 1] = a + 0
      BY <1>6, <3>1
    <3>3. at[1] = a + 0
      BY <3>1, <3>2
    <3> QED
      BY <1>2, <2>2, <3>3
  <2>3. ASSUME NEW i \in 1 .. Len(t), k = Place(t, i) + 1 \/ (t[i] \in Special /\ k = Place(t, i))
        PROVE  at[k] \in 0 .. Len(s)
    <3>1. CASE k = Place(t, i) + 1
      <4>1. at[k] = a + i
        BY <1>6, <3>1
      <4> QED
        BY ONLY <1>2, <4>1, i \in 1 .. Len(t)
    <3>2. CASE t[i] \in Special /\ k = Place(t, i)
      <4>1. at[k] = a + (i - 1)
        BY <1>7, <3>2
      <4> QED
        BY ONLY <1>2, <4>1, i \in 1 .. Len(t)
    <3> QED
      BY <2>3, <3>1, <3>2
  <2>4. k = 0 \/ k \in 1 .. End(t)
    BY <1>1
  <2> QED
    BY <2>1, <2>2, <2>3, <2>4, PatternPlaces
<1>9. at \in [0 .. End(t) -> 0 .. Len(s)]
  BY <1>5, <1>5a, <1>8
<1>10. at[End(t)] >= at[End(t) - 1]
  <2>1. at[End(t) - 1] \in 0 .. Len(s)
    BY <1>1, <1>8
  <2> QED
    BY <1>2, <1>4, <2>1
<1>11. ASSUME NEW i \in 1 .. Len(t)
       PROVE  /\ at[Place(t, i) + 1] = at[Place(t, i - 1) + 1] + 1
              /\ Lower(s[at[Place(t, i) + 1]]) = Lower(t[i])
              /\ t[i] \in Special => at[Place(t, i)] = at[Place(t, i - 1) + 1]
  <2>1. i \in 0 .. Len(t) /\ i - 1 \in 0 .. Len(t) /\ i \in Nat
    OBVIOUS
  <2>2. at[Place(t, i) + 1] = a + i
    BY <1>6, <2>1
  <2>3. at[Place(t, i - 1) + 1] = a + (i - 1)
    BY <1>6, <2>1
  <2>4. t[i] \in Special => at[Place(t, i)] = a + (i - 1)
    BY <1>7
  <2>5. a + i = a + (i - 1) + 1
    BY <1>2, <2>1
  <2> QED
    BY <2>2, <2>3, <2>4, <2>5
<1>12. Aligned(s, t, at)
  BY <1>4, <1>10, <1>11 DEF Aligned
<1> QED
  BY <1>9, <1>12

\* "~ means contains this text": LIKE with the pattern of like_escape finds
\* what contains() finds, for every text, wildcards and backslashes included.
THEOREM LikeIsSearch ==
  ASSUME NEW s \in Seq(Nat), NEW t \in Seq(Nat)
  PROVE  Like(s, Contains(t)) <=> Within(LowerText(t), LowerText(s))
<1>1. Literal(Contains(t)) = Escaped(t) /\ Len(Contains(t)) = End(t)
  BY LiteralCharacters, PatternText
<1>2. Like(s, Contains(t)) <=>
        \E at \in [0 .. End(t) -> 0 .. Len(s)] :
          /\ at[0] = 0 /\ at[End(t)] = Len(s)
          /\ \A k \in 1 .. End(t) :
               MatchesAt(s, Contains(t), Escaped(t), k, at[k - 1], at[k])
  BY <1>1, LikeMeans
<1>3. Like(s, Contains(t)) <=>
        \E at \in [0 .. End(t) -> 0 .. Len(s)] : Aligned(s, t, at)
  <2>1. ASSUME NEW at \in [0 .. End(t) -> 0 .. Len(s)], Aligned(s, t, at)
        PROVE  at[0] = 0 /\ at[End(t)] = Len(s)
    BY <2>1 DEF Aligned
  <2> QED
    BY <1>2, <2>1, AlignedMeans
<1> QED
  BY <1>3, WithinMeans, AlignedFinds, FoundAligns

-----------------------------------------------------------------------------
(* The order of texts is total.                                            *)

LEMMA PrecedesTotal ==
  ASSUME NEW s \in Seq(Nat), NEW t \in Seq(Nat)
  PROVE  ~Precedes(s, t) /\ ~Precedes(t, s) <=> s = t
<1>1. Len(s) \in Nat /\ Len(t) \in Nat
  OBVIOUS
<1>2. ASSUME s = t PROVE ~Precedes(s, t) /\ ~Precedes(t, s)
  <2>1. ASSUME NEW n \in 0 .. Len(s), n < Len(s) PROVE ~(n = Len(s) \/ s[n + 1] < s[n + 1])
    <3>1. n + 1 \in 1 .. Len(s)
      BY <1>1, <2>1
    <3>2. s[n + 1] \in Nat
      BY <3>1
    <3> QED
      BY <1>1, <2>1, <3>2
  <2> QED
    BY <1>2, <2>1 DEF Precedes
<1>3. ASSUME s # t PROVE Precedes(s, t) \/ Precedes(t, s)
  <2> DEFINE D == {i \in Nat : i \in 1 .. Len(s) /\ i \in 1 .. Len(t) /\ s[i] # t[i]}
  <2>1. CASE D = {}
    <3>1. \A i \in Nat : i \in 1 .. Len(s) /\ i \in 1 .. Len(t) => s[i] = t[i]
      BY <2>1
    <3>2. Len(s) # Len(t)
      <4>1. ASSUME Len(s) = Len(t) PROVE s = t
        <5>1. \A i \in 1 .. Len(s) : s[i] = t[i]
          BY <1>1, <3>1, <4>1
        <5> QED
          BY <4>1, <5>1
      <4> QED
        BY <1>3, <4>1
    <3>3. CASE Len(s) < Len(t)
      <4>1. ASSUME NEW i \in 1 .. Len(s) PROVE s[i] = t[i]
        <5>1. i \in Nat /\ i \in 1 .. Len(s) /\ i \in 1 .. Len(t)
          BY <1>1, <3>3
        <5> QED
          BY <3>1, <5>1
      <4>2. Len(s) \in 0 .. Len(s)
        BY <1>1
      <4> QED
        BY <3>3, <4>1, <4>2 DEF Precedes
    <3>4. CASE Len(t) < Len(s)
      <4>1. ASSUME NEW i \in 1 .. Len(t) PROVE t[i] = s[i]
        <5>1. i \in Nat /\ i \in 1 .. Len(s) /\ i \in 1 .. Len(t)
          BY <1>1, <3>4
        <5> QED
          BY <3>1, <5>1
      <4>2. Len(t) \in 0 .. Len(t)
        BY <1>1
      <4> QED
        BY <3>4, <4>1, <4>2 DEF Precedes
    <3> QED
      BY <1>1, <3>2, <3>3, <3>4
  <2>2. CASE D # {}
    <3>1. D \in SUBSET Nat
      OBVIOUS
    <3>2. PICK k \in D : \A m \in D : k <= m
      <4> HIDE DEF D
      <4> QED
        BY <2>2, <3>1, LeastNat
    <3>3. /\ k \in Nat /\ k \in 1 .. Len(s) /\ k \in 1 .. Len(t)
          /\ s[k] \in Nat /\ t[k] \in Nat /\ s[k] # t[k]
      OBVIOUS
    <3> DEFINE n == k - 1
    <3>4. /\ n \in 0 .. Len(s) /\ n \in 0 .. Len(t) /\ n < Len(s) /\ n < Len(t)
          /\ n + 1 = k
      BY <1>1, <3>3
    <3>5. \A i \in 1 .. n : s[i] = t[i]
      <4>1. ASSUME NEW i \in 1 .. n PROVE s[i] = t[i]
        <5>1. i \in Nat /\ ~(k <= i) /\ i \in 1 .. Len(s) /\ i \in 1 .. Len(t)
          BY <1>1, <3>3
        <5> QED
          BY <3>2, <5>1
      <4> QED
        BY <4>1
    <3> HIDE DEF n, D
    <3>6. CASE s[k] < t[k]
      BY <3>4, <3>5, <3>6 DEF Precedes
    <3>7. CASE t[k] < s[k]
      BY <3>4, <3>5, <3>7 DEF Precedes
    <3> QED
      BY <3>3, <3>6, <3>7
  <2> QED
    BY <2>1, <2>2
<1> QED
  BY <1>2, <1>3

-----------------------------------------------------------------------------
(* A text without a NUL, and the pattern made of it, are read to their end. *)

Whole(s) == \A i \in DOMAIN s : s[i] # Nul

LEMMA WholeEnded ==
  ASSUME NEW s \in Seq(Nat), Whole(s)
  PROVE  Ended(s) = s
<1>1. {i \in DOMAIN s : \A j \in 1 .. i : s[j] # Nul} = 1 .. Len(s)
  BY DEF Whole
<1>2. Len(s) \in Nat
  OBVIOUS
<1>3. Cardinality(1 .. Len(s)) = Len(s)
  BY <1>2, FS_Interval
<1>4. SubSeq(s, 1, Len(s)) = s
  OBVIOUS
<1> QED
  BY <1>1, <1>3, <1>4 DEF Ended

LEMMA EscapedWhole ==
  ASSUME NEW t \in Seq(Nat), Whole(t)
  PROVE  Whole(LikeEscape(t))
<1>1. ASSUME NEW k \in DOMAIN LikeEscape(t)
      PROVE  LikeEscape(t)[k] # Nul
  <2>1. k \in 1 .. Place(t, Len(t))
    BY DEF LikeEscape
  <2>2. CASE \E i \in DOMAIN t : Place(t, i) = k
    <3> DEFINE i == CHOOSE i \in DOMAIN t : Place(t, i) = k
    <3>1. i \in DOMAIN t
      BY <2>2
    <3>2. LikeEscape(t)[k] = t[i]
      BY <2>1, <2>2 DEF LikeEscape
    <3> HIDE DEF i
    <3> QED
      BY <3>1, <3>2 DEF Whole
  <2>3. CASE ~\E i \in DOMAIN t : Place(t, i) = k
    BY <2>1, <2>3 DEF LikeEscape, Backslash, Nul
  <2> QED
    BY <2>2, <2>3
<1> QED
  BY <1>1 DEF Whole

LEMMA PatternWhole ==
  ASSUME NEW t \in Seq(Nat), Whole(t)
  PROVE  Whole(Contains(t))
<1> DEFINE e == LikeEscape(t)
<1>1. e \in Seq(Nat) /\ Whole(e)
  BY EscapedText, EscapedWhole
<1> HIDE DEF e
<1>2. /\ Contains(t) = <<Percent>> \o e \o <<Percent>>
      /\ Len(Contains(t)) = Len(e) + 2 /\ DOMAIN Contains(t) = 1 .. Len(e) + 2
  BY <1>1 DEF Contains, e
<1>3. ASSUME NEW k \in 1 .. Len(e) + 2
      PROVE  Contains(t)[k] # Nul
  <2>1. CASE k = 1 \/ k = Len(e) + 2
    BY <1>1, <1>2, <2>1 DEF Percent, Nul
  <2>2. CASE k \in 2 .. Len(e) + 1
    <3>1. Contains(t)[k] = e[k - 1] /\ k - 1 \in DOMAIN e
      BY <1>1, <1>2, <2>2
    <3> QED
      BY <1>1, <3>1 DEF Whole
  <2> QED
    BY <1>1, <2>1, <2>2
<1> QED
  BY <1>2, <1>3 DEF Whole

-----------------------------------------------------------------------------
(* Values and operands.                                                    *)

\* A JSON value, or a literal that is not finite.
Typed(v) ==
  /\ v.t \in {"null", "bool", "num", "text", "array"}
  /\ v = Null <=> v.t = "null"
  /\ v.t = "bool" => v.n \in {Zero, One} /\ v = Bool(v.n)
  /\ v.t = "num" => v.n \in Numerals /\ v = Num(v.n)
  /\ v.t = "text" => v.v \in Seq(Nat) /\ v = Text(v.v)
  /\ v.t = "array" => v = Array

LEMMA NumTyped ==
  ASSUME NEW n \in Numerals
  PROVE  Typed(Num(n)) /\ Num(n).t = "num"
BY DEF Typed, Num, Null

LEMMA TextTyped ==
  ASSUME NEW v \in TextValues
  PROVE  Typed(v) /\ v.t = "text"
<1>1. PICK s \in Texts : v = Text(s)
  BY DEF TextValues
<1>2. s \in Seq(Nat)
  BY ComparisonAssumption
<1> QED
  BY <1>1, <1>2 DEF Typed, Text, Null

LEMMA JsonTyped ==
  ASSUME NEW v \in Json
  PROVE  Typed(v) /\ (v.t = "num" => v.n \notin NonFinite)
<1>1. CASE v = Null
  BY <1>1 DEF Typed, Null
<1>2. CASE v = Array
  BY <1>2 DEF Typed, Null, Array
<1>3. CASE v = Bool(Zero) \/ v = Bool(One)
  BY <1>3 DEF Typed, Null, Bool
<1>4. CASE v \in Numbers
  <2>1. PICK n \in Numerals \ NonFinite : v = Num(n)
    BY <1>4 DEF Numbers
  <2>2. v.n = n
    BY <2>1 DEF Num
  <2> QED
    BY <2>1, <2>2, NumTyped
<1>5. CASE v \in TextValues
  BY <1>5, TextTyped
<1> QED
  BY <1>1, <1>2, <1>3, <1>4, <1>5 DEF Json

\* Only a literal may be a number that is not finite.
Finite(o) == o.v.t = "num" => o.v.n \notin NonFinite

LEMMA LeftOperands ==
  ASSUME NEW l \in Lefts
  PROVE  /\ Typed(l.v) /\ Finite(l) /\ l.kind \in {"field", "column", "auth"}
         /\ l.kind # "field" => l.v.t = "text"
<1>1. CASE l \in OfKind("field", Json)
  <2>1. l.kind = "field" /\ l.v \in Json
    BY <1>1 DEF OfKind, Operand
  <2> QED
    BY <2>1, JsonTyped DEF Finite
<1>2. CASE l \in OfKind("column", TextValues) \/ l \in OfKind("auth", TextValues)
  <2>1. l.kind \in {"column", "auth"} /\ l.v \in TextValues
    BY <1>2 DEF OfKind, Operand
  <2> QED
    BY <2>1, TextTyped DEF Finite
<1> QED
  BY <1>1, <1>2 DEF Lefts

LEMMA RightOperands ==
  ASSUME NEW r \in Rights
  PROVE  /\ Typed(r.v)
         /\ r.kind = "field" => Finite(r)
         /\ r.kind = "val" => r.v.t \in {"text", "num"}
         /\ r.kind = "null" => r.v = Null
         /\ r.kind \in {"column", "auth"} => r.v.t = "text"
         /\ r.kind \in {"field", "column", "auth", "val", "null"}
<1>1. CASE r \in Lefts
  BY <1>1, LeftOperands
<1>2. CASE r = Operand("null", Null)
  BY <1>2, JsonTyped DEF Operand, Json
<1>3. CASE r \in OfKind("val", TextValues \cup {Num(n) : n \in Numerals \ Big})
  <2>1. r.kind = "val" /\ r.v \in TextValues \cup {Num(n) : n \in Numerals \ Big}
    BY <1>3 DEF OfKind, Operand
  <2>2. CASE r.v \in TextValues
    BY <2>1, <2>2, TextTyped
  <2>3. CASE r.v \in {Num(n) : n \in Numerals \ Big}
    BY <2>1, <2>3, NumTyped
  <2> QED
    BY <2>1, <2>2, <2>3
<1> QED
  BY <1>1, <1>2, <1>3 DEF Rights

LEMMA TextOfTyped ==
  ASSUME NEW v, Typed(v), v # Null
  PROVE  TextOf(v) \in Seq(Nat)
<1>1. CASE v.t = "text"
  BY <1>1 DEF TextOf, Typed
<1>2. CASE v.t = "num"
  <2>1. Serde \in [Numerals -> Seq(Nat \ {0})] /\ v.n \in Numerals
    BY <1>2, ComparisonAssumption DEF Typed
  <2>2. Serde[v.n] \in Seq(Nat)
    BY <2>1
  <2> QED
    BY <1>2, <2>2 DEF TextOf
<1>3. CASE v.t = "bool"
  BY <1>3 DEF TextOf
<1>4. CASE v.t = "array"
  BY <1>4 DEF TextOf
<1> QED
  BY <1>1, <1>2, <1>3, <1>4 DEF Typed

LEMMA TextWhole ==
  ASSUME NEW v, Typed(v), v.t \in {"text", "num", "array"}, ~HasNul(v)
  PROVE  Whole(TextOf(v))
<1>1. CASE v.t = "text"
  BY <1>1 DEF TextOf, HasNul, Whole
<1>2. CASE v.t = "num"
  <2>1. Serde[v.n] \in Seq(Nat \ {0})
    BY <1>2, ComparisonAssumption DEF Typed
  <2>2. \A i \in DOMAIN Serde[v.n] : Serde[v.n][i] # 0
    BY <2>1
  <2> QED
    BY <1>2, <2>2 DEF TextOf, Whole, Nul
<1>3. CASE v.t = "array"
  BY <1>3 DEF TextOf, Whole, Nul
<1> QED
  BY <1>1, <1>2, <1>3

\* What a finite operand is in either backend.
LEMMA OperandIs ==
  ASSUME NEW o, Typed(o.v), Finite(o), o.v.t = "bool" => o.kind # "val"
  PROVE  /\ JsonValue(o) = o.v
         /\ SqlValue(o) = Null <=> o.v = Null
         /\ o.v.t = "text" => SqlValue(o) = o.v
         /\ o.v.t = "array" => SqlValue(o) = Text(TextOf(o.v))
         /\ o.v.t \in {"bool", "num"} =>
              SqlValue(o) = SqlNumber(IF o.kind = "val" THEN Value[o.v.n] ELSE Read[o.v.n],
                                   Sqlite[o.v.n])
<1>1. JsonValue(o) = o.v
  BY DEF JsonValue, Finite
<1>2. o.v.t = "num" => o.v.n # NaN
  BY ComparisonAssumption DEF Finite
<1>3. CASE o.v.t = "text"
  BY <1>1, <1>3 DEF SqlValue, Extract, Typed
<1>4. CASE o.v.t = "array"
  BY <1>1, <1>4 DEF SqlValue, Extract, Typed, Text, Null
<1>5. CASE o.v.t = "null"
  BY <1>1, <1>5 DEF SqlValue, Extract, Typed
<1>6. CASE o.v.t \in {"bool", "num"}
  BY <1>1, <1>2, <1>6 DEF SqlValue, Extract, Typed, SqlNumber, Null
<1> QED
  BY <1>3, <1>4, <1>5, <1>6 DEF Typed

-----------------------------------------------------------------------------
(* A comparison, by its kind.  Its operands are finite.                    *)

Plain(o) == Typed(o.v) /\ Finite(o) /\ (o.v.t = "bool" => o.kind # "val")

LEMMA NullsAgree ==
  ASSUME NEW l, NEW r, NEW op, Plain(l), Plain(r),
         r.kind \in {"field", "column", "null"} => op \notin Likes,
         r.kind = "null" \/ l.v = Null \/ r.v = Null,
         r.v = Null => r.kind \in {"field", "null"}
  PROVE  EvalGrants(l, op, r) <=> SqlGrants(l, op, r)
<1>1. /\ SqlValue(l) = Null <=> l.v = Null
      /\ SqlValue(r) = Null <=> r.v = Null
      /\ JsonValue(l) = l.v /\ JsonValue(r) = r.v
  BY OperandIs DEF Plain
<1>2. CASE r.kind = "null"
  BY <1>1, <1>2 DEF EvalGrants, SqlGrants
<1>3. CASE r.kind # "null" /\ op \in Likes
  BY <1>1, <1>3 DEF EvalGrants, SqlGrants
<1>4. CASE r.kind # "null" /\ op \notin Likes
  BY <1>1, <1>4 DEF EvalGrants, SqlGrants
<1> QED
  BY <1>2, <1>3, <1>4

LEMMA LikesAgree ==
  ASSUME NEW l, NEW r, NEW op \in Likes, Plain(l), Plain(r),
         r.kind # "null", l.v # Null, r.v # Null, r.v.t \in {"text", "num"},
         l.v.t # "bool",
         l.v.t = "num" => l.kind # "val" /\ Sqlite[l.v.n] = Serde[l.v.n],
         r.v.t = "num" => Display[r.v.n] = Serde[r.v.n],
         ~HasNul(l.v), ~HasNul(r.v)
  PROVE  EvalGrants(l, op, r) <=> SqlGrants(l, op, r)
<1> DEFINE s == TextOf(l.v)
           t == TextOf(r.v)
<1>1. s \in Seq(Nat) /\ t \in Seq(Nat) /\ Whole(s) /\ Whole(t)
  BY TextOfTyped, TextWhole DEF Plain, Typed
<1>2. SqlValue(l) # Null /\ JsonValue(l) = l.v /\ JsonValue(r) = r.v
  BY OperandIs DEF Plain
<1>3. SqlText(SqlValue(l)) = s
  <2>1. CASE l.v.t = "text"
    BY <2>1, OperandIs DEF SqlText, TextOf, Plain
  <2>2. CASE l.v.t = "array"
    BY <2>2, OperandIs DEF SqlText, Text, Plain
  <2>3. CASE l.v.t = "num"
    BY <2>3, OperandIs DEF SqlText, SqlNumber, TextOf, Plain
  <2> QED
    BY <2>1, <2>2, <2>3 DEF Plain, Typed
<1>4. Pattern(r.v) = Contains(t)
  BY DEF Pattern, Contains, TextOf
<1>5. /\ Contains(t) \in Seq(Nat) /\ Whole(Contains(t))
      /\ Like(s, Contains(t)) <=> Within(LowerText(t), LowerText(s))
  <2> HIDE DEF s, t
  <2> QED
    BY <1>1, PatternText, PatternWhole, LikeIsSearch
<1>6. Ended(s) = s /\ Ended(Contains(t)) = Contains(t)
  <2> HIDE DEF s, t
  <2> QED
    BY <1>1, <1>5, WholeEnded
<1>7. EvalGrants(l, op, r) = (Within(LowerText(t), LowerText(s)) = (op = "~"))
  BY <1>2 DEF EvalGrants
<1>8. SqlGrants(l, op, r) = (Like(s, Contains(t)) = (op = "~"))
  BY <1>2, <1>3, <1>4, <1>6 DEF SqlGrants
<1> QED
  BY <1>5, <1>7, <1>8 DEF Like, Within

\* Numbers of which no two share an f64 are ordered as their f64s are.
LEMMA FloatsOrder ==
  ASSUME NEW x \in Values, NEW y \in Values, x = y \/ Double[x] # Double[y]
  PROVE  /\ Double[x] < Double[y] <=> x < y
         /\ Double[x] = Double[y] <=> ~(x < y) /\ ~(y < x)
<1>1. x \in Int /\ y \in Int /\ Double[x] \in Int /\ Double[y] \in Int
  BY ComparisonAssumption
<1>2. (x <= y => Double[x] <= Double[y]) /\ (y <= x => Double[y] <= Double[x])
  BY ComparisonAssumption
<1> QED
  BY <1>1, <1>2

\* What SQLite compares rounds to what the memory backend compares.
LEMMA SqlValueRounds ==
  ASSUME NEW o, Plain(o), IsNumber(o.v), o.kind \in {"field", "val"},
         o.kind = "field" /\ o.v.n \notin Ints \ Big => Read[o.v.n] = F64(o.v)
  PROVE  /\ SqlValue(o).t = "num" /\ SqlValue(o).x \in Values /\ SqlValue(o) # Null /\ o.v # Null
         /\ Double[SqlValue(o).x] = F64(o.v)
<1>1. o.v.n \in Numerals
  BY ComparisonAssumption DEF Plain, Typed, IsNumber
<1>2. /\ Value[o.v.n] \in Values /\ Read[o.v.n] \in Values
      /\ Double[Double[Value[o.v.n]]] = Double[Value[o.v.n]]
  BY <1>1, ComparisonAssumption
<1>3. /\ SqlValue(o).t = "num" /\ SqlValue(o) # Null /\ o.v # Null
      /\ SqlValue(o).x = IF o.kind = "val" THEN Value[o.v.n] ELSE Read[o.v.n]
  BY OperandIs DEF Plain, Typed, IsNumber, SqlNumber, Null
<1>4. o.v.n \in Ints \ Big => Read[o.v.n] = Value[o.v.n]
  BY ComparisonAssumption
<1> QED
  BY <1>2, <1>3, <1>4 DEF F64

LEMMA NumbersAgree ==
  ASSUME NEW l, NEW r, NEW op, op \notin Likes, Plain(l), Plain(r),
         l.kind \in {"field", "val"}, r.kind \in {"field", "val"},
         IsNumber(l.v), IsNumber(r.v),
         \A o \in {l, r} :
           o.kind = "field" /\ o.v.n \notin Ints \ Big => Read[o.v.n] = F64(o.v),
         SqlValue(l).x = SqlValue(r).x \/ Double[SqlValue(l).x] # Double[SqlValue(r).x]
  PROVE  EvalGrants(l, op, r) <=> SqlGrants(l, op, r)
<1> DEFINE a == SqlValue(l)
           b == SqlValue(r)
<1>1. /\ a.t = "num" /\ a.x \in Values /\ a # Null /\ l.v # Null /\ Double[a.x] = F64(l.v)
      /\ b.t = "num" /\ b.x \in Values /\ b # Null /\ r.v # Null /\ Double[b.x] = F64(r.v)
  BY SqlValueRounds
<1>2. Affinity(a, r) = a /\ Affinity(b, l) = b
  BY DEF Affinity
<1>3. (SqlLess(a, b) <=> a.x < b.x) /\ (SqlLess(b, a) <=> b.x < a.x)
  BY <1>1 DEF SqlLess
<1>4. JsonValue(l) = l.v /\ JsonValue(r) = r.v
  BY OperandIs DEF Plain
<1>5. EvalGrants(l, op, r) <=> Order(op, F64(l.v) < F64(r.v), F64(l.v) = F64(r.v))
  BY <1>1, <1>4 DEF EvalGrants
<1>6. SqlGrants(l, op, r) <=> Order(op, SqlLess(a, b), ~SqlLess(a, b) /\ ~SqlLess(b, a))
  BY <1>1, <1>2 DEF SqlGrants
<1>7. /\ F64(l.v) < F64(r.v) <=> a.x < b.x
      /\ F64(l.v) = F64(r.v) <=> ~(a.x < b.x) /\ ~(b.x < a.x)
  BY <1>1, FloatsOrder
<1> HIDE DEF a, b
<1> QED
  BY <1>3, <1>5, <1>6, <1>7 DEF Order

\* Values that are not both numbers: SQLite finds them equal when they are.
LEMMA OthersSame ==
  ASSUME NEW l, NEW r, Plain(l), Plain(r), l.v # Null, r.v # Null,
         ~(IsNumber(l.v) /\ IsNumber(r.v)), {l.v.t, r.v.t} # {"array", "text"}
  PROVE  l.v = r.v <=> ~SqlLess(SqlValue(l), SqlValue(r)) /\ ~SqlLess(SqlValue(r), SqlValue(l))
<1> DEFINE u == l.v
           v == r.v
<1>1. CASE u.t = "text" /\ v.t = "text"
  <2>1. u.v \in Seq(Nat) /\ v.v \in Seq(Nat) /\ (u = v <=> u.v = v.v)
    BY <1>1 DEF Plain, Typed
  <2>2. SqlValue(l) = u /\ SqlValue(r) = v
    BY <1>1, OperandIs DEF Plain
  <2>3. /\ SqlLess(u, v) <=> Precedes(u.v, v.v)
        /\ SqlLess(v, u) <=> Precedes(v.v, u.v)
    BY <1>1 DEF SqlLess
  <2> QED
    BY <2>1, <2>2, <2>3, PrecedesTotal
<1>2. CASE u.t = "array" /\ v.t = "array"
  <2>1. u = v /\ SqlValue(l) = Text(TextOf(u)) /\ SqlValue(r) = Text(TextOf(u))
    BY <1>2, OperandIs DEF Plain, Typed
  <2>2. TextOf(u) \in Seq(Nat)
    BY TextOfTyped DEF Plain
  <2>3. ~Precedes(TextOf(u), TextOf(u))
    BY <2>2, PrecedesTotal
  <2> QED
    BY <2>1, <2>3 DEF SqlLess, Text
<1>3. ASSUME NEW x, NEW y, Plain(x), Plain(y), IsNumber(x.v), y.v.t \in {"text", "array"}
      PROVE  x.v # y.v /\ SqlLess(SqlValue(x), SqlValue(y))
  <2>1. x.v # y.v
    BY <1>3 DEF IsNumber
  <2>2. SqlValue(x).t = "num"
    BY <1>3, OperandIs DEF IsNumber, SqlNumber, Plain
  <2>3. SqlValue(y).t = "text"
    BY <1>3, OperandIs DEF Text, Plain
  <2> QED
    BY <2>1, <2>2, <2>3 DEF SqlLess
<1>4. CASE IsNumber(u) /\ v.t \in {"text", "array"}
  BY <1>3, <1>4
<1>5. CASE IsNumber(v) /\ u.t \in {"text", "array"}
  BY <1>3, <1>5
<1>6. u.t \in {"bool", "num", "text", "array"} /\ v.t \in {"bool", "num", "text", "array"}
  BY DEF Plain, Typed
<1> QED
  BY <1>1, <1>2, <1>4, <1>5, <1>6 DEF IsNumber

LEMMA OthersAgree ==
  ASSUME NEW l, NEW r, NEW op \in Equalities, Plain(l), Plain(r),
         r.kind # "null", l.v # Null, r.v # Null,
         ~(IsNumber(l.v) /\ IsNumber(r.v)), {l.v.t, r.v.t} # {"array", "text"},
         ~(l.kind = "column" /\ IsNumber(r.v)), ~(r.kind = "column" /\ IsNumber(l.v))
  PROVE  EvalGrants(l, op, r) <=> SqlGrants(l, op, r)
<1> DEFINE a == SqlValue(l)
           b == SqlValue(r)
<1>1. a # Null /\ b # Null /\ JsonValue(l) = l.v /\ JsonValue(r) = r.v
  BY OperandIs DEF Plain
<1>2. (a.t = "num" => IsNumber(l.v)) /\ (b.t = "num" => IsNumber(r.v))
  BY OperandIs DEF Plain, Typed, IsNumber, Text
<1>3. Affinity(a, r) = a /\ Affinity(b, l) = b
  BY <1>2 DEF Affinity
<1>4. l.v = r.v <=> ~SqlLess(a, b) /\ ~SqlLess(b, a)
  BY OthersSame
<1>5. SqlGrants(l, op, r) <=> Order(op, SqlLess(a, b), ~SqlLess(a, b) /\ ~SqlLess(b, a))
  BY <1>1, <1>3 DEF SqlGrants, Likes, Equalities
<1>6. EvalGrants(l, op, r) <=> (IF op = "=" THEN l.v = r.v ELSE l.v # r.v)
  BY <1>1 DEF EvalGrants, Likes, Ordering, Equalities
<1> HIDE DEF a, b
<1> QED
  BY <1>4, <1>5, <1>6 DEF Order, Equalities

LEMMA OrderingRefused ==
  ASSUME NEW l, NEW r, NEW op \in Ordering, Plain(l), Plain(r), r.kind # "null",
         ~(IsNumber(l.v) /\ IsNumber(r.v))
  PROVE  ~EvalGrants(l, op, r)
<1>1. JsonValue(l) = l.v /\ JsonValue(r) = r.v
  BY OperandIs DEF Plain
<1> QED
  BY <1>1 DEF EvalGrants, Ordering, Likes

\* A literal that is not finite is refused in memory.
LEMMA NonFiniteRefused ==
  ASSUME NEW l, NEW r, NEW op, r.kind # "null", ~Finite(r)
  PROVE  ~EvalGrants(l, op, r)
<1>1. JsonValue(r) = Null
  BY DEF JsonValue, Finite
<1> QED
  BY <1>1 DEF EvalGrants

-----------------------------------------------------------------------------
(* Every probe.                                                            *)

LEMMA FiniteAgrees ==
  ASSUME NEW l \in Lefts, NEW op \in Ops, NEW r \in Rights, Comparable(l, op, r),
         NEW p, p.l = l, p.op = op, p.r = r, ~NotFinite(p),
         ~BoolAsText(p), ~Respelled(p), ~Cut(p), ~ColumnAsText(p), ~ArrayAsText(p),
         ~Misread(p), ~Rounded(p)
  PROVE  \/ EvalGrants(l, op, r) <=> SqlGrants(l, op, r)
         \/ Ordered(p) /\ SqlGrants(l, op, r)
<1>1. Plain(l) /\ Plain(r) /\ l.kind \in {"field", "column", "auth"}
  BY LeftOperands, RightOperands DEF NotFinite, Finite, Plain
<1>2. CASE r.kind = "null" \/ l.v = Null \/ r.v = Null
  <2>1. /\ r.kind \in {"field", "column", "null"} => op \notin Likes
        /\ r.v = Null => r.kind \in {"field", "null"}
    BY RightOperands DEF Comparable, Equalities, Likes, Null
  <2> QED
    BY <1>1, <1>2, <2>1, NullsAgree
<1>3. CASE r.kind # "null" /\ l.v # Null /\ r.v # Null
  <2>1. CASE op \in Likes
    <3>1. r.v.t \in {"text", "num"}
      BY <1>3, <2>1, RightOperands DEF Comparable
    <3>2. l.v.t # "bool" /\ (l.v.t = "num" => Sqlite[l.v.n] = Serde[l.v.n])
      BY <2>1 DEF BoolAsText, Respelled
    <3>3. r.v.t = "num" => Display[r.v.n] = Serde[r.v.n]
      BY <2>1 DEF Respelled
    <3>4. ~HasNul(l.v) /\ ~HasNul(r.v)
      BY <2>1 DEF Cut
    <3> QED
      BY <1>1, <1>3, <2>1, <3>1, <3>2, <3>3, <3>4, LikesAgree
  <2>2. CASE op \notin Likes /\ IsNumber(l.v) /\ IsNumber(r.v)
    <3>1. l.kind \in {"field", "val"} /\ r.kind \in {"field", "val"}
      BY <1>3, <2>2, LeftOperands, RightOperands DEF IsNumber
    <3>2. \A o \in {l, r} :
            o.kind = "field" /\ o.v.n \notin Ints \ Big => Read[o.v.n] = F64(o.v)
      BY <2>2 DEF Misread, AsNumbers
    <3>3. SqlValue(l).x = SqlValue(r).x \/ Double[SqlValue(l).x] # Double[SqlValue(r).x]
      BY <2>2 DEF Rounded, AsNumbers
    <3> QED
      BY <1>1, <2>2, <3>1, <3>2, <3>3, NumbersAgree
  <2>3. CASE op \in Equalities /\ ~(IsNumber(l.v) /\ IsNumber(r.v))
    <3>1. ~(l.kind = "column" /\ IsNumber(r.v)) /\ ~(r.kind = "column" /\ IsNumber(l.v))
      BY <2>3 DEF ColumnAsText
    <3>2. {l.v.t, r.v.t} # {"array", "text"}
      BY <2>3 DEF ArrayAsText
    <3> QED
      BY <1>1, <1>3, <2>3, <3>1, <3>2, OthersAgree
  <2>4. CASE op \in Ordering /\ ~(IsNumber(l.v) /\ IsNumber(r.v))
    <3>1. ~EvalGrants(l, op, r)
      BY <1>1, <1>3, <2>4, OrderingRefused
    <3>2. Ordered(p)
      BY <2>4 DEF Ordered
    <3> QED
      BY <3>1, <3>2
  <2> QED
    BY <2>1, <2>2, <2>3, <2>4 DEF Ops, Ordering, Likes, Equalities
<1> QED
  BY <1>2, <1>3

LEMMA ComparisonAgrees ==
  ASSUME NEW l \in Lefts, NEW op \in Ops, NEW r \in Rights, Comparable(l, op, r),
         NEW p, p.l = l, p.op = op, p.r = r,
         ~BoolAsText(p), ~Respelled(p), ~Cut(p), ~ColumnAsText(p), ~ArrayAsText(p),
         ~Misread(p), ~Rounded(p)
  PROVE  \/ EvalGrants(l, op, r) <=> SqlGrants(l, op, r)
         \/ (Ordered(p) \/ NotFinite(p)) /\ SqlGrants(l, op, r)
<1>1. CASE NotFinite(p)
  <2>1. ~Finite(r) /\ r.kind # "null"
    BY <1>1, RightOperands DEF NotFinite, Finite, Null
  <2> QED
    BY <1>1, <2>1, NonFiniteRefused
<1>2. CASE ~NotFinite(p)
  BY <1>2, FiniteAgrees
<1> QED
  BY <1>1, <1>2

\* The inductive invariant: the probe is one comparison() accepts.
Probed ==
  probe = None \/
    \E l \in Lefts, op \in Ops, r \in Rights :
      Comparable(l, op, r) /\ probe = [t |-> "probe", l |-> l, op |-> op, r |-> r]

\* The memory backend grants what the SQL grants, but for the kinds of
\* operands that BackendsAgree names: whatever texts there are, whatever
\* numbers, and however SQLite, serde_json and Rust read and spell those.
THEOREM BackendsAlwaysAgree == Comparisons => []BackendsAgree
<1>1. Unasked => Probed
  BY DEF Unasked, Probed
<1>2. Probed /\ [Compare]_probe => Probed'
  BY DEF Probed, Compare, None
<1>3. Probed => BackendsAgree
  <2>1. SUFFICES ASSUME Probed, probe # None PROVE BackendsAgree
    BY DEF BackendsAgree
  <2>2. PICK l \in Lefts, op \in Ops, r \in Rights :
          Comparable(l, op, r) /\ probe = [t |-> "probe", l |-> l, op |-> op, r |-> r]
    BY <2>1 DEF Probed
  <2>3. probe.l = l /\ probe.op = op /\ probe.r = r
    BY <2>2
  <2> QED
    BY <2>2, <2>3, ComparisonAgrees DEF BackendsAgree
<1> QED
  BY <1>1, <1>2, <1>3, PTL DEF Comparisons
=============================================================================
