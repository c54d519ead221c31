----------------------------- MODULE Comparison -----------------------------
(***************************************************************************)
(* One comparison of a filter or a rule (filter.rs), evaluated twice: as   *)
(* the SQL it compiles to, for list, view, update and delete, and in       *)
(* memory, for create and the stream.  A rule grants access, so the two    *)
(* must not drift apart.  A comparison is looked at on its own, as a probe: *)
(* two operands with their values.  Values are JSON's; a text is a sequence *)
(* of character codes.  A number is a numeral, with what each reader makes *)
(* of it and each writer's text for it: nothing is known of those but what *)
(* is assumed here.  Of SQL the module has what SQLite's documentation     *)
(* says of NULL, storage classes, affinity and LIKE.                       *)
(***************************************************************************)
EXTENDS Integers, Sequences, FiniteSets

CONSTANTS Texts,
          Numerals,   \* an i64, a u64 or an f64
          Ints,       \* the numerals that are an i64 or a u64
          Big,        \* the integers past i64::MAX
          NonFinite,  \* inf, -inf and NaN, which parse::<f64>() reads
          NaN, Zero, One

CONSTANTS Values,     \* of numbers, in multiples of the smallest f64
          Value,      \* of a numeral
          Double,     \* the f64 as_f64() gives for a value
          Read,       \* the value SQLite reads in a number's JSON text
          Serde,      \* serde_json's text for a numeral,
          Display,    \* that of Rust's to_string(),
          Sqlite      \* and that of SQLite, which has 15 digits

ASSUME ComparisonAssumption ==
  /\ Texts \subseteq Seq(Nat)
  /\ Ints \subseteq Numerals /\ Big \subseteq Ints
  /\ NonFinite \subseteq Numerals \ Ints /\ NaN \in NonFinite
  /\ {Zero, One} \subseteq Ints \ Big
  /\ Values \subseteq Int
  /\ Value \in [Numerals -> Values] /\ Read \in [Numerals -> Values]
  /\ Double \in [Values -> Values]
  /\ \A x \in Values : Double[Double[x]] = Double[x]
  /\ \A x, y \in Values : x <= y => Double[x] <= Double[y]
  /\ {Serde, Display, Sqlite} \subseteq [Numerals -> Seq(Nat \ {0})]
  /\ \A n \in Numerals \ Ints : Double[Value[n]] = Value[n]
  /\ \A n \in Ints : Display[n] = Serde[n]
  /\ \A n \in Ints \ Big : Read[n] = Value[n] /\ Sqlite[n] = Serde[n]

VARIABLE probe

None == [t |-> "none"]

-----------------------------------------------------------------------------
(* One comparison.  JSON values: null (or no such field), booleans,        *)
(* numbers, texts, and one array.                                          *)

Null == [t |-> "null"]
Bool(n) == [t |-> "bool", n |-> n]
Num(n) == [t |-> "num", n |-> n]
Text(s) == [t |-> "text", v |-> s]
Array == [t |-> "array"]
Numbers == {Num(n) : n \in Numerals \ NonFinite}
TextValues == {Text(s) : s \in Texts}
Json == {Null, Bool(Zero), Bool(One), Array} \cup Numbers \cup TextValues

\* Characters.
Nul == 0
Percent == 37
Underscore == 95
Backslash == 92
Special == {Percent, Underscore, Backslash}

\* fn text: serde_json's rendering.
TextOf(v) ==
  CASE v.t = "text" -> v.v
    [] v.t = "num" -> Serde[v.n]
    [] v.t = "bool" -> IF v.n = One THEN <<116, 114, 117, 101>>
                                    ELSE <<102, 97, 108, 115, 101>>
    [] v.t = "array" -> <<91, 93>>

\* SQL has null, texts, and numbers, which SQLite has its own text for.
SqlNumber(x, s) == [t |-> "num", x |-> x, text |-> s]
SqlText(a) == IF a.t = "num" THEN a.text ELSE a.v

\* json_extract: booleans are integers, arrays and objects their text.
Extract(v) ==
  CASE v.t \in {"bool", "num"} -> SqlNumber(Read[v.n], Sqlite[v.n])
    [] v.t = "array" -> Text(TextOf(v))
    [] OTHER -> v

Ops == {"=", "!=", ">", ">=", "<", "<=", "~", "!~"}
Equalities == {"=", "!="}
Ordering == {">", ">=", "<", "<="}
Likes == {"~", "!~"}

Operand(kind, v) == [kind |-> kind, v |-> v]
OfKind(kind, vs) == {Operand(kind, v) : v \in vs}

\* A left operand is a field, a real column (id, created, updated) or the
\* caller's id; fn value gives the right ones, a bareword being a text in a
\* filter and a column in a rule, and no integer past i64::MAX.
Lefts == OfKind("field", Json) \cup OfKind("column", TextValues) \cup OfKind("auth", TextValues)
Rights == Lefts \cup {Operand("null", Null)}
            \cup OfKind("val", TextValues \cup {Num(n) : n \in Numerals \ Big})

\* Operand::json: json!(f) is null when f is not finite.
JsonValue(o) == IF o.v.t = "num" /\ o.v.n \in NonFinite THEN Null ELSE o.v

\* Operand::sql, and what SQLite makes of it: a literal is a bind, and a NaN
\* that is bound is NULL.
SqlValue(o) ==
  IF o.kind = "val" /\ o.v.t = "num"
  THEN IF o.v.n = NaN THEN Null ELSE SqlNumber(Value[o.v.n], Sqlite[o.v.n])
  ELSE Extract(o.v)

\* fn comparison: what it refuses, and a caller has one id.
Comparable(l, op, r) ==
  /\ r.kind = "null" => op \in Equalities
  /\ r.kind \in {"field", "column"} => op \notin Likes
  /\ l.kind = "auth" /\ r.kind = "auth" => l = r

Order(op, less, same) ==
  \/ op = "=" /\ same
  \/ op = "!=" /\ ~same
  \/ op = ">" /\ ~less /\ ~same
  \/ op = ">=" /\ ~less
  \/ op = "<" /\ less
  \/ op = "<=" /\ (less \/ same)

\* SQLite: numbers before texts, texts by their bytes.
Precedes(s, t) ==
  \E n \in 0 .. Len(s) :
    /\ n < Len(t)
    /\ \A i \in 1 .. n : s[i] = t[i]
    /\ n = Len(s) \/ s[n + 1] < t[n + 1]

SqlLess(a, b) ==
  \/ a.t = "num" /\ b.t = "num" /\ a.x < b.x
  \/ a.t = "text" /\ b.t = "text" /\ Precedes(a.v, b.v)
  \/ a.t = "num" /\ b.t = "text"

Lower(c) == IF c \in 65 .. 90 THEN c + 32 ELSE c
LowerText(s) == [i \in DOMAIN s |-> Lower(s[i])]

\* fn like_escape: where a character of s comes to lie, and what lies there.
Place(s, i) ==
  i + Cardinality({j \in 1 .. i : s[j] \in Special})
LikeEscape(s) ==
  [k \in 1 .. Place(s, Len(s)) |->
    IF \E i \in DOMAIN s : Place(s, i) = k
    THEN s[CHOOSE i \in DOMAIN s : Place(s, i) = k] ELSE Backslash]

\* The pattern of a LIKE, with Rust's text for a number.
Pattern(v) ==
  <<Percent>> \o LikeEscape(IF v.t = "num" THEN Display[v.n] ELSE v.v) \o <<Percent>>

\* LIKE reads a text, and a pattern, up to the first NUL.
Ended(s) ==
  SubSeq(s, 1, Cardinality({i \in DOMAIN s : \A j \in 1 .. i : s[j] # Nul}))

\* LIKE ... ESCAPE '\': a character is literal if it comes after a backslash
\* that is not, and at[k] characters of s match the first k of p.
Literal(p) ==
  CHOOSE lit \in SUBSET DOMAIN p :
    \A k \in DOMAIN p : k \in lit <=> k > 1 /\ k - 1 \notin lit /\ p[k - 1] = Backslash

Like(s, p) ==
  LET lit == Literal(p)
      Matches(k, from, to) ==
        /\ k \notin lit /\ p[k] = Backslash => to = from
        /\ k \notin lit /\ p[k] = Percent => to >= from
        /\ k \in lit \/ p[k] \notin {Backslash, Percent} =>
             /\ to = from + 1
             /\ (k \notin lit /\ p[k] = Underscore) \/ Lower(s[to]) = Lower(p[k])
  IN \E at \in [0 .. Len(p) -> 0 .. Len(s)] :
       /\ at[0] = 0 /\ at[Len(p)] = Len(s)
       /\ \A k \in 1 .. Len(p) : Matches(k, at[k - 1], at[k])

\* A real column has TEXT affinity, which a number compared with it takes on.
Affinity(a, other) ==
  IF other.kind = "column" /\ a.t = "num" THEN Text(a.text) ELSE a

\* Node::sql on a comparison, as SQLite evaluates it: TRUE only for true.
SqlGrants(l, op, r) ==
  LET a == SqlValue(l)  b == SqlValue(r) IN
  IF r.kind = "null" THEN (a = Null) = (op = "=")
  ELSE IF op \in Likes
       THEN a # Null /\ Like(Ended(SqlText(a)), Ended(Pattern(r.v))) = (op = "~")
  ELSE LET x == Affinity(a, r)  y == Affinity(b, l)
       IN Null \notin {a, b} /\ Order(op, SqlLess(x, y), ~SqlLess(x, y) /\ ~SqlLess(y, x))

IsNumber(v) == v.t \in {"num", "bool"}
F64(v) == Double[Value[v.n]]
Within(needle, hay) ==
  \E i \in 0 .. Len(hay) - Len(needle) :
    \A j \in DOMAIN needle : hay[i + j] = needle[j]

\* Mutant: contains() without lowering the case of the two.
EvalGrants_CaseSensitive(l, op, r) ==
  LET u == JsonValue(l)  v == JsonValue(r) IN
  IF r.kind = "null" THEN (u = Null) = (op = "=")
  ELSE IF Null \in {u, v} THEN FALSE
  ELSE IF op \in Likes THEN Within(TextOf(v), TextOf(u)) = (op = "~")
  ELSE IF IsNumber(u) /\ IsNumber(v) THEN Order(op, F64(u) < F64(v), F64(u) = F64(v))
  ELSE op \notin Ordering /\ (u = v) = (op = "=")

\* Node::eval on a comparison.
EvalGrants(l, op, r) ==
  LET u == JsonValue(l)  v == JsonValue(r) IN
  IF r.kind = "null" THEN (u = Null) = (op = "=")
  ELSE IF Null \in {u, v} THEN FALSE
  ELSE IF op \in Likes
       THEN Within(LowerText(TextOf(v)), LowerText(TextOf(u))) = (op = "~")
  ELSE IF IsNumber(u) /\ IsNumber(v) THEN Order(op, F64(u) < F64(v), F64(u) = F64(v))
  ELSE op \notin Ordering /\ (u = v) = (op = "=")

-----------------------------------------------------------------------------
Unasked == probe = None

Compare ==
  /\ probe = None
  /\ \E l \in Lefts, op \in Ops, r \in Rights :
       /\ Comparable(l, op, r)
       /\ probe' = [t |-> "probe", l |-> l, op |-> op, r |-> r]

Comparisons == Unasked /\ [][Compare]_probe

-----------------------------------------------------------------------------
(* "The two backends must return the same verdict for the same rule and    *)
(* data" (filter.rs:512-513).  They do, except where the operands are of   *)
(* the kinds that follow.                                                  *)

\* The memory backend refuses to order anything but numbers,
Ordered(p) == p.op \in Ordering /\ ~(IsNumber(p.l.v) /\ IsNumber(p.r.v))

\* and a literal that is not finite is null there.
NotFinite(p) == p.r.v.t = "num" /\ p.r.v.n \in NonFinite

\* Searched text: a boolean is "true" or "1"; a number is spelled by serde_json
\* in one backend, and by SQLite or Rust in the other; and LIKE ends at a NUL.
BoolAsText(p) == p.op \in Likes /\ p.l.v.t = "bool"
Respelled(p) ==
  /\ p.op \in Likes
  /\ \/ p.l.v.t = "num" /\ Sqlite[p.l.v.n] # Serde[p.l.v.n]
     \/ p.r.v.t = "num" /\ Display[p.r.v.n] # Serde[p.r.v.n]
HasNul(v) == v.t = "text" /\ \E i \in DOMAIN v.v : v.v[i] = Nul
Cut(p) == p.op \in Likes /\ (HasNul(p.l.v) \/ HasNul(p.r.v))

\* Equality: SQLite has a number equal to its text in a column, and an array
\* to its text.
ColumnAsText(p) ==
  /\ p.op \in Equalities
  /\ \/ p.l.kind = "column" /\ IsNumber(p.r.v)
     \/ p.r.kind = "column" /\ IsNumber(p.l.v)
ArrayAsText(p) == p.op \in Equalities /\ {p.l.v.t, p.r.v.t} = {"array", "text"}

\* Numbers: SQLite reads another f64 than serde_json in the same digits, and
\* does not round an integer to an f64.
AsNumbers(p) == p.op \notin Likes /\ IsNumber(p.l.v) /\ IsNumber(p.r.v)
Misread(p) ==
  /\ AsNumbers(p)
  /\ \E o \in {p.l, p.r} :
       o.kind = "field" /\ o.v.n \notin Ints \ Big /\ Read[o.v.n] # F64(o.v)
Rounded(p) ==
  /\ AsNumbers(p) /\ ~NotFinite(p)
  /\ SqlValue(p.l).x # SqlValue(p.r).x /\ Double[SqlValue(p.l).x] = Double[SqlValue(p.r).x]

\* One rule grants the same on every path, whichever backend evaluates it:
\* fn eval mirrors the SQL of fn sql (filter.rs:157-253) but for those kinds.
BackendsAgree ==
  probe # None =>
    LET eval == EvalGrants(probe.l, probe.op, probe.r)
        sql == SqlGrants(probe.l, probe.op, probe.r)
    IN \/ eval <=> sql
       \/ (Ordered(probe) \/ NotFinite(probe)) /\ sql
       \/ BoolAsText(probe) \/ Respelled(probe) \/ Cut(probe)
       \/ ColumnAsText(probe) \/ ArrayAsText(probe) \/ Misread(probe) \/ Rounded(probe)
=============================================================================
