------------------------------- MODULE Filter -------------------------------
(***************************************************************************)
(* Filters and API rules (filter.rs): the parser, and the two things done   *)
(* with its tree.  List, view, update and delete compile it to SQL text    *)
(* that is spliced into a larger WHERE; create and the stream evaluate it  *)
(* in memory.                                                              *)
(*                                                                         *)
(* An expression is a sequence of tokens, a whole comparison being one     *)
(* token (Comparison says what one is worth).  The parser descends         *)
(* recursively and reads from left to right, so that what it knows at a    *)
(* token is its activations: they are the stack, and a step is all that it *)
(* does with one token (Descent has the recursion, for TLC to compare).    *)
(* Of SQL the module has its precedence and its NULL; && and AND are one   *)
(* token here, and so are || and OR.                                       *)
(***************************************************************************)
EXTENDS Comparison, FiniteSetsExt

CONSTANTS Atoms,      \* comparisons, as tokens
          Row,        \* what a fragment is spliced behind, also a token
          MaxTokens,  \* bound on the length of an expression; MAX_LEN is 2048
          MAX_DEPTH   \* 32

Signs == {"(", ")", "&&", "||"}
Tokens == Atoms \cup {Row} \cup Signs

ASSUME FilterAssumption ==
  /\ Row \notin Atoms /\ (Atoms \cup {Row}) \cap Signs = {}
  /\ MaxTokens \in Nat /\ MAX_DEPTH \in Nat

VARIABLES input,  \* the tokens read so far
          stack,  \* the activations of expr(), empty when the input is refused
          wants   \* unit() is called and has read nothing yet

-----------------------------------------------------------------------------
(* Trees.  A node stands for more tokens than a node below it.             *)

Cmp(a) == [k |-> "cmp", a |-> a]
Or(m, n) == [k |-> "or", l |-> m, r |-> n]
And(m, n) == [k |-> "and", l |-> m, r |-> n]
Bad == [k |-> "error"]

Cmps == [k : {"cmp"}, a : Atoms]
Trees[h \in Nat] ==
  IF h = 0 THEN Cmps
  ELSE LET T == Trees[h - 1] IN Cmps \cup [k : {"or", "and"}, l : T, r : T]
Node == Trees[MaxTokens]

-----------------------------------------------------------------------------
(* Parser.  An activation of expr() has the tree of the alternatives before *)
(* the last ||, and that of the units before the last &&, in and();        *)
(* `from` and `mid` are where the two began to read.                       *)

NoNode == [k |-> "none"]
Call(i) == [or |-> NoNode, and |-> NoNode, from |-> i, mid |-> i]

\* and := unit ( "&&" unit )*, with another unit read.
UnitRead(f, n) ==
  [f EXCEPT !.and = IF f.and = NoNode THEN n ELSE And(f.and, n)]

\* expr := and ( "||" and )*, with the last conjunction read.
ExprRead(f) == IF f.or = NoNode THEN f.and ELSE Or(f.or, f.and)

Depth == Len(stack) - 1
Caller == SubSeq(stack, 1, Len(stack) - 1)

\* Where the parser returns no Err.
Accepts(t) ==
  /\ stack # <<>>
  /\ wants <=> t \in Atoms \cup {"("}
  /\ t = "(" => Depth < MAX_DEPTH
  /\ t = ")" => Depth > 0

Refuse(t) == ~Accepts(t) /\ stack' = <<>> /\ wants' = FALSE

\* unit := "(" expr ")" | comparison
ReadComparison(t) ==
  /\ Accepts(t) /\ t \in Atoms
  /\ stack' = [stack EXCEPT ![Len(stack)] = UnitRead(@, Cmp(t))]
  /\ wants' = FALSE

Open(t) ==
  /\ Accepts(t) /\ t = "("
  /\ stack' = Append(stack, Call(Len(input) + 2))
  /\ wants' = TRUE

Close(t) ==
  /\ Accepts(t) /\ t = ")"
  /\ stack' = [Caller EXCEPT ![Depth] = UnitRead(@, ExprRead(stack[Len(stack)]))]
  /\ wants' = FALSE

AndThen(t) ==
  /\ Accepts(t) /\ t = "&&"
  /\ wants' = TRUE
  /\ UNCHANGED stack

\* Mutant: || goes on with the units of the && before it.
OrElse_SamePrecedence(t) ==
  /\ Accepts(t) /\ t = "||"
  /\ stack' = [stack EXCEPT ![Len(stack)].or = ExprRead(stack[Len(stack)])]
  /\ wants' = TRUE

OrElse(t) ==
  /\ Accepts(t) /\ t = "||"
  /\ stack' = [stack EXCEPT ![Len(stack)] =
                 [or |-> ExprRead(@), and |-> NoNode, from |-> @.from, mid |-> Len(input) + 2]]
  /\ wants' = TRUE

\* fn parse, if the input ends here.
Parsed == IF Len(stack) = 1 /\ ~wants THEN ExprRead(stack[1]) ELSE Bad

-----------------------------------------------------------------------------
(* The two backends on a tree.  An atom is 2 (true), 1 (NULL) or 0 (false) *)
(* in SQL, and true in memory exactly if it is 2.                          *)

Paren(ts) == <<"(">> \o ts \o <<")">>
Wrapped(n, ts) == IF n.k = "or" THEN Paren(ts) ELSE ts

Sql[n \in Node] ==
  IF n.k = "cmp" THEN <<n.a>>
  ELSE IF n.k = "or" THEN Sql[n.l] \o <<"||">> \o Sql[n.r]
  ELSE Wrapped(n.l, Sql[n.l]) \o <<"&&">> \o Wrapped(n.r, Sql[n.r])

\* Mutant: no parentheses around an OR at the top.
ToSql_Bare(n) == Sql[n]

ToSql(n) == Wrapped(n, Sql[n])

Eval(n, atom) ==
  LET e[m \in Node] ==
        IF m.k = "cmp" THEN atom[m.a] = 2
        ELSE IF m.k = "or" THEN e[m.l] \/ e[m.r]
        ELSE e[m.l] /\ e[m.r]
  IN e[n]

-----------------------------------------------------------------------------
(* What a text of either language means, by splitting it at its loosest    *)
(* connective outside parentheses; -1 if it means nothing.                 *)

Nested(ts, i) ==
  Cardinality({j \in 1 .. i : ts[j] = "("}) - Cardinality({j \in 1 .. i : ts[j] = ")"})

Tops(ts, t) == {i \in DOMAIN ts : ts[i] = t /\ Nested(ts, i) = 0}

Either(u, v) == IF -1 \in {u, v} THEN -1 ELSE IF u > v THEN u ELSE v
Both(u, v) == IF -1 \in {u, v} THEN -1 ELSE IF u < v THEN u ELSE v

Before(ts, i) == SubSeq(ts, 1, i - 1)
After(ts, i) == SubSeq(ts, i + 1, Len(ts))

Meaning(ts, m, atom) ==
  IF Tops(ts, "||") # {}
  THEN LET i == Max(Tops(ts, "||")) IN Either(m[Before(ts, i)], m[After(ts, i)])
  ELSE IF Tops(ts, "&&") # {}
  THEN LET i == Max(Tops(ts, "&&")) IN Both(m[Before(ts, i)], m[After(ts, i)])
  ELSE IF Len(ts) = 1 /\ ts[1] \in DOMAIN atom THEN atom[ts[1]]
  ELSE IF Len(ts) > 2 /\ ts[1] = "(" /\ ts[Len(ts)] = ")"
  THEN m[SubSeq(ts, 2, Len(ts) - 1)]
  ELSE -1

Means(ts, atom) == LET m[x \in Seq(Tokens)] == Meaning(x, m, atom) IN m[ts]

-----------------------------------------------------------------------------
\* One caller writes an expression, another asks for a comparison.
Init ==
  /\ input = <<>> /\ stack = <<Call(1)>> /\ wants = TRUE
  /\ Unasked

Type ==
  /\ probe = None
  /\ Len(input) < MaxTokens
  /\ \E t \in Atoms \cup Signs :
       /\ input' = Append(input, t)
       /\ \/ Refuse(t) \/ ReadComparison(t) \/ Open(t) \/ Close(t)
          \/ AndThen(t) \/ OrElse(t)
  /\ UNCHANGED probe

Next == Type \/ (input = <<>> /\ Compare /\ UNCHANGED <<input, stack, wants>>)

Spec == Init /\ [][Next]_<<input, stack, wants, probe>>

-----------------------------------------------------------------------------
(* Properties. *)

Assignments == [Atoms \cup {Row} -> 0 .. 2]

\* The parser accepts exactly the expressions of its grammar that nest no
\* deeper than MAX_DEPTH, and the tree says what && before || says.
TreeMeansInput ==
  \A atom \in Assignments :
    LET m == Means(input, atom) IN
    /\ Parsed = Bad <=> m = -1 \/ \E i \in DOMAIN input : Nested(input, i) > MAX_DEPTH
    /\ Parsed # Bad => (Eval(Parsed, atom) <=> m = 2)

\* Spliced as "... AND fragment", the SQL grants what the tree grants in
\* memory, and only together with what stands before it: SQL's precedence
\* and its NULL make no difference (filter.rs:491-496, gate_record).
SpliceMeansTree ==
  Parsed # Bad =>
    \A atom \in Assignments :
      Means(<<Row, "&&">> \o ToSql(Parsed), atom) = 2
        <=> atom[Row] = 2 /\ Eval(Parsed, atom)
=============================================================================
