------------------------------- MODULE Descent -------------------------------
(***************************************************************************)
(* The parser of filter.rs as it is written, by recursive descent: each    *)
(* operator returns the node it read and where it stopped, and the whole   *)
(* input is there when it begins.  Filter has the same parser as a machine *)
(* that is given one token after the other, about which more can be        *)
(* proved; the two build the same trees.                                   *)
(***************************************************************************)
EXTENDS Filter

Got(node, at) == [node |-> node, at |-> at]
Token(ts, i) == IF i \in DOMAIN ts THEN ts[i] ELSE "end"

RECURSIVE Expr(_, _, _), Conj(_, _, _), OrTail(_, _, _), AndTail(_, _, _)

\* Mutant: the depth is handed on as it is.
Unit_SameDepth(ts, i, depth) ==
  IF Token(ts, i) # "("
  THEN IF Token(ts, i) \in Atoms THEN Got(Cmp(ts[i]), i + 1) ELSE Got(Bad, i)
  ELSE IF depth >= MAX_DEPTH THEN Got(Bad, i)
  ELSE LET e == Expr(ts, i + 1, depth) IN
       IF Token(ts, e.at) = ")" THEN Got(e.node, e.at + 1) ELSE Got(Bad, e.at)

\* unit := "(" expr ")" | comparison
Unit(ts, i, depth) ==
  IF Token(ts, i) # "("
  THEN IF Token(ts, i) \in Atoms THEN Got(Cmp(ts[i]), i + 1) ELSE Got(Bad, i)
  ELSE IF depth >= MAX_DEPTH THEN Got(Bad, i)
  ELSE LET e == Expr(ts, i + 1, depth + 1) IN
       IF Token(ts, e.at) = ")" THEN Got(e.node, e.at + 1) ELSE Got(Bad, e.at)

AndTail(ts, n, depth) ==
  IF n.node = Bad \/ Token(ts, n.at) # "&&" THEN n
  ELSE LET u == Unit(ts, n.at + 1, depth) IN
       IF u.node = Bad THEN u
       ELSE AndTail(ts, Got(And(n.node, u.node), u.at), depth)

\* and := unit ( "&&" unit )*
Conj(ts, i, depth) == AndTail(ts, Unit(ts, i, depth), depth)

OrTail(ts, n, depth) ==
  IF n.node = Bad \/ Token(ts, n.at) # "||" THEN n
  ELSE LET u == Conj(ts, n.at + 1, depth) IN
       IF u.node = Bad THEN u
       ELSE OrTail(ts, Got(Or(n.node, u.node), u.at), depth)

\* expr := and ( "||" and )*
Expr(ts, i, depth) == OrTail(ts, Conj(ts, i, depth), depth)

Parse(ts) ==
  LET e == Expr(ts, 1, 0) IN IF e.at = Len(ts) + 1 THEN e.node ELSE Bad

-----------------------------------------------------------------------------
(* Properties. *)

\* Reading from left to right with a stack builds the tree that the descent
\* of fn parse returns, and refuses what it refuses.
ParserDescends == Parsed = Parse(input)
=============================================================================
