----------------------------- MODULE MCAccounts -----------------------------
(***************************************************************************)
(* Accounts for TLC: two ids, two addresses, two passwords.  The first     *)
(* user has signed up, logged in and been sent a ticket of each kind.      *)
(***************************************************************************)
EXTENDS AccountsInvariant, TLC

CONSTANTS u1, u2, t1, t2, t3, e1, e2, p1, p2

\* Two requests make the scenarios with two actors; the third is there for
\* the ones that need a witness (a login, a second spend, a second update).
Symmetry == Permutations(Requests)

MCSeedRows ==
  u1 :> [email |-> e1, pw |-> p1, epoch |-> 0, verified |-> FALSE]
    @@ [u \in Users \ {u1} |-> None]

MCSeedTickets ==
  t1 :> [user |-> u1, type |-> "reset"] @@ t2 :> [user |-> u1, type |-> "verify"]
    @@ [t \in Tickets \ {t1, t2} |-> None]

MCSeedSessions ==
  {[sub |-> u1, epoch |-> 0, since |-> 0, proved |-> p1]}

\* Nobody has signed up yet.
NoRows == [u \in Users |-> None]
NoTickets == [t \in Tickets |-> None]

\* One body per thing a PATCH can do to an account.
ChangeEmail == [NoPatch EXCEPT !.email = e2]
ClearEmail  == [NoPatch EXCEPT !.email = NoEmail]
ChangePw    == [NoPatch EXCEPT !.pw = p2, !.old = p1]
ForcePw     == [NoPatch EXCEPT !.pw = p2]
ShortPw     == [NoPatch EXCEPT !.pw = Short, !.old = p1]
Revoke      == [NoPatch EXCEPT !.revoke = TRUE]

AllPatches == {ChangeEmail, ClearEmail, ChangePw, ForcePw, ShortPw, Revoke}

\* Enough where the question is how requests meet, not what each one writes.
FewPatches == {ChangeEmail, ChangePw, ShortPw}
=============================================================================
