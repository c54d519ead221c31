----------------------------- MODULE MCRealtime -----------------------------
(***************************************************************************)
(* Realtime for TLC: a stream with a user's token and one with the admin's, *)
(* a rule that lets the user read and one that does not.                   *)
(***************************************************************************)
EXTENDS Realtime

CONSTANTS user, admin

OpenOrClosed == {{}, {user}}
=============================================================================
