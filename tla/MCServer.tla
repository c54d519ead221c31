------------------------------ MODULE MCServer ------------------------------
(* Server on a read and a write rule, two identities and two logins. *)
EXTENDS Server

MCColumns == <<"list_rule", "create_rule">>
=============================================================================
