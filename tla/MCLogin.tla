------------------------------- MODULE MCLogin -------------------------------
(* Two terminals and four commands: two logins at once and what comes      *)
(* after them.                                                             *)
EXTENDS Login
=============================================================================
