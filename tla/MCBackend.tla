------------------------------ MODULE MCBackend ------------------------------
(* An instance of Backend for TLC: two files of which one is verified, an  *)
(* upgrade, three lives, and the restart budget of the program.            *)
EXTENDS Backend
=============================================================================
