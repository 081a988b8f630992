------------------------------ MODULE MCDaemon ------------------------------
(* An instance of Daemon for TLC: two requests in flight, two keys, a      *)
(* channel of one slot and a supervisor with one restart.                  *)
EXTENDS Daemon

MCJobs == {"a", "b"}
MCKey == [a |-> "A", b |-> "B"]
=============================================================================
