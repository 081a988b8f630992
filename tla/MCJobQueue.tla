----------------------------- MODULE MCJobQueue -----------------------------
(* An instance of JobQueue for TLC: two jobs of one prompt and one job     *)
(* each of two other prompts, so that duplicates, a full channel and the   *)
(* window between receive and release all occur.                           *)
EXTENDS JobQueue

MCJobs == {"a1", "a2", "b", "c"}
MCKeys == {"A", "B", "C"}
MCKey == [a1 |-> "A", a2 |-> "A", b |-> "B", c |-> "C"]
=============================================================================
