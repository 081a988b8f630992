----------------------------- MODULE SerialCalls -----------------------------
(***************************************************************************)
(* What the sidecar's runner promises to the callers of submit, without    *)
(* tasks, futures, executor and pauses: the accepted calls wait in one     *)
(* line, the model runs one call at a time and each of them once, and a    *)
(* caller is told the outcome of its own run, unless it has gone.  When    *)
(* the server is closed it leaves off at once: one caller at most is never *)
(* told anything, the others that wait are told that it failed.            *)
(* InferenceRunner.tla is shown to implement it.                           *)
(***************************************************************************)
EXTENDS Integers, Sequences, Functions

CONSTANTS MaxCalls,
          Limit      (* how many calls may wait at a time; 0: any number   *)

Callers == 1 .. MaxCalls
NoCaller == 0

VARIABLES line,      (* the accepted calls that have not been run          *)
          running,   (* the call the model runs                            *)
          call,      (* what became of each call                           *)
          closed,    (* no call is accepted any more                       *)
          left       (* no call is run any more                            *)

vars == <<line, running, call, closed, left>>

Init ==
  /\ line = <<>>
  /\ running = NoCaller
  /\ call = [c \in Callers |-> "new"]
  /\ closed = FALSE
  /\ left = FALSE

Accept(c) ==
  /\ call[c] = "new"
  /\ ~closed
  /\ Limit > 0 => Len(line) < Limit
  /\ line' = Append(line, c)
  /\ call' = [call EXCEPT ![c] = "waiting"]
  /\ UNCHANGED <<running, closed, left>>

Refuse(c) ==
  /\ call[c] = "new"
  /\ call' = [call EXCEPT ![c] = "refused"]
  /\ UNCHANGED <<line, running, closed, left>>

(* A caller that has gone keeps its place in the line. *)
Leave(c) ==
  /\ call[c] = "waiting"
  /\ call' = [call EXCEPT ![c] = "cancelled"]
  /\ UNCHANGED <<line, running, closed, left>>

Run ==
  /\ ~left
  /\ running = NoCaller
  /\ line # <<>>
  /\ running' = Head(line)
  /\ line' = Tail(line)
  /\ UNCHANGED <<call, closed, left>>

(* The outcome goes to the caller whose call it was. *)
Tell ==
  /\ running # NoCaller
  /\ running' = NoCaller
  /\ \/ /\ call[running] = "waiting"
        /\ call' \in {[call EXCEPT ![running] = o] : o \in {"answered", "failed"}}
     \/ call[running] = "cancelled" /\ UNCHANGED call
  /\ UNCHANGED <<line, closed, left>>

Close ==
  /\ closed' = TRUE
  /\ UNCHANGED <<line, running, call, left>>

(* The call that is run, or the one that is next, comes to nothing. *)
LeaveOff ==
  /\ closed
  /\ ~left
  /\ left' = TRUE
  /\ running' = NoCaller
  /\ \/ line' = line
     \/ running = NoCaller /\ line # <<>> /\ line' = Tail(line)
  /\ UNCHANGED <<call, closed>>

(* The callers in the line are told that their calls failed. *)
FailLine ==
  /\ left
  /\ line' = <<>>
  /\ call' = [c \in Callers |-> IF c \in Range(line) /\ call[c] = "waiting"
                                THEN "failed" ELSE call[c]]
  /\ UNCHANGED <<running, closed, left>>

Next ==
  \/ \E c \in Callers : Accept(c) \/ Refuse(c) \/ Leave(c)
  \/ Run \/ Tell
  \/ Close \/ LeaveOff \/ FailLine

Spec == Init /\ [][Next]_vars
=============================================================================
