----------------------------- MODULE DedupFifo -----------------------------
(***************************************************************************)
(* What the work queue of the daemon promises to its two sides, without    *)
(* channel, lock or map: one FIFO of pending jobs in which no key occurs   *)
(* twice.  A job is pending from the moment it is accepted until Next      *)
(* returns it; once the queue is shut nothing is accepted, what is pending *)
(* is still handed out in order.  JobQueue.tla is shown to implement it.   *)
(***************************************************************************)
EXTENDS Integers, Sequences

CONSTANTS Jobs,     (* the jobs producers may offer                        *)
          Key,      (* [Jobs -> keys], the deduplication key of a job      *)
          Limit     (* how many jobs may be pending at a time              *)

VARIABLES pending,  (* the accepted jobs Next has not returned, in order   *)
          shut      (* TRUE once the queue has been closed                 *)

vars == <<pending, shut>>

PendingKeys == {Key[pending[i]] : i \in 1 .. Len(pending)}

Init == pending = <<>> /\ shut = FALSE

(* A job is taken on only if its key is not pending and there is room. *)
Accept(j) ==
  /\ ~shut
  /\ Key[j] \notin PendingKeys
  /\ Len(pending) < Limit
  /\ pending' = Append(pending, j)
  /\ UNCHANGED shut

(* The oldest pending job is handed to the consumer. *)
Deliver ==
  /\ pending # <<>>
  /\ pending' = Tail(pending)
  /\ UNCHANGED shut

Shut == shut' = TRUE /\ UNCHANGED pending

Next == (\E j \in Jobs : Accept(j)) \/ Deliver \/ Shut

Spec == Init /\ [][Next]_vars
=============================================================================
