------------------------------ MODULE JobQueue ------------------------------
(***************************************************************************)
(* The daemon's bounded, deduplicating work queue                          *)
(* (internal/agent/queue/queue.go).                                        *)
(*                                                                         *)
(* Offer and Close run under the mutex and are one step each.  Next is two *)
(* steps: the receive from the channel happens outside the mutex, the      *)
(* deletion of the key under it, and offers of the HTTP handlers may fall  *)
(* between the two.                                                        *)
(***************************************************************************)
EXTENDS Integers, Sequences, FiniteSets

CONSTANTS Jobs,        (* jobs the handlers may offer                      *)
          Keys,        (* source|scheme|id keys                            *)
          Key,         (* Job.Key as a function: jobs may share a key      *)
          NoJob,       (* stands for "no job"                              *)
          Requested,   (* the capacity given to New                        *)
          MaxAccepted, (* bound: how many offers are accepted in a run     *)
          MaxDropped   (* bound: how many offers are shed in a run         *)

ASSUME JobsAssumption ==
  /\ Key \in [Jobs -> Keys]
  /\ NoJob \notin Jobs
ASSUME BoundsAssumption ==
  /\ Requested \in Int
  /\ MaxAccepted \in Nat
  /\ MaxDropped \in Nat

VARIABLES ch,        (* the buffered channel                               *)
          inflight,  (* the keys of the dedup map                          *)
          dropped,   (* the counter of shed jobs                           *)
          closed,    (* set by Close, together with the two channels       *)
          hand,      (* the job Next has received and not yet released     *)
          ended      (* Next has returned ok=false                         *)

VARIABLES accepted,  (* history: the accepted jobs, in order               *)
          taken      (* history: how many jobs were received from ch       *)

queueVars == <<ch, inflight, dropped, closed, hand, ended, accepted, taken>>
-----------------------------------------------------------------------------
(* New: a capacity below one is raised to one. *)
Capacity == IF Requested < 1 THEN 1 ELSE Requested

Init ==
  /\ ch = <<>>
  /\ inflight = {}
  /\ dropped = 0
  /\ closed = FALSE
  /\ hand = NoJob
  /\ ended = FALSE
  /\ accepted = <<>>
  /\ taken = 0

(* Offer returns false at once for a closed queue or a marked key. *)
RefusedWithoutDedup(j) == closed
Refused(j) == closed \/ Key[j] \in inflight

(* The send of Offer would block. *)
FullCountingHand == Len(ch) + (IF hand = NoJob THEN 0 ELSE 1) >= Capacity
Full == Len(ch) >= Capacity

(* Offer sends the job and marks its key; it returns true. *)
OfferAccept(j) ==
  /\ Len(accepted) < MaxAccepted
  /\ ~Refused(j)
  /\ ~Full
  /\ ch' = Append(ch, j)
  /\ inflight' = inflight \cup {Key[j]}
  /\ accepted' = Append(accepted, j)
  /\ UNCHANGED <<dropped, closed, hand, ended, taken>>

(* Offer finds the channel full: the job is counted and shed. *)
OfferFull(j) ==
  /\ dropped < MaxDropped
  /\ ~Refused(j)
  /\ Full
  /\ dropped' = dropped + 1
  /\ UNCHANGED <<ch, inflight, closed, hand, ended, accepted, taken>>

(* Offer refuses without counting. *)
OfferRefuse(j) ==
  /\ Refused(j)
  /\ UNCHANGED queueVars

(* Next, first part: receive from the channel, no lock held. *)
NextReceiveNewest ==
  /\ ~ended
  /\ hand = NoJob
  /\ ch # <<>>
  /\ hand' = ch[Len(ch)]
  /\ ch' = SubSeq(ch, 1, Len(ch) - 1)
  /\ taken' = taken + 1
  /\ UNCHANGED <<inflight, dropped, closed, ended, accepted>>

NextReceive ==
  /\ ~ended
  /\ hand = NoJob
  /\ ch # <<>>
  /\ hand' = Head(ch)
  /\ ch' = Tail(ch)
  /\ taken' = taken + 1
  /\ UNCHANGED <<inflight, dropped, closed, ended, accepted>>

(* Next, second part: forget the key under the lock and return the job. *)
ForgetNothing == inflight
Forget == inflight \ {Key[hand]}

NextRelease ==
  /\ hand # NoJob
  /\ inflight' = Forget
  /\ hand' = NoJob
  /\ UNCHANGED <<ch, dropped, closed, ended, accepted, taken>>

(* Next finds the channel closed and drained. *)
NextEndWaitsForMore == FALSE /\ UNCHANGED queueVars

NextEnd ==
  /\ ~ended
  /\ closed
  /\ hand = NoJob
  /\ ch = <<>>
  /\ ended' = TRUE
  /\ UNCHANGED <<ch, inflight, dropped, closed, hand, accepted, taken>>

(* Close; a second call changes nothing. *)
Close ==
  /\ closed' = TRUE
  /\ UNCHANGED <<ch, inflight, dropped, hand, ended, accepted, taken>>

Offer(j) == OfferAccept(j) \/ OfferFull(j) \/ OfferRefuse(j)

Next ==
  \/ \E j \in Jobs : Offer(j)
  \/ NextReceive
  \/ NextRelease
  \/ NextEnd
  \/ Close

Spec == Init /\ [][Next]_queueVars

(* The consumer keeps calling Next: the two halves of it and its end are   *)
(* steps of one runnable goroutine.  Producers and Close owe nothing.      *)
Fairness == WF_queueVars(NextReceive \/ NextRelease \/ NextEnd)

FairSpec == Spec /\ Fairness
-----------------------------------------------------------------------------
InHand == IF hand = NoJob THEN <<>> ELSE <<hand>>

(* The jobs a duplicate is refused for: the one Next holds, then the       *)
(* channel.                                                                *)
Pending == InHand \o ch

TypeOK ==
  /\ ch \in Seq(Jobs)
  /\ Len(ch) <= Capacity
  /\ inflight \in SUBSET Keys
  /\ dropped \in 0 .. MaxDropped
  /\ closed \in BOOLEAN
  /\ hand \in Jobs \cup {NoJob}
  /\ ended \in BOOLEAN
  /\ accepted \in Seq(Jobs)
  /\ taken \in Nat

(* The dedup map holds exactly the keys of the jobs Next has not returned: *)
(* although the receive and the delete are separate steps, no key leaks    *)
(* (its later jobs would be refused for ever) and none is forgotten early. *)
InflightExact ==
  inflight = {Key[ch[i]] : i \in 1 .. Len(ch)}
               \cup (IF hand = NoJob THEN {} ELSE {Key[hand]})

(* No key waits twice, neither in the channel nor between the channel and  *)
(* the job Next holds.                                                     *)
DistinctKeys ==
  /\ \A i, k \in 1 .. Len(ch) : Key[ch[i]] = Key[ch[k]] => i = k
  /\ hand # NoJob => \A i \in 1 .. Len(ch) : Key[ch[i]] # Key[hand]

(* Jobs leave in the order in which they were accepted, none is lost and   *)
(* none is handed out twice: what was accepted is what was received,       *)
(* followed by what is in the channel.                                     *)
FifoOnce ==
  /\ Len(accepted) = taken + Len(ch)
  /\ \A i \in 1 .. Len(ch) : ch[i] = accepted[taken + i]
  /\ hand # NoJob => taken >= 1 /\ hand = accepted[taken]

(* Next says "closed" only when there is nothing left and nothing can come *)
(* any more.                                                               *)
EndIsFinal == ended => closed /\ ch = <<>> /\ hand = NoJob

(* An offer is shed only when Capacity different keys are waiting: repeats *)
(* of a prompt never push another prompt out.                              *)
DropMeansDistinctBacklog ==
  [][dropped' > dropped =>
       Cardinality({Key[ch[i]] : i \in 1 .. Len(ch)}) = Capacity]_queueVars

(* After Close the consumer is told so once it has drained the backlog.    *)
CloseEndsConsumer == closed ~> ended

(* The queue behaves as the FIFO of distinct keys in DedupFifo.tla, where  *)
(* a job is delivered when Next forgets its key.                           *)
Abstract == INSTANCE DedupFifo WITH
              Limit <- Capacity + 1, pending <- Pending, shut <- closed

AbstractSpec == Abstract!Spec
=============================================================================
