--------------------------- MODULE JobQueueProofs ---------------------------
(***************************************************************************)
(* Proofs about JobQueue.tla, for every set of jobs, every capacity and    *)
(* every bound on the history.                                             *)
(***************************************************************************)
EXTENDS JobQueue, FiniteSetTheorems, SequenceTheorems, TLAPS

(* The inductive invariant.  FifoOnce and EndIsFinal need only the types;  *)
(* InflightExact and DistinctKeys need each other: an accepted key is new  *)
(* to the channel because the map that was asked is exact, and the map     *)
(* stays exact over a release because the released key waits nowhere else. *)
IInv == TypeOK /\ InflightExact /\ DistinctKeys /\ FifoOnce /\ EndIsFinal

(* New never builds a channel without a slot. *)
LEMMA CapacityPositive == Capacity \in Nat /\ Capacity >= 1
  BY BoundsAssumption DEF Capacity

(* The invariant holds at the start. *)
LEMMA InitInv == Init => IInv
<1> SUFFICES ASSUME Init PROVE IInv
  OBVIOUS
<1> USE CapacityPositive, BoundsAssumption, JobsAssumption DEF Init
<1>1. TypeOK
  <2>1. ch \in Seq(Jobs) /\ accepted \in Seq(Jobs) /\ Len(ch) = 0
    OBVIOUS
  <2>2. closed \in BOOLEAN /\ ended \in BOOLEAN
    OBVIOUS
  <2>3. dropped \in 0 .. MaxDropped /\ taken \in Nat
    OBVIOUS
  <2> QED
    BY <2>1, <2>2, <2>3 DEF TypeOK
<1>2. InflightExact
  BY DEF InflightExact
<1>3. DistinctKeys /\ FifoOnce /\ EndIsFinal
  BY DEF DistinctKeys, FifoOnce, EndIsFinal
<1> QED
  BY <1>1, <1>2, <1>3 DEF IInv

(* An accepted job goes to the end of the channel, with a key that was     *)
(* free.                                                                   *)
LEMMA AcceptInv ==
  ASSUME IInv, NEW j \in Jobs, OfferAccept(j)
  PROVE  IInv'
<1> USE CapacityPositive, BoundsAssumption, JobsAssumption DEF IInv, OfferAccept, Refused, Full
<1>0. /\ Len(ch') = Len(ch) + 1
      /\ \A i \in 1 .. Len(ch) : ch'[i] = ch[i]
      /\ ch'[Len(ch) + 1] = j
  BY DEF TypeOK
<1>1. TypeOK'
  BY DEF TypeOK
<1>2. InflightExact'
  <2>1. {Key[ch'[i]] : i \in 1 .. Len(ch')}
          = {Key[ch[i]] : i \in 1 .. Len(ch)} \cup {Key[j]}
    BY <1>0 DEF TypeOK
  <2> QED
    BY <2>1 DEF InflightExact
<1>3. DistinctKeys'
  <2>1. \A i \in 1 .. Len(ch) : Key[ch[i]] # Key[j]
    BY DEF InflightExact
  <2>2. hand # NoJob => Key[hand] # Key[j]
    BY DEF InflightExact
  <2> QED
    BY <1>0, <2>1, <2>2 DEF DistinctKeys, TypeOK
<1>4. FifoOnce'
  <2>1. /\ Len(accepted') = Len(accepted) + 1
        /\ \A i \in 1 .. Len(accepted) : accepted'[i] = accepted[i]
        /\ accepted'[Len(accepted) + 1] = j
    BY DEF TypeOK
  <2>2. Len(accepted') = taken' + Len(ch')
    BY <1>0, <2>1 DEF FifoOnce, TypeOK
  <2>3. ASSUME NEW i \in 1 .. Len(ch')
        PROVE  ch'[i] = accepted'[taken' + i]
    <3>1. CASE i = Len(ch) + 1
      BY <1>0, <2>1, <3>1 DEF FifoOnce, TypeOK
    <3>2. CASE i # Len(ch) + 1
      <4>1. i \in 1 .. Len(ch) /\ taken + i \in 1 .. Len(accepted)
        BY <1>0, <3>2 DEF FifoOnce, TypeOK
      <4> QED
        BY <1>0, <2>1, <4>1 DEF FifoOnce
    <3> QED
      BY <3>1, <3>2
  <2>4. hand' # NoJob => taken' >= 1 /\ hand' = accepted'[taken']
    <3>1. hand # NoJob => taken \in 1 .. Len(accepted)
      BY DEF FifoOnce, TypeOK
    <3> QED
      BY <2>1, <3>1 DEF FifoOnce
  <2> QED
    BY <2>2, <2>3, <2>4 DEF FifoOnce
<1>5. EndIsFinal'
  BY DEF EndIsFinal
<1> QED
  BY <1>1, <1>2, <1>3, <1>4, <1>5

(* A received job is in the hand, its key still reserved. *)
LEMMA ReceiveInv == IInv /\ NextReceive => IInv'
<1> SUFFICES ASSUME IInv, NextReceive PROVE IInv'
  OBVIOUS
<1> USE CapacityPositive, BoundsAssumption, JobsAssumption DEF IInv, NextReceive
<1>0. /\ Len(ch) >= 1
      /\ Len(ch') = Len(ch) - 1
      /\ \A i \in 1 .. Len(ch') : ch'[i] = ch[i + 1]
      /\ hand' = ch[1]
      /\ hand' \in Jobs /\ hand' # NoJob
  BY DEF TypeOK
<1>1. TypeOK'
  BY <1>0 DEF TypeOK
<1>2. InflightExact'
  <2>1. {Key[ch[i]] : i \in 1 .. Len(ch)}
          = {Key[ch'[i]] : i \in 1 .. Len(ch')} \cup {Key[hand']}
    <3>1. ASSUME NEW i \in 1 .. Len(ch)
          PROVE  Key[ch[i]] \in {Key[ch'[k]] : k \in 1 .. Len(ch')} \cup {Key[hand']}
      <4>1. CASE i = 1
        <5>1. Key[ch[i]] = Key[hand']
          BY <1>0, <4>1
        <5> QED
          BY <5>1
      <4>2. CASE i # 1
        <5>1. i - 1 \in 1 .. Len(ch') /\ ch'[i - 1] = ch[i]
          BY <1>0, <4>2 DEF TypeOK
        <5> QED
          BY <5>1
      <4> QED
        BY <4>1, <4>2
    <3>2. ASSUME NEW i \in 1 .. Len(ch')
          PROVE  Key[ch'[i]] \in {Key[ch[k]] : k \in 1 .. Len(ch)}
      <4>1. i + 1 \in 1 .. Len(ch) /\ ch'[i] = ch[i + 1]
        BY <1>0 DEF TypeOK
      <4> QED
        BY <4>1
    <3>3. Key[hand'] \in {Key[ch[k]] : k \in 1 .. Len(ch)}
      BY <1>0 DEF TypeOK
    <3>4. {Key[ch[i]] : i \in 1 .. Len(ch)}
            \subseteq {Key[ch'[k]] : k \in 1 .. Len(ch')} \cup {Key[hand']}
      BY <3>1
    <3>5. {Key[ch'[i]] : i \in 1 .. Len(ch')} \cup {Key[hand']}
            \subseteq {Key[ch[k]] : k \in 1 .. Len(ch)}
      BY <3>2, <3>3
    <3> HIDE DEF NextReceive
    <3> QED
      BY <3>4, <3>5
  <2> QED
    BY <2>1, <1>0 DEF InflightExact
<1>3. DistinctKeys'
  <2>1. \A i \in 1 .. Len(ch') : i + 1 \in 1 .. Len(ch) /\ i + 1 # 1
    BY <1>0 DEF TypeOK
  <2>2. 1 \in 1 .. Len(ch)
    BY <1>0 DEF TypeOK
  <2>3. \A i \in 1 .. Len(ch') : Key[ch'[i]] # Key[hand']
    BY <1>0, <2>1, <2>2 DEF DistinctKeys
  <2>4. ASSUME NEW i \in 1 .. Len(ch'), NEW k \in 1 .. Len(ch'), Key[ch'[i]] = Key[ch'[k]]
        PROVE  i = k
    <3>1. i + 1 = k + 1
      BY <1>0, <2>1, <2>4 DEF DistinctKeys
    <3> QED
      BY <3>1
  <2> QED
    BY <2>3, <2>4 DEF DistinctKeys
<1>4. FifoOnce'
  <2>1. hand' = accepted'[taken']
    <3>1. 1 \in 1 .. Len(ch) /\ taken + 1 = taken'
      BY <1>0 DEF TypeOK
    <3> QED
      BY <1>0, <3>1 DEF FifoOnce
  <2>2. ASSUME NEW i \in 1 .. Len(ch')
        PROVE  ch'[i] = accepted'[taken' + i]
    <3>1. i + 1 \in 1 .. Len(ch) /\ taken + (i + 1) = taken' + i
      BY <1>0 DEF TypeOK
    <3> QED
      BY <1>0, <3>1 DEF FifoOnce
  <2>3. taken' >= 1 /\ Len(accepted') = taken' + Len(ch')
    <3>1. taken \in Nat /\ Len(ch) \in Nat /\ Len(accepted) = taken + Len(ch)
      BY DEF FifoOnce, TypeOK
    <3>2. taken' = taken + 1 /\ accepted' = accepted
      OBVIOUS
    <3> QED
      BY <1>0, <3>1, <3>2
  <2> HIDE DEF NextReceive
  <2> QED
    BY <2>1, <2>2, <2>3 DEF FifoOnce
<1>5. EndIsFinal'
  BY DEF EndIsFinal
<1> QED
  BY <1>1, <1>2, <1>3, <1>4, <1>5

(* The release frees the key of the job in the hand and of no other. *)
LEMMA ReleaseInv == IInv /\ NextRelease => IInv'
<1> SUFFICES ASSUME IInv, NextRelease PROVE IInv'
  OBVIOUS
<1> USE JobsAssumption DEF IInv, NextRelease, Forget
<1>1. TypeOK'
  BY CapacityPositive, BoundsAssumption DEF TypeOK
<1>2. InflightExact'
  <2>1. Key[hand] \notin {Key[ch[i]] : i \in 1 .. Len(ch)}
    BY DEF DistinctKeys
  <2> QED
    BY <2>1 DEF InflightExact
<1>3. DistinctKeys' /\ FifoOnce' /\ EndIsFinal'
  BY DEF DistinctKeys, FifoOnce, EndIsFinal
<1> QED
  BY <1>1, <1>2, <1>3

(* The steps that leave channel, map and hand alone. *)
LEMMA QuietInv ==
  ASSUME IInv, \/ \E j \in Jobs : OfferFull(j) \/ OfferRefuse(j)
               \/ NextEnd
               \/ Close
               \/ UNCHANGED queueVars
  PROVE  IInv'
<1> USE DEF IInv, OfferFull, OfferRefuse, NextEnd, Close, queueVars
<1>1. TypeOK'
  <2>1. /\ ch' \in Seq(Jobs) /\ Len(ch') <= Capacity
        /\ inflight' \in SUBSET Keys
        /\ hand' \in Jobs \cup {NoJob}
        /\ accepted' \in Seq(Jobs) /\ taken' \in Nat
    BY CapacityPositive DEF TypeOK
  <2>2. dropped' \in 0 .. MaxDropped
    BY BoundsAssumption DEF TypeOK
  <2>3. closed' \in BOOLEAN /\ ended' \in BOOLEAN
    BY DEF TypeOK
  <2> QED
    BY <2>1, <2>2, <2>3 DEF TypeOK
<1>2. InflightExact' /\ DistinctKeys' /\ FifoOnce'
  BY DEF InflightExact, DistinctKeys, FifoOnce
<1>3. EndIsFinal'
  BY DEF EndIsFinal
<1> QED
  BY <1>1, <1>2, <1>3

(* No step breaks the invariant. *)
LEMMA NextInv == IInv /\ [Next]_queueVars => IInv'
  BY AcceptInv, ReceiveInv, ReleaseInv, QuietInv DEF Next, Offer

(* The inductive invariant holds throughout, whatever the producers do. *)
THEOREM QueueInvariant == Spec => []IInv
<1>1. IInv /\ [][Next]_queueVars => []IInv
  BY NextInv, PTL
<1> QED
  BY InitInv, <1>1, PTL DEF Spec

(* Type correctness: the channel never holds more than Capacity jobs. *)
THEOREM QueueTypeOK == Spec => []TypeOK
  BY QueueInvariant, PTL DEF IInv

(* The dedup map is exact: queue.go's delete outside the receive never     *)
(* leaks a key and never forgets one that waits.                           *)
THEOREM QueueInflightExact == Spec => []InflightExact
  BY QueueInvariant, PTL DEF IInv

(* No key waits twice. *)
THEOREM QueueDistinctKeys == Spec => []DistinctKeys
  BY QueueInvariant, PTL DEF IInv

(* What Next receives is what Offer accepted, in order, once. *)
THEOREM QueueFifoOnce == Spec => []FifoOnce
  BY QueueInvariant, PTL DEF IInv

(* Next reports the end only of a closed and drained queue. *)
THEOREM QueueEndIsFinal == Spec => []EndIsFinal
  BY QueueInvariant, PTL DEF IInv
-----------------------------------------------------------------------------
(* A full channel under the invariant holds Capacity different keys. *)
LEMMA FullIsDistinct ==
  ASSUME IInv, Len(ch) >= Capacity
  PROVE  Cardinality({Key[ch[i]] : i \in 1 .. Len(ch)}) = Capacity
<1> DEFINE S == {Key[ch[i]] : i \in 1 .. Len(ch)}
           f == [i \in 1 .. Len(ch) |-> Key[ch[i]]]
<1>1. Len(ch) = Capacity /\ Len(ch) \in Nat
  BY CapacityPositive DEF IInv, TypeOK
<1>2. f \in Bijection(1 .. Len(ch), S)
  <2>1. f \in Injection(1 .. Len(ch), S)
    BY DEF IInv, DistinctKeys, Injection, IsInjective
  <2>2. f \in Surjection(1 .. Len(ch), S)
    BY DEF Surjection
  <2> QED
    BY <2>1, <2>2 DEF Bijection
<1>3. ExistsBijection(1 .. Len(ch), S)
  BY <1>2 DEF ExistsBijection
<1> QED
  BY <1>1, <1>3, FS_CountingElements

(* A shed offer finds Capacity different keys waiting. *)
THEOREM QueueDropMeansDistinctBacklog == Spec => DropMeansDistinctBacklog
<1> DEFINE A == dropped' > dropped =>
                  Cardinality({Key[ch[i]] : i \in 1 .. Len(ch)}) = Capacity
<1>1. ASSUME IInv, [Next]_queueVars, dropped' > dropped
      PROVE  Len(ch) >= Capacity
  <2>1. dropped \in Nat
    BY <1>1, BoundsAssumption DEF IInv, TypeOK
  <2>2. dropped' # dropped
    BY <1>1, <2>1
  <2>3. \E j \in Jobs : OfferFull(j)
    BY <1>1, <2>2, Zenon
    DEF Next, Offer, OfferAccept, OfferRefuse, NextReceive, NextRelease,
        NextEnd, Close, queueVars
  <2> QED
    BY <2>3 DEF OfferFull, Full
<1>2. IInv /\ [Next]_queueVars => [A]_queueVars
  BY <1>1, FullIsDistinct
<1> QED
  BY <1>2, QueueInvariant, PTL DEF Spec, DropMeansDistinctBacklog
-----------------------------------------------------------------------------
(* The refinement: the queue implements the FIFO of distinct keys.  The    *)
(* receive is invisible to it; the release delivers.                       *)
LEMMA InHandSeq == TypeOK => InHand \in Seq(Jobs) /\ Pending \in Seq(Jobs)
  BY ConcatProperties DEF TypeOK, InHand, Pending

(* What is pending is what the map says. *)
LEMMA PendingKeysExact ==
  ASSUME IInv
  PROVE  Abstract!PendingKeys \subseteq inflight
<1> USE JobsAssumption DEF IInv
<1> SUFFICES ASSUME NEW i \in 1 .. Len(Pending)
             PROVE  Key[Pending[i]] \in inflight
  BY DEF Abstract!PendingKeys
<1>1. CASE hand = NoJob
  <2>1. Pending = ch
    BY <1>1, ConcatEmptySeq DEF TypeOK, Pending, InHand
  <2> QED
    BY <2>1 DEF InflightExact
<1>2. CASE hand # NoJob
  <2>1. InHand = <<hand>> /\ InHand \in Seq(Jobs) /\ Len(InHand) = 1
    BY <1>2 DEF TypeOK, InHand
  <2>2. /\ Len(Pending) = 1 + Len(ch)
        /\ Pending[i] = IF i <= 1 THEN InHand[i] ELSE ch[i - 1]
    BY <2>1, ConcatProperties DEF TypeOK, Pending
  <2>3. CASE i = 1
    BY <1>2, <2>1, <2>2, <2>3 DEF InflightExact
  <2>4. CASE i # 1
    <3>1. i - 1 \in 1 .. Len(ch) /\ Pending[i] = ch[i - 1]
      BY <2>2, <2>4 DEF TypeOK
    <3> QED
      BY <3>1 DEF InflightExact
  <2> QED
    BY <2>3, <2>4
<1> QED
  BY <1>1, <1>2

(* An accepted offer is an accept of the abstract queue. *)
LEMMA AcceptRefines ==
  ASSUME IInv, NEW j \in Jobs, OfferAccept(j)
  PROVE  Abstract!Accept(j)
<1> USE DEF IInv
<1>1. Key[j] \notin Abstract!PendingKeys
  BY PendingKeysExact DEF OfferAccept, Refused
<1>2. Len(Pending) < Capacity + 1
  <2>1. Len(InHand) \in {0, 1} /\ InHand \in Seq(Jobs)
    BY DEF TypeOK, InHand
  <2>2. Len(Pending) = Len(InHand) + Len(ch)
    BY <2>1, ConcatProperties DEF TypeOK, Pending
  <2>3. Len(ch) \in Nat /\ Len(ch) < Capacity
    BY CapacityPositive DEF OfferAccept, Full, TypeOK
  <2>4. ASSUME NEW m \in {0, 1}, NEW n \in Nat, NEW c \in Nat, n < c
        PROVE  m + n < c + 1
    BY <2>4
  <2> QED
    BY <2>1, <2>2, <2>3, <2>4, CapacityPositive, Zenon
<1>3. Pending' = Append(Pending, j)
  <2>1. InHand' = InHand /\ ch' = Append(ch, j)
    BY DEF OfferAccept, InHand
  <2>2. Append(ch, j) = ch \o <<j>> /\ <<j>> \in Seq(Jobs)
    BY AppendIsConcat DEF TypeOK
  <2>3. InHand \o (ch \o <<j>>) = (InHand \o ch) \o <<j>>
    BY <2>2, InHandSeq, ConcatAssociative DEF TypeOK
  <2>4. Append(Pending, j) = Pending \o <<j>>
    BY InHandSeq, AppendIsConcat
  <2> QED
    BY <2>1, <2>2, <2>3, <2>4 DEF Pending
<1> QED
  BY <1>1, <1>2, <1>3 DEF OfferAccept, Refused, Abstract!Accept

(* The receive is no step of the abstract queue. *)
LEMMA ReceiveStutters == IInv /\ NextReceive => UNCHANGED Abstract!vars
<1> SUFFICES ASSUME IInv, NextReceive PROVE UNCHANGED Abstract!vars
  OBVIOUS
<1> USE JobsAssumption DEF IInv
<1>1. ch \in Seq(Jobs) /\ ch # <<>>
  BY DEF TypeOK, NextReceive
<1>2. Pending = ch
  BY <1>1, ConcatEmptySeq DEF NextReceive, Pending, InHand
<1>3. Pending' = <<Head(ch)>> \o Tail(ch)
  BY <1>1 DEF NextReceive, Pending, InHand
<1>4. <<Head(ch)>> \o Tail(ch) = ch
  BY <1>1
<1> QED
  BY <1>2, <1>3, <1>4 DEF NextReceive, Abstract!vars

(* The release is a delivery of the abstract queue. *)
LEMMA ReleaseRefines == IInv /\ NextRelease => Abstract!Deliver
<1> SUFFICES ASSUME IInv, NextRelease PROVE Abstract!Deliver
  OBVIOUS
<1> USE DEF IInv, TypeOK
<1>1. Pending = <<hand>> \o ch
  BY DEF NextRelease, Pending, InHand
<1>2. Pending' = ch
  BY ConcatEmptySeq DEF NextRelease, Pending, InHand
<1>3. hand \in Jobs /\ ch \in Seq(Jobs)
  BY DEF NextRelease
<1>4. <<hand>> \o ch # <<>> /\ Tail(<<hand>> \o ch) = ch
  BY <1>3
<1> QED
  BY <1>1, <1>2, <1>4 DEF NextRelease, Abstract!Deliver

(* Every step of the queue is a step of the abstract FIFO or a stutter.    *)
THEOREM QueueImplementsDedupFifo == Spec => AbstractSpec
<1>1. Init => Abstract!Init
  BY DEF Init, Abstract!Init, Pending, InHand
<1>2. IInv /\ [Next]_queueVars => [Abstract!Next]_(Abstract!vars)
  <2> SUFFICES ASSUME IInv, [Next]_queueVars
               PROVE  Abstract!Next \/ UNCHANGED Abstract!vars
    BY DEF Abstract!vars
  <2>1. CASE \E j \in Jobs : OfferAccept(j)
    BY <2>1, AcceptRefines DEF Abstract!Next
  <2>2. CASE NextReceive
    BY <2>2, ReceiveStutters
  <2>3. CASE NextRelease
    BY <2>3, ReleaseRefines DEF Abstract!Next
  <2>4. CASE Close
    BY <2>4 DEF Close, Abstract!Next, Abstract!Shut, Pending, InHand
  <2>5. CASE \/ \E j \in Jobs : OfferFull(j) \/ OfferRefuse(j)
             \/ NextEnd
             \/ UNCHANGED queueVars
    BY <2>5 DEF OfferFull, OfferRefuse, NextEnd, queueVars, Abstract!vars,
                Pending, InHand
  <2> QED
    BY <2>1, <2>2, <2>3, <2>4, <2>5 DEF Next, Offer
<1> QED
  BY <1>1, <1>2, QueueInvariant, PTL DEF Spec, AbstractSpec, Abstract!Spec
=============================================================================
