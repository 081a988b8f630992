------------------------ MODULE InferenceRunnerProofs ------------------------
(***************************************************************************)
(* Proofs about InferenceRunner.tla and Governor.tla, for every number of  *)
(* calls, every queue bound and every setting of the governor.             *)
(***************************************************************************)
EXTENDS InferenceRunner, FiniteSetTheorems, SequenceTheorems, TLAPS

Waiting == {c \in Callers : call[c] = "waiting"}

(* The consumer holds an entry exactly where it waits for its slot or for  *)
(* the executor, and ends only because of stop.                            *)
ConsumerInv ==
  /\ consumer \in {"slot", "exec"} => item \in Callers
  /\ consumer = "ended" => stopped
  /\ down => stopped /\ consumer = "ended" /\ queue = <<>>

(* Of the callers that wait, one at most is not in the queue: the one      *)
(* whose entry the consumer holds, or held when it was cancelled.          *)
WaitingInv ==
  /\ consumer = "get" => Waiting \subseteq Range(queue)
  /\ consumer \in {"slot", "exec"} => Waiting \subseteq Range(queue) \cup {item}
  /\ \A b, c \in Waiting \ Range(queue) : b = c

(* What was accepted, as long as the consumer lives. *)
OrderInv ==
  consumer # "ended" =>
    accepted = (started \o (IF consumer = "slot" THEN <<item>> ELSE <<>>)) \o queue

(* The governor of a runner that is paced: its clock is the one of the     *)
(* history, the load is not below the calmest moment, and what is left of  *)
(* the pause is enough, even for the interval of that moment.              *)
PaceInv ==
  /\ calmest <= load
  /\ ~disabled => /\ gap = since
                  /\ consumer = "slot" => since + wait >= IntervalFor(calmest)

IInv == TypeOK /\ ConsumerInv /\ WaitingInv /\ OrderInv /\ PaceInv
-----------------------------------------------------------------------------
(* The interval grows with the load, up to the longest one. *)
LEMMA QuotientMonotone ==
  ASSUME NEW x \in Nat, NEW y \in Nat, NEW d \in Nat, d > 0, x <= y
  PROVE  x \div d <= y \div d /\ x \div d \in Nat
<1>1. x = d * (x \div d) + (x % d) /\ 0 <= x % d /\ x % d < d
  OBVIOUS
<1>2. y = d * (y \div d) + (y % d) /\ 0 <= y % d /\ y % d < d
  OBVIOUS
<1> QED
  BY <1>1, <1>2

(* The interval is within its bounds and grows with the load. *)
LEMMA IntervalMonotone ==
  ASSUME NEW l \in Nat, NEW m \in Nat, l <= m
  PROVE  /\ IntervalFor(l) \in 0 .. MaxInterval
         /\ IntervalFor(l) <= IntervalFor(m)
<1> USE GovernorAssumption
<1> DEFINE Part(k) == ((k - Low) * MaxInterval) \div (High - Low)
<1>1. ASSUME NEW k \in Nat, k > Low, k < High
      PROVE  Part(k) \in 0 .. MaxInterval
  <2>1. k - Low \in Nat /\ High - Low \in Nat /\ High - Low > 0
    BY <1>1
  <2>2. (k - Low) * MaxInterval \in Nat /\ (High - Low) * MaxInterval \in Nat
    BY <2>1
  <2>3. (k - Low) * MaxInterval <= (High - Low) * MaxInterval
    BY <1>1, <2>1
  <2>4. ((High - Low) * MaxInterval) \div (High - Low) = MaxInterval
    BY <2>1
  <2> QED
    BY <2>1, <2>2, <2>3, <2>4, QuotientMonotone
<1>2. ASSUME l > Low, m < High
      PROVE  Part(l) <= Part(m)
  <2>1. l - Low \in Nat /\ m - Low \in Nat /\ High - Low \in Nat /\ High - Low > 0
    BY <1>2
  <2>2. (l - Low) * MaxInterval \in Nat /\ (m - Low) * MaxInterval \in Nat
          /\ (l - Low) * MaxInterval <= (m - Low) * MaxInterval
    BY <2>1
  <2> QED
    BY <2>1, <2>2, QuotientMonotone
<1>3. CASE l <= Low
  BY <1>1, <1>3 DEF IntervalFor
<1>4. CASE l > Low /\ l >= High
  BY <1>4 DEF IntervalFor
<1>5. CASE l > Low /\ l < High
  BY <1>1, <1>2, <1>5 DEF IntervalFor
<1> QED
  BY <1>3, <1>4, <1>5
-----------------------------------------------------------------------------
(* The invariant holds at the start. *)
LEMMA InitInv == Init => IInv
<1> SUFFICES ASSUME Init PROVE IInv
  OBVIOUS
<1> USE RunnerAssumption, GovernorAssumption DEF Init, GovernorInit
<1>1. TypeOK
  <2>1. GovernorTypeOK
    BY DEF GovernorTypeOK, Loads
  <2>2. queue \in Seq(Callers) /\ accepted \in Seq(Callers) /\ started \in Seq(Callers)
          /\ (QueueMax > 0 => Len(queue) <= QueueMax)
    OBVIOUS
  <2>3. call \in [Callers -> {"new", "refused", "waiting", "cancelled", "answered", "failed"}]
    OBVIOUS
  <2> QED
    BY <2>1, <2>2, <2>3 DEF TypeOK
<1>2. ConsumerInv
  BY DEF ConsumerInv
<1>3. WaitingInv
  BY DEF WaitingInv, Waiting
<1>4. OrderInv
  BY DEF OrderInv
<1>5. PaceInv
  <2>1. IntervalFor(0) \in 0 .. MaxInterval
    BY IntervalMonotone
  <2> QED
    BY <2>1 DEF PaceInv
<1> QED
  BY <1>1, <1>2, <1>3, <1>4, <1>5 DEF IInv

(* The queue and its range, as entries are put and taken. *)
LEMMA PutRange ==
  ASSUME NEW S, NEW q \in Seq(S), NEW c \in S
  PROVE  Range(Append(q, c)) = Range(q) \cup {c}
<1>1. Range(<<c>>) = {c}
  BY DEF Range
<1>2. Append(q, c) = q \o <<c>> /\ <<c>> \in Seq(S)
  BY AppendIsConcat
<1>3. Range(q \o <<c>>) = Range(q) \cup Range(<<c>>)
  BY <1>2, RangeConcatenation
<1> QED
  BY <1>1, <1>2, <1>3

(* Taking the head takes it out of the elements. *)
LEMMA TakeRange ==
  ASSUME NEW S, NEW q \in Seq(S), q # <<>>
  PROVE  /\ Range(q) = {Head(q)} \cup Range(Tail(q))
         /\ q = <<Head(q)>> \o Tail(q)
<1>1. /\ Head(q) \in S /\ Tail(q) \in Seq(S) /\ <<Head(q)>> \in Seq(S)
      /\ q = <<Head(q)>> \o Tail(q)
  OBVIOUS
<1>2. Range(<<Head(q)>>) = {Head(q)}
  BY DEF Range
<1>3. Range(<<Head(q)>> \o Tail(q)) = Range(<<Head(q)>>) \cup Range(Tail(q))
  BY <1>1, RangeConcatenation
<1> QED
  BY <1>1, <1>2, <1>3

(* A call is queued, refused or cancelled by its caller. *)
LEMMA SubmitInv ==
  ASSUME IInv, NEW c \in Callers, Refuse(c) \/ Submit(c) \/ CallerCancelled(c)
  PROVE  IInv'
<1> USE RunnerAssumption DEF IInv
<1>1. UNCHANGED <<consumer, item, thread, stopped, down, started, governorVars>>
  BY DEF Refuse, Submit, CallerCancelled
<1>2. PaceInv' /\ GovernorTypeOK'
  BY <1>1 DEF governorVars, PaceInv, GovernorTypeOK, TypeOK, IntervalFor
<1>3. ASSUME Submit(c) PROVE TypeOK' /\ ConsumerInv' /\ WaitingInv' /\ OrderInv'
  <2> USE <1>3 DEF Submit
  <2>1. TypeOK'
    BY <1>1, <1>2 DEF TypeOK, Full
  <2>2. ConsumerInv'
    BY <1>1 DEF ConsumerInv
  <2>3. Range(queue') = Range(queue) \cup {c} /\ Waiting' = Waiting \cup {c}
    BY PutRange DEF TypeOK, Waiting
  <2>4. WaitingInv'
    BY <1>1, <2>3 DEF WaitingInv
  <2>5. OrderInv'
    <3>1. SUFFICES ASSUME consumer # "ended" PROVE OrderInv'
      BY <1>1 DEF OrderInv
    <3> DEFINE slot == IF consumer = "slot" THEN <<item>> ELSE <<>>
    <3>2. slot \in Seq(Callers)
      BY DEF ConsumerInv
    <3>3. started \o slot \in Seq(Callers)
      BY <3>2 DEF TypeOK
    <3>4. accepted = (started \o slot) \o queue
      BY <3>1 DEF OrderInv
    <3>5. Append((started \o slot) \o queue, c) = (started \o slot) \o Append(queue, c)
      <4> HIDE DEF slot
      <4>1. <<c>> \in Seq(Callers) /\ queue \in Seq(Callers)
        BY DEF TypeOK
      <4>2. (started \o slot) \o queue \in Seq(Callers)
        BY <3>3, <4>1, ConcatProperties
      <4> QED
        BY <3>3, <4>1, <4>2, AppendIsConcat, ConcatAssociative
    <3> QED
      BY <1>1, <3>4, <3>5 DEF OrderInv
  <2> QED
    BY <2>1, <2>2, <2>4, <2>5
<1>4. ASSUME Refuse(c) \/ CallerCancelled(c)
      PROVE  TypeOK' /\ ConsumerInv' /\ WaitingInv' /\ OrderInv'
  <2>1. UNCHANGED <<queue, accepted>>
    BY <1>4 DEF Refuse, CallerCancelled
  <2>2. Waiting' \subseteq Waiting
    BY <1>4 DEF Refuse, CallerCancelled, Waiting, TypeOK
  <2>3. TypeOK'
    BY <1>1, <1>2, <1>4, <2>1 DEF TypeOK, Refuse, CallerCancelled
  <2> QED
    BY <1>1, <2>1, <2>2, <2>3 DEF ConsumerInv, WaitingInv, OrderInv
<1> QED
  BY <1>2, <1>3, <1>4

(* An entry that is taken moves from the head of one to the end of another. *)
LEMMA Regroup ==
  ASSUME NEW S, NEW s \in Seq(S), NEW e \in S, NEW q \in Seq(S)
  PROVE  s \o (<<e>> \o q) = (s \o <<e>>) \o q
<1>1. <<e>> \in Seq(S)
  OBVIOUS
<1> QED
  BY <1>1, ConcatAssociative

(* The consumer takes the oldest entry and asks for a slot. *)
LEMMA GetInv == ASSUME IInv, Get PROVE IInv'
<1> USE RunnerAssumption, GovernorAssumption DEF IInv, Get, TakeOldest, AskSlot
<1>1. /\ item' \in Callers /\ queue' \in Seq(Callers) /\ Len(queue') = Len(queue) - 1
      /\ Range(queue) = {item'} \cup Range(queue')
      /\ queue = <<item'>> \o queue'
  BY TakeRange, HeadTailProperties DEF TypeOK
<1>2. /\ IntervalFor(load) \in 0 .. MaxInterval
      /\ IntervalFor(calmest) \in 0 .. MaxInterval
      /\ IntervalFor(calmest) <= IntervalFor(load)
  BY IntervalMonotone DEF PaceInv, TypeOK, GovernorTypeOK, Loads
<1>3. TypeOK'
  <2>1. wait' \in 0 .. MaxInterval
    BY <1>2 DEF TypeOK, GovernorTypeOK, Most
  <2>2. GovernorTypeOK'
    BY <2>1 DEF TypeOK, GovernorTypeOK
  <2> QED
    BY <1>1, <2>2 DEF TypeOK
<1>4. ConsumerInv'
  BY <1>1 DEF ConsumerInv
<1>5. WaitingInv'
  BY <1>1 DEF WaitingInv, Waiting
<1>6. OrderInv'
  <2>1. accepted = (started \o <<>>) \o queue
    BY DEF OrderInv
  <2>2. started \o <<>> = started
    BY ConcatEmptySeq DEF TypeOK
  <2>3. started \o (<<item'>> \o queue') = (started \o <<item'>>) \o queue'
    <3>1. started \in Seq(Callers)
      BY DEF TypeOK
    <3> QED
      BY <1>1, <3>1, Regroup
  <2> QED
    BY <1>1, <2>1, <2>2, <2>3 DEF OrderInv
<1>7. PaceInv'
  <2>1. IntervalFor(calmest)' = IntervalFor(calmest)
    BY DEF IntervalFor
  <2>2. since + wait' >= IntervalFor(load) \/ disabled
    BY <1>2 DEF Most, TypeOK, GovernorTypeOK
  <2>3. since + wait' >= IntervalFor(calmest) \/ disabled
    BY <1>2, <1>3, <2>2 DEF TypeOK, GovernorTypeOK
  <2> QED
    BY <2>1, <2>3 DEF PaceInv
<1> QED
  BY <1>3, <1>4, <1>5, <1>6, <1>7

(* A granted slot starts the call the consumer holds. *)
LEMMA SlotGrantedInv == ASSUME IInv, SlotGranted PROVE IInv'
<1> USE RunnerAssumption, GovernorAssumption DEF IInv, SlotGranted, TakeSlot, Starts
<1>1. item \in Callers
  BY DEF ConsumerInv
<1>2. TypeOK'
  BY <1>1 DEF TypeOK, GovernorTypeOK
<1>3. ConsumerInv' /\ WaitingInv'
  BY DEF ConsumerInv, WaitingInv, Waiting
<1>4. OrderInv'
  <2>1. accepted = (started \o <<item>>) \o queue
    BY DEF OrderInv
  <2>2. started' = started \o <<item>> /\ started' \o <<>> = started'
    BY <1>1, <1>2, AppendIsConcat, ConcatEmptySeq DEF TypeOK
  <2> QED
    BY <2>1, <2>2 DEF OrderInv
<1>5. PaceInv'
  BY DEF PaceInv, TypeOK, GovernorTypeOK, Loads
<1> QED
  BY <1>2, <1>3, <1>4, <1>5
(* The call that is resolved was the only one waiting outside the queue. *)
LEMMA ResolveInv == ASSUME IInv, Resolve PROVE IInv'
<1> USE RunnerAssumption DEF IInv, Resolve
<1>1. item \in Callers /\ UNCHANGED governorVars
  BY DEF ConsumerInv
<1>2. TypeOK'
  BY <1>1 DEF TypeOK, GovernorTypeOK, governorVars, ConsumerAfter
<1>3. ConsumerInv'
  BY DEF ConsumerInv, ConsumerAfter
<1>4. Waiting' = Waiting \ {item}
  BY <1>1 DEF Waiting, TypeOK
<1>5. WaitingInv'
  BY <1>4 DEF WaitingInv, ConsumerAfter
<1>6. OrderInv'
  BY DEF OrderInv, ConsumerAfter
<1>7. PaceInv'
  BY <1>1 DEF PaceInv, IntervalFor, ConsumerAfter, governorVars
<1> QED
  BY <1>2, <1>3, <1>5, <1>6, <1>7

(* Cancelled, the consumer leaves its entry unresolved; stop fails those   *)
(* in the queue.                                                           *)
LEMMA StopInv ==
  ASSUME IInv, Stop \/ ConsumerCancelled \/ StopDrains
  PROVE  IInv'
<1> USE RunnerAssumption, GovernorAssumption DEF IInv
<1>1. GovernorTypeOK' /\ PaceInv'
  BY DEF Stop, ConsumerCancelled, DropSlot, StopDrains, governorVars, TypeOK,
         GovernorTypeOK, PaceInv, IntervalFor
<1>2. CASE Stop
  BY <1>1, <1>2 DEF Stop, TypeOK, ConsumerInv, WaitingInv, Waiting, OrderInv
<1>3. CASE ConsumerCancelled
  <2>1. TypeOK'
    BY <1>1, <1>3 DEF ConsumerCancelled, TypeOK
  <2>2. ConsumerInv' /\ OrderInv'
    BY <1>3 DEF ConsumerCancelled, ConsumerInv, OrderInv
  <2>3. WaitingInv'
    BY <1>3 DEF ConsumerCancelled, WaitingInv, Waiting
  <2> QED
    BY <1>1, <2>1, <2>2, <2>3
<1>4. CASE StopDrains
  <2>1. TypeOK'
    BY <1>1, <1>4 DEF StopDrains, FailQueued, TypeOK
  <2>2. ConsumerInv' /\ OrderInv'
    BY <1>4 DEF StopDrains, ConsumerInv, OrderInv
  <2>3. Waiting' = Waiting \ Range(queue)
    BY <1>4 DEF StopDrains, FailQueued, Waiting, TypeOK
  <2>4. WaitingInv'
    BY <1>4, <2>3 DEF StopDrains, WaitingInv
  <2> QED
    BY <1>1, <2>1, <2>2, <2>4
<1> QED
  BY <1>2, <1>3, <1>4

(* The thread, the sampler and time. *)
LEMMA SurroundingsInv ==
  ASSUME IInv, ThreadStep \/ SampleLoop \/ Tick \/ UNCHANGED vars
  PROVE  IInv'
<1> USE RunnerAssumption, GovernorAssumption DEF IInv
<1>1. UNCHANGED <<queue, call, consumer, item, stopped, down, accepted, started>>
  BY DEF ThreadStep, ThreadStarts, ThreadEnds, SampleLoop, Tick, runnerVars, vars
<1>2. thread' \in {"idle", "pending", "running", "done", "raised"}
  BY DEF ThreadStep, ThreadStarts, ThreadEnds, SampleLoop, Tick, runnerVars, vars, TypeOK
<1>3. ConsumerInv' /\ WaitingInv' /\ OrderInv'
  BY <1>1 DEF ConsumerInv, WaitingInv, Waiting, OrderInv
<1>4. ASSUME UNCHANGED governorVars PROVE GovernorTypeOK' /\ PaceInv'
  BY <1>1, <1>4 DEF governorVars, GovernorTypeOK, TypeOK, PaceInv, IntervalFor
<1>5. ASSUME Observe PROVE GovernorTypeOK' /\ PaceInv'
  <2>1. PICK sample \in Loads : load' \in Least(load, sample) .. Most(load, sample)
    BY <1>5 DEF Observe
  <2>2. load' \in Loads /\ calmest' \in Loads /\ calmest' <= load' /\ calmest' <= calmest
    BY <1>5, <2>1 DEF Observe, Loads, Least, Most, TypeOK, GovernorTypeOK
  <2>3. GovernorTypeOK'
    BY <1>5, <2>2 DEF Observe, TypeOK, GovernorTypeOK
  <2>4. /\ IntervalFor(calmest') <= IntervalFor(calmest)
        /\ IntervalFor(calmest') \in 0 .. MaxInterval
        /\ IntervalFor(calmest) \in 0 .. MaxInterval
    <3>1. calmest \in Nat /\ calmest' \in Nat
      BY <2>2, GovernorAssumption DEF Loads, TypeOK, GovernorTypeOK
    <3> QED
      BY <2>2, <3>1, IntervalMonotone
  <2>5. IntervalFor(calmest)' = IntervalFor(calmest')
    BY DEF IntervalFor
  <2> QED
    BY <1>1, <1>5, <2>2, <2>3, <2>4, <2>5 DEF Observe, PaceInv, TypeOK, GovernorTypeOK
<1>6. ASSUME Elapse PROVE GovernorTypeOK' /\ PaceInv'
  <2>1. GovernorTypeOK'
    BY <1>6 DEF Elapse, Least, Most, TypeOK, GovernorTypeOK
  <2>2. IntervalFor(calmest) \in 0 .. MaxInterval
    BY IntervalMonotone DEF Loads, TypeOK, GovernorTypeOK
  <2>3. IntervalFor(calmest)' = IntervalFor(calmest)
    BY <1>6 DEF Elapse, IntervalFor
  <2>4. since + wait >= IntervalFor(calmest) => since' + wait' >= IntervalFor(calmest)
    BY <1>6, <2>2 DEF Elapse, Least, Most, TypeOK, GovernorTypeOK
  <2> QED
    BY <1>1, <1>6, <2>1, <2>3, <2>4 DEF Elapse, PaceInv, TypeOK, GovernorTypeOK
<1>7. GovernorTypeOK' /\ PaceInv'
  BY <1>4, <1>5, <1>6 DEF ThreadStep, ThreadStarts, ThreadEnds, SampleLoop, Tick, vars
<1> QED
  BY <1>1, <1>2, <1>3, <1>7 DEF TypeOK

(* No step breaks the invariant. *)
LEMMA NextInv == IInv /\ [Next]_vars => IInv'
  BY SubmitInv, GetInv, SlotGrantedInv, ResolveInv, StopInv, SurroundingsInv
     DEF Next, ConsumerStep
-----------------------------------------------------------------------------
(* The inductive invariant holds in every reachable state. *)
THEOREM RunnerInvariant == Spec => []IInv
  BY InitInv, NextInv, PTL DEF Spec

(* The queue, the callers, the consumer and the governor are always what   *)
(* the code can hold.                                                      *)
THEOREM RunnerTypeOK == Spec => []TypeOK
  BY RunnerInvariant, PTL DEF IInv

(* Calls reach the model in the order of submit, each at most once and     *)
(* none skipped.                                                           *)
THEOREM RunnerInOrderOnce == Spec => []InOrderOnce
<1>1. IInv => InOrderOnce
  BY DEF IInv, ConsumerInv, OrderInv, InOrderOnce
<1> QED
  BY <1>1, RunnerInvariant, PTL

(* The callers are finitely many. *)
LEMMA CallersFinite == IsFiniteSet(Callers)
  BY FS_Interval, RunnerAssumption DEF Callers

(* A queue has no more callers than entries. *)
LEMMA RangeBound ==
  ASSUME NEW S, NEW q \in Seq(S)
  PROVE  IsFiniteSet(Range(q)) /\ Cardinality(Range(q)) <= Len(q)
<1>1. q \in Surjection(1 .. Len(q), Range(q)) /\ Len(q) \in Nat
  BY DEF Surjection, Range
<1>2. IsFiniteSet(1 .. Len(q)) /\ Cardinality(1 .. Len(q)) = Len(q)
  <2>1. /\ IsFiniteSet(1 .. Len(q))
        /\ Cardinality(1 .. Len(q)) = IF 1 > Len(q) THEN 0 ELSE Len(q) - 1 + 1
    BY <1>1, FS_Interval
  <2> QED
    BY <1>1, <2>1
<1> QED
  BY <1>1, <1>2, FS_Surjection

(* Of the waiting callers at most the one being served is not queued. *)
LEMMA OneOutside ==
  ASSUME IInv
  PROVE  IsFiniteSet(Waiting \ Range(queue)) /\ Cardinality(Waiting \ Range(queue)) <= 1
<1>1. CASE Waiting \ Range(queue) = {}
  BY <1>1, FS_EmptySet
<1>2. CASE Waiting \ Range(queue) # {}
  <2>1. PICK c : c \in Waiting \ Range(queue)
    BY <1>2
  <2>2. Waiting \ Range(queue) = {c}
    BY <2>1 DEF IInv, WaitingInv
  <2>3. IsFiniteSet({c}) /\ Cardinality({c}) = 1
    BY FS_Singleton
  <2> QED
    BY <2>2, <2>3
<1> QED
  BY <1>1, <1>2

(* A bounded queue bounds the callers that wait to one more than itself.   *)
THEOREM RunnerBackpressure == Spec => []Backpressure
<1>1. IInv => Backpressure
  <2> SUFFICES ASSUME IInv, QueueMax > 0 PROVE Cardinality(Waiting) <= QueueMax + 1
    BY DEF Backpressure, Waiting
  <2> DEFINE outside == Waiting \ Range(queue)
  <2>1. /\ IsFiniteSet(Range(queue))
        /\ Cardinality(Range(queue)) <= Len(queue)
        /\ Len(queue) <= QueueMax
    BY RangeBound DEF IInv, TypeOK
  <2>2. IsFiniteSet(outside) /\ Cardinality(outside) <= 1
    BY OneOutside
  <2>3. /\ IsFiniteSet(Range(queue) \cup outside)
        /\ Cardinality(Range(queue) \cup outside) <= QueueMax + 1
    <3> HIDE DEF outside
    <3>1. Cardinality(Range(queue) \cup outside)
            = Cardinality(Range(queue)) + Cardinality(outside)
                - Cardinality(Range(queue) \cap outside)
      BY <2>1, <2>2, FS_Union
    <3>2. IsFiniteSet(Range(queue) \cup outside) /\ IsFiniteSet(Range(queue) \cap outside)
      BY <2>1, <2>2, FS_Union, FS_Intersection
    <3>3. /\ Cardinality(Range(queue)) \in Nat /\ Cardinality(outside) \in Nat
          /\ Cardinality(Range(queue) \cap outside) \in Nat
          /\ Len(queue) \in Nat /\ QueueMax \in Nat
      BY <2>1, <2>2, <3>2, FS_CardinalityType, RunnerAssumption DEF IInv, TypeOK
    <3> QED
      BY <2>1, <2>2, <3>1, <3>2, <3>3
  <2>4. Waiting \subseteq Range(queue) \cup outside
    OBVIOUS
  <2>5. /\ IsFiniteSet(Waiting) /\ Cardinality(Waiting) <= Cardinality(Range(queue) \cup outside)
    BY <2>3, <2>4, FS_Subset
  <2> QED
    BY <2>3, <2>5, FS_CardinalityType, RunnerAssumption
<1> QED
  BY <1>1, RunnerInvariant, PTL

(* stop leaves one caller at most waiting for ever: that of the entry the  *)
(* consumer held when it was cancelled.                                    *)
THEOREM RunnerStopLeavesOneAtMost == Spec => []StopLeavesOneAtMost
<1>1. IInv => StopLeavesOneAtMost
  <2> SUFFICES ASSUME IInv, down PROVE Cardinality(Waiting) <= 1
    BY DEF StopLeavesOneAtMost, Waiting
  <2>1. Range(queue) = {}
    BY DEF IInv, ConsumerInv, Range
  <2>2. Waiting \ Range(queue) = Waiting
    BY <2>1
  <2> QED
    BY <2>2, OneOutside
<1> QED
  BY <1>1, RunnerInvariant, PTL

(* However the load moves, two starts are apart by the interval of the     *)
(* calmest moment between them; in particular the clock of the pause is    *)
(* never behind that of the starts.                                        *)
THEOREM RunnerPaced == Spec => Paced
<1>1. IInv /\ [Next]_vars =>
        [started' # started /\ started # <<>> /\ ~disabled
           => gap >= IntervalFor(calmest)]_vars
  <2> SUFFICES ASSUME IInv, Next, started' # started, ~disabled
               PROVE  gap >= IntervalFor(calmest)
    BY DEF vars
  <2>1. SlotGranted
    BY DEF Next, Refuse, Submit, CallerCancelled, ConsumerStep, Get, Resolve,
           ConsumerCancelled, ThreadStep, ThreadStarts, ThreadEnds, Stop, StopDrains,
           SampleLoop, Tick, runnerVars
  <2>2. wait = 0 /\ consumer = "slot"
    BY <2>1 DEF SlotGranted, TakeSlot, Starts
  <2> QED
    BY <2>2 DEF IInv, PaceInv, TypeOK, GovernorTypeOK
<1> QED
  BY <1>1, RunnerInvariant, PTL DEF Spec, Paced
-----------------------------------------------------------------------------
(* The server that callers see. *)

(* A caller of an entry waits for it or has gone, and has one entry only:  *)
(* with it goes its own outcome, and nobody is told one twice.             *)
Open == {c \in Callers : call[c] \in {"waiting", "cancelled"}}
HeldInv ==
  /\ \A i \in 1 .. Len(queue) : queue[i] \in Open
  /\ \A i, k \in 1 .. Len(queue) : queue[i] = queue[k] => i = k
  /\ consumer \in {"slot", "exec"} =>
       item \in Open /\ \A i \in 1 .. Len(queue) : queue[i] # item

(* A caller comes or goes: a new one is in the queue nowhere yet. *)
LEMMA SubmitHeld ==
  ASSUME IInv, HeldInv, NEW c \in Callers, Refuse(c) \/ Submit(c) \/ CallerCancelled(c)
  PROVE  HeldInv'
<1>1. /\ queue \in Seq(Callers)
      /\ DOMAIN call = Callers /\ UNCHANGED <<consumer, item>>
  BY DEF IInv, TypeOK, Refuse, Submit, CallerCancelled
<1>2. CASE Refuse(c) \/ CallerCancelled(c)
  <2>1. queue' = queue /\ Open \subseteq Open'
    BY <1>1, <1>2 DEF Refuse, CallerCancelled, Calls, Open
  <2> QED
    BY <1>1, <2>1 DEF HeldInv
<1>3. CASE Submit(c)
  <2>1. c \notin Open /\ c \in Open' /\ queue' = Append(queue, c)
    BY <1>1, <1>3 DEF Submit, Calls, Open
  <2>2. Open \subseteq Open'
    BY <1>1, <1>3 DEF Submit, Open
  <2>3. /\ Len(queue) \in Nat /\ Len(queue') = Len(queue) + 1
        /\ queue'[Len(queue) + 1] = c
        /\ \A i \in 1 .. Len(queue) : queue'[i] = queue[i] /\ queue[i] \in Callers
    BY <1>1, <2>1
  <2> QED
    BY <1>1, <2>1, <2>2, <2>3 DEF HeldInv
<1> QED
  BY <1>2, <1>3

(* The consumer takes an entry, and is done with it when it resolves it.   *)
LEMMA ConsumerHeld ==
  ASSUME IInv, HeldInv, Get \/ SlotGranted \/ Resolve
  PROVE  HeldInv'
<1>1. queue \in Seq(Callers) /\ DOMAIN call = Callers
  BY DEF IInv, TypeOK
<1>2. CASE Get
  <2>1. /\ queue # <<>> /\ item' = Head(queue) /\ queue' = Tail(queue) /\ call' = call
        /\ consumer' = "slot"
    BY <1>2 DEF Get, TakeOldest
  <2>2. /\ Len(queue) \in Nat /\ Len(queue) > 0 /\ Len(queue') = Len(queue) - 1
        /\ item' = queue[1]
        /\ \A i \in 1 .. Len(queue') : queue'[i] = queue[i + 1]
    BY <1>1, <2>1
  <2>3. \A i \in 1 .. Len(queue') : i + 1 \in 1 .. Len(queue) /\ i + 1 # 1
    BY <2>2
  <2>4. 1 \in 1 .. Len(queue)
    BY <2>2
  <2>5. \A i \in 1 .. Len(queue') : queue'[i] \in Open' /\ queue'[i] # item'
    BY <2>1, <2>2, <2>3, <2>4 DEF HeldInv, Open
  <2>6. \A i, k \in 1 .. Len(queue') : queue'[i] = queue'[k] => i = k
    <3> TAKE i, k \in 1 .. Len(queue')
    <3>1. queue'[i] = queue'[k] => i + 1 = k + 1
      BY <2>2, <2>3 DEF HeldInv
    <3> QED
      BY <3>1
  <2>7. item' \in Open'
    BY <2>1, <2>2, <2>4 DEF HeldInv, Open
  <2> QED
    BY <2>1, <2>5, <2>6, <2>7 DEF HeldInv
<1>3. CASE SlotGranted
  BY <1>3 DEF SlotGranted, HeldInv, Open
<1>4. CASE Resolve
  <2>1. /\ queue' = queue /\ consumer' = "get" /\ item \in Callers
        /\ \A i \in 1 .. Len(queue) : queue[i] # item /\ queue[i] \in Callers
    BY <1>1, <1>4 DEF Resolve, ConsumerAfter, HeldInv, IInv, ConsumerInv
  <2>2. \A b \in Callers : b # item => call'[b] = call[b]
    BY <1>1, <1>4 DEF Resolve
  <2> QED
    BY <2>1, <2>2 DEF HeldInv, Open
<1> QED
  BY <1>2, <1>3, <1>4

(* Nobody else touches an entry before stop has drained the queue. *)
LEMMA HeldNext == IInv /\ HeldInv /\ [Next]_vars => HeldInv'
<1> SUFFICES ASSUME IInv, HeldInv, [Next]_vars PROVE HeldInv'
  OBVIOUS
<1>1. CASE Stop \/ ThreadStep \/ SampleLoop \/ Tick \/ UNCHANGED vars
  <2>1. UNCHANGED <<queue, call, consumer, item>>
    BY <1>1 DEF Stop, ThreadStep, ThreadStarts, ThreadEnds, SampleLoop, Tick, runnerVars, vars
  <2> QED
    BY <2>1 DEF HeldInv, Open
<1>2. CASE ConsumerCancelled
  BY <1>2 DEF ConsumerCancelled, HeldInv, Open
<1>3. CASE StopDrains
  <2>1. Len(queue') = 0 /\ consumer' = "ended"
    BY <1>3 DEF StopDrains
  <2> QED
    BY <2>1 DEF HeldInv
<1> QED
  BY <1>1, <1>2, <1>3, SubmitHeld, ConsumerHeld DEF Next, ConsumerStep

(* So it is in every reachable state. *)
THEOREM RunnerHeld == Spec => []HeldInv
<1>1. Init => HeldInv
  BY DEF Init, HeldInv
<1> QED
  BY <1>1, HeldNext, RunnerInvariant, PTL DEF Spec

(* A caller that comes or goes is one of the server. *)
LEMMA SubmitSerial ==
  ASSUME IInv, HeldInv, NEW c \in Callers, Refuse(c) \/ Submit(c) \/ CallerCancelled(c)
  PROVE  Serial!Accept(c) \/ Serial!Refuse(c) \/ Serial!Leave(c)
<1>1. UNCHANGED <<consumer, item, stopped>>
  BY DEF Refuse, Submit, CallerCancelled
<1>2. CASE Refuse(c)
  <2>1. Line' = Line
    BY <1>1, <1>2 DEF Refuse, Line
  <2> QED
    BY <1>1, <1>2, <2>1 DEF Refuse, Calls, Serial!Refuse
<1>3. CASE CallerCancelled(c)
  <2>1. Line' = Line
    BY <1>1, <1>3 DEF CallerCancelled, Line
  <2> QED
    BY <1>1, <1>3, <2>1 DEF CallerCancelled, Serial!Leave
<1>4. CASE Submit(c)
  <2> DEFINE slot == IF consumer = "slot" THEN <<item>> ELSE <<>>
  <2>1. slot \in Seq(Callers) /\ Len(slot) \in {0, 1} /\ slot' = slot
    BY <1>1 DEF IInv, ConsumerInv
  <2>2. queue \in Seq(Callers) /\ queue' = Append(queue, c) /\ Len(queue) \in Nat
    BY <1>4 DEF IInv, TypeOK, Submit
  <2>3. Line = slot \o queue /\ Line' = slot \o queue'
    BY <2>1 DEF Line
  <2>4. Line' = Append(Line, c) /\ Len(Line) = Len(slot) + Len(queue)
    <3> HIDE DEF slot
    <3>1. <<c>> \in Seq(Callers) /\ Append(queue, c) = queue \o <<c>>
      BY <2>2, AppendIsConcat
    <3>2. slot \o (queue \o <<c>>) = (slot \o queue) \o <<c>>
      BY <2>1, <2>2, <3>1, ConcatAssociative
    <3>3. slot \o queue \in Seq(Callers) /\ Len(slot \o queue) = Len(slot) + Len(queue)
      BY <2>1, <2>2, ConcatProperties
    <3>4. Append(slot \o queue, c) = (slot \o queue) \o <<c>>
      BY <3>3, AppendIsConcat
    <3> QED
      BY <2>2, <2>3, <3>1, <3>2, <3>3, <3>4
  <2>5. QueueMax > 0 => Len(Line) < QueueMax + 1
    <3>1. QueueMax > 0 => Len(queue) < QueueMax
      BY <1>4, <2>2, RunnerAssumption DEF Submit, Full
    <3> QED
      BY <2>1, <2>2, <2>4, <3>1, RunnerAssumption
  <2>6. (IF QueueMax > 0 THEN QueueMax + 1 ELSE 0) > 0
          => Len(Line) < (IF QueueMax > 0 THEN QueueMax + 1 ELSE 0)
    BY <2>5, RunnerAssumption
  <2>7. /\ call[c] = "new" /\ ~stopped /\ call' = [call EXCEPT ![c] = "waiting"]
    BY <1>4 DEF Submit, Calls
  <2> QED
    BY <1>1, <2>4, <2>6, <2>7 DEF Serial!Accept
<1> QED
  BY <1>2, <1>3, <1>4

(* The entry that waits for its slot is at the head of the line: Get is no *)
(* step of the server.                                                     *)
LEMMA GetSerial == ASSUME IInv, Get PROVE UNCHANGED Serial!vars
<1>1. /\ consumer = "get" /\ consumer' = "slot" /\ queue # <<>>
      /\ item' = Head(queue) /\ queue' = Tail(queue) /\ UNCHANGED <<call, stopped>>
  BY DEF Get, TakeOldest
<1>2. queue \in Seq(Callers)
  BY DEF IInv, TypeOK
<1>3. Line = queue
  BY <1>1, <1>2, ConcatEmptySeq DEF Line
<1>4. Line' = <<Head(queue)>> \o Tail(queue)
  BY <1>1 DEF Line
<1>5. <<Head(queue)>> \o Tail(queue) = queue
  BY <1>1, <1>2, TakeRange
<1> QED
  BY <1>1, <1>3, <1>4, <1>5 DEF Serial!vars

(* A granted slot runs the call at the head of the line. *)
LEMMA SlotSerial == ASSUME IInv, SlotGranted PROVE Serial!Run
<1>1. /\ consumer = "slot" /\ consumer' = "exec" /\ UNCHANGED <<queue, call, item, stopped>>
      /\ item \in Callers /\ queue \in Seq(Callers)
  BY DEF SlotGranted, IInv, TypeOK, ConsumerInv
<1>2. Line = <<item>> \o queue /\ Line' = queue
  BY <1>1, ConcatEmptySeq DEF Line
<1>3. Line # <<>> /\ Head(Line) = item /\ Tail(Line) = queue
  BY <1>1, <1>2
<1> QED
  BY <1>1, <1>2, <1>3 DEF Serial!Run, Serial!NoCaller, NoCaller

(* The outcome is told to the caller of the call that was run, or to       *)
(* nobody when it has gone.                                                *)
LEMMA ResolveSerial == ASSUME IInv, HeldInv, Resolve PROVE Serial!Tell
<1>1. /\ consumer = "exec" /\ consumer' = "get" /\ UNCHANGED <<queue, stopped>>
      /\ item \in Callers /\ item # NoCaller /\ DOMAIN call = Callers /\ item \in Open
  BY DEF Resolve, ConsumerAfter, IInv, TypeOK, ConsumerInv, HeldInv, Callers, NoCaller
<1>2. Line' = Line
  BY <1>1 DEF Line
<1>3. \/ call[item] = "waiting" /\ call' \in {[call EXCEPT ![item] = o] :
                                                o \in {"answered", "failed"}}
      \/ call[item] = "cancelled" /\ call' = call
  <2>1. call \in [Callers -> {"new", "refused", "waiting", "cancelled", "answered", "failed"}]
    BY DEF IInv, TypeOK
  <2>2. CASE call[item] = "cancelled"
    BY <1>1, <2>1, <2>2 DEF Resolve
  <2>3. CASE call[item] = "waiting"
    BY <1>1, <2>1, <2>3 DEF Resolve
  <2> QED
    BY <1>1, <2>2, <2>3 DEF Open
<1> QED
  BY <1>1, <1>2, <1>3 DEF Serial!Tell, Serial!NoCaller, NoCaller

(* stop closes the server, leaves off, and fails what is in the line. *)
LEMMA StopSerial ==
  ASSUME IInv, Stop \/ ConsumerCancelled \/ StopDrains
  PROVE  Serial!Close \/ Serial!LeaveOff \/ Serial!FailLine
<1>0. queue \in Seq(Callers) /\ (consumer = "slot" => item \in Callers)
  BY DEF IInv, TypeOK, ConsumerInv
<1>1. CASE Stop
  <2>1. stopped' = TRUE /\ UNCHANGED <<queue, call, consumer, item>>
    BY <1>1 DEF Stop
  <2>2. Line' = Line
    BY <2>1 DEF Line
  <2> QED
    BY <2>1, <2>2 DEF Serial!Close
<1>2. CASE ConsumerCancelled
  <2>1. /\ stopped /\ consumer # "ended" /\ consumer' = "ended"
        /\ UNCHANGED <<queue, call, stopped>>
    BY <1>2 DEF ConsumerCancelled
  <2>2. Line' = queue
    BY <1>0, <2>1, ConcatEmptySeq DEF Line
  <2>3. CASE consumer = "slot"
    <3>1. Line = <<item>> \o queue
      BY <2>3 DEF Line
    <3>2. Line # <<>> /\ Line' = Tail(Line)
      BY <1>0, <2>2, <2>3, <3>1
    <3> QED
      BY <2>1, <2>3, <3>2 DEF Serial!LeaveOff, Serial!NoCaller, NoCaller
  <2>4. CASE consumer # "slot"
    <3>1. Line = queue
      BY <1>0, <2>4, ConcatEmptySeq DEF Line
    <3> QED
      BY <2>1, <2>2, <3>1 DEF Serial!LeaveOff, Serial!NoCaller, NoCaller
  <2> QED
    BY <2>3, <2>4
<1>3. CASE StopDrains
  <2>1. /\ consumer = "ended" /\ queue' = <<>> /\ call' = FailQueued
        /\ UNCHANGED <<consumer, item, stopped>>
    BY <1>3 DEF StopDrains
  <2>2. Line = queue /\ Line' = <<>>
    BY <1>0, <2>1, ConcatEmptySeq DEF Line
  <2>3. call' = [c \in Callers |-> IF c \in Range(Line) /\ call[c] = "waiting"
                                   THEN "failed" ELSE call[c]]
    BY <2>1, <2>2 DEF FailQueued
  <2> QED
    BY <2>1, <2>2, <2>3 DEF Serial!FailLine, Serial!Callers, Callers, Serial!Range, Range
<1> QED
  BY <1>1, <1>2, <1>3

(* The runner is the server its callers count on: however submits, cancels,*)
(* pauses, the thread of the executor and stop interleave, accepted calls  *)
(* are run one at a time in their order, each caller is told the outcome   *)
(* of its own run, once, and stop leaves one of them at most untold.       *)
THEOREM RunnerImplementsSerial == Spec => SerialSpec
<1>1. Init => Serial!Init
  <2> SUFFICES ASSUME Init PROVE Serial!Init
    OBVIOUS
  <2>1. /\ queue = <<>> /\ consumer = "get" /\ stopped = FALSE
        /\ call = [c \in Callers |-> "new"]
    BY DEF Init
  <2>2. Line = <<>>
    BY <2>1 DEF Line
  <2> QED
    BY <2>1, <2>2 DEF Serial!Init, Serial!NoCaller, NoCaller, Serial!Callers, Callers
<1>2. IInv /\ HeldInv /\ [Next]_vars => [Serial!Next]_(Serial!vars)
  <2> SUFFICES ASSUME IInv, HeldInv, [Next]_vars
               PROVE  Serial!Next \/ UNCHANGED Serial!vars
    BY DEF Serial!vars
  <2>1. CASE \E c \in Callers : Refuse(c) \/ Submit(c) \/ CallerCancelled(c)
    <3>1. PICK c \in Callers : Refuse(c) \/ Submit(c) \/ CallerCancelled(c)
      BY <2>1
    <3>2. c \in Serial!Callers
      BY DEF Serial!Callers, Callers
    <3> QED
      BY <3>1, <3>2, SubmitSerial DEF Serial!Next
  <2>2. CASE Get
    BY <2>2, GetSerial
  <2>3. CASE SlotGranted \/ Resolve
    BY <2>3, SlotSerial, ResolveSerial DEF Serial!Next
  <2>4. CASE Stop \/ ConsumerCancelled \/ StopDrains
    BY <2>4, StopSerial DEF Serial!Next
  <2>5. CASE ThreadStep \/ SampleLoop \/ Tick \/ UNCHANGED vars
    <3>1. UNCHANGED <<queue, call, consumer, item, stopped>>
      BY <2>5 DEF ThreadStep, ThreadStarts, ThreadEnds, SampleLoop, Tick, runnerVars, vars
    <3>2. Line' = Line
      BY <3>1 DEF Line
    <3> QED
      BY <3>1, <3>2 DEF Serial!vars
  <2> QED
    BY <2>1, <2>2, <2>3, <2>4, <2>5 DEF Next, ConsumerStep
<1> QED
  BY <1>1, <1>2, RunnerInvariant, RunnerHeld, PTL DEF Spec, SerialSpec, Serial!Spec
=============================================================================
