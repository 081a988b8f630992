----------------------------- MODULE LoginProofs -----------------------------
(***************************************************************************)
(* Proofs about Login.tla, for any number of terminals and commands, and   *)
(* whatever lifetimes and intervals Atlas answers.                         *)
(***************************************************************************)
EXTENDS Login, TLAPS

(* Unless something spoiled it, the file is open in one terminal at most,  *)
(* is empty as long as it is open, and can be read when it is not.         *)
StoreInv ==
  ~spoiled =>
    /\ \A t, u \in open : t = u
    /\ open # {} => file = "empty"
    /\ SavedWhole

(* A command that has no code yet has counted nothing. *)
FreshInv(t) ==
  pc[t] \in {"idle", "start"} =>
    /\ interval[t] = 0 /\ waited[t] = 0 /\ left[t] = 0 /\ age[t] = 0
    /\ approvedAt[t] = Never

(* The time counted has passed (up to the bound of the model), the sleep   *)
(* under way in part; and an approval the last poll did not see came after *)
(* that poll.                                                              *)
Reached(value, time) == value >= time \/ value = MaxAge

ClockInv(t) ==
  interval[t] >= 1 =>
    /\ pc[t] \in {"loop", "poll", "pending"} => Reached(age[t], waited[t])
    /\ pc[t] = "pending" =>
         approvedAt[t] = Never \/ Reached(approvedAt[t], waited[t])
    /\ pc[t] = "sleep" =>
         /\ left[t] <= interval[t]
         /\ Reached(age[t], waited[t] + interval[t] - left[t])
         /\ approvedAt[t] = Never \/ Reached(approvedAt[t], waited[t])
    /\ pc[t] = "loop" =>
         approvedAt[t] = Never \/ Reached(approvedAt[t], waited[t] - interval[t])

TimeInv == \A t \in Terminals : FreshInv(t) /\ ClockInv(t)

IInv == TypeOK /\ StoreInv /\ TimeInv
-----------------------------------------------------------------------------
(* The invariant holds at the start. *)
LEMMA InitInv == Init => IInv
<1> SUFFICES ASSUME Init PROVE IInv
  OBVIOUS
<1> USE LoginAssumption DEF Init
<1>1. TypeOK
  <2>1. interval \in [Terminals -> 0 .. MaxInterval] /\ left \in [Terminals -> 0 .. MaxInterval]
    OBVIOUS
  <2>2. age \in [Terminals -> 0 .. MaxAge] /\ approvedAt \in [Terminals -> Never .. MaxAge]
    BY DEF Never
  <2> QED
    BY <2>1, <2>2 DEF TypeOK
<1>2. StoreInv
  BY DEF StoreInv, SavedWhole, Unreadable
<1>3. TimeInv
  BY DEF TimeInv, FreshInv, ClockInv
<1> QED
  BY <1>1, <1>2, <1>3 DEF IInv

(* A command that returns takes its variables with it. *)
LEMMA ReturnsInv ==
  ASSUME TypeOK, TimeInv, NEW t \in Terminals, Returns(t)
  PROVE  /\ pc' \in [Terminals -> {"idle", "start", "loop", "poll", "pending", "sleep", "save", "fill"}]
         /\ interval' \in [Terminals -> 0 .. MaxInterval]
         /\ lifetime' \in [Terminals -> Lifetimes \cup {0}]
         /\ waited' \in [Terminals -> Nat]
         /\ left' \in [Terminals -> 0 .. MaxInterval]
         /\ age' \in [Terminals -> 0 .. MaxAge]
         /\ approvedAt' \in [Terminals -> Never .. MaxAge]
         /\ TimeInv'
<1> USE LoginAssumption DEF Returns, TypeOK, Never
<1>1. TimeInv'
  BY DEF TimeInv, FreshInv, ClockInv, Reached
<1> QED
  BY <1>1

(* A step of terminal t that leaves the file alone. *)
LEMMA ClockStepInv ==
  ASSUME IInv, NEW t \in Terminals,
         DeviceStart(t) \/ Loop(t) \/ AnswersPending(t) \/ DevicePoll(t) \/ Wake(t)
           \/ SleepPasses(t) \/ PollPasses(t) \/ Approve(t)
           \/ \E noLogin \in BOOLEAN : RequireAuth(t, noLogin)
  PROVE  IInv'
<1> USE LoginAssumption DEF IInv
<1>1. UNCHANGED store
  BY DEF DeviceStart, Loop, AnswersPending, DevicePoll, Wake, SleepPasses, PollPasses, Approve,
         RequireAuth
<1>2. StoreInv'
  BY <1>1 DEF store, StoreInv, SavedWhole
<1>3. t \notin open
  BY DEF DeviceStart, Loop, AnswersPending, DevicePoll, Wake, SleepPasses, PollPasses, Approve,
         RequireAuth, Command, TypeOK
<1>4. commands' \in Nat /\ kills' \in Nat
  BY DEF DeviceStart, Loop, AnswersPending, DevicePoll, Wake, SleepPasses, PollPasses, Approve,
         RequireAuth, Command, TypeOK
<1>5. CASE Returns(t)
  <2>1. open' \subseteq {u \in Terminals : pc'[u] = "fill"}
    BY <1>1, <1>3, <1>5 DEF store, Returns, TypeOK
  <2> QED
    BY <1>1, <1>2, <1>4, <1>5, <2>1, ReturnsInv DEF TypeOK, store
<1>6. ASSUME ~Returns(t) PROVE TypeOK' /\ TimeInv'
  <2>1. CASE \E noLogin \in BOOLEAN : RequireAuth(t, noLogin)
    <3>1. GoesTo(t, "start") /\ pc[t] = "idle" /\ UNCHANGED flow
      BY <2>1, <1>6 DEF RequireAuth, Command
    <3>2. TypeOK'
      BY <3>1, <1>1, <1>4, <1>3 DEF GoesTo, flow, store, TypeOK
    <3>3. TimeInv'
      BY <3>1 DEF GoesTo, flow, TypeOK, TimeInv, FreshInv, ClockInv
    <3> QED
      BY <3>2, <3>3
  <2>2. CASE DeviceStart(t)
    <3>1. PICK i \in 0 .. MaxInterval, l \in Lifetimes :
            /\ interval' = [interval EXCEPT ![t] = i]
            /\ lifetime' = [lifetime EXCEPT ![t] = l]
            /\ GoesTo(t, "loop")
            /\ UNCHANGED <<waited, left, age, approvedAt>>
      BY <2>2, <1>6 DEF DeviceStart
    <3>2. TypeOK'
      BY <3>1, <1>1, <1>3, <1>4 DEF GoesTo, store, TypeOK
    <3>3. TimeInv'
      BY <3>1, <2>2 DEF DeviceStart, GoesTo, TypeOK, TimeInv, FreshInv, ClockInv, Reached
    <3> QED
      BY <3>2, <3>3
  <2>3. CASE Loop(t)
    <3>1. TypeOK'
      BY <2>3, <1>1, <1>3, <1>6 DEF Loop, GoesTo, flow, store, TypeOK
    <3>2. TimeInv'
      BY <2>3, <1>6 DEF Loop, GoesTo, flow, TypeOK, TimeInv, FreshInv, ClockInv
    <3> QED
      BY <3>1, <3>2
  <2>4. CASE AnswersPending(t) \/ DevicePoll(t)
    <3>1. TypeOK'
      BY <2>4, <1>1, <1>3, <1>6 DEF AnswersPending, DevicePoll, GoesTo, flow, store, TypeOK
    <3>2. TimeInv'
      BY <2>4, <1>6 DEF AnswersPending, DevicePoll, GoesTo, flow, TypeOK, TimeInv,
                          FreshInv, ClockInv, Reached
    <3> QED
      BY <3>1, <3>2
  <2>5. CASE Wake(t)
    <3>1. Counted(t) \in Nat /\ (interval[t] >= 1 => Counted(t) = interval[t])
      BY DEF Counted, TypeOK
    <3>2. TypeOK'
      BY <2>5, <3>1, <1>1, <1>3 DEF Wake, GoesTo, store, TypeOK
    <3>3. TimeInv'
      BY <2>5, <3>1 DEF Wake, GoesTo, TypeOK, TimeInv, FreshInv, ClockInv, Reached, Never
    <3> QED
      BY <3>2, <3>3
  <2>6. CASE SleepPasses(t) \/ PollPasses(t)
    <3>1. TypeOK'
      BY <2>6, <1>1, <1>3 DEF SleepPasses, PollPasses, Older, store, TypeOK
    <3>2. TimeInv'
      BY <2>6 DEF SleepPasses, PollPasses, Older, TypeOK, TimeInv, FreshInv, ClockInv, Reached
    <3> QED
      BY <3>1, <3>2
  <2>7. CASE Approve(t)
    <3>1. TypeOK'
      BY <2>7, <1>1, <1>3 DEF Approve, store, TypeOK, Never
    <3>2. TimeInv'
      BY <2>7 DEF Approve, TypeOK, TimeInv, FreshInv, ClockInv, Reached
    <3> QED
      BY <3>1, <3>2
  <2> QED
    BY <2>1, <2>2, <2>3, <2>4, <2>5, <2>6, <2>7
<1> QED
  BY <1>2, <1>5, <1>6

(* The file is opened empty, filled by the terminal that has it open, or   *)
(* spoiled.                                                                *)
LEMMA SaveInv ==
  ASSUME IInv, NEW t \in Terminals,
         SaveOpens(t) \/ SaveFills(t) \/ SaveFails(t) \/ Logout(t) \/ Kill(t)
  PROVE  IInv'
<1> USE LoginAssumption DEF IInv
<1>1. CASE SaveOpens(t)
  <2>1. TypeOK'
    BY <1>1 DEF SaveOpens, Opened, GoesTo, flow, TypeOK
  <2>2. StoreInv'
    BY <1>1 DEF SaveOpens, Opened, StoreInv, SavedWhole, Unreadable
  <2>3. TimeInv'
    BY <1>1 DEF SaveOpens, GoesTo, flow, TypeOK, TimeInv, FreshInv, ClockInv
  <2> QED
    BY <2>1, <2>2, <2>3
<1>2. CASE SaveFills(t) \/ SaveFails(t) \/ Logout(t) \/ Kill(t)
  <2>1. Returns(t)
    BY <1>2 DEF SaveFills, SaveFails, Logout, Kill
  <2>2. open' \subseteq {u \in Terminals : pc'[u] = "fill"}
    <3>1. open' = open \ {t} \/ open' = {}
      BY <1>2 DEF SaveFills, SaveFails, Logout, Kill
    <3> QED
      BY <3>1, <2>1 DEF Returns, TypeOK
  <2>3. file' \in {"absent", "empty", "whole", "torn"} /\ spoiled' \in BOOLEAN
    BY <1>2 DEF SaveFills, SaveFails, Logout, Kill, TypeOK
  <2>4. commands' \in Nat /\ kills' \in Nat
    BY <1>2 DEF SaveFills, SaveFails, Logout, Kill, Command, TypeOK
  <2>5. TypeOK'
    BY <2>1, <2>2, <2>3, <2>4, ReturnsInv DEF TypeOK
  <2>6. TimeInv'
    BY <2>1, ReturnsInv
  <2>7. ASSUME SaveFills(t) PROVE StoreInv'
    BY <2>7 DEF SaveFills, StoreInv, SavedWhole, Unreadable
  <2>8. ASSUME SaveFails(t) \/ Kill(t) PROVE StoreInv'
    BY <2>8 DEF SaveFails, Kill, StoreInv, SavedWhole, TypeOK
  <2>9. ASSUME Logout(t) PROVE StoreInv'
    BY <2>9 DEF Logout, StoreInv, SavedWhole, Unreadable
  <2> QED
    BY <1>2, <2>5, <2>6, <2>7, <2>8, <2>9
<1> QED
  BY <1>1, <1>2

(* No step breaks the invariant. *)
LEMMA NextInv == IInv /\ [Next]_vars => IInv'
<1> SUFFICES ASSUME IInv, [Next]_vars PROVE IInv'
  OBVIOUS
<1>1. CASE Next
  BY <1>1, ClockStepInv, SaveInv DEF Next, LoginStep
<1>2. CASE UNCHANGED vars
  BY <1>2 DEF vars, store, flow, IInv, TypeOK, StoreInv, SavedWhole, TimeInv, FreshInv, ClockInv
<1> QED
  BY <1>1, <1>2

(* The inductive invariant holds in every reachable state. *)
THEOREM LoginInvariant == Spec => []IInv
  BY InitInv, NextInv, PTL DEF Spec

(* The terminals, the device code and the store are always what the code   *)
(* can hold.                                                               *)
THEOREM LoginTypeOK == Spec => []TypeOK
  BY LoginInvariant, PTL DEF IInv

(* However many commands run, are killed and end in whatever order: a file *)
(* that does not parse is one that is being written, or one that a failed, *)
(* a killed or a second Save spoiled.                                      *)
THEOREM LoginSavedWhole == Spec => []SavedWhole
<1>1. IInv => SavedWhole
  BY DEF IInv, TypeOK, StoreInv, SavedWhole
<1> QED
  BY <1>1, LoginInvariant, PTL

(* For every lifetime and interval Atlas may answer, no login times out on *)
(* a user who approved the code an interval before it expired.             *)
THEOREM LoginTimeoutIsFair == Spec => TimeoutIsFair
<1> DEFINE Fair == \A t \in Terminals :
             pc[t] = "loop" /\ pc'[t] = "idle" /\ kills' = kills /\ interval[t] >= 1 =>
               approvedAt[t] = Never \/ approvedAt[t] > lifetime[t] - interval[t]
<1>1. IInv /\ [Next]_vars => [Fair]_vars
  <2> SUFFICES ASSUME IInv, Next, NEW t \in Terminals,
                      pc[t] = "loop", pc'[t] = "idle", kills' = kills, interval[t] >= 1
               PROVE  approvedAt[t] = Never \/ approvedAt[t] > lifetime[t] - interval[t]
    OBVIOUS
  <2>1. Loop(t) /\ ~TimeLeft(t)
    <3>1. PICK u \in Terminals :
            \/ \E noLogin \in BOOLEAN : RequireAuth(u, noLogin)
            \/ LoginStep(u)
            \/ Logout(u) \/ Kill(u) \/ Approve(u) \/ PollPasses(u)
      BY DEF Next
    <3>2. ~Kill(u)
      BY DEF Kill, IInv, TypeOK
    <3>3. u = t
      BY <3>1, <3>2
         DEF IInv, TypeOK, LoginStep, RequireAuth, DeviceStart, Loop, AnswersPending, DevicePoll,
             Wake, SaveOpens, SaveFills, SaveFails, SleepPasses, PollPasses, Approve, Logout,
             Returns, GoesTo
    <3> QED
      BY <3>1, <3>2, <3>3
         DEF IInv, TypeOK, LoginStep, RequireAuth, DeviceStart, Loop, AnswersPending, DevicePoll,
             Wake, SaveOpens, SaveFills, SaveFails, SleepPasses, PollPasses, Approve, Logout,
             Command, GoesTo
  <2>2. approvedAt[t] = Never \/ Reached(approvedAt[t], waited[t] - interval[t])
    BY DEF IInv, TimeInv, ClockInv
  <2>3. /\ waited[t] \in Nat /\ interval[t] \in Nat /\ MaxAge \in Nat
        /\ lifetime[t] \in Nat /\ approvedAt[t] \in Int
    <3>1. waited[t] \in Nat /\ interval[t] \in 0 .. MaxInterval
            /\ lifetime[t] \in Lifetimes \cup {0} /\ approvedAt[t] \in -1 .. MaxAge
      BY DEF IInv, TypeOK, Never
    <3>2. lifetime[t] \in Nat
      <4>1. 0 \in Nat /\ Lifetimes \subseteq Nat
        BY LoginAssumption
      <4> QED
        BY <3>1, <4>1
    <3>3. interval[t] \in Nat /\ approvedAt[t] \in Int
      BY <3>1
    <3> QED
      BY <3>1, <3>2, <3>3, LoginAssumption
  <2>4. lifetime[t] - interval[t] < MaxAge
    BY <2>3, LoginAssumption DEF IInv, TypeOK
  <2> QED
    BY <2>1, <2>2, <2>3, <2>4 DEF TimeLeft, Reached
<1> QED
  BY <1>1, LoginInvariant, PTL DEF Spec, TimeoutIsFair
=============================================================================
