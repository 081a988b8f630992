---------------------------- MODULE DaemonProofs ----------------------------
(***************************************************************************)
(* Proofs about Daemon.tla, for any number of requests and jobs, every     *)
(* capacity of the queue and every restart budget.                         *)
(*                                                                         *)
(* The daemon runs the queue as JobQueue.tla says, with any number of      *)
(* handlers and one worker, and the supervisor as Supervisor.tla says.     *)
(* What is proved of the queue (QP, an instance of its proofs) holds in    *)
(* the daemon; what the daemon adds is proved on top of it.                *)
(***************************************************************************)
EXTENDS Daemon, SequenceTheorems, TLAPS

QP == INSTANCE JobQueueProofs

(* Of the backend's proofs only those of the supervisor are used, so that  *)
(* the model directory may be any fixed one.                               *)
SP == INSTANCE BackendProofs
        WITH Files <- {1}, Sentinel <- 1, MaxBuild <- 1, MaxLives <- 0,
             lives <- 0, want <- 1, step <- "down", dir <- [f \in {1} |-> 1],
             staged <- [f \in {1} |-> 0], dirs <- 0

(* The worker holds a job from the release to the end of process, and      *)
(* nothing while it receives.                                              *)
WorkInv ==
  /\ worker \in {"next", "gate", "wait", "process", "returned"}
  /\ job \in Jobs \cup {NoJob}
  /\ settled \in Nat /\ discarded \in 0 .. 1
  /\ job # NoJob <=> worker \in {"gate", "wait", "process"}
  /\ hand # NoJob => worker = "next"
  /\ Len(accepted) <= MaxAccepted

IInv == WorkInv /\ Conservation /\ ProcessBehindGate
-----------------------------------------------------------------------------
(* The parts of the daemon. *)

(* Every step of the daemon is, for the queue, a step of the queue: the    *)
(* handlers only offer, and the worker is the one goroutine that calls     *)
(* Next.                                                                   *)
LEMMA QueueSteps == [Next]_vars => [QP!Next]_(QP!queueVars)
<1> SUFFICES ASSUME [Next]_vars PROVE QP!Next \/ UNCHANGED QP!queueVars
  BY DEF QP!queueVars
<1> USE DEF QP!queueVars, queueVars
<1>1. CASE Enrich
  <2>1. PICK j \in Jobs : Q!Offer(j)
    BY <1>1 DEF Enrich
  <2>2. QP!Offer(j)
    BY <2>1 DEF Q!Offer, QP!Offer, Q!OfferAccept, QP!OfferAccept, Q!OfferFull, QP!OfferFull,
                Q!OfferRefuse, QP!OfferRefuse, Q!Refused, QP!Refused, Q!Full, QP!Full,
                Q!Capacity, QP!Capacity, Q!queueVars
  <2> QED
    BY <2>2 DEF QP!Next
<1>2. CASE WorkerReceive
  BY <1>2 DEF WorkerReceive, Q!NextReceive, QP!NextReceive, QP!Next
<1>3. CASE WorkerRelease
  BY <1>3 DEF WorkerRelease, Q!NextRelease, QP!NextRelease, Q!Forget, QP!Forget, QP!Next
<1>4. CASE WorkerEnd
  BY <1>4 DEF WorkerEnd, Q!NextEnd, QP!NextEnd, QP!Next
<1>5. CASE ShutdownCloses
  BY <1>5 DEF ShutdownCloses, Q!Close, QP!Close, QP!Next
<1>6. CASE \/ Arrive \/ Reject
           \/ GatePass \/ GateShut \/ GateRetry \/ GateQuit \/ Process
           \/ ProvisionFails \/ ProvisionSucceeds
           \/ SupProceed \/ SupHealthy \/ SupDeadline \/ SupKills \/ SidecarExits
           \/ Cancel \/ ShutdownBegins \/ ServeFails \/ RunReturns
           \/ UNCHANGED vars
  BY <1>6 DEF Arrive, Reject, GatePass, GateShut, GateRetry, GateQuit, Process, ProvisionFails,
              ProvisionSucceeds, SupProceed, SupHealthy, SupDeadline, SupKills,
              Supervise, SidecarExits, Cancel, ShutdownBegins, ServeFails,
              RunReturns, vars
<1> QED
  BY <1>1, <1>2, <1>3, <1>4, <1>5, <1>6 DEF Next, WorkerStep

(* Every step of the daemon is, for the supervisor, a step of the          *)
(* supervisor, of a child or of the context.                               *)
LEMMA SupervisorSteps == [Next]_vars => [S!Next]_supVars
<1> SUFFICES ASSUME [Next]_vars PROVE S!Next \/ UNCHANGED supVars
  OBVIOUS
<1> USE DEF supVars
<1>1. CASE SupProceed \/ SupHealthy \/ SupDeadline
  BY <1>1 DEF SupProceed, SupHealthy, SupDeadline, Supervise, S!Next
<1>2. CASE SupKills \/ SidecarExits
  BY <1>2 DEF SupKills, SidecarExits, Supervise, S!Next, S!ChildStep
<1>3. CASE Cancel
  BY <1>3 DEF Cancel, S!Next
<1>4. CASE ~(\/ SupProceed \/ SupHealthy \/ SupDeadline \/ SupKills
             \/ SidecarExits \/ Cancel)
  BY <1>4 DEF Next, WorkerStep, Arrive, Enrich, Reject, WorkerReceive, WorkerRelease, WorkerEnd,
              GatePass, GateShut, GateRetry, GateQuit, Process, ProvisionFails,
              ProvisionSucceeds, ShutdownBegins,
              ShutdownCloses, ServeFails, RunReturns, vars
<1> QED
  BY <1>1, <1>2, <1>3, <1>4

(* The daemon uses the queue as queue.go wants it used: its run, seen from *)
(* the queue, is a run of JobQueue.tla.                                    *)
THEOREM DaemonRunsQueue == Spec => QP!Spec
<1>1. Init => QP!Init
  BY DEF Init, Q!Init, QP!Init
<1> QED
  BY <1>1, QueueSteps, PTL DEF Spec, QP!Spec

(* The daemon runs the supervisor of Supervisor.tla, and nothing else of   *)
(* it touches the sidecar.                                                 *)
THEOREM DaemonRunsSupervisor == Spec => S!Spec
<1>1. Init => S!Init
  BY DEF Init
<1>2. [Next]_vars => [S!Next]_(S!supVars)
  BY SupervisorSteps DEF supVars, S!supVars
<1> QED
  BY <1>1, <1>2, PTL DEF Spec, S!Spec

(* So what JobQueueProofs proves of the queue holds in the daemon. *)
LEMMA QueueHere == Spec => []QP!IInv
  BY DaemonRunsQueue, QP!QueueInvariant, DaemonAssumption, PTL
  DEF QP!JobsAssumption, QP!BoundsAssumption

(* In the daemon, too, the dedup map is exact, no key waits twice, jobs    *)
(* come out in the order they were accepted, once, and the worker is told  *)
(* the end only when nothing is left.                                      *)
THEOREM DaemonKeepsQueue ==
  Spec => [](QP!InflightExact /\ QP!DistinctKeys /\ QP!FifoOnce /\ QP!EndIsFinal)
<1>1. QP!IInv => QP!InflightExact /\ QP!DistinctKeys /\ QP!FifoOnce /\ QP!EndIsFinal
  BY DEF QP!IInv
<1> QED
  BY <1>1, QueueHere, PTL

(* And what BackendProofs proves of the supervisor: in the daemon, too,    *)
(* two sidecars never live at a time, the supervisor returns with none     *)
(* left, and when it returns uncancelled the gate of the worker is open.   *)
THEOREM DaemonKeepsSupervisor ==
  Spec => [](S!TypeOK /\ S!OneChild /\ S!NoOrphan /\ S!StopOpensGate)
<1>1. Init => SP!Init
  BY DEF Init, S!Init, SP!Init, S!Attempts, SP!Attempts
<1>2. [Next]_vars => [SP!Next]_(SP!supVars)
  <2>1. S!Proceed => SP!Proceed
    BY DEF S!Proceed, SP!Proceed, S!SpawnChild, SP!SpawnChild, S!SpawnFails, SP!SpawnFails,
           S!StopOnCancel, SP!StopOnCancel, S!Signalled, SP!Signalled, S!SeeExit, SP!SeeExit,
           S!TickTimeout, SP!TickTimeout, S!Reap, SP!Reap, S!Decide, SP!Decide,
           S!BudgetSpent, SP!BudgetSpent, S!BackoffCancelled, SP!BackoffCancelled,
           S!BackoffOver, SP!BackoffOver
  <2>2. S!ChildStep => SP!ChildStep
    BY DEF S!ChildStep, SP!ChildStep, S!Attempts, SP!Attempts, S!ChildExits, SP!ChildExits,
           S!ContextKills, SP!ContextKills, S!Live, SP!Live
  <2>3. S!TickHealthy \/ S!DeadlinePasses \/ S!Cancel
        => SP!TickHealthy \/ SP!DeadlinePasses \/ SP!Cancel
    BY DEF S!TickHealthy, SP!TickHealthy, S!DeadlinePasses, SP!DeadlinePasses,
           S!Cancel, SP!Cancel, S!Live, SP!Live
  <2>4. S!Next => SP!Next
    BY <2>1, <2>2, <2>3 DEF S!Next, SP!Next
  <2>5. UNCHANGED supVars => UNCHANGED SP!supVars
    BY DEF supVars, SP!supVars
  <2> QED
    BY <2>4, <2>5, SupervisorSteps
<1>3. Spec => SP!Spec
  BY <1>1, <1>2, PTL DEF Spec, SP!Spec
<1>4. SP!RestartsAssumption /\ SP!ProvisionAssumption
  BY DaemonAssumption DEF SP!RestartsAssumption, SP!ProvisionAssumption
<1>5. Spec => [](SP!TypeOK /\ SP!OneChild /\ SP!NoOrphan /\ SP!StopOpensGate)
  BY <1>3, <1>4, SP!SupervisorTypeOK, SP!SupervisorOneChild, SP!SupervisorNoOrphan,
     SP!SupervisorStopOpensGate, PTL
<1>6. SP!TypeOK /\ SP!OneChild /\ SP!NoOrphan /\ SP!StopOpensGate
      => S!TypeOK /\ S!OneChild /\ S!NoOrphan /\ S!StopOpensGate
  BY DEF SP!TypeOK, S!TypeOK, SP!Places, S!Places, SP!Attempts, S!Attempts, SP!OneChild,
         S!OneChild, SP!NoOrphan, S!NoOrphan, SP!StopOpensGate, S!StopOpensGate,
         SP!Live, S!Live
<1> QED
  BY <1>5, <1>6, PTL
-----------------------------------------------------------------------------
(* The gate. *)

(* The supervisor never takes back what it told the worker. *)
LEMMA DecisionStays ==
  [S!Next]_supVars => (ready => ready') /\ (fellBack => fellBack')
<1> SUFFICES ASSUME [S!Next]_supVars PROVE (ready => ready') /\ (fellBack => fellBack')
  OBVIOUS
<1>1. CASE S!TickHealthy
  BY <1>1, Zenon DEF S!TickHealthy
<1>2. CASE S!SpawnFails
  BY <1>2, Zenon DEF S!SpawnFails
<1>3. CASE S!Reap
  <2>1. ready' = ready /\ fellBack' = (fellBack \/ pc = "reapTimeout")
    BY <1>3 DEF S!Reap
  <2> QED
    BY <2>1, Zenon
<1>4. CASE S!Decide
  <2>1. ready' = ready /\ (fellBack' = fellBack \/ fellBack' = (fellBack \/ S!BudgetSpent))
    BY <1>4 DEF S!Decide
  <2>2. ASSUME fellBack' = (fellBack \/ S!BudgetSpent) PROVE fellBack => fellBack'
    BY <2>2, Zenon
  <2> QED
    BY <2>1, <2>2
<1>5. CASE ~(S!TickHealthy \/ S!SpawnFails \/ S!Reap \/ S!Decide)
  <2>1. UNCHANGED <<ready, fellBack>>
    BY <1>5 DEF S!Next, S!Proceed, S!SpawnChild, S!StopOnCancel, S!SeeExit, S!TickTimeout,
                S!BackoffCancelled, S!BackoffOver, S!DeadlinePasses, S!Cancel,
                S!ChildStep, S!ChildExits, S!ContextKills, supVars
  <2> QED
    BY <2>1, Zenon
<1> QED
  BY <1>1, <1>2, <1>3, <1>4, <1>5

(* Nor is a failed download taken back: an open gate stays open. *)
LEMMA GateStays == [Next]_vars => (Gate => Gate')
<1> SUFFICES ASSUME [Next]_vars PROVE Gate => Gate'
  OBVIOUS
<1>1. ml' = ml /\ (provision = "failed" => provision' = "failed")
  BY DEF Next, WorkerStep, Arrive, Enrich, Reject, WorkerReceive, WorkerRelease, WorkerEnd,
         GatePass, GateShut, GateRetry, GateQuit, Process, ProvisionFails,
         ProvisionSucceeds, SupProceed,
         SupHealthy, SupDeadline, SupKills, Supervise, SidecarExits, Cancel,
         ShutdownBegins, ShutdownCloses, ServeFails, RunReturns, vars
<1> QED
  BY <1>1, SupervisorSteps, DecisionStays DEF Gate

(* Only GatePass lets the worker into process. *)
LEMMA ProcessKept == ProcessBehindGate /\ [Next]_vars => ProcessBehindGate'
<1> SUFFICES ASSUME ProcessBehindGate, [Next]_vars PROVE ProcessBehindGate'
  OBVIOUS
<1>1. worker' = "process" => worker = "process" \/ GatePass
  BY DEF Next, WorkerStep, Arrive, Enrich, Reject, WorkerReceive, WorkerRelease, WorkerEnd,
         GateShut, GateRetry, GateQuit, Process, ProvisionFails, ProvisionSucceeds, SupProceed,
         SupHealthy, SupDeadline, SupKills, Supervise, SidecarExits, Cancel,
         ShutdownBegins, ShutdownCloses, ServeFails, RunReturns, workVars, serveVars, vars
<1>2. GatePass => Gate
  BY DEF GatePass
<1> QED
  BY <1>1, <1>2, GateStays DEF ProcessBehindGate
-----------------------------------------------------------------------------
(* The jobs. *)

(* The invariant holds at the start. *)
LEMMA InitInv == Init => IInv
<1> SUFFICES ASSUME Init PROVE IInv
  OBVIOUS
<1> USE DaemonAssumption DEF Init, Q!Init
<1>1. WorkInv /\ Conservation
  BY DEF WorkInv, Conservation
<1>2. ProcessBehindGate
  BY DEF ProcessBehindGate
<1> QED
  BY <1>1, <1>2 DEF IInv

(* An accepted job waits in the channel; one refused is not counted. *)
LEMMA EnrichInv ==
  ASSUME IInv, QP!TypeOK, Enrich
  PROVE  (WorkInv /\ Conservation)'
<1>1. ch \in Seq(Jobs) /\ accepted \in Seq(Jobs)
  BY DEF QP!TypeOK
<1>0. Len(ch) \in Nat /\ Len(accepted) \in Nat
  BY <1>1
<1>2. PICK j \in Jobs : Q!Offer(j)
  BY DEF Enrich
<1>3. UNCHANGED <<worker, job, settled, discarded>>
  BY DEF Enrich, workVars
<1>4. CASE Q!OfferAccept(j)
  <2>1. Len(ch') = Len(ch) + 1 /\ Len(accepted') = Len(accepted) + 1
    BY <1>1, <1>4 DEF Q!OfferAccept
  <2>2. Len(accepted) < MaxAccepted /\ UNCHANGED <<hand, closed>>
    BY <1>4 DEF Q!OfferAccept
  <2>3. WorkInv'
    BY <1>0, <1>3, <2>1, <2>2, DaemonAssumption DEF IInv, WorkInv
  <2>4. Conservation'
    <3> DEFINE h == IF hand = NoJob THEN 0 ELSE 1
               w == IF job = NoJob THEN 0 ELSE 1
    <3>1. h \in Nat /\ w \in Nat /\ h' = h /\ w' = w
      BY <1>3, <2>2
    <3>2. Len(accepted) = Len(ch) + h + w + settled + discarded
      BY DEF IInv, Conservation
    <3>3. settled \in Nat /\ discarded \in Nat
      BY DEF IInv, WorkInv
    <3>4. Len(accepted)' = Len(ch)' + h' + w' + settled' + discarded'
      <4> HIDE DEF h, w
      <4> QED
        BY <1>0, <1>3, <2>1, <3>1, <3>2, <3>3
    <3> QED
      BY <1>3, <2>2, <3>4 DEF IInv, Conservation
  <2> QED
    BY <2>3, <2>4
<1>5. CASE Q!OfferFull(j) \/ Q!OfferRefuse(j)
  <2>1. UNCHANGED <<ch, accepted, hand, closed>>
    BY <1>5 DEF Q!OfferFull, Q!OfferRefuse, Q!queueVars
  <2> QED
    BY <1>3, <2>1 DEF IInv, WorkInv, Conservation
<1> QED
  BY <1>2, <1>4, <1>5 DEF Q!Offer

(* The receive takes a job from the channel into the hand, the release     *)
(* passes it on to the worker, process or the gate ends it.                *)
LEMMA WorkerInv ==
  ASSUME IInv, QP!TypeOK, WorkerStep
  PROVE  (WorkInv /\ Conservation)'
<1>0. /\ ch \in Seq(Jobs) /\ accepted \in Seq(Jobs)
      /\ Len(ch) \in Nat /\ Len(accepted) \in Nat
      /\ hand \in Jobs \cup {NoJob}
  BY DEF QP!TypeOK
<1> USE DaemonAssumption DEF WorkInv, Conservation, IInv, workVars, queueVars
<1>1. CASE WorkerReceive
  <2>1. /\ ch # <<>> /\ hand = NoJob /\ hand' = Head(ch) /\ ch' = Tail(ch)
        /\ UNCHANGED <<accepted, closed, worker, job, settled, discarded>>
        /\ worker = "next"
    BY <1>1 DEF WorkerReceive, Q!NextReceive
  <2>2. Head(ch) \in Jobs /\ Len(Tail(ch)) = Len(ch) - 1
    BY <1>0, <2>1, HeadTailProperties
  <2>3. hand' # NoJob /\ Len(ch') = Len(ch) - 1
    BY <2>1, <2>2
  <2>4. WorkInv'
    BY <2>1
  <2>5. Conservation'
    <3>1. job = NoJob /\ settled \in Nat /\ discarded \in Nat
      BY <2>1
    <3>2. Len(accepted) = Len(ch) + 0 + 0 + settled + discarded
      BY <2>1, <3>1
    <3>3. Len(accepted') = Len(ch') + 1 + 0 + settled' + discarded'
      BY <1>0, <2>1, <2>3, <3>1, <3>2
    <3>4. job' = NoJob
      BY <2>1, <3>1
    <3> QED
      BY <2>1, <2>3, <3>3, <3>4
  <2> QED
    BY <2>4, <2>5
<1>2. CASE WorkerRelease
  BY <1>0, <1>2 DEF WorkerRelease, Q!NextRelease
<1>3. CASE WorkerEnd
  BY <1>3 DEF WorkerEnd, Q!NextEnd
<1>4. CASE GatePass \/ GateShut \/ GateRetry
  BY <1>4 DEF GatePass, GateShut, GateRetry
<1>5. CASE GateQuit
  <2>1. /\ UNCHANGED <<ch, accepted, hand, closed, settled>>
        /\ job # NoJob /\ job' = NoJob /\ hand = NoJob
        /\ worker # "returned" /\ worker' = "returned" /\ closed
    BY <1>5 DEF GateQuit
  <2>2. discarded = 0 /\ discarded' = 1
    BY <1>5, <2>1 DEF GateQuit
  <2> QED
    BY <1>0, <2>1, <2>2
<1>6. CASE Process
  <2>1. /\ UNCHANGED <<ch, accepted, hand, closed, discarded>>
        /\ job # NoJob /\ job' = NoJob /\ hand = NoJob
        /\ worker = "process" /\ worker' = "next" /\ settled' = settled + 1
    BY <1>6 DEF Process
  <2> QED
    BY <1>0, <2>1
<1> QED
  BY <1>1, <1>2, <1>3, <1>4, <1>5, <1>6 DEF WorkerStep

(* Nothing but a handler and the worker touches a job. *)
LEMMA OthersInv ==
  ASSUME IInv, [Next]_vars, ~Enrich, ~WorkerStep
  PROVE  (WorkInv /\ Conservation)'
<1>1. UNCHANGED <<ch, accepted, hand, worker, job, settled, discarded>> /\ (closed => closed')
  BY DEF Next, Arrive, Reject, ProvisionFails, ProvisionSucceeds, SupProceed,
         SupHealthy, SupDeadline, SupKills, Supervise, SidecarExits, Cancel,
         ShutdownBegins, ShutdownCloses, Q!Close, ServeFails, RunReturns,
         queueVars, workVars, vars
<1> QED
  BY <1>1 DEF IInv, WorkInv, Conservation

(* No step breaks the invariant. *)
LEMMA NextInv == IInv /\ QP!IInv /\ [Next]_vars => IInv'
  BY EnrichInv, WorkerInv, OthersInv, ProcessKept DEF IInv, QP!IInv

(* The inductive invariant holds in every reachable state. *)
THEOREM DaemonInvariant == Spec => []IInv
<1>1. IInv /\ [](QP!IInv) /\ [][Next]_vars => []IInv
  BY NextInv, PTL
<1> QED
  BY InitInv, QueueHere, <1>1, PTL DEF Spec

(* The provisioning, the server and its requests. *)
ServeInv ==
  /\ ml \in BOOLEAN /\ exited \in BOOLEAN
  /\ provision \in {"fetching", "failed", "installed"}
  /\ active \in 0 .. MaxActive
  /\ server \in {"serving", "closing", "failed"}

(* A request that is answered was being handled; nothing else counts them. *)
LEMMA ServeKept == ServeInv /\ [Next]_vars => ServeInv'
<1> SUFFICES ASSUME ServeInv, [Next]_vars PROVE ServeInv'
  OBVIOUS
<1> USE DEF ServeInv, serveVars
<1>1. CASE Arrive \/ Enrich \/ Reject
  <2>1. /\ active' \in 0 .. MaxActive
        /\ UNCHANGED <<ml, provision, server, exited>>
    BY <1>1, DaemonAssumption DEF Arrive, Enrich, Reject
  <2> QED
    BY <2>1
<1>2. CASE ShutdownBegins \/ ServeFails \/ RunReturns
  <2>1. /\ UNCHANGED <<ml, provision, active>>
        /\ server' \in {"serving", "closing", "failed"}
        /\ exited' = exited \/ exited' = TRUE
    BY <1>2 DEF ShutdownBegins, ServeFails, RunReturns
  <2> QED
    BY <2>1
<1>3. CASE ProvisionFails \/ ProvisionSucceeds
  BY <1>3 DEF ProvisionFails, ProvisionSucceeds
<1>4. CASE ~(\/ Arrive \/ Enrich \/ Reject \/ ShutdownBegins \/ ServeFails \/ RunReturns
             \/ ProvisionFails \/ ProvisionSucceeds)
  <2>1. UNCHANGED <<ml, provision, active, server, exited>>
    BY <1>4 DEF Next, WorkerStep, WorkerReceive, WorkerRelease, WorkerEnd, GatePass,
                GateShut, GateRetry, GateQuit, Process,
                SupProceed, SupHealthy, SupDeadline, SupKills, Supervise,
                SidecarExits, Cancel, ShutdownCloses, vars
  <2> QED
    BY <2>1
<1> QED
  BY <1>1, <1>2, <1>3, <1>4

(* The whole daemon is well typed: its parts as they are by themselves,    *)
(* what ties them together, and no more jobs finished than were accepted.  *)
THEOREM DaemonTypeOK == Spec => []TypeOK
<1>1. Init => ServeInv
  <2> SUFFICES ASSUME Init PROVE ServeInv
    OBVIOUS
  <2>1. active = 0 /\ provision = "fetching" /\ server = "serving"
    BY DEF Init
  <2>2. ml \in BOOLEAN /\ exited \in BOOLEAN
    BY Zenon DEF Init
  <2>3. 0 \in 0 .. MaxActive
    BY DaemonAssumption
  <2> QED
    BY <2>1, <2>2, <2>3 DEF ServeInv
<1>2. Spec => []ServeInv
  BY <1>1, ServeKept, PTL DEF Spec
<1>3. IInv /\ ServeInv /\ QP!TypeOK /\ S!TypeOK => TypeOK
  <2> SUFFICES ASSUME IInv, ServeInv, QP!TypeOK, S!TypeOK PROVE TypeOK
    OBVIOUS
  <2>1. Q!TypeOK
    BY DEF QP!TypeOK, Q!TypeOK, QP!Capacity, Q!Capacity
  <2>2. settled \in 0 .. MaxAccepted
    <3> DEFINE h == IF hand = NoJob THEN 0 ELSE 1
               w == IF job = NoJob THEN 0 ELSE 1
    <3>1. Len(accepted) = Len(ch) + h + w + settled + discarded
      BY DEF IInv, Conservation
    <3>2. /\ Len(accepted) \in Nat /\ Len(ch) \in Nat /\ h \in Nat /\ w \in Nat
          /\ settled \in Nat /\ discarded \in Nat /\ Len(accepted) <= MaxAccepted
      BY DEF QP!TypeOK, IInv, WorkInv
    <3> HIDE DEF h, w
    <3> QED
      BY <3>1, <3>2, DaemonAssumption
  <2> QED
    BY <2>1, <2>2 DEF TypeOK, IInv, WorkInv, ServeInv
<1>4. QP!IInv => QP!TypeOK
  BY DEF QP!IInv
<1> QED
  BY <1>2, <1>3, <1>4, DaemonInvariant, QueueHere, DaemonKeepsSupervisor, PTL

(* No accepted job is lost inside a running daemon, and the one that a     *)
(* shut gate makes it give up is the last.                                 *)
THEOREM DaemonConservation == Spec => []Conservation
  BY DaemonInvariant, PTL DEF IInv

(* The worker enriches behind an open gate, and no death of the sidecar    *)
(* shuts it under a job.                                                   *)
THEOREM DaemonProcessBehindGate == Spec => []ProcessBehindGate
  BY DaemonInvariant, PTL DEF IInv
-----------------------------------------------------------------------------
(* The server. *)

(* What waits in the daemon is what waits in the queue; the backlog of the *)
(* server is the FIFO that the queue implements.                           *)
LEMMA SameBacklog ==
  /\ Q!Pending = QP!Pending /\ Q!Capacity = QP!Capacity
  /\ \A j \in Jobs : QP!Abstract!Accept(j) => Server!Backlog!Accept(j)
  /\ QP!Abstract!Deliver => Server!Backlog!Deliver
<1>1. Q!Pending = QP!Pending /\ Q!Capacity = QP!Capacity
  BY DEF Q!Pending, QP!Pending, Q!InHand, QP!InHand, Q!Capacity, QP!Capacity
<1>2. (Q!Pending)' = (QP!Pending)'
  BY DEF Q!Pending, QP!Pending, Q!InHand, QP!InHand
<1>3. \A j \in Jobs : QP!Abstract!Accept(j) => Server!Backlog!Accept(j)
  BY <1>1, <1>2 DEF QP!Abstract!Accept, Server!Backlog!Accept,
     QP!Abstract!PendingKeys, Server!Backlog!PendingKeys
<1>4. QP!Abstract!Deliver => Server!Backlog!Deliver
  BY <1>1, <1>2 DEF QP!Abstract!Deliver, Server!Backlog!Deliver
<1> QED
  BY <1>1, <1>3, <1>4

(* A handler's offer is accepted as the server accepts, or is no step of   *)
(* it: a repeated prompt, a full and a closed queue.                       *)
LEMMA EnrichServes ==
  ASSUME QP!IInv, [Next]_vars, Enrich
  PROVE  (\E j \in Jobs : Server!Accept(j)) \/ UNCHANGED Server!vars
<1>1. QP!JobsAssumption /\ QP!BoundsAssumption
  BY DaemonAssumption DEF QP!JobsAssumption, QP!BoundsAssumption
<1>2. PICK j \in Jobs : Q!Offer(j)
  BY DEF Enrich
<1>3. UNCHANGED <<worker, job, settled, discarded>> /\ Gate' = Gate
  BY DEF Enrich, workVars, supVars, Gate
<1>4. CASE Q!OfferAccept(j)
  <2>1. QP!OfferAccept(j)
    BY <1>4 DEF Q!OfferAccept, QP!OfferAccept, Q!Refused, QP!Refused, Q!Full, QP!Full,
                Q!Capacity, QP!Capacity
  <2>2. QP!Abstract!Accept(j)
    BY <1>1, <2>1, QP!AcceptRefines
  <2> QED
    BY <1>3, <2>2, SameBacklog DEF Server!Accept
<1>5. CASE Q!OfferFull(j) \/ Q!OfferRefuse(j)
  BY <1>3, <1>5 DEF Q!OfferFull, Q!OfferRefuse, Q!queueVars, Q!Pending, Q!InHand, Server!vars
<1> QED
  BY <1>2, <1>4, <1>5 DEF Q!Offer

(* The worker takes up a job when Next forgets its key, and finishes or    *)
(* gives up what it took up.                                               *)
LEMMA WorkerServes ==
  ASSUME IInv, QP!IInv, [Next]_vars, WorkerStep
  PROVE  Server!Next \/ UNCHANGED Server!vars
<1>1. QP!JobsAssumption /\ QP!BoundsAssumption
  BY DaemonAssumption DEF QP!JobsAssumption, QP!BoundsAssumption
<1> USE DaemonAssumption DEF IInv, WorkInv
<1>2. CASE WorkerReceive
  <2>1. QP!NextReceive
    BY <1>2 DEF WorkerReceive, Q!NextReceive, QP!NextReceive
  <2>2. UNCHANGED QP!Abstract!vars
    BY <1>1, <2>1, QP!ReceiveStutters
  <2>3. (Q!Pending)' = Q!Pending
    BY <2>2 DEF QP!Abstract!vars, Q!Pending, QP!Pending, Q!InHand, QP!InHand
  <2> QED
    BY <1>2, <2>3 DEF WorkerReceive, Q!NextReceive, workVars, supVars, Gate, Server!vars
<1>3. CASE WorkerRelease
  <2>1. QP!NextRelease
    BY <1>3 DEF WorkerRelease, Q!NextRelease, QP!NextRelease, Q!Forget, QP!Forget
  <2>2. QP!Abstract!Deliver
    BY <1>1, <2>1, QP!ReleaseRefines
  <2>3. Head(Q!Pending) = hand
    <3>1. hand \in Jobs /\ ch \in Seq(Jobs) /\ Q!Pending = <<hand>> \o ch
      BY <2>1 DEF QP!NextRelease, QP!IInv, QP!TypeOK, Q!Pending, Q!InHand
    <3> QED
      BY <3>1
  <2>4. worker = "next" /\ job = NoJob /\ hand # NoJob
    BY <2>1 DEF QP!NextRelease
  <2>5. /\ job' = hand /\ worker' = "gate"
        /\ UNCHANGED <<settled, ml, provision, ready, fellBack>>
    BY <1>3 DEF WorkerRelease, supVars
  <2>6. Server!TakeUp
    BY <2>2, <2>3, <2>4, <2>5, SameBacklog DEF Server!TakeUp, Gate
  <2> QED
    BY <2>6 DEF Server!Next
<1>4. CASE WorkerEnd
  <2>1. /\ closed /\ hand = NoJob /\ ch = <<>> /\ worker = "next" /\ worker' = "returned"
        /\ UNCHANGED <<ch, hand, closed, job, settled, ml, provision, ready, fellBack>>
    BY <1>4 DEF WorkerEnd, Q!NextEnd, supVars
  <2>2. Q!Pending = <<>> /\ (Q!Pending)' = Q!Pending
    BY <2>1 DEF Q!Pending, Q!InHand
  <2>3. job = NoJob
    BY <2>1
  <2>4. Server!Stop
    BY <2>1, <2>2, <2>3 DEF Server!Stop, Gate
  <2> QED
    BY <2>4 DEF Server!Next
<1>5. CASE GatePass
  BY <1>5 DEF GatePass, queueVars, supVars, Gate, Q!Pending, Q!InHand, Server!vars
<1>6. CASE GateShut
  <2>1. /\ worker = "gate" /\ worker' = "wait" /\ ~Gate
        /\ UNCHANGED <<ch, hand, closed, job, settled, ml, provision, ready, fellBack>>
    BY <1>6 DEF GateShut, queueVars, supVars
  <2>2. job # NoJob /\ (Q!Pending)' = Q!Pending
    BY <2>1 DEF Q!Pending, Q!InHand
  <2>3. Server!HoldBack
    BY <2>1, <2>2 DEF Server!HoldBack, Gate
  <2> QED
    BY <2>3 DEF Server!Next
<1>7. CASE GateRetry
  <2>1. /\ worker = "wait" /\ worker' = "gate"
        /\ UNCHANGED <<ch, hand, closed, job, settled, ml, provision, ready, fellBack>>
    BY <1>7 DEF GateRetry, queueVars, supVars
  <2>2. (Q!Pending)' = Q!Pending
    BY <2>1 DEF Q!Pending, Q!InHand
  <2>3. Server!LookAgain
    BY <2>1, <2>2 DEF Server!LookAgain, Gate
  <2> QED
    BY <2>3 DEF Server!Next
<1>8. CASE GateQuit
  <2>1. /\ worker = "wait" /\ worker' = "returned" /\ closed /\ job' = NoJob
        /\ UNCHANGED <<ch, hand, closed, settled, ml, provision, ready, fellBack>>
    BY <1>8 DEF GateQuit, queueVars, supVars
  <2>2. (Q!Pending)' = Q!Pending
    BY <2>1 DEF Q!Pending, Q!InHand
  <2>3. Server!GiveUp
    BY <2>1, <2>2 DEF Server!GiveUp, Gate
  <2> QED
    BY <2>3 DEF Server!Next
<1>9. CASE Process
  <2>1. /\ worker = "process" /\ worker' = "next" /\ job' = NoJob /\ settled' = settled + 1
        /\ UNCHANGED <<ch, hand, closed, ml, provision, ready, fellBack>>
    BY <1>9 DEF Process, queueVars, supVars
  <2>2. job # NoJob /\ Gate /\ (Q!Pending)' = Q!Pending
    BY <2>1 DEF Q!Pending, Q!InHand, ProcessBehindGate
  <2>3. Server!Finish
    BY <2>1, <2>2 DEF Server!Finish, Gate
  <2> QED
    BY <2>3 DEF Server!Next
<1> QED
  BY <1>2, <1>3, <1>4, <1>5, <1>6, <1>7, <1>8, <1>9 DEF WorkerStep

(* The other goroutines open the gate, for good, and close the queue.      *)
LEMMA OthersServe ==
  ASSUME [Next]_vars, ~Enrich, ~WorkerStep
  PROVE  Server!Next \/ UNCHANGED Server!vars
<1>1. CASE ShutdownCloses
  <2>1. /\ closed' = TRUE
        /\ UNCHANGED <<ch, hand, worker, job, settled, ml, provision, ready, fellBack>>
    BY <1>1 DEF ShutdownCloses, Q!Close, supVars, workVars
  <2>2. Server!Shut
    BY <2>1 DEF Server!Shut, Server!Backlog!Shut, Gate, Q!Pending, Q!InHand
  <2> QED
    BY <2>2 DEF Server!Next
<1>2. CASE ~ShutdownCloses
  <2>1. UNCHANGED <<ch, hand, closed, worker, job, settled>>
    BY <1>2 DEF Next, Arrive, Reject, ProvisionFails, ProvisionSucceeds, SupProceed,
         SupHealthy, SupDeadline, SupKills, Supervise, SidecarExits, Cancel,
         ShutdownBegins, ServeFails, RunReturns, queueVars, workVars, vars
  <2>2. (Q!Pending)' = Q!Pending /\ UNCHANGED <<closed, job, settled, worker>>
    BY <2>1 DEF Q!Pending, Q!InHand
  <2>3. CASE Gate' /\ ~Gate
    BY <2>2, <2>3, Zenon DEF Server!Decide, Server!Next
  <2>4. CASE (Gate' <=> Gate)
    BY <2>2, <2>4, Zenon DEF Server!vars
  <2> QED
    BY <2>3, <2>4, GateStays
<1> QED
  BY <1>1, <1>2

(* The daemon is the server that those who ask for enrichments count on:   *)
(* whatever handlers, worker, provisioning, supervisor and shutdown do     *)
(* between each other, jobs are accepted once while they wait, worked on   *)
(* one by one in their order, finished only behind an open gate, given up  *)
(* only out of the wait at a shut one, and after that no other is begun.   *)
THEOREM DaemonImplementsServer == Spec => ServerSpec
<1>1. Init => Server!Init
  <2> SUFFICES ASSUME Init PROVE Server!Init
    OBVIOUS
  <2>1. Q!Pending = <<>> /\ closed = FALSE
    BY DEF Init, Q!Init, Q!Pending, Q!InHand
  <2>2. Gate \in BOOLEAN
    BY Zenon DEF Gate
  <2>3. job = NoJob /\ settled = 0 /\ worker = "next"
    BY DEF Init
  <2> QED
    BY <2>1, <2>2, <2>3 DEF Server!Init, Server!Backlog!Init
<1>2. IInv /\ QP!IInv /\ [Next]_vars => [Server!Next]_(Server!vars)
  <2> SUFFICES ASSUME IInv, QP!IInv, [Next]_vars
               PROVE  Server!Next \/ UNCHANGED Server!vars
    BY DEF Server!vars
  <2> QED
    BY EnrichServes, WorkerServes, OthersServe DEF Server!Next
<1> QED
  BY <1>1, <1>2, DaemonInvariant, QueueHere, PTL DEF Spec, ServerSpec, Server!Spec
=============================================================================
