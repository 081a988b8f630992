---------------------------- MODULE BackendProofs ----------------------------
(***************************************************************************)
(* Proofs about the backend of the enrichment: first about the supervisor  *)
(* of the sidecar alone (Supervisor.tla, its Spec), for every restart      *)
(* budget; then about Backend.tla (BackendSpec), the model directory over  *)
(* the lives of the daemon and the sidecar that runs on it, for every      *)
(* manifest and every number of builds and lives.                          *)
(*                                                                         *)
(* What holds of the supervisor alone holds of the backend too: a new life *)
(* puts it back to its initial state.                                      *)
(***************************************************************************)
EXTENDS Backend, TLAPS

(* The supervisor. *)

(* The places of Start at which s.cmd has been started and waitCh has not  *)
(* been received from.                                                     *)
Holding == pc \in {"poll", "watch", "reapCancelled", "reapTimeout"}

(* The attempt number follows the restart count. *)
BudgetInv ==
  /\ pc \in {"spawn", "backoff"} => attempts = restarts /\ restarts <= MaxRestarts
  /\ Holding \/ pc = "decide" => attempts = restarts + 1 /\ restarts <= MaxRestarts

(* A live process is the current one, and Start is where it will reap it.  *)
ChildInv ==
  /\ Holding => cur = attempts /\ procs[cur] \in {"running", "killed", "exited"}
  /\ \A g \in Attempts : Live(g) => g = cur /\ Holding

(* Why Start will return, if it is about to. *)
GateInv ==
  /\ pc = "reapCancelled" => ctxDone
  /\ StopOpensGate

IInv == TypeOK /\ BudgetInv /\ ChildInv /\ GateInv

(* The supervisor starts in the invariant. *)
LEMMA InitInv == Init => IInv
<1> SUFFICES ASSUME Init PROVE IInv
  OBVIOUS
<1> USE RestartsAssumption DEF Init
<1>1. TypeOK
  <2>1. ctxDone \in BOOLEAN /\ late \in BOOLEAN /\ ready \in BOOLEAN
          /\ fellBack \in BOOLEAN
    OBVIOUS
  <2>2. attempts \in 0 .. MaxRestarts + 1 /\ cur \in 0 .. MaxRestarts + 1
          /\ restarts \in 0 .. MaxRestarts + 1
    OBVIOUS
  <2>3. procs \in [Attempts -> {"none", "running", "killed", "exited", "reaped"}]
    OBVIOUS
  <2> QED
    BY <2>1, <2>2, <2>3 DEF TypeOK, Places
<1>2. BudgetInv
  BY DEF BudgetInv, Holding
<1>3. ChildInv
  BY DEF ChildInv, Holding, Live
<1>4. GateInv
  BY DEF GateInv, StopOpensGate
<1> QED
  BY <1>1, <1>2, <1>3, <1>4 DEF IInv

(* A spawned child is the only process; a failed spawn leaves none. *)
LEMMA SpawnInv == IInv /\ (SpawnChild \/ SpawnFails) => IInv'
<1> SUFFICES ASSUME IInv, SpawnChild \/ SpawnFails PROVE IInv'
  OBVIOUS
<1> USE RestartsAssumption DEF IInv, SpawnChild, SpawnFails
<1>1. attempts + 1 \in Attempts
  BY DEF BudgetInv, TypeOK, Attempts
<1>2. TypeOK'
  <2>1. ctxDone' \in BOOLEAN /\ late' \in BOOLEAN /\ ready' \in BOOLEAN
          /\ fellBack' \in BOOLEAN
    BY DEF TypeOK
  <2>2. attempts' \in 0 .. MaxRestarts + 1 /\ cur' \in 0 .. MaxRestarts + 1
          /\ restarts' \in 0 .. MaxRestarts + 1
    BY <1>1 DEF TypeOK, Attempts
  <2>3. procs' \in [Attempts -> {"none", "running", "killed", "exited", "reaped"}]
    BY <1>1 DEF TypeOK
  <2> QED
    BY <2>1, <2>2, <2>3 DEF TypeOK, Places
<1>3. BudgetInv'
  BY DEF BudgetInv, Holding, TypeOK
<1>4. ChildInv'
  BY <1>1 DEF ChildInv, Holding, Live, TypeOK
<1>5. GateInv'
  BY DEF GateInv, StopOpensGate
<1> QED
  BY <1>2, <1>3, <1>4, <1>5

(* Steps of Start that leave the processes in place or signal one. *)
LEMMA WaitInv ==
  ASSUME IInv, StopOnCancel \/ SeeExit \/ TickHealthy \/ TickTimeout \/ Reap
  PROVE  IInv'
<1> USE RestartsAssumption
    DEF IInv, StopOnCancel, SeeExit, TickHealthy, TickTimeout, Reap, Signalled
<1>1. Holding /\ cur \in Attempts /\ cur = attempts
  BY DEF Holding, ChildInv, BudgetInv, TypeOK, Attempts
<1>2. procs' = [procs EXCEPT ![cur] = procs'[cur]]
  BY <1>1 DEF TypeOK
<1>3. procs'[cur] \in {"running", "killed", "exited", "reaped"}
  BY <1>1 DEF TypeOK, ChildInv
<1>4. TypeOK'
  BY <1>1, <1>2, <1>3 DEF TypeOK, Places
<1>5. BudgetInv'
  BY DEF BudgetInv, Holding
<1>6. ChildInv'
  <2>1. \A g \in Attempts : Live(g)' => g = cur
    BY <1>1, <1>2 DEF ChildInv, Live, TypeOK
  <2>2. Holding' => procs'[cur] \in {"running", "killed", "exited"}
    BY <1>1, <1>3 DEF Holding, ChildInv, TypeOK
  <2>3. Live(cur)' => Holding'
    BY <1>1 DEF Live, Holding, ChildInv, TypeOK
  <2> QED
    BY <1>1, <2>1, <2>2, <2>3 DEF ChildInv, Holding
<1>7. GateInv'
  BY DEF GateInv, StopOpensGate
<1> QED
  BY <1>4, <1>5, <1>6, <1>7

(* After the reap nothing runs, whether the budget is spent or not. *)
LEMMA DecideInv == IInv /\ (Decide \/ BackoffCancelled \/ BackoffOver) => IInv'
<1> SUFFICES ASSUME IInv, Decide \/ BackoffCancelled \/ BackoffOver
             PROVE  IInv'
  OBVIOUS
<1> USE RestartsAssumption
    DEF IInv, Decide, BudgetSpent, BackoffCancelled, BackoffOver
<1>1. restarts \in Nat /\ restarts' \in 0 .. MaxRestarts + 1
  BY DEF BudgetInv, TypeOK
<1>2. TypeOK'
  BY <1>1 DEF TypeOK, Places
<1>3. BudgetInv'
  BY <1>1 DEF BudgetInv, Holding, TypeOK
<1>4. ChildInv'
  BY DEF ChildInv, Holding, Live
<1>5. GateInv'
  BY DEF GateInv, StopOpensGate
<1> QED
  BY <1>2, <1>3, <1>4, <1>5

(* A child that exits or is killed, and a cancelled context, leave no more *)
(* processes than there were.                                              *)
LEMMA EnvironmentInv ==
  ASSUME IInv, DeadlinePasses \/ Cancel \/ ChildStep \/ UNCHANGED supVars
  PROVE  IInv'
<1> USE RestartsAssumption
    DEF IInv, DeadlinePasses, Cancel, ChildStep, ChildExits, ContextKills, supVars
<1>1. TypeOK'
  BY DEF TypeOK
<1>2. BudgetInv'
  BY DEF BudgetInv, Holding
<1>3. ChildInv'
  BY DEF ChildInv, Holding, Live, TypeOK
<1>4. GateInv'
  BY DEF GateInv, StopOpensGate
<1> QED
  BY <1>1, <1>2, <1>3, <1>4

(* No step of the supervisor, a child or the context breaks it. *)
LEMMA NextInv == IInv /\ [Next]_supVars => IInv'
  BY SpawnInv, WaitInv, DecideInv, EnvironmentInv DEF Next, Proceed

(* The inductive invariant holds in every reachable state. *)
THEOREM SupervisorInvariant == Spec => []IInv
<1>1. IInv /\ [][Next]_supVars => []IInv
  BY NextInv, PTL
<1> QED
  BY InitInv, <1>1, PTL DEF Spec

(* Type correctness; in particular at most MaxRestarts + 1 spawns. *)
THEOREM SupervisorTypeOK == Spec => []TypeOK
  BY SupervisorInvariant, PTL DEF IInv

(* Two sidecars never run side by side. *)
THEOREM SupervisorOneChild == Spec => []OneChild
<1>1. IInv => OneChild
  BY DEF IInv, ChildInv, OneChild
<1> QED
  BY <1>1, SupervisorInvariant, PTL

(* Start never returns with a sidecar running. *)
THEOREM SupervisorNoOrphan == Spec => []NoOrphan
<1>1. IInv => NoOrphan
  BY DEF IInv, ChildInv, Holding, NoOrphan
<1> QED
  BY <1>1, SupervisorInvariant, PTL

(* A supervisor that returns has opened the gate, unless it was cancelled. *)
THEOREM SupervisorStopOpensGate == Spec => []StopOpensGate
<1>1. IInv => StopOpensGate
  BY DEF IInv, GateInv
<1> QED
  BY <1>1, SupervisorInvariant, PTL
-----------------------------------------------------------------------------
(* The backend. *)

(* The places of EnsureModel between the check and the end. *)
HasStaging == step \in {"fetch", "verify", "remove", "rename", "cleanup"}
Stale == step \in {"mkdir", "fetch", "verify", "remove", "rename"}

(* Nothing on disk is of a build that is yet to come: an upgrade finds no  *)
(* sentinel of its own.                                                    *)
NothingNewer == \A f \in Files : dir[f] <= want /\ staged[f] <= want

(* What is staged at each place of EnsureModel. *)
StagingInv ==
  /\ HasStaging => dirs > 0
  /\ ~HasStaging => staged = Empty
  /\ \A f \in Files : staged[f] \in {Absent, want, Wrong}
  /\ step \in {"verify", "remove", "rename"} => \A f \in Files : staged[f] # Absent
  /\ step \in {"remove", "rename"} => Complete(staged, want)

(* What is installed: the old directory lost its right to be taken for the *)
(* wanted one before it is touched.                                        *)
InstalledInv ==
  /\ SentinelVouches
  /\ Stale => dir[Sentinel] # want
  /\ step = "installed" => Complete(dir, want)

PInv == ProvisionTypeOK /\ NothingNewer /\ StagingInv /\ InstalledInv

(* A process of the sidecar is alive only in a life that has its model, or *)
(* when its daemon is down.                                                *)
ChildHasModel == step \notin {"down", "installed"} => \A g \in Attempts : ~Live(g)

BInv == IInv /\ PInv /\ ChildHasModel
-----------------------------------------------------------------------------
(* The first life starts with an empty directory. *)
LEMMA ProvisionInitInv == ProvisionInit => PInv
<1> SUFFICES ASSUME ProvisionInit PROVE PInv
  OBVIOUS
<1> USE ProvisionAssumption DEF ProvisionInit, Empty, Absent
<1>1. dir \in [Files -> {0, 1}] /\ staged \in [Files -> {0}]
  OBVIOUS
<1>2. ProvisionTypeOK
  BY <1>1 DEF ProvisionTypeOK, Contents, Builds, Wrong
<1>3. NothingNewer
  BY <1>1 DEF NothingNewer
<1>4. StagingInv
  BY DEF StagingInv, HasStaging
<1>5. InstalledInv
  BY DEF InstalledInv, SentinelVouches, Complete, Stale
<1> QED
  BY <1>2, <1>3, <1>4, <1>5 DEF PInv

(* A life begins and ends without touching the directory. *)
LEMMA LifeInv == ASSUME PInv, Begin \/ End PROVE PInv'
<1> USE ProvisionAssumption DEF PInv, Begin, End
<1>1. want \in Int /\ want' \in Int /\ want <= want' /\ want >= 1
  BY DEF ProvisionTypeOK, Builds
<1>2. \A f \in Files : dir[f] \in Int /\ staged[f] \in Int
  BY DEF ProvisionTypeOK, Contents, Builds, Absent, Wrong
<1>3. ProvisionTypeOK'
  BY DEF ProvisionTypeOK, Builds, Contents, Empty, Absent
<1>4. NothingNewer'
  BY <1>1, <1>2 DEF NothingNewer, Empty, Absent
<1>5. StagingInv'
  <2>1. \A f \in Files : staged'[f] \in {Absent, want', Wrong}
    BY DEF StagingInv, HasStaging, Empty
  <2> QED
    BY <2>1 DEF StagingInv, HasStaging
<1>6. SentinelVouches'
  <2>1. CASE want' = want
    BY <2>1 DEF InstalledInv, SentinelVouches, Complete
  <2>2. CASE want' > want
    BY <2>2, <1>1, <1>2 DEF NothingNewer, SentinelVouches
  <2> QED
    BY <1>1, <2>1, <2>2
<1>7. InstalledInv'
  BY <1>6 DEF InstalledInv, Stale
<1> QED
  BY <1>3, <1>4, <1>5, <1>7

(* Steps of EnsureModel that change no file. *)
LEMMA PlaceInv ==
  ASSUME PInv, 
         Check \/ MakeStaging \/ MkdirFails \/ FetchDone \/ FetchFails
           \/ Verify \/ RemoveDone \/ RenameFails
  PROVE  PInv'
<1> USE ProvisionAssumption
    DEF PInv, Check, MakeStaging, MkdirFails, FetchDone, FetchFails, Verify,
        RemoveDone, RenameFails, Changes, Proceeds, Present
<1>1. ProvisionTypeOK'
  BY DEF ProvisionTypeOK
<1>2. NothingNewer'
  BY DEF NothingNewer
<1>3. StagingInv'
  BY DEF StagingInv, HasStaging, Complete, ProvisionTypeOK
<1>4. InstalledInv'
  BY DEF InstalledInv, SentinelVouches, Complete, Stale
<1> QED
  BY <1>1, <1>2, <1>3, <1>4

(* A file that is fetched changes only what is staged. *)
LEMMA FetchFileInv == ASSUME PInv, NEW f \in Files, FetchFile(f) PROVE PInv'
<1> USE ProvisionAssumption DEF PInv, FetchFile, Proceeds
<1>1. PICK bytes \in {want, Wrong} : staged' = [staged EXCEPT ![f] = bytes]
  OBVIOUS
<1>2. bytes \in Contents /\ bytes <= want
  BY <1>1 DEF ProvisionTypeOK, Builds, Contents, Wrong
<1>3. ProvisionTypeOK'
  BY <1>1, <1>2 DEF ProvisionTypeOK
<1>4. NothingNewer'
  BY <1>1, <1>2 DEF NothingNewer, ProvisionTypeOK
<1>5. StagingInv'
  BY DEF StagingInv, HasStaging
<1>6. InstalledInv'
  BY DEF InstalledInv, SentinelVouches, Complete, Stale
<1> QED
  BY <1>3, <1>4, <1>5, <1>6

(* The old model goes while its successor is staged; a removal broken off  *)
(* leaves a sentinel of another revision or none.                          *)
LEMMA RemoveFileInv == ASSUME PInv, NEW f \in Files, RemoveFile(f) PROVE PInv'
<1> USE ProvisionAssumption DEF PInv, RemoveFile, Proceeds
<1>1. Absent \in Contents /\ want >= 1 /\ want \in Int
  BY DEF ProvisionTypeOK, Builds, Contents, Absent
<1>2. \A h \in Files : dir'[h] = dir[h] \/ dir'[h] = Absent
  BY DEF ProvisionTypeOK
<1>3. ProvisionTypeOK'
  BY <1>1 DEF ProvisionTypeOK
<1>4. NothingNewer'
  BY <1>1, <1>2 DEF NothingNewer, Absent
<1>5. StagingInv'
  BY DEF StagingInv, HasStaging, Complete
<1>6. dir'[Sentinel] # want
  BY <1>1, <1>2 DEF InstalledInv, Stale, Absent
<1>7. InstalledInv'
  BY <1>6 DEF InstalledInv, SentinelVouches, Stale
<1> QED
  BY <1>3, <1>4, <1>5, <1>7

(* The renames end with the sentinel; what remains is cleaned up. *)
LEMMA RenameInv == ASSUME PInv, Rename \/ Cleanup PROVE PInv'
<1> USE ProvisionAssumption DEF PInv, Rename, Cleanup
<1>1. want >= 1 /\ want \in Int /\ Empty \in [Files -> Contents]
  BY DEF ProvisionTypeOK, Builds, Contents, Empty, Absent
<1>2. ProvisionTypeOK'
  BY <1>1 DEF ProvisionTypeOK, StagingInv, HasStaging
<1>3. NothingNewer'
  BY <1>1 DEF NothingNewer, Empty, Absent
<1>4. StagingInv'
  BY DEF StagingInv, HasStaging, Empty
<1>5. InstalledInv'
  BY DEF InstalledInv, SentinelVouches, StagingInv, Stale, Complete
<1> QED
  BY <1>2, <1>3, <1>4, <1>5

(* EnsureModel keeps the invariant of the directory, step by step. *)
LEMMA EnsureModelInv == ASSUME PInv, EnsureModel PROVE PInv'
  BY PlaceInv, FetchFileInv, RemoveFileInv, RenameInv DEF EnsureModel
-----------------------------------------------------------------------------
(* The composed system starts in the invariant. *)
LEMMA BackendInitInv == BackendInit => BInv
<1> SUFFICES ASSUME BackendInit PROVE BInv
  OBVIOUS
<1>1. IInv /\ PInv
  BY InitInv, ProvisionInitInv DEF BackendInit
<1>2. ChildHasModel
  BY DEF BackendInit, ProvisionInit, ChildHasModel
<1> QED
  BY <1>1, <1>2 DEF BInv

(* A supervisor begun anew starts in its invariant, as the first did. *)
LEMMA FreshSupervisorInv == Init' => IInv'
  BY InitInv, PTL

(* A new life has no process of the last one. *)
LEMMA BeginLifeInv == ASSUME BInv, BeginLife PROVE BInv'
<1> USE DEF BInv
<1>1. IInv'
  <2>1. Init'
    BY DEF BeginLife, Init
  <2> QED
    BY <2>1, FreshSupervisorInv
<1>2. PInv'
  BY LifeInv DEF BeginLife
<1>3. ChildHasModel'
  BY DEF BeginLife, ChildHasModel, Live
<1> QED
  BY <1>1, <1>2, <1>3

(* Provisioning leaves the supervisor alone. *)
LEMMA ProvisionStepsInv == ASSUME BInv, EndLife \/ ProvisionStep PROVE BInv'
<1> USE DEF BInv
<1>1. UNCHANGED supVars
  BY DEF EndLife, ProvisionStep
<1>2. IInv'
  BY <1>1, NextInv
<1>3. PInv'
  BY LifeInv, EnsureModelInv DEF EndLife, ProvisionStep
<1>4. step' # "down" => step \notin {"down", "installed"}
  BY DEF EndLife, End, ProvisionStep, EnsureModel, Check, MakeStaging, MkdirFails,
         FetchFile, RemoveFile, FetchDone, FetchFails, Verify, RemoveDone,
         Rename, RenameFails, Cleanup
<1>5. ChildHasModel'
  BY <1>1, <1>4 DEF ChildHasModel, Live, supVars
<1> QED
  BY <1>2, <1>3, <1>5

(* The supervisor runs in a life whose model is installed. *)
LEMMA SupervisorStepsInv ==
  ASSUME BInv, SupervisorStep \/ CancelContext \/ ChildEnds \/ ContextEnds
  PROVE  BInv'
<1> USE DEF BInv
<1>1. Next /\ UNCHANGED provisionVars
  BY DEF SupervisorStep, CancelContext, ChildEnds, ContextEnds, Next, ChildStep
<1>2. IInv'
  BY <1>1, NextInv
<1>3. PInv'
  BY <1>1 DEF provisionVars, PInv, ProvisionTypeOK, NothingNewer, StagingInv,
              HasStaging, InstalledInv, SentinelVouches, Stale, Complete
<1>4. ChildHasModel'
  <2>1. SUFFICES ASSUME step \notin {"down", "installed"}, NEW g \in Attempts
                 PROVE  ~Live(g)'
    BY <1>1 DEF ChildHasModel, provisionVars
  <2>2. ~Live(g)
    BY <2>1 DEF ChildHasModel
  <2>3. CASE CancelContext
    BY <2>2, <2>3 DEF CancelContext, Cancel, Live
  <2>4. CASE ChildEnds
    BY <2>2, <2>4 DEF ChildEnds, ChildExits, Live, IInv, TypeOK
  <2> QED
    BY <2>1, <2>3, <2>4 DEF SupervisorStep, ContextEnds, Started
<1> QED
  BY <1>2, <1>3, <1>4

(* A stutter keeps the invariant. *)
LEMMA BackendStutterInv == ASSUME BInv, UNCHANGED vars PROVE BInv'
<1> USE DEF BInv, vars
<1>1. IInv'
  BY NextInv
<1>2. PInv'
  BY DEF provisionVars, PInv, ProvisionTypeOK, NothingNewer, StagingInv,
         HasStaging, InstalledInv, SentinelVouches, Stale, Complete
<1>3. ChildHasModel'
  BY DEF ChildHasModel, Live, supVars, provisionVars
<1> QED
  BY <1>1, <1>2, <1>3

(* The inductive invariant of the composition. *)
THEOREM BackendInvariant == BackendSpec => []BInv
<1>1. BInv /\ [BackendNext]_vars => BInv'
  BY BeginLifeInv, ProvisionStepsInv, SupervisorStepsInv, BackendStutterInv
     DEF BackendNext
<1> QED
  BY <1>1, BackendInitInv, PTL DEF BackendSpec

(* Type correctness of the composition. *)
THEOREM BackendTypeOK == BackendSpec => [](TypeOK /\ ProvisionTypeOK)
<1>1. BInv => TypeOK /\ ProvisionTypeOK
  BY DEF BInv, IInv, PInv
<1> QED
  BY <1>1, BackendInvariant, PTL

(* Whatever ended the lives before, also in the middle of a download or of *)
(* a removal: where EnsureModel finds the sentinel of its revision, no     *)
(* file of that revision is missing.                                       *)
THEOREM BackendSentinelVouches == BackendSpec => []SentinelVouches
<1>1. BInv => SentinelVouches
  BY DEF BInv, PInv, InstalledInv
<1> QED
  BY <1>1, BackendInvariant, PTL

(* No sidecar of a running daemon works on an incomplete model or on one   *)
(* of another revision.                                                    *)
THEOREM BackendSidecarHasModel == BackendSpec => []SidecarHasModel
<1>1. BInv => SidecarHasModel
  BY DEF BInv, ChildHasModel, PInv, InstalledInv, SidecarHasModel, Running
<1> QED
  BY <1>1, BackendInvariant, PTL

(* EnsureModel touches the installed model only while a complete, verified *)
(* one of the wanted revision is staged.                                   *)
THEOREM BackendReplacementReady == BackendSpec => ReplacementReady
<1>1. BInv /\ [BackendNext]_vars => [dir' # dir => Complete(staged, want)]_provisionVars
  <2> SUFFICES ASSUME BInv, BackendNext, dir' # dir
               PROVE  Complete(staged, want)
    BY DEF vars, provisionVars
  <2>1. EnsureModel
    BY DEF BackendNext, BeginLife, Begin, EndLife, End, ProvisionStep,
           SupervisorStep, CancelContext, ChildEnds, ContextEnds, provisionVars
  <2>2. step \in {"remove", "rename"}
    BY <2>1 DEF EnsureModel, Check, MakeStaging, MkdirFails, FetchFile, RemoveFile,
                FetchDone, FetchFails, Verify, RemoveDone, Rename, RenameFails,
                Cleanup, Changes
  <2> QED
    BY <2>2 DEF BInv, PInv, StagingInv
<1> QED
  BY <1>1, BackendInvariant, PTL DEF BackendSpec, ReplacementReady

(* What holds of one supervisor holds of the supervisors of all lives: one *)
(* sidecar at most is alive in a life, ...                                 *)
THEOREM BackendOneChild == BackendSpec => []OneChild
<1>1. BInv => OneChild
  BY DEF BInv, IInv, ChildInv, OneChild
<1> QED
  BY <1>1, BackendInvariant, PTL

(* ... Start does not return before it, ...                                *)
THEOREM BackendNoOrphan == BackendSpec => []NoOrphan
<1>1. BInv => NoOrphan
  BY DEF BInv, IInv, ChildInv, Holding, NoOrphan
<1> QED
  BY <1>1, BackendInvariant, PTL

(* ... and a Start that returned by itself left the gate of the worker     *)
(* open.                                                                   *)
THEOREM BackendStopOpensGate == BackendSpec => []StopOpensGate
<1>1. BInv => StopOpensGate
  BY DEF BInv, IInv, GateInv
<1> QED
  BY <1>1, BackendInvariant, PTL
=============================================================================
