------------------------------- MODULE Backend -------------------------------
(***************************************************************************)
(* What mlBackend starts (internal/agent/daemon/daemon.go): a goroutine    *)
(* that provisions the model (Provision.tla) and on success hands over to  *)
(* the supervisor (Supervisor.tla), and the gate the worker waits at.      *)
(* The process of the daemon may end at any point and be started again by  *)
(* its service manager: the disk stays, the goroutines start anew.         *)
(*                                                                         *)
(* A sidecar that outlives its daemon (see run daemon_sidecar) listens on  *)
(* a port nobody asks any more; it leaves the model with the next life.    *)
(***************************************************************************)
EXTENDS Supervisor, Provision

vars == <<supVars, provisionVars>>

Running == step # "down"

BackendInit == Init /\ ProvisionInit

(* The daemon starts: provisioning begins and the supervisor is a new one. *)
BeginLife ==
  /\ Begin
  /\ ctxDone' = FALSE /\ pc' = "spawn" /\ attempts' = 0 /\ cur' = 0
  /\ procs' = [g \in Attempts |-> "none"]
  /\ late' = FALSE /\ restarts' = 0 /\ ready' = FALSE /\ fellBack' = FALSE

EndLife == End /\ UNCHANGED supVars

ProvisionStep == EnsureModel /\ UNCHANGED supVars

(* go opts.sup.Start(ctx), once EnsureModel has returned without an error. *)
Started == step = "installed"

SupervisorStep ==
  /\ Started
  /\ Proceed \/ TickHealthy \/ DeadlinePasses
  /\ UNCHANGED provisionVars

(* The context is cancelled; processes end or are killed.  Of a daemon     *)
(* that is down nothing kills a child.                                     *)
CancelContext == Running /\ Cancel /\ UNCHANGED provisionVars
ChildEnds == (\E g \in Attempts : ChildExits(g)) /\ UNCHANGED provisionVars
ContextEnds ==
  /\ Started
  /\ \E g \in Attempts : ContextKills(g)
  /\ UNCHANGED provisionVars

BackendNext ==
  \/ BeginLife \/ EndLife
  \/ ProvisionStep
  \/ SupervisorStep
  \/ CancelContext \/ ChildEnds \/ ContextEnds

BackendSpec == BackendInit /\ [][BackendNext]_vars

(* The goroutines run, every request of a download ends (its client gives  *)
(* up after 30 minutes), time passes and a killed process dies.            *)
BackendFairSpec ==
  /\ BackendSpec
  /\ WF_vars(ProvisionStep)
  /\ WF_vars(Started /\ Proceed /\ UNCHANGED provisionVars)
  /\ WF_vars(Started /\ DeadlinePasses /\ UNCHANGED provisionVars)
  /\ WF_vars(KilledChildExits /\ UNCHANGED provisionVars)

(* The gate mlBackendWithOpts returns. *)
GateOfSupervisor == ready \/ fellBack
BackendGate == ready \/ fellBack \/ step = "failed"
-----------------------------------------------------------------------------
(* A sidecar runs on a directory with the sentinel of the revision its     *)
(* daemon wants and no file missing or of another revision, and nothing    *)
(* changes the directory under it.  (What was served in place of the other *)
(* files is not verified.)                                                 *)
SidecarHasModel ==
  Running /\ (\E g \in Attempts : Live(g)) => Complete(dir, want)

(* The worker is not held for ever: in a daemon that goes on running, the  *)
(* gate opens, whatever the download, the disk and the children do.        *)
GateOpens == step = "check" ~> BackendGate \/ ctxDone \/ ~Running
=============================================================================
