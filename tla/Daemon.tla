------------------------------- MODULE Daemon -------------------------------
(***************************************************************************)
(* The enrichment daemon as one process (internal/agent/daemon/daemon.go): *)
(* the ingress handlers offer jobs to the queue (JobQueue.tla), the worker *)
(* takes them once the backend gate is open, the provisioning goroutine    *)
(* fetches the model and hands over to the supervisor of the sidecar       *)
(* (Supervisor.tla), and serve ends the process when the context is        *)
(* cancelled.  Go ends every goroutine when Run has returned; the sidecar, *)
(* a process of its own, is not ended by that.                             *)
(***************************************************************************)
EXTENDS Integers, Sequences, FiniteSets

CONSTANTS MaxActive,   (* bound: requests to POST /enrich at a time         *)
          Jobs, Keys, Key, NoJob, Requested, MaxAccepted, MaxDropped,
          MaxRestarts

ASSUME DaemonAssumption ==
  /\ MaxActive \in Nat
  /\ Key \in [Jobs -> Keys] /\ NoJob \notin Jobs
  /\ Requested \in Int /\ MaxAccepted \in Nat /\ MaxDropped \in Nat
  /\ MaxRestarts \in Nat

VARIABLES ch, inflight, dropped, closed, hand, ended, accepted, taken
VARIABLES ctxDone, pc, attempts, cur, procs, late, restarts, ready, fellBack
VARIABLES ml,         (* ML is enabled and a sidecar binary was found      *)
          provision,  (* EnsureModel: fetching, failed or installed        *)
          worker,     (* next; gate, about to ask ready(); wait, in the    *)
                      (* select; process; returned                         *)
          job,        (* the job the worker holds                          *)
          active,     (* how many requests are being handled               *)
          server,     (* serving, closing (Shutdown has begun), failed     *)
          exited      (* Run has returned: the process is gone             *)

VARIABLES settled,    (* history: jobs the worker has finished with        *)
          discarded   (* history: jobs it gave up at the gate              *)

Q == INSTANCE JobQueue
S == INSTANCE Supervisor

queueVars == <<ch, inflight, dropped, closed, hand, ended, accepted, taken>>
supVars == <<ctxDone, pc, attempts, cur, procs, late, restarts, ready, fellBack>>
workVars == <<worker, job, settled, discarded>>
serveVars == <<active, server, exited>>
vars == <<queueVars, supVars, ml, provision, workVars, serveVars>>
-----------------------------------------------------------------------------
Init ==
  /\ Q!Init
  /\ S!Init
  /\ ml \in BOOLEAN
  /\ provision = "fetching"
  /\ worker = "next"
  /\ job = NoJob
  /\ active = 0
  /\ server = "serving"
  /\ exited = FALSE
  /\ settled = 0
  /\ discarded = 0

(* The gate mlBackend returns: always open without ML. *)
GateWithoutFallback == ~ml \/ ready \/ provision = "failed"
Gate == ~ml \/ ready \/ fellBack \/ provision = "failed"

(* Handler: the server takes a request while it serves. *)
Arrive ==
  /\ ~exited
  /\ server = "serving"
  /\ active < MaxActive
  /\ active' = active + 1
  /\ UNCHANGED <<queueVars, supVars, ml, provision, workVars, server, exited>>

(* It offers the job and answers: 202 if it was accepted, 429 if not, for  *)
(* a full, a closed and a repeating queue alike.                           *)
Enrich ==
  /\ ~exited
  /\ active > 0
  /\ active' = active - 1
  /\ \E j \in Jobs : Q!Offer(j)
  /\ UNCHANGED <<supVars, ml, provision, workVars, server, exited>>

(* It answers 405, 401 or 400 and does not get to the queue. *)
Reject ==
  /\ ~exited
  /\ active > 0
  /\ active' = active - 1
  /\ UNCHANGED <<queueVars, supVars, ml, provision, workVars, server, exited>>

(* Worker: the two halves of Next. *)
WorkerPrefetches ==
  /\ ~exited
  /\ worker \in {"next", "process"}
  /\ Q!NextReceive
  /\ UNCHANGED <<supVars, ml, provision, workVars, serveVars>>

WorkerReceive ==
  /\ ~exited
  /\ worker = "next"
  /\ Q!NextReceive
  /\ UNCHANGED <<supVars, ml, provision, workVars, serveVars>>

WorkerRelease ==
  /\ ~exited
  /\ Q!NextRelease
  /\ job' = hand
  /\ worker' = "gate"
  /\ UNCHANGED <<supVars, ml, provision, settled, discarded, serveVars>>

WorkerEnd ==
  /\ ~exited
  /\ worker = "next"
  /\ Q!NextEnd
  /\ worker' = "returned"
  /\ UNCHANGED <<supVars, ml, provision, job, settled, discarded, serveVars>>

(* ready() is true: process the job. *)
GatePass ==
  /\ ~exited
  /\ worker = "gate"
  /\ Gate
  /\ worker' = "process"
  /\ UNCHANGED <<queueVars, supVars, ml, provision, job, settled, discarded, serveVars>>

(* ready() is false: the worker goes into the select, and what it saw may  *)
(* change while it waits there.                                            *)
GateShut ==
  /\ ~exited
  /\ worker = "gate"
  /\ ~Gate
  /\ worker' = "wait"
  /\ UNCHANGED <<queueVars, supVars, ml, provision, job, settled, discarded, serveVars>>

(* The 20 milliseconds are over: it asks again. *)
GateRetry ==
  /\ ~exited
  /\ worker = "wait"
  /\ worker' = "gate"
  /\ UNCHANGED <<queueVars, supVars, ml, provision, job, settled, discarded, serveVars>>

(* The queue is closed: the job in hand is dropped, also where the gate    *)
(* has opened since the worker saw it shut.                                *)
GateSkip ==
  /\ ~exited
  /\ worker = "wait"
  /\ worker' = "next"
  /\ job' = NoJob
  /\ discarded' = discarded + 1
  /\ UNCHANGED <<queueVars, supVars, ml, provision, settled, serveVars>>

GateQuit ==
  /\ ~exited
  /\ worker = "wait"
  /\ closed
  /\ worker' = "returned"
  /\ job' = NoJob
  /\ discarded' = discarded + 1
  /\ UNCHANGED <<queueVars, supVars, ml, provision, settled, serveVars>>

(* process ends: published, publish failed, unresolved or recovered from a *)
(* panic; the worker goes on in every case.                                *)
Process ==
  /\ ~exited
  /\ worker = "process"
  /\ worker' = "next"
  /\ job' = NoJob
  /\ settled' = settled + 1
  /\ UNCHANGED <<queueVars, supVars, ml, provision, discarded, serveVars>>

(* EnsureModel ends, also because the context it fetches under ended. *)
ProvisionFails ==
  /\ ~exited
  /\ ml
  /\ provision = "fetching"
  /\ provision' = "failed"
  /\ UNCHANGED <<queueVars, supVars, ml, workVars, serveVars>>

ProvisionSucceeds ==
  /\ ~exited
  /\ ml
  /\ provision = "fetching"
  /\ provision' = "installed"
  /\ UNCHANGED <<queueVars, supVars, ml, workVars, serveVars>>

(* The supervisor runs once the model is installed, while the process      *)
(* lives; so does the goroutine of exec that watches the context.          *)
Supervise(A) ==
  /\ ~exited
  /\ ml /\ provision = "installed"
  /\ A
  /\ UNCHANGED <<queueVars, ml, provision, workVars, serveVars>>

SupProceed == Supervise(S!Proceed)
SupHealthy == Supervise(S!TickHealthy)
SupDeadline == Supervise(S!DeadlinePasses)
SupKills == Supervise(\E g \in S!Attempts : S!ContextKills(g))

(* A sidecar exits, whether or not its parent lives. *)
SidecarExits ==
  /\ \E g \in S!Attempts : S!ChildExits(g)
  /\ UNCHANGED <<queueVars, ml, provision, workVars, serveVars>>

(* SIGINT or SIGTERM. *)
Cancel ==
  /\ ~exited
  /\ S!Cancel
  /\ UNCHANGED <<queueVars, ml, provision, workVars, serveVars>>

(* srv.Shutdown begins: from here on srv.Serve has returned. *)
ShutdownAwaitsIdle ==
  /\ ~exited
  /\ ctxDone
  /\ server = "serving"
  /\ active = 0
  /\ server' = "closing"
  /\ UNCHANGED <<queueVars, supVars, ml, provision, workVars, active, exited>>

ShutdownBegins ==
  /\ ~exited
  /\ ctxDone
  /\ server = "serving"
  /\ server' = "closing"
  /\ UNCHANGED <<queueVars, supVars, ml, provision, workVars, active, exited>>

(* srv.Shutdown returns, all requests answered or three seconds over; the  *)
(* queue is closed.                                                        *)
ShutdownCloses ==
  /\ ~exited
  /\ server = "closing"
  /\ ~closed
  /\ Q!Close
  /\ UNCHANGED <<supVars, ml, provision, workVars, serveVars>>

(* The listener fails. *)
ServeFails ==
  /\ ~exited
  /\ server = "serving"
  /\ server' = "failed"
  /\ UNCHANGED <<queueVars, supVars, ml, provision, workVars, active, exited>>

(* serve, Run and main return. *)
RunReturns ==
  /\ ~exited
  /\ server \in {"closing", "failed"}
  /\ exited' = TRUE
  /\ UNCHANGED <<queueVars, supVars, ml, provision, workVars, active, server>>

WorkerStep ==
  \/ WorkerReceive \/ WorkerRelease \/ WorkerEnd
  \/ GatePass \/ GateShut \/ GateRetry \/ GateQuit \/ Process

Next ==
  \/ Arrive \/ Enrich \/ Reject
  \/ WorkerStep
  \/ ProvisionFails \/ ProvisionSucceeds
  \/ SupProceed \/ SupHealthy \/ SupDeadline \/ SupKills
  \/ SidecarExits
  \/ Cancel
  \/ ShutdownBegins \/ ShutdownCloses
  \/ ServeFails
  \/ RunReturns

Spec == Init /\ [][Next]_vars

(* Every goroutine of a living process is scheduled and every call it      *)
(* makes has a time limit (resolve, Send, health, the model download).     *)
(* Nothing is assumed of the clients, of signals, or of the health of the  *)
(* sidecar.                                                                *)
Fairness ==
  /\ WF_vars(WorkerStep)
  /\ WF_vars(ProvisionFails \/ ProvisionSucceeds)
  /\ WF_vars(SupProceed)
  /\ WF_vars(SupDeadline)
  /\ WF_vars(SidecarExits /\ S!KilledChildExits)
  /\ WF_vars(ShutdownBegins)
  /\ WF_vars(RunReturns)

FairSpec == Spec /\ Fairness
-----------------------------------------------------------------------------
TypeOK ==
  /\ Q!TypeOK
  /\ S!TypeOK
  /\ ml \in BOOLEAN
  /\ provision \in {"fetching", "failed", "installed"}
  /\ worker \in {"next", "gate", "wait", "process", "returned"}
  /\ job \in Jobs \cup {NoJob}
  /\ active \in 0 .. MaxActive
  /\ server \in {"serving", "closing", "failed"}
  /\ exited \in BOOLEAN
  /\ settled \in 0 .. MaxAccepted
  /\ discarded \in 0 .. 1

(* No accepted job is lost inside a running daemon: each is in the queue,  *)
(* in the hands of the worker or finished, and one at most was given up,   *)
(* after Close and by a worker that takes no other.                        *)
Conservation ==
  /\ Len(accepted) = Len(ch) + (IF hand = NoJob THEN 0 ELSE 1)
                     + (IF job = NoJob THEN 0 ELSE 1) + settled + discarded
  /\ discarded > 0 => closed /\ worker = "returned"

(* The worker enriches only after the backend was decided, and the         *)
(* decision is not taken back under it, however often the sidecar dies.    *)
ProcessBehindGate == worker = "process" => Gate

(* Seen from those that ask for enrichments, the daemon is the server of   *)
(* EnrichServer.tla: one FIFO of distinct keys and one job in work at a    *)
(* time, none finished before the gate opens, none given up but that which *)
(* was seen to wait at a shut gate, and none taken up or finished after    *)
(* it.  A job waits until Next has forgotten its key.                      *)
Server == INSTANCE EnrichServer WITH
            Limit <- Q!Capacity + 1, waiting <- Q!Pending, shut <- closed,
            current <- job, finished <- settled, decided <- Gate,
            held <- (worker = "wait"), stopped <- (worker = "returned")

ServerSpec == Server!Spec

(* Every accepted job is finished with unless the daemon is told to stop:  *)
(* neither a failed download nor a sidecar that hangs or keeps crashing    *)
(* holds the queue for ever.                                               *)
AcceptedIsSettled ==
  \A n \in 1 .. MaxAccepted :
    Len(accepted) >= n ~> (settled >= n \/ ctxDone \/ server = "failed")

(* A signal ends the process. *)
SignalEndsProcess == ctxDone ~> exited

(* supervisor.go:22: "When ctx is cancelled the child is killed": no       *)
(* running sidecar outlives a daemon that ended by a signal.               *)
SidecarDiesWithDaemon ==
  exited /\ server = "closing" => \A g \in S!Attempts : procs[g] # "running"
=============================================================================
