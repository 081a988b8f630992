----------------------------- MODULE Supervisor -----------------------------
(***************************************************************************)
(* The supervisor goroutine of the ML sidecar                              *)
(* (internal/agent/daemon/supervisor.go), its child processes and the      *)
(* context that cancels it.                                                *)
(*                                                                         *)
(* Every spawn attempt has a number; procs holds the state of the process  *)
(* each attempt created.  A child stays "running" until it exits by itself *)
(* or is sent SIGKILL ("killed"); it becomes "exited" when Wait can        *)
(* return, and "reaped" when the supervisor has received from waitCh.      *)
(* A select with several ready cases may take any of them.                 *)
(***************************************************************************)
EXTENDS Integers, FiniteSets

CONSTANT MaxRestarts   (* maxRestarts *)

ASSUME RestartsAssumption == MaxRestarts \in Nat

VARIABLES ctxDone,   (* the context has been cancelled                     *)
          pc,        (* where Start is                                     *)
          attempts,  (* how many times spawn was called                    *)
          cur,       (* the attempt whose process is s.cmd, 0 before any   *)
          procs,     (* the state of the process of each attempt           *)
          late,      (* readyDeadline has passed                           *)
          restarts,
          ready,
          fellBack

supVars == <<ctxDone, pc, attempts, cur, procs, late, restarts, ready, fellBack>>

Attempts == 1 .. MaxRestarts + 1

(* Start: spawn..cmd.Start; polling; healthy; the restart decision; the    *)
(* backoff wait; the blocking receive from waitCh after a kill; returned.  *)
Places == {"spawn", "poll", "watch", "decide", "backoff",
           "reapCancelled", "reapTimeout", "returned"}

Live(g) == procs[g] \in {"running", "killed"}
-----------------------------------------------------------------------------
Init ==
  /\ ctxDone = FALSE
  /\ pc = "spawn"
  /\ attempts = 0
  /\ cur = 0
  /\ procs = [g \in Attempts |-> "none"]
  /\ late = FALSE
  /\ restarts = 0
  /\ ready = FALSE
  /\ fellBack = FALSE

(* The process starts.  Its command was made by exec.CommandContext, whose *)
(* Start refuses a cancelled context.                                      *)
SpawnChild ==
  /\ pc = "spawn"
  /\ ~ctxDone
  /\ attempts' = attempts + 1
  /\ cur' = attempts + 1
  /\ procs' = [procs EXCEPT ![attempts + 1] = "running"]
  /\ late' = FALSE
  /\ pc' = "poll"
  /\ UNCHANGED <<ctxDone, restarts, ready, fellBack>>

(* spawn or cmd.Start fails: fall back at once. *)
SpawnFailsSilently ==
  /\ pc = "spawn"
  /\ attempts' = attempts + 1
  /\ pc' = "returned"
  /\ UNCHANGED <<ctxDone, cur, procs, late, restarts, ready, fellBack>>

SpawnFails ==
  /\ pc = "spawn"
  /\ attempts' = attempts + 1
  /\ fellBack' = TRUE
  /\ pc' = "returned"
  /\ UNCHANGED <<ctxDone, cur, procs, late, restarts, ready>>

(* killChild: SIGKILL to s.cmd, without effect on a process that is gone. *)
Signalled == [procs EXCEPT ![cur] = IF @ = "running" THEN "killed" ELSE @]

(* ctx.Done wins the select of the poll loop or of the healthy phase. *)
StopWithoutReap ==
  /\ pc \in {"poll", "watch"}
  /\ ctxDone
  /\ procs' = Signalled
  /\ pc' = "returned"
  /\ UNCHANGED <<ctxDone, attempts, cur, late, restarts, ready, fellBack>>

StopOnCancel ==
  /\ pc \in {"poll", "watch"}
  /\ ctxDone
  /\ procs' = Signalled
  /\ pc' = "reapCancelled"
  /\ UNCHANGED <<ctxDone, attempts, cur, late, restarts, ready, fellBack>>

(* waitCh wins: the child is gone, before or after it became ready. *)
SeeExit ==
  /\ pc \in {"poll", "watch"}
  /\ procs[cur] = "exited"
  /\ procs' = [procs EXCEPT ![cur] = "reaped"]
  /\ pc' = "decide"
  /\ UNCHANGED <<ctxDone, attempts, cur, late, restarts, ready, fellBack>>

(* A tick whose health call succeeds. *)
TickHealthy ==
  /\ pc = "poll"
  /\ Live(cur)
  /\ ready' = TRUE
  /\ pc' = "watch"
  /\ UNCHANGED <<ctxDone, attempts, cur, procs, late, restarts, fellBack>>

(* A tick after the deadline whose health call fails; an earlier one       *)
(* changes nothing.                                                        *)
TickRetrySpawn ==
  /\ pc = "poll"
  /\ late
  /\ procs' = Signalled
  /\ pc' = "decide"
  /\ UNCHANGED <<ctxDone, attempts, cur, late, restarts, ready, fellBack>>

TickTimeout ==
  /\ pc = "poll"
  /\ late
  /\ procs' = Signalled
  /\ pc' = "reapTimeout"
  /\ UNCHANGED <<ctxDone, attempts, cur, late, restarts, ready, fellBack>>

(* The receive from waitCh after a kill. *)
Reap ==
  /\ pc \in {"reapCancelled", "reapTimeout"}
  /\ procs[cur] = "exited"
  /\ procs' = [procs EXCEPT ![cur] = "reaped"]
  /\ fellBack' = (fellBack \/ pc = "reapTimeout")
  /\ pc' = "returned"
  /\ UNCHANGED <<ctxDone, attempts, cur, late, restarts, ready>>

(* The restart budget: the count is never reset, not even by a child that  *)
(* became ready.                                                           *)
BudgetSpent == restarts + 1 > MaxRestarts

Decide ==
  /\ pc = "decide"
  /\ IF ctxDone
     THEN pc' = "returned" /\ UNCHANGED <<restarts, fellBack>>
     ELSE /\ restarts' = restarts + 1
          /\ fellBack' = (fellBack \/ BudgetSpent)
          /\ pc' = IF BudgetSpent THEN "returned" ELSE "backoff"
  /\ UNCHANGED <<ctxDone, attempts, cur, procs, late, ready>>

(* The backoff select: cancelled, or the timer fires (perhaps both). *)
BackoffCancelled ==
  /\ pc = "backoff"
  /\ ctxDone
  /\ pc' = "returned"
  /\ UNCHANGED <<ctxDone, attempts, cur, procs, late, restarts, ready, fellBack>>

BackoffOver ==
  /\ pc = "backoff"
  /\ pc' = "spawn"
  /\ UNCHANGED <<ctxDone, attempts, cur, procs, late, restarts, ready, fellBack>>

(* The environment: cancellation, the passing of readyDeadline, children.  *)
Cancel ==
  /\ ~ctxDone
  /\ ctxDone' = TRUE
  /\ UNCHANGED <<pc, attempts, cur, procs, late, restarts, ready, fellBack>>

DeadlinePasses ==
  /\ pc = "poll"
  /\ ~late
  /\ late' = TRUE
  /\ UNCHANGED <<ctxDone, pc, attempts, cur, procs, restarts, ready, fellBack>>

ChildExits(g) ==
  /\ Live(g)
  /\ procs' = [procs EXCEPT ![g] = "exited"]
  /\ UNCHANGED <<ctxDone, pc, attempts, cur, late, restarts, ready, fellBack>>

(* exec.CommandContext kills the process of a cancelled context. *)
ContextKills(g) ==
  /\ ctxDone
  /\ procs[g] = "running"
  /\ procs' = [procs EXCEPT ![g] = "killed"]
  /\ UNCHANGED <<ctxDone, pc, attempts, cur, late, restarts, ready, fellBack>>

(* The steps of Start that need nobody's favour. *)
Proceed ==
  \/ SpawnChild
  \/ SpawnFails
  \/ StopOnCancel
  \/ SeeExit
  \/ TickTimeout
  \/ Reap
  \/ Decide
  \/ BackoffCancelled
  \/ BackoffOver

ChildStep == \E g \in Attempts : ChildExits(g) \/ ContextKills(g)

Next ==
  \/ Proceed
  \/ TickHealthy
  \/ DeadlinePasses
  \/ Cancel
  \/ ChildStep

Spec == Init /\ [][Next]_supVars

KilledChildExits == \E g \in Attempts : procs[g] = "killed" /\ ChildExits(g)

-----------------------------------------------------------------------------
TypeOK ==
  /\ ctxDone \in BOOLEAN
  /\ pc \in Places
  /\ attempts \in 0 .. MaxRestarts + 1
  /\ cur \in 0 .. MaxRestarts + 1
  /\ procs \in [Attempts -> {"none", "running", "killed", "exited", "reaped"}]
  /\ late \in BOOLEAN
  /\ restarts \in 0 .. MaxRestarts + 1
  /\ ready \in BOOLEAN
  /\ fellBack \in BOOLEAN

(* Two sidecars never run side by side on the one port: a child is spawned *)
(* only after its predecessor was reaped.                                  *)
OneChild == \A g, h \in Attempts : Live(g) /\ Live(h) => g = h

(* Start never returns with a sidecar still running, on no exit path:      *)
(* cancel, timeout, budget, spawn error.                                   *)
NoOrphan == pc = "returned" => \A g \in Attempts : ~Live(g)

(* A supervisor that stopped by itself told the worker so: the gate of the *)
(* daemon is not left shut.                                                *)
StopOpensGate == pc = "returned" => ready \/ fellBack \/ ctxDone
=============================================================================
