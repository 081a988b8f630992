--------------------------- MODULE InferenceRunner ---------------------------
(***************************************************************************)
(* The sidecar's background inference runner (sidecar/app/runner.py): the  *)
(* request handlers submit to a bounded queue, one consumer task takes the *)
(* entries one at a time, waits for its slot, has the single thread of the *)
(* executor run the model, and resolves the future its caller awaits.      *)
(*                                                                         *)
(* All tasks share one event loop, so what lies between two awaits is one  *)
(* step; only the thread of the executor runs beside it.  A cancelled task *)
(* takes no further step but the one that raises CancelledError in it.     *)
(* The pause before each model call is the governor's (Governor.tla).      *)
(***************************************************************************)
EXTENDS Governor, Sequences, FiniteSets, Functions

CONSTANTS MaxCalls,   (* bound: the calls of submit                        *)
          QueueMax    (* queue_max; 0 means no bound to asyncio.Queue      *)

ASSUME RunnerAssumption ==
  /\ MaxCalls \in Nat
  /\ QueueMax \in Nat

(* The calls of submit, numbered in the order in which they are made. *)
Callers == 1 .. MaxCalls
NoCaller == 0

VARIABLES queue,      (* the callers whose entries are in the queue        *)
          call,       (* what became of each call of submit                *)
          consumer,   (* at queue.get, await_slot, run_in_executor; ended  *)
          item,       (* the entry the consumer has taken                  *)
          thread,     (* the executor: idle, pending, running, done, raised*)
          stopped,    (* _stopped; set together with the cancel            *)
          down        (* stop has returned                                 *)

VARIABLES accepted,   (* history: the accepted calls, in order             *)
          started     (* history: the calls handed to the executor         *)

runnerVars == <<queue, call, consumer, item, thread, stopped, down, accepted, started>>
vars == <<runnerVars, governorVars>>
-----------------------------------------------------------------------------
(* After start(). *)
Init ==
  /\ GovernorInit
  /\ queue = <<>>
  /\ call = [c \in Callers |-> "new"]
  /\ consumer = "get"
  /\ item = NoCaller
  /\ thread = "idle"
  /\ stopped = FALSE
  /\ down = FALSE
  /\ accepted = <<>>
  /\ started = <<>>

(* The next call to be made. *)
Calls(c) == /\ call[c] = "new"
            /\ \A b \in 1 .. c - 1 : call[b] # "new"

FullByOneMore == QueueMax > 0 /\ Len(queue) > QueueMax
Full == QueueMax > 0 /\ Len(queue) >= QueueMax

(* submit raises QueueFull, also once the runner is being stopped. *)
Refuse(c) ==
  /\ Calls(c)
  /\ stopped \/ Full
  /\ call' = [call EXCEPT ![c] = "refused"]
  /\ UNCHANGED <<queue, consumer, item, thread, stopped, down, accepted, started, governorVars>>

(* submit puts its entry and awaits the future. *)
Submit(c) ==
  /\ Calls(c)
  /\ ~stopped
  /\ ~Full
  /\ queue' = Append(queue, c)
  /\ call' = [call EXCEPT ![c] = "waiting"]
  /\ accepted' = Append(accepted, c)
  /\ UNCHANGED <<consumer, item, thread, stopped, down, started, governorVars>>

(* The task of the caller is cancelled, and its future with it. *)
CallerCancelled(c) ==
  /\ call[c] = "waiting"
  /\ call' = [call EXCEPT ![c] = "cancelled"]
  /\ UNCHANGED <<queue, consumer, item, thread, stopped, down, accepted, started, governorVars>>

TakeOldest ==
  /\ item' = Head(queue)
  /\ queue' = Tail(queue)

(* _run: queue.get returns, and await_slot is called at once. *)
GetBesideRunning ==
  /\ consumer \in {"get", "exec"}
  /\ ~stopped
  /\ queue # <<>>
  /\ TakeOldest
  /\ consumer' = "slot"
  /\ UNCHANGED <<call, thread, stopped, down, accepted, started>>
  /\ AskSlot

Get ==
  /\ consumer = "get"
  /\ ~stopped
  /\ queue # <<>>
  /\ TakeOldest
  /\ consumer' = "slot"
  /\ UNCHANGED <<call, thread, stopped, down, accepted, started>>
  /\ AskSlot

(* await_slot returns, after the governor's pause if there is one; the     *)
(* call is handed to the executor.                                         *)
SlotGranted ==
  /\ consumer = "slot"
  /\ ~stopped
  /\ consumer' = "exec"
  /\ thread' = "pending"
  /\ started' = Append(started, item)
  /\ UNCHANGED <<queue, call, item, stopped, down, accepted>>
  /\ TakeSlot

(* The thread of the executor; the model call returns or raises. *)
ThreadStarts ==
  /\ thread = "pending"
  /\ thread' = "running"
  /\ UNCHANGED <<queue, call, consumer, item, stopped, down, accepted, started, governorVars>>

ThreadEnds ==
  /\ thread = "running"
  /\ thread' \in {"done", "raised"}
  /\ UNCHANGED <<queue, call, consumer, item, stopped, down, accepted, started, governorVars>>

(* run_in_executor returns or raises.  The future is resolved unless its   *)
(* caller cancelled it, and the consumer goes on in every case.            *)
ConsumerAfterUncaught == IF thread = "raised" THEN "ended" ELSE "get"
ConsumerAfter == "get"

Resolve ==
  /\ consumer = "exec"
  /\ ~stopped
  /\ thread \in {"done", "raised"}
  /\ call' = [call EXCEPT ![item] =
                IF @ = "cancelled" THEN @
                ELSE IF thread = "done" THEN "answered" ELSE "failed"]
  /\ consumer' = ConsumerAfter
  /\ thread' = "idle"
  /\ item' = NoCaller
  /\ UNCHANGED <<queue, stopped, down, accepted, started, governorVars>>

(* stop: refuse new calls, cancel the consumer and await it. *)
Stop ==
  /\ ~stopped
  /\ stopped' = TRUE
  /\ UNCHANGED <<queue, call, consumer, item, thread, down, accepted, started, governorVars>>

(* CancelledError in the consumer, which its "except Exception" does not   *)
(* catch.  A model call that has not started may be cancelled with it; one *)
(* that runs goes on.                                                      *)
ConsumerCancelled ==
  /\ stopped
  /\ consumer # "ended"
  /\ consumer' = "ended"
  /\ item' = NoCaller
  /\ thread' \in IF thread = "pending" THEN {"idle", "pending"} ELSE {thread}
  /\ UNCHANGED <<queue, call, stopped, down, accepted, started>>
  /\ DropSlot

(* The rest of stop: fail the queued calls, shut the executor down. *)
FailNobody == call
FailQueued ==
  [c \in Callers |-> IF c \in Range(queue) /\ call[c] = "waiting"
                     THEN "failed" ELSE call[c]]

StopDrains ==
  /\ stopped
  /\ consumer = "ended"
  /\ ~down
  /\ call' = FailQueued
  /\ queue' = <<>>
  /\ down' = TRUE
  /\ UNCHANGED <<consumer, item, thread, stopped, accepted, started, governorVars>>

(* The sampler task of the lifespan (main.py), which ends before the       *)
(* runner is stopped; and time.                                            *)
SampleLoop ==
  /\ ~stopped
  /\ Observe
  /\ UNCHANGED runnerVars

Tick == Elapse /\ UNCHANGED runnerVars

ConsumerStep == Get \/ SlotGranted \/ Resolve \/ ConsumerCancelled
ThreadStep == ThreadStarts \/ ThreadEnds

Next ==
  \/ \E c \in Callers : Refuse(c) \/ Submit(c) \/ CallerCancelled(c)
  \/ ConsumerStep
  \/ ThreadStep
  \/ Stop
  \/ StopDrains
  \/ SampleLoop
  \/ Tick

Spec == Init /\ [][Next]_vars

(* The event loop is fair to its tasks, time passes and a model call ends. *)
FairSpec ==
  /\ Spec
  /\ WF_vars(ConsumerStep)
  /\ WF_vars(ThreadStep)
  /\ WF_vars(StopDrains)
  /\ WF_vars(Tick)
-----------------------------------------------------------------------------
TypeOK ==
  /\ GovernorTypeOK
  /\ queue \in Seq(Callers)
  /\ QueueMax > 0 => Len(queue) <= QueueMax
  /\ call \in [Callers -> {"new", "refused", "waiting", "cancelled", "answered", "failed"}]
  /\ consumer \in {"get", "slot", "exec", "ended"}
  /\ item \in Callers \cup {NoCaller}
  /\ thread \in {"idle", "pending", "running", "done", "raised"}
  /\ stopped \in BOOLEAN /\ down \in BOOLEAN
  /\ accepted \in Seq(Callers)
  /\ started \in Seq(Callers)

(* Calls reach the model in the order of their submission, each at most    *)
(* once, and none is skipped: what was accepted is what was started, the   *)
(* entry that waits for its slot, and the queue, in this order.            *)
InOrderOnce ==
  ~down /\ ~(stopped /\ consumer = "ended") =>
    accepted = started \o (IF consumer = "slot" THEN <<item>> ELSE <<>>) \o queue

(* Backpressure bounds the callers that wait, not only the queue: one      *)
(* entry at most is outside of it.                                         *)
Backpressure ==
  QueueMax > 0 =>
    Cardinality({c \in Callers : call[c] = "waiting"}) <= QueueMax + 1

(* The governor's promise (governor.py:4-6): however the load moves while  *)
(* the consumer is at work, waits for an entry or pauses, two starts are   *)
(* apart by the interval of the calmest moment between them.               *)
Paced ==
  [][started' # started /\ started # <<>> /\ ~disabled
       => gap >= IntervalFor(calmest)]_vars

(* When stop has returned one caller at most still waits, the one whose    *)
(* entry the consumer had taken: all others were answered or failed.       *)
StopLeavesOneAtMost ==
  down => Cardinality({c \in Callers : call[c] = "waiting"}) <= 1

(* Seen from its callers the runner is the server of SerialCalls.tla: one  *)
(* line, one call in the model at a time, to each its own outcome, and     *)
(* when it is stopped one caller at most without any.  The entry that      *)
(* waits for its slot is still in the line, at its head.                   *)
Line == (IF consumer = "slot" THEN <<item>> ELSE <<>>) \o queue
Serial == INSTANCE SerialCalls WITH
            Limit <- IF QueueMax > 0 THEN QueueMax + 1 ELSE 0,
            line <- Line, running <- IF consumer = "exec" THEN item ELSE NoCaller,
            closed <- stopped, left <- (consumer = "ended")

SerialSpec == Serial!Spec

(* An accepted call is resolved unless the runner is stopped: a call that  *)
(* raises, or whose caller has gone, does not end the consumer.            *)
CallsEnd == \A c \in Callers : call[c] = "waiting" ~> (call[c] # "waiting" \/ stopped)
=============================================================================
