---------------------------- MODULE EnrichServer ----------------------------
(***************************************************************************)
(* What the daemon promises about the prompts it is asked to enrich,       *)
(* without handlers, locks, gate and processes: the jobs it has accepted   *)
(* wait as in DedupFifo.tla, one at a time is taken up, in order, and      *)
(* finished, which it is only once the backend is decided.  After the      *)
(* queue was shut the server works off what waits and then stops.  It may  *)
(* give up one job, held back because the backend was seen undecided after *)
(* the job was taken up (it may have been decided since), and then stops   *)
(* at once.  Daemon.tla is shown to implement it.                          *)
(***************************************************************************)
EXTENDS Integers, Sequences

CONSTANTS Jobs,      (* the jobs that may be asked for                     *)
          Key,       (* [Jobs -> keys], the deduplication key of a job     *)
          NoJob,     (* stands for "no job"                                *)
          Limit      (* how many jobs may wait at a time                   *)

VARIABLES waiting,   (* the accepted jobs not taken up yet, in order       *)
          shut,      (* TRUE once nothing is accepted any more             *)
          current,   (* the job in work                                    *)
          finished,  (* how many jobs were finished                        *)
          decided,   (* the backend was decided, for good                  *)
          held,      (* the job in work is held back                       *)
          stopped    (* the server takes up no job any more                *)

vars == <<waiting, shut, current, finished, decided, held, stopped>>

Backlog == INSTANCE DedupFifo WITH pending <- waiting

Init ==
  /\ Backlog!Init
  /\ current = NoJob
  /\ finished = 0
  /\ decided \in BOOLEAN
  /\ held = FALSE
  /\ stopped = FALSE

(* A prompt is accepted, whatever the worker does. *)
Accept(j) ==
  /\ Backlog!Accept(j)
  /\ UNCHANGED <<current, finished, decided, held, stopped>>

(* The oldest is taken up, one at a time. *)
TakeUp ==
  /\ ~stopped
  /\ current = NoJob
  /\ Backlog!Deliver
  /\ current' = Head(waiting)
  /\ UNCHANGED <<finished, decided, held, stopped>>

(* It is finished with: enriched and sent, or failed. *)
Finish ==
  /\ current # NoJob
  /\ ~held
  /\ decided
  /\ current' = NoJob
  /\ finished' = finished + 1
  /\ UNCHANGED <<waiting, shut, decided, held, stopped>>

(* The backend is undecided: the job has to wait, for the time being. *)
HoldBack ==
  /\ current # NoJob
  /\ ~decided
  /\ held' = TRUE
  /\ UNCHANGED <<waiting, shut, current, finished, decided, stopped>>

LookAgain ==
  /\ held' = FALSE
  /\ UNCHANGED <<waiting, shut, current, finished, decided, stopped>>

(* The job held back is given up, the last one. *)
GiveUp ==
  /\ held
  /\ shut
  /\ current' = NoJob
  /\ held' = FALSE
  /\ stopped' = TRUE
  /\ UNCHANGED <<waiting, shut, finished, decided>>

(* Nothing is left, and nothing can come. *)
Stop ==
  /\ current = NoJob
  /\ waiting = <<>>
  /\ shut
  /\ stopped' = TRUE
  /\ UNCHANGED <<waiting, shut, current, finished, decided, held>>

Decide ==
  /\ decided' = TRUE
  /\ UNCHANGED <<waiting, shut, current, finished, held, stopped>>

Shut ==
  /\ Backlog!Shut
  /\ UNCHANGED <<current, finished, decided, held, stopped>>

Next ==
  \/ \E j \in Jobs : Accept(j)
  \/ TakeUp \/ HoldBack \/ LookAgain \/ Finish \/ GiveUp \/ Stop
  \/ Decide \/ Shut

Spec == Init /\ [][Next]_vars
=============================================================================
