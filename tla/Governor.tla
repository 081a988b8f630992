------------------------------ MODULE Governor ------------------------------
(***************************************************************************)
(* The host-load governor of the sidecar (sidecar/app/governor.py): how    *)
(* long the consumer of the runner pauses before a model invocation.       *)
(*                                                                         *)
(* Loads and times are small integers.  The average is some value between  *)
(* the one before and the sample.  Of the clock only the time since the    *)
(* last start matters, up to the longest interval there is; before the     *)
(* first start that long has passed.                                       *)
(***************************************************************************)
EXTENDS Integers

CONSTANTS Low, High,      (* KELD_GOV_LOW, KELD_GOV_HIGH                   *)
          MaxLoad,        (* bound: the highest load                       *)
          MaxInterval     (* KELD_GOV_MAX_INTERVAL_MS                      *)

ASSUME GovernorAssumption ==
  /\ Low \in Int /\ High \in Int
  /\ MaxLoad \in Nat /\ MaxInterval \in Nat

VARIABLES disabled,   (* KELD_GOV_DISABLED                                 *)
          load,       (* _ewma                                             *)
          since,      (* the time since _last_start                        *)
          wait,       (* what is left of the sleep in await_slot           *)
          gap,        (* history: the time since the last start            *)
          calmest     (* history: the least average since the last start   *)

governorVars == <<disabled, load, since, wait, gap, calmest>>

Loads == 0 .. MaxLoad
Least(a, b) == IF a <= b THEN a ELSE b
Most(a, b) == IF a <= b THEN b ELSE a
-----------------------------------------------------------------------------
GovernorInit ==
  /\ disabled \in BOOLEAN
  /\ load = 0
  /\ since = MaxInterval
  /\ wait = 0
  /\ gap = MaxInterval
  /\ calmest = 0

IntervalFor(l) ==
  IF l <= Low THEN 0
  ELSE IF l >= High THEN MaxInterval
  ELSE ((l - Low) * MaxInterval) \div (High - Low)

(* observe *)
Observe ==
  /\ \E sample \in Loads : load' \in Least(load, sample) .. Most(load, sample)
  /\ calmest' = Least(calmest, load')
  /\ UNCHANGED <<disabled, since, wait, gap>>

(* await_slot, up to its sleep: the wait is fixed by the average of this   *)
(* moment.                                                                 *)
AskSlot ==
  /\ wait' = IF disabled THEN 0 ELSE Most(0, IntervalFor(load) - since)
  /\ UNCHANGED <<disabled, load, since, gap, calmest>>

(* ... and after it: this is the start the next wait counts from.          *)
Starts ==
  /\ wait = 0
  /\ gap' = 0
  /\ calmest' = load
  /\ UNCHANGED <<disabled, load, wait>>

TakeSlotUnstamped == Starts /\ UNCHANGED since
TakeSlot == Starts /\ since' = IF disabled THEN since ELSE 0

(* The sleep is cancelled. *)
DropSlot ==
  /\ wait' = 0
  /\ UNCHANGED <<disabled, load, since, gap, calmest>>

(* Time passes. *)
Elapse ==
  /\ since' = Least(since + 1, MaxInterval)
  /\ wait' = Most(wait - 1, 0)
  /\ gap' = Least(gap + 1, MaxInterval)
  /\ UNCHANGED <<disabled, load, calmest>>
-----------------------------------------------------------------------------
GovernorTypeOK ==
  /\ disabled \in BOOLEAN
  /\ load \in Loads
  /\ since \in 0 .. MaxInterval
  /\ wait \in 0 .. MaxInterval
  /\ gap \in 0 .. MaxInterval
  /\ calmest \in Loads
=============================================================================
