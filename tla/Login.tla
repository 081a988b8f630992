-------------------------------- MODULE Login --------------------------------
(***************************************************************************)
(* keld login and logout: the device flow against Atlas                    *)
(* (internal/auth/device.go, internal/api/client.go) and the one file of   *)
(* credentials, ~/.keld/auth.json (internal/auth/store.go).                *)
(*                                                                         *)
(* Commands run in several terminals at once and share nothing but the     *)
(* file.  A command that needs a login (keld login, keld signal setup)     *)
(* loads the file, asks Atlas for a device code, and polls until the code  *)
(* is approved in a browser, something fails, or the time it has counted   *)
(* exceeds the lifetime of the code.                                       *)
(***************************************************************************)
EXTENDS Integers, FiniteSets

CONSTANTS Terminals,
          Lifetimes,     (* expires_in as Atlas may answer it              *)
          MaxInterval,   (* interval is answered as one of 0 .. MaxInterval*)
          MaxAge,        (* bound: a code that old grows no older          *)
          MaxCommands,   (* bound: commands run                            *)
          MaxKills       (* bound: commands killed                         *)

ASSUME LoginAssumption ==
  /\ Lifetimes \subseteq Nat
  /\ MaxInterval \in Nat
  /\ MaxAge \in Nat
  /\ \A l \in Lifetimes : MaxAge > l

VARIABLES file,       (* auth.json: absent, empty, whole, or torn          *)
          open,       (* terminals with auth.json open for writing         *)
          pc,         (* idle, start, loop, poll, pending, sleep, save,    *)
                      (* fill                                              *)
          interval, lifetime,  (* what DeviceStart answered                *)
          waited,     (* the seconds counted                               *)
          left        (* the seconds left of the sleep                     *)

VARIABLES age,        (* external: the seconds since Atlas made the code   *)
          approvedAt  (* external: its age when it was approved, or Never  *)

VARIABLES spoiled,    (* history: a Save was killed or met another one     *)
          commands, kills

store == <<file, open, spoiled>>
flow == <<interval, lifetime, waited, left, age, approvedAt>>
vars == <<store, pc, flow, commands, kills>>

Never == -1
Unreadable == {"empty", "torn"}
-----------------------------------------------------------------------------
Init ==
  /\ file = "absent"
  /\ open = {}
  /\ pc = [t \in Terminals |-> "idle"]
  /\ interval = [t \in Terminals |-> 0]
  /\ lifetime = [t \in Terminals |-> 0]
  /\ waited = [t \in Terminals |-> 0]
  /\ left = [t \in Terminals |-> 0]
  /\ age = [t \in Terminals |-> 0]
  /\ approvedAt = [t \in Terminals |-> Never]
  /\ spoiled = FALSE
  /\ commands = 0
  /\ kills = 0

Command(t) ==
  /\ pc[t] = "idle"
  /\ commands < MaxCommands
  /\ commands' = commands + 1

(* With the command its variables are gone. *)
Returns(t) ==
  /\ pc' = [pc EXCEPT ![t] = "idle"]
  /\ interval' = [interval EXCEPT ![t] = 0]
  /\ lifetime' = [lifetime EXCEPT ![t] = 0]
  /\ waited' = [waited EXCEPT ![t] = 0]
  /\ left' = [left EXCEPT ![t] = 0]
  /\ age' = [age EXCEPT ![t] = 0]
  /\ approvedAt' = [approvedAt EXCEPT ![t] = Never]

GoesTo(t, at) == pc' = [pc EXCEPT ![t] = at]

(* RequireAuth: credentials on file are returned, whatever server they are *)
(* from; a file that does not parse is an error, and so is none with       *)
(* --no-login.                                                             *)
RequireAuth(t, noLogin) ==
  /\ Command(t)
  /\ \/ (file # "absent" \/ noLogin) /\ Returns(t)
     \/ file = "absent" /\ ~noLogin /\ GoesTo(t, "start") /\ UNCHANGED flow
  /\ UNCHANGED <<store, kills>>

(* DeviceStart: an error ends the login, an answer begins its loop. *)
DeviceStart(t) ==
  /\ pc[t] = "start"
  /\ \/ Returns(t)
     \/ \E i \in 0 .. MaxInterval, l \in Lifetimes :
          /\ interval' = [interval EXCEPT ![t] = i]
          /\ lifetime' = [lifetime EXCEPT ![t] = l]
          /\ GoesTo(t, "loop")
          /\ UNCHANGED <<waited, left, age, approvedAt>>
  /\ UNCHANGED <<store, commands, kills>>

(* The condition of the loop: one more poll, or a timeout. *)
TimeLeftBelow(t) == waited[t] < lifetime[t]
TimeLeft(t) == waited[t] <= lifetime[t]

Loop(t) ==
  /\ pc[t] = "loop"
  /\ \/ TimeLeft(t) /\ GoesTo(t, "poll") /\ UNCHANGED flow
     \/ ~TimeLeft(t) /\ Returns(t)
  /\ UNCHANGED <<store, commands, kills>>

(* Atlas answers 202 while the code is not approved; it may be approved    *)
(* while that answer is on its way.                                        *)
AnswersPending(t) ==
  /\ pc[t] = "poll"
  /\ approvedAt[t] = Never
  /\ GoesTo(t, "pending")
  /\ UNCHANGED <<store, flow, commands, kills>>

(* DevicePoll returns: pending; its credentials; or an error, which ends   *)
(* the login, an incomplete answer and a code that has expired among them. *)
DevicePoll(t) ==
  /\ \/ /\ pc[t] = "pending"
        /\ left' = [left EXCEPT ![t] = interval[t]]
        /\ GoesTo(t, "sleep")
        /\ UNCHANGED <<interval, lifetime, waited, age, approvedAt>>
     \/ /\ pc[t] = "poll" /\ approvedAt[t] # Never
        /\ GoesTo(t, "save")
        /\ UNCHANGED flow
     \/ /\ pc[t] \in {"poll", "pending"}
        /\ Returns(t)
  /\ UNCHANGED <<store, commands, kills>>

(* After the sleep an interval is counted, of a second at least. *)
IntervalAsGiven(t) == interval[t]
Counted(t) == IF interval[t] < 1 THEN 1 ELSE interval[t]

Wake(t) ==
  /\ pc[t] = "sleep"
  /\ left[t] = 0
  /\ waited' = [waited EXCEPT ![t] = @ + Counted(t)]
  /\ GoesTo(t, "loop")
  /\ UNCHANGED <<store, interval, lifetime, left, age, approvedAt, commands, kills>>

(* os.WriteFile opens and truncates the file, and then fills it from its   *)
(* beginning: over what another Save has put there meanwhile the end of a  *)
(* longer text stays.                                                      *)
Untouched == IF file = "absent" THEN "empty" ELSE file
Opened == "empty"

SaveOpens(t) ==
  /\ pc[t] = "save"
  /\ file' = Opened
  /\ open' = open \cup {t}
  /\ spoiled' = (spoiled \/ open # {})
  /\ GoesTo(t, "fill")
  /\ UNCHANGED <<flow, commands, kills>>

SaveFills(t) ==
  /\ pc[t] = "fill"
  /\ \/ t \in open /\ file' = "whole"
     \/ t \in open /\ file # "empty" /\ file' = "torn"
     \/ t \notin open /\ UNCHANGED file
  /\ open' = open \ {t}
  /\ Returns(t)
  /\ UNCHANGED <<spoiled, commands, kills>>

(* The file cannot be opened, or not be filled: the disk is full, say. *)
SaveFails(t) ==
  /\ pc[t] \in {"save", "fill"}
  /\ open' = open \ {t}
  /\ spoiled' = (spoiled \/ t \in open)
  /\ Returns(t)
  /\ UNCHANGED <<file, commands, kills>>

(* Clear removes the file; who has it open writes to a file without name.  *)
Logout(t) ==
  /\ Command(t)
  /\ file' = "absent"
  /\ open' = {}
  /\ Returns(t)
  /\ UNCHANGED <<spoiled, kills>>
-----------------------------------------------------------------------------
Kill(t) ==
  /\ pc[t] # "idle"
  /\ kills < MaxKills
  /\ kills' = kills + 1
  /\ open' = open \ {t}
  /\ spoiled' = (spoiled \/ t \in open)
  /\ Returns(t)
  /\ UNCHANGED <<file, commands>>

(* The user approves the code in a browser while it lives. *)
Approve(t) ==
  /\ pc[t] \in {"loop", "poll", "pending", "sleep"}
  /\ approvedAt[t] = Never
  /\ age[t] <= lifetime[t]
  /\ approvedAt' = [approvedAt EXCEPT ![t] = age[t]]
  /\ UNCHANGED <<store, pc, interval, lifetime, waited, left, age, commands, kills>>

(* A second passes, in a sleep or while a request is under way. *)
Older(t) == [age EXCEPT ![t] = IF @ < MaxAge THEN @ + 1 ELSE @]

SleepPasses(t) ==
  /\ pc[t] = "sleep"
  /\ left[t] > 0
  /\ left' = [left EXCEPT ![t] = @ - 1]
  /\ age' = Older(t)
  /\ UNCHANGED <<store, pc, interval, lifetime, waited, approvedAt, commands, kills>>

PollPasses(t) ==
  /\ pc[t] \in {"poll", "pending"}
  /\ age[t] < MaxAge
  /\ age' = Older(t)
  /\ UNCHANGED <<store, pc, interval, lifetime, waited, left, approvedAt, commands, kills>>

LoginStep(t) ==
  \/ DeviceStart(t) \/ Loop(t) \/ AnswersPending(t) \/ DevicePoll(t) \/ Wake(t)
  \/ SaveOpens(t) \/ SaveFills(t) \/ SaveFails(t) \/ SleepPasses(t)

Next ==
  \E t \in Terminals :
    \/ \E noLogin \in BOOLEAN : RequireAuth(t, noLogin)
    \/ LoginStep(t)
    \/ Logout(t) \/ Kill(t) \/ Approve(t) \/ PollPasses(t)

Spec == Init /\ [][Next]_vars

(* A command that runs goes on; requests end (http.Client has a timeout of *)
(* 30 seconds); time passes.  Nobody has to approve anything.              *)
FairSpec == Spec /\ \A t \in Terminals : WF_vars(LoginStep(t))
-----------------------------------------------------------------------------
TypeOK ==
  /\ file \in {"absent", "empty", "whole", "torn"}
  /\ open \subseteq {t \in Terminals : pc[t] = "fill"}
  /\ pc \in [Terminals -> {"idle", "start", "loop", "poll", "pending", "sleep", "save", "fill"}]
  /\ interval \in [Terminals -> 0 .. MaxInterval]
  /\ lifetime \in [Terminals -> Lifetimes \cup {0}]
  /\ waited \in [Terminals -> Nat]
  /\ left \in [Terminals -> 0 .. MaxInterval]
  /\ age \in [Terminals -> 0 .. MaxAge]
  /\ approvedAt \in [Terminals -> Never .. MaxAge]
  /\ spoiled \in BOOLEAN
  /\ commands \in Nat /\ kills \in Nat

(* auth.json, which no command but logout repairs, does not parse only     *)
(* while a Save is under way, or after one that failed, was killed or ran  *)
(* into another one.                                                       *)
SavedWhole == file \in Unreadable /\ open = {} => spoiled

(* A login never times out on a user who approved the code in good time:   *)
(* an interval before it expired, at the latest.  (An interval of 0 is     *)
(* counted but not slept: the code may then be given up at once.)          *)
TimeoutIsFair ==
  [][\A t \in Terminals :
       pc[t] = "loop" /\ pc'[t] = "idle" /\ kills' = kills /\ interval[t] >= 1 =>
         approvedAt[t] = Never \/ approvedAt[t] > lifetime[t] - interval[t]]_vars

(* Every command ends, whatever Atlas answers and whether or not anybody   *)
(* approves the code.                                                      *)
LoginEnds == \A t \in Terminals : pc[t] # "idle" ~> pc[t] = "idle"
=============================================================================
