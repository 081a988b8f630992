---------------------------- MODULE HookReporter ----------------------------
(***************************************************************************)
(* keld __hook, the process a tool starts on every event of a session      *)
(* (internal/hook/hook.go, forward.go), with the files it shares: hook.json *)
(* with setup and uninstall, agent.json with the daemon (Discovery.tla),   *)
(* and the signature of the session's last context with the other hooks.   *)
(*                                                                         *)
(* Hooks of one session overlap: nothing keeps two of them from running    *)
(* between each other's steps, and the tool may kill any of them.          *)
(* A context is what git and .keld.toml say of the working directory, as   *)
(* far as git answers in time.                                             *)
(***************************************************************************)
EXTENDS Discovery

CONSTANTS Hooks,      (* hook processes that may run at the same time      *)
          Contexts,
          None,       (* no context on file                                *)
          MaxRuns,    (* bound: how often the tool starts a hook           *)
          MaxKills,   (* bound: hooks killed                               *)
          MaxChanges  (* bound: changes of context or hook.json            *)

ASSUME HookAssumption ==
  /\ None \notin Contexts
  /\ MaxRuns \in Nat /\ MaxKills \in Nat /\ MaxChanges \in Nat
  /\ MaxDaemons \in Nat

VARIABLES pc,         (* idle; forward, hand, derive, compare, write, fill,*)
                      (* post                                              *)
          ctx,        (* the context a hook derived                        *)
          seen,       (* the daemon of the agent.json it read, 0 if none   *)
          runs, kills

VARIABLES context,    (* the context of the session now                    *)
          configured, (* hook.json has an endpoint and a token             *)
          sig,        (* the session's file in the state directory         *)
          changes

VARIABLES reported,   (* the context Atlas got last                        *)
          astray,     (* history: since the file was filled last, or beside*)
                      (* that, a POST failed, was cut short by a kill, or  *)
                      (* was of a context that is not on file              *)
          calm,       (* history: hooks that began when their context was  *)
                      (* on file and no hook was about to replace it       *)
          handed,     (* history: the daemon that took a hook's pointer;   *)
                      (* 0 before the hand-over, Slow or Unheard after     *)
          steady      (* history: hooks that began while a sole daemon     *)
                      (* served, and no daemon came or went since          *)

hookVars == <<pc, ctx, seen, runs, kills>>
fileVars == <<context, configured, sig, changes>>
handVars == <<handed, steady>>
outVars == <<reported, astray, calm>>
vars == <<hookVars, fileVars, outVars, handVars, discoveryVars>>

Slow == -1      (* 429, or no answer within half a second                  *)
Unheard == -2   (* no usable file, nobody at the port, or 401              *)
-----------------------------------------------------------------------------
Init ==
  /\ pc = [h \in Hooks |-> "idle"]
  /\ ctx = [h \in Hooks |-> None]
  /\ runs = 0 /\ kills = 0
  /\ context \in Contexts
  /\ configured \in BOOLEAN
  /\ sig = None
  /\ changes = 0
  /\ reported = None
  /\ astray = FALSE
  /\ calm = {}
  /\ seen = [h \in Hooks |-> 0]
  /\ handed = [h \in Hooks |-> 0]
  /\ steady = {}
  /\ DiscoveryInit

Goto(h, place) ==
  /\ pc' = [pc EXCEPT ![h] = place]
  /\ UNCHANGED <<runs, kills>>

(* What a hook derived ends with it; only the file outlives the process.   *)
Ends(h) ==
  /\ Goto(h, "idle")
  /\ ctx' = [ctx EXCEPT ![h] = None]
-----------------------------------------------------------------------------
(* Run, from LoadConfig to the answer of Atlas. *)

(* The tool starts a hook.  (Without endpoint and token, or with an input  *)
(* that names no session, it ends before it has done anything.)            *)
Begin(h) ==
  /\ pc[h] = "idle"
  /\ configured
  /\ runs < MaxRuns
  /\ runs' = runs + 1
  /\ pc' = [pc EXCEPT ![h] = "forward"]
  /\ calm' = IF sig = context
                /\ \A k \in Hooks : pc[k] \notin {"compare", "write", "fill"}
             THEN calm \cup {h} ELSE calm \ {h}
  /\ steady' = IF sole # 0 /\ state[sole] = "serving"
               THEN steady \cup {h} ELSE steady
  /\ UNCHANGED <<ctx, seen, kills, fileVars, reported, astray, handed, discoveryVars>>

(* forwardToAgent reads agent.json ... *)
ReadAgent(h) ==
  /\ pc[h] = "forward"
  /\ IF agentJson \in Daemons
     THEN /\ seen' = [seen EXCEPT ![h] = agentJson]
          /\ Goto(h, "hand")
          /\ UNCHANGED handed
     ELSE /\ handed' = [handed EXCEPT ![h] = Unheard]
          /\ Goto(h, "derive")
          /\ UNCHANGED seen
  /\ UNCHANGED <<ctx, fileVars, outVars, steady, discoveryVars>>

(* ... and, of an event without a prompt_id, hands over nothing, whatever  *)
(* it found; ...                                                           *)
NothingToHand(h) ==
  /\ pc[h] = "forward"
  /\ Goto(h, "derive")
  /\ UNCHANGED <<ctx, seen, fileVars, outVars, handVars, discoveryVars>>

(* ... else it sends the pointer to the port it found there, once.         *)
HandOver(h) ==
  /\ pc[h] = "hand"
  /\ \E answer \in IF Takes(seen[h]) = {} THEN {Unheard}
                    ELSE Takes(seen[h]) \cup {Slow} :
       handed' = [handed EXCEPT ![h] = answer]
  /\ Goto(h, "derive")
  /\ UNCHANGED <<ctx, seen, fileVars, outVars, steady, discoveryVars>>

(* Whatever came of it, the hook goes on: DeriveRepo and ReadAttributes.   *)
Derives(h, c) ==
  /\ pc[h] = "derive"
  /\ ctx' = [ctx EXCEPT ![h] = c]
  /\ seen' = [seen EXCEPT ![h] = 0]
  /\ handed' = [handed EXCEPT ![h] = 0]
  /\ steady' = steady \ {h}
  /\ Goto(h, "compare")
  /\ UNCHANGED <<fileVars, reported, astray, discoveryVars>>

Derive(h) == Derives(h, context) /\ UNCHANGED calm

(* A git that does not answer within two seconds is killed, and the repo   *)
(* is another one, or none: the hook goes on with another context.         *)
DeriveLate(h) ==
  /\ \E c \in Contexts \ {context} : Derives(h, c)
  /\ calm' = {}

(* ChangedSinceLast: a hook ends when its context is the one on file ...   *)
NeverUnchanged(h) == FALSE
Unchanged(h) == sig = ctx[h]

Compare(h) ==
  /\ pc[h] = "compare"
  /\ IF Unchanged(h) THEN Ends(h) ELSE Goto(h, "write") /\ UNCHANGED ctx
  /\ UNCHANGED <<fileVars, outVars, seen, handVars, discoveryVars>>

(* ... and puts it there otherwise; os.WriteFile truncates the file before *)
(* it fills it.                                                            *)
TruncateSig(h) ==
  /\ pc[h] = "write"
  /\ sig' = None
  /\ Goto(h, "fill")
  /\ UNCHANGED <<ctx, context, configured, changes, outVars, seen, handVars, discoveryVars>>

(* Whatever it replaces, the context is to be reported.                    *)
PostUnlessFirst(h) ==
  IF reported = None THEN Ends(h) ELSE Goto(h, "post") /\ UNCHANGED ctx
GoOnToPost(h) == Goto(h, "post") /\ UNCHANGED ctx

FillSig(h) ==
  /\ pc[h] = "fill"
  /\ sig' = ctx[h]
  /\ astray' = \E k \in Hooks : pc[k] = "post" /\ ctx[k] # ctx[h]
  /\ GoOnToPost(h)
  /\ UNCHANGED <<context, configured, changes, reported, calm, seen, handVars, discoveryVars>>

(* The file cannot be written, or is left empty: the context is reported   *)
(* all the same.                                                           *)
SigUnwritable(h) ==
  /\ pc[h] \in {"write", "fill"}
  /\ astray' = TRUE
  /\ GoOnToPost(h)
  /\ UNCHANGED <<fileVars, reported, calm, seen, handVars, discoveryVars>>

PostTaken(h) ==
  /\ pc[h] = "post"
  /\ reported' = ctx[h]
  /\ Ends(h)
  /\ UNCHANGED <<fileVars, astray, calm, seen, handVars, discoveryVars>>

(* No answer within three seconds (Atlas may have got the request), or a   *)
(* status of 400 and more: the hook says so on stderr and ends.            *)
PostFails(h) ==
  /\ pc[h] = "post"
  /\ reported' \in {reported, ctx[h]}
  /\ astray' = TRUE
  /\ Ends(h)
  /\ UNCHANGED <<fileVars, calm, seen, handVars, discoveryVars>>
-----------------------------------------------------------------------------
(* The surroundings. *)

(* The tool kills the hook: between the file and the request, too, or with *)
(* the request on its way.                                                 *)
Killed(h) ==
  /\ pc[h] # "idle"
  /\ kills < MaxKills
  /\ kills' = kills + 1
  /\ pc' = [pc EXCEPT ![h] = "idle"]
  /\ ctx' = [ctx EXCEPT ![h] = None]
  /\ seen' = [seen EXCEPT ![h] = 0]
  /\ handed' = [handed EXCEPT ![h] = 0]
  /\ steady' = steady \ {h}
  /\ reported' \in IF pc[h] = "post" THEN {reported, ctx[h]} ELSE {reported}
  /\ astray' = (astray \/ pc[h] = "post")
  /\ UNCHANGED <<runs, fileVars, calm, discoveryVars>>

(* Another directory, another remote or another .keld.toml.                *)
ContextChanges(c) ==
  /\ changes < MaxChanges
  /\ c # context
  /\ context' = c
  /\ changes' = changes + 1
  /\ calm' = {}
  /\ UNCHANGED <<hookVars, configured, sig, reported, astray, handVars, discoveryVars>>

(* Setup writes hook.json; uninstall removes it and the state directory: a *)
(* hook about to fill its file fills one without a name.                   *)
Configure ==
  /\ ~configured
  /\ changes < MaxChanges
  /\ configured' = TRUE
  /\ changes' = changes + 1
  /\ UNCHANGED <<hookVars, context, sig, outVars, handVars, discoveryVars>>

Unconfigure ==
  /\ configured
  /\ changes < MaxChanges
  /\ configured' = FALSE
  /\ sig' = None
  /\ pc' = [h \in Hooks |-> IF pc[h] = "fill" THEN "post" ELSE pc[h]]
  /\ changes' = changes + 1
  /\ calm' = {}
  /\ UNCHANGED <<ctx, seen, runs, kills, context, reported, astray,
                 handVars, discoveryVars>>

(* Daemons come, write the file, and go. *)
DaemonStep ==
  /\ \/ DaemonComesOrGoes /\ steady' = {}
     \/ DaemonWrites /\ UNCHANGED steady
  /\ UNCHANGED <<hookVars, fileVars, outVars, handed>>

HookStep(h) ==
  \/ ReadAgent(h) \/ NothingToHand(h) \/ HandOver(h)
  \/ Derive(h) \/ DeriveLate(h)
  \/ Compare(h) \/ TruncateSig(h) \/ FillSig(h) \/ SigUnwritable(h)
  \/ PostTaken(h) \/ PostFails(h)

Next ==
  \/ \E h \in Hooks : Begin(h) \/ HookStep(h) \/ Killed(h)
  \/ \E c \in Contexts : ContextChanges(c)
  \/ Configure \/ Unconfigure
  \/ DaemonStep

Spec == Init /\ [][Next]_vars

-----------------------------------------------------------------------------
TypeOK ==
  /\ pc \in [Hooks -> {"idle", "forward", "hand", "derive", "compare", "write", "fill", "post"}]
  /\ ctx \in [Hooks -> Contexts \cup {None}]
  /\ \A h \in Hooks : pc[h] \in {"compare", "write", "fill", "post"} <=> ctx[h] # None
  /\ runs \in 0 .. MaxRuns /\ kills \in 0 .. MaxKills
  /\ context \in Contexts
  /\ configured \in BOOLEAN
  /\ sig \in Contexts \cup {None}
  /\ changes \in 0 .. MaxChanges
  /\ reported \in Contexts \cup {None}
  /\ astray \in BOOLEAN
  /\ calm \subseteq Hooks
  /\ seen \in [Hooks -> Daemons \cup {0}]
  /\ \A h \in Hooks : pc[h] = "hand" => seen[h] # 0
  /\ handed \in [Hooks -> Daemons \cup {0, Slow, Unheard}]
  /\ steady \subseteq Hooks
  /\ DiscoveryTypeOK

(* hook.go:337: "differs from the last reported value".  The file is what  *)
(* the hooks know of it, but it is filled before the POST.  Still, what is *)
(* on file is what Atlas got last, or a hook is about to send it, however  *)
(* hooks overlapped before it was put there, changed their minds or could  *)
(* not write; unless, since then, a POST failed, a hook was killed before  *)
(* its POST was over, or one of another context was on its way beside it.  *)
SigIsReported ==
  sig # None /\ ~astray =>
    \/ sig = reported
    \/ \E h \in Hooks : pc[h] = "post" /\ ctx[h] = sig

(* A context is reported once: when it is on file and no other hook is     *)
(* about to replace it, hooks of the same context report nothing (as long  *)
(* as git answers in time).                                                *)
ReportedOnce == \A h \in calm : pc[h] # "post"

(* The file leads to the daemon that runs: the pointer of a hook that      *)
(* begins while a daemon serves which had no other beside it, and during   *)
(* which none comes or goes, goes to that daemon (which may be slow, or    *)
(* its queue full), whatever earlier daemons left in the file.             *)
SteadyIsHeard == \A h \in steady : handed[h] \in {0, Slow, sole}
=============================================================================
