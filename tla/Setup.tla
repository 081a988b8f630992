-------------------------------- MODULE Setup --------------------------------
(***************************************************************************)
(* keld signal setup and uninstall (internal/cli/setup.go, uninstall.go)   *)
(* over the files they change: the configuration of each tool, hook.json,  *)
(* the manifest that remembers what Keld configured, and the backups       *)
(* (internal/config, internal/tools).                                      *)
(*                                                                         *)
(* One command runs at a time.  It is a sequence of steps, because it      *)
(* waits for answers and writes one file after another: between two steps  *)
(* a user or a tool may edit a configuration, and a step may be the last   *)
(* one, for an error or a kill.                                            *)
(***************************************************************************)
EXTENDS Integers, FiniteSets

CONSTANTS Tools,        (* among claude_code, codex, gemini                *)
          MaxParams,    (* bound: sets of endpoint and token               *)
          MaxCommands,  (* bound: commands run                             *)
          MaxEdits,     (* bound: edits by others                          *)
          MaxBreaks     (* bound: commands that end in an error or a kill  *)

ASSUME SetupAssumption ==
  /\ Tools \subseteq {"claude_code", "codex", "gemini"}
  /\ MaxParams \in Nat \ {0}

VARIABLES config,     (* the configuration file of each tool               *)
          hook,       (* hook.json: Absent, Torn or its parameters         *)
          manifest,   (* how each tool is recorded in manifest.json        *)
          torn,       (* manifest.json is not readable                     *)
          backup,     (* the backup of each configuration                  *)
          params      (* what onboarding answers now                       *)

VARIABLES pc,         (* idle; plan, write of setup; remove of uninstall;  *)
                      (* save: the manifest is next                        *)
          command,    (* setup, uninstall; none                            *)
          ob,         (* the parameters this setup was given               *)
          todo,       (* tools still to plan, to write or to remove        *)
          plans,      (* the approved plans                                *)
          memory      (* the tools of the manifest in memory               *)

VARIABLES stale,      (* history: tools edited since this command read them*)
          commands, edits, breaks

files == <<config, hook, manifest, torn, backup>>
run == <<pc, command, ob, todo, plans, memory>>
counts == <<commands, edits, breaks>>
vars == <<files, params, run, stale, counts>>

(* What a configuration holds: things of the user, among them telemetry    *)
(* settings of their own, and Keld's part with the parameters it was       *)
(* written with.  A broken file does not parse; or, of Codex, it has       *)
(* tables of hooks that Keld's cannot be beside.                           *)
Contents == [there : BOOLEAN, own : BOOLEAN, telemetry : BOOLEAN,
             broken : BOOLEAN, keld : 0 .. MaxParams]
Nothing == [there |-> FALSE, own |-> FALSE, telemetry |-> FALSE,
            broken |-> FALSE, keld |-> 0]
EmptyFile == [Nothing EXCEPT !.there = TRUE]
IsEmpty(f) == ~f.own /\ ~f.telemetry /\ ~f.broken /\ f.keld = 0

Absent == 0
Torn == MaxParams + 1

(* A tool is recorded with managed["created"], true or false. *)
Recorded == {"no", "created", "merged"}
NoTools == [t \in Tools |-> "no"]
NoPlan == [after |-> Nothing, created |-> FALSE]
-----------------------------------------------------------------------------
Init ==
  /\ config \in [Tools -> {f \in Contents : f.keld = 0 /\ (f = Nothing \/ f.there)
                                            /\ (f.broken => f.own)}]
  /\ hook = Absent
  /\ manifest = NoTools
  /\ torn = FALSE
  /\ backup = [t \in Tools |-> Nothing]
  /\ params = 1
  /\ pc = "idle"
  /\ command = "none"
  /\ ob = 1
  /\ todo = {}
  /\ plans = [t \in Tools |-> NoPlan]
  /\ memory = NoTools
  /\ stale = {}
  /\ commands = 0 /\ edits = 0 /\ breaks = 0

(* Adapter.Apply reports a conflict: Claude Code's for a file that does    *)
(* not parse, Codex' also for an [otel] table or such tables of hooks of   *)
(* the user; Gemini's never.                                               *)
Conflict(t, f) ==
  \/ t = "claude_code" /\ f.broken
  \/ t = "codex" /\ (f.broken \/ f.telemetry)

(* The user's [otel] table can be cut out of a file that parses: not of a  *)
(* broken one, nor of one with Keld's [otel] beside it.                    *)
Replaceable(f) == ~f.broken /\ f.keld = 0

(* The text Apply makes: telemetry of the user gives way to Keld's; Gemini *)
(* starts over from a file that does not parse.                            *)
AppliedWith(f, p) ==
  [there |-> TRUE, own |-> f.own /\ ~f.broken, telemetry |-> FALSE,
   broken |-> FALSE, keld |-> p]
Applied(f) == AppliedWith(f, ob)

(* The text Adapter.Remove makes: Codex' block is cut out between its      *)
(* markers; the others give an empty text for a file that does not parse,  *)
(* and drop the telemetry keys whoever set them last.                      *)
RemovedBlock(f) == [f EXCEPT !.keld = 0]
RemovedKeys(f) == IF f.broken THEN EmptyFile ELSE [f EXCEPT !.keld = 0, !.telemetry = FALSE]

NothingLeft(t, f) == EmptyFile
Removed(t, f) ==
  IF ~f.there THEN EmptyFile
  ELSE IF t = "codex" THEN RemovedBlock(f) ELSE RemovedKeys(f)

Ends ==
  /\ pc' = "idle"
  /\ command' = "none"
  /\ todo' = {}
  /\ plans' = [t \in Tools |-> NoPlan]
  /\ memory' = NoTools
  /\ stale' = {}
  /\ UNCHANGED ob
-----------------------------------------------------------------------------
(* runSetup *)

SetupBegins(T) ==
  /\ pc = "idle"
  /\ commands < MaxCommands
  /\ T # {}
  /\ command' = "setup"
  /\ pc' = "plan"
  /\ ob' = params
  /\ todo' = T
  /\ commands' = commands + 1
  /\ UNCHANGED <<files, params, plans, memory, stale, edits, breaks>>

Approve(t) ==
  /\ plans' = [plans EXCEPT ![t] =
                 [after |-> Applied(config[t]), created |-> ~config[t].there]]
  /\ stale' = stale \ {t}

(* One turn of the planning loop: read the file and plan.  A conflict is   *)
(* skipped, or replaced where that is safe; an unchanged text is skipped,  *)
(* too, but a text may change with the same things in it, by its layout.   *)
PlanTool(t) ==
  /\ pc = "plan"
  /\ t \in todo
  /\ todo' = todo \ {t}
  /\ \/ /\ Conflict(t, config[t]) \/ Applied(config[t]) = config[t]
        /\ UNCHANGED <<plans, stale>>
     \/ /\ ~Conflict(t, config[t])
        /\ Approve(t)
     \/ /\ Conflict(t, config[t])
        /\ Replaceable(config[t])
        /\ Approve(t)
  /\ UNCHANGED <<files, params, pc, command, ob, memory, counts>>

(* The user aborts at a conflict. *)
PlanAborts ==
  /\ pc = "plan"
  /\ \E t \in todo : Conflict(t, config[t])
  /\ Ends
  /\ UNCHANGED <<files, params, counts>>

Approved == {t \in Tools : plans[t] # NoPlan}

(* A dry run, nothing approved, or no confirmation. *)
SetupDeclined ==
  /\ pc = "plan"
  /\ todo = {}
  /\ Ends
  /\ UNCHANGED <<files, params, counts>>

(* Confirmed: hook.json first, with a manifest of no tools in memory. *)
HookIfMissing == IF hook = Absent THEN ob ELSE hook
NewHook == ob

SaveHook ==
  /\ pc = "plan"
  /\ todo = {}
  /\ Approved # {}
  /\ hook' = NewHook
  /\ memory' = NoTools
  /\ todo' = Approved
  /\ pc' = "write"
  /\ UNCHANGED <<config, manifest, torn, backup, params, command, ob, plans, stale, counts>>

(* BackupConfig, unless there is a backup already. *)
BackedUp(t) == IF backup[t].there THEN backup ELSE [backup EXCEPT ![t] = config[t]]

(* The backup; WriteAtomic with the text planned; the record of the tool.  *)
WriteTool(t) ==
  /\ pc = "write"
  /\ t \in todo
  /\ backup' = BackedUp(t)
  /\ config' = [config EXCEPT ![t] = plans[t].after]
  /\ memory' = [memory EXCEPT ![t] = IF plans[t].created THEN "created" ELSE "merged"]
  /\ todo' = todo \ {t}
  /\ UNCHANGED <<hook, manifest, torn, params, pc, command, ob, plans, stale, counts>>

SetupWritten ==
  /\ pc = "write"
  /\ todo = {}
  /\ pc' = "save"
  /\ UNCHANGED <<files, params, command, ob, todo, plans, memory, stale, counts>>
-----------------------------------------------------------------------------
(* runUninstall *)

(* The tools of the manifest, or those of them that were named; confirmed. *)
UninstallBegins(T) ==
  /\ pc = "idle"
  /\ commands < MaxCommands
  /\ ~torn
  /\ todo' = {t \in T : manifest[t] # "no"}
  /\ todo' # {}
  /\ command' = "uninstall"
  /\ pc' = "remove"
  /\ memory' = manifest
  /\ commands' = commands + 1
  /\ UNCHANGED <<files, params, ob, plans, stale, edits, breaks>>

(* A file Keld created is deleted if nothing is left in it; any other is   *)
(* written, even if it was not there.                                      *)
KeepCreated(t) ==
  IF memory[t] = "created"
  THEN IF IsEmpty(Removed(t, config[t])) THEN Nothing ELSE config[t]
  ELSE Removed(t, config[t])
Cleaned(t) ==
  IF memory[t] = "created" /\ IsEmpty(Removed(t, config[t])) THEN Nothing
  ELSE Removed(t, config[t])

RemoveTool(t) ==
  /\ pc = "remove"
  /\ t \in todo
  /\ config' = [config EXCEPT ![t] = Cleaned(t)]
  /\ memory' = [memory EXCEPT ![t] = "no"]
  /\ todo' = todo \ {t}
  /\ UNCHANGED <<hook, manifest, torn, backup, params, pc, command, ob, plans, stale, counts>>

(* hook.json goes with the last tool. *)
Always == TRUE
NoToolLeft == memory = NoTools

ClearHook ==
  /\ pc = "remove"
  /\ todo = {}
  /\ hook' = IF NoToolLeft THEN Absent ELSE hook
  /\ pc' = "save"
  /\ UNCHANGED <<config, manifest, torn, backup, params, command, ob, todo, plans,
                 memory, stale, counts>>

(* Manifest.Save ends either command. *)
SaveManifest ==
  /\ pc = "save"
  /\ manifest' = memory
  /\ torn' = FALSE
  /\ Ends
  /\ UNCHANGED <<config, hook, backup, params, counts>>
-----------------------------------------------------------------------------
(* A step fails, or the process is killed, before it has any effect.       *)
Break ==
  /\ pc # "idle"
  /\ breaks < MaxBreaks
  /\ breaks' = breaks + 1
  /\ Ends
  /\ UNCHANGED <<files, params, commands, edits>>

(* hook.json and the manifest are written in place: a kill in the middle   *)
(* leaves a file that does not parse.  (A configuration is written to a    *)
(* temporary file that is renamed.)                                        *)
TearHook ==
  /\ pc = "plan"
  /\ todo = {}
  /\ Approved # {}
  /\ breaks < MaxBreaks
  /\ breaks' = breaks + 1
  /\ hook' = Torn
  /\ Ends
  /\ UNCHANGED <<config, manifest, torn, backup, params, commands, edits>>

TearManifest ==
  /\ pc = "save"
  /\ breaks < MaxBreaks
  /\ breaks' = breaks + 1
  /\ torn' = TRUE
  /\ Ends
  /\ UNCHANGED <<config, hook, manifest, backup, params, commands, edits>>

(* The user, or the tool itself, edits a configuration, with or without    *)
(* Keld's part of it, or deletes it.  (Gemini's telemetry key holds either *)
(* Keld's settings or the user's.)                                         *)
Edit(t, f) ==
  /\ edits < MaxEdits
  /\ f # config[t]
  /\ f = Nothing \/ (f.there /\ f.keld \in {0, config[t].keld})
  /\ f.broken => f.own
  /\ t = "gemini" /\ f.telemetry => f.keld = 0
  /\ config' = [config EXCEPT ![t] = f]
  /\ stale' = IF pc = "idle" THEN stale ELSE stale \cup {t}
  /\ edits' = edits + 1
  /\ UNCHANGED <<hook, manifest, torn, backup, params, run, commands, breaks>>

(* The server gives out another endpoint or token. *)
ParamsChange ==
  /\ params < MaxParams
  /\ params' = params + 1
  /\ UNCHANGED <<files, run, stale, counts>>

-----------------------------------------------------------------------------
(* Adapter.Status: what makes a configuration count as configured.  The    *)
(* start marker will do for Codex, in whatever text; Claude Code needs a   *)
(* document that parses with the endpoint and the hook; Gemini takes any   *)
(* endpoint for Keld's.                                                    *)
Configured(t, f) ==
  CASE t = "claude_code" -> ~f.broken /\ f.keld > 0
    [] t = "codex"       -> f.keld > 0
    [] t = "gemini"      -> ~f.broken /\ (f.keld > 0 \/ f.telemetry)

(* keld signal doctor: the tools recorded that are not configured, and     *)
(* hook.json where the manifest has a hook, which it has with any tool.    *)
DoctorProblems ==
  {t \in Tools : manifest[t] # "no" /\ ~Configured(t, config[t])}
    \cup {x \in {"hook"} : manifest # NoTools /\ hook = Absent}
-----------------------------------------------------------------------------
Next ==
  \/ \E T \in SUBSET Tools : SetupBegins(T) \/ UninstallBegins(T)
  \/ \E t \in Tools : PlanTool(t) \/ WriteTool(t) \/ RemoveTool(t)
  \/ PlanAborts \/ SetupDeclined \/ SaveHook \/ SetupWritten
  \/ ClearHook
  \/ SaveManifest
  \/ Break \/ TearHook \/ TearManifest
  \/ \E t \in Tools, f \in Contents : Edit(t, f)
  \/ ParamsChange

Spec == Init /\ [][Next]_vars
-----------------------------------------------------------------------------
TypeOK ==
  /\ config \in [Tools -> Contents]
  /\ \A t \in Tools : config[t].there \/ config[t] = Nothing
  /\ hook \in Absent .. Torn
  /\ manifest \in [Tools -> Recorded]
  /\ torn \in BOOLEAN
  /\ backup \in [Tools -> Contents]
  /\ params \in 1 .. MaxParams /\ ob \in 1 .. MaxParams
  /\ pc \in {"idle", "plan", "write", "remove", "save"}
  /\ command \in {"none", "setup", "uninstall"}
  /\ todo \subseteq Tools
  /\ plans \in [Tools -> [after : Contents, created : BOOLEAN]]
  /\ memory \in [Tools -> Recorded]
  /\ stale \subseteq Tools
  /\ commands \in Nat /\ edits \in Nat /\ breaks \in Nat

(* A tool that the manifest records and that runs Keld's hook finds        *)
(* hook.json, whichever of the commands was broken off: setup writes it    *)
(* before the first tool, uninstall deletes it after the last.             *)
RecordedToolHasHook ==
  \A t \in Tools : manifest[t] # "no" /\ config[t].keld > 0 => hook # Absent

(* When setup has ended, the tools that it records and hook.json agree on  *)
(* the parameters of that run (unless somebody edited a file meanwhile),   *)
(* and keld signal doctor finds nothing.  A tool that an earlier setup     *)
(* configured and that this one leaves out is recorded no longer           *)
(* (setup.go:119) and keeps the parameters it has: it may go on with a     *)
(* token that hook.json has not.                                           *)
SetupEndsConsistent ==
  [][command = "setup" /\ pc = "save" /\ pc' = "idle" /\ manifest' = memory =>
       /\ hook = ob
       /\ DoctorProblems' \subseteq stale
       /\ \A t \in Tools \ stale : memory[t] # "no" => config[t].keld = ob]_vars

(* What uninstall takes off the manifest has nothing of Keld's left in its *)
(* configuration, whatever the user made of the file in between.           *)
UninstallCleansRecorded ==
  [][command = "uninstall" /\ manifest' # manifest =>
       \A t \in Tools : manifest[t] # "no" /\ manifest'[t] = "no" =>
          config[t].keld = 0]_vars

(* The user's own content of a configuration survives every step of both   *)
(* commands, unless it was put there after the command had read the file,  *)
(* or is in a JSON file that does not parse.                               *)
OwnAt(t) == config[t].own /\ (config[t].broken => t = "codex")

OwnContentKept ==
  [][\A t \in Tools :
       OwnAt(t) /\ edits' = edits /\ t \notin stale => config'[t].own]_vars

(* README.md: uninstall lets one "cleanly remove everything Keld added".   *)
(* An uninstall after which nothing is recorded any more leaves no tool    *)
(* configured.                                                             *)
UninstallRemovesAll ==
  [][command = "uninstall" /\ pc = "save" /\ pc' = "idle" /\ manifest' = NoTools
       /\ memory = NoTools =>
       \A t \in Tools : config[t].keld = 0]_vars
=============================================================================
