----------------------------- MODULE SetupProofs -----------------------------
(***************************************************************************)
(* Proofs about Setup.tla, for any of the tools, any number of parameters, *)
(* commands, edits by others and commands that are broken off; and about   *)
(* SetupTexts.tla, for texts and documents of any length.                  *)
(* 1. Setup and uninstall.  2. Folds.  3. settings.json.  4. config.toml.  *)
(***************************************************************************)
EXTENDS SetupTexts, SequenceTheorems, WellFoundedInduction, TLAPS

(* 1. Setup and uninstall.                                                 *)

(* Where each command is; between commands nothing of one is left.         *)
RunInv ==
  /\ pc \in {"plan", "write"} => command = "setup"
  /\ pc = "remove" => command = "uninstall"
  /\ pc = "save" => command \in {"setup", "uninstall"}
  /\ pc = "idle" => command = "none" /\ stale = {} /\ \A t \in Tools : plans[t] = NoPlan

(* A plan has the parameters of the run and keeps what the user had in the *)
(* file when it was read, which is what is in it still, unless somebody    *)
(* edited it.                                                              *)
PlanInv ==
  \A t \in Tools : plans[t] # NoPlan =>
    /\ plans[t].after.there /\ plans[t].after.keld = ob /\ ~plans[t].after.broken
    /\ t \notin stale /\ (pc = "plan" \/ (pc = "write" /\ t \in todo)) =>
         (OwnAt(t) => plans[t].after.own)

(* From hook.json on, the tools this setup has written have what hook.json *)
(* has; what is still to be written has a plan.                            *)
SetupInv ==
  command = "setup" /\ pc \in {"write", "save"} =>
    /\ hook = ob
    /\ pc = "write" => \A t \in todo : plans[t] # NoPlan
    /\ \A t \in Tools \ stale :
         memory[t] # "no" => config[t].keld = ob /\ ~config[t].broken

(* What an uninstall has struck off in memory is clean already, although   *)
(* the manifest on disk still has it.                                      *)
UninstallInv ==
  command = "uninstall" =>
    \A t \in Tools :
      /\ memory[t] # "no" => manifest[t] # "no"
      /\ manifest[t] # "no" /\ memory[t] = "no" => config[t].keld = 0

IInv ==
  TypeOK /\ RunInv /\ PlanInv /\ SetupInv /\ UninstallInv /\ RecordedToolHasHook
-----------------------------------------------------------------------------
(* The texts. *)

(* hook.json with parameters is there, and so is a torn one. *)
LEMMA HookIsThere == ASSUME TypeOK PROVE ob # Absent /\ Torn # Absent
  BY SetupAssumption DEF TypeOK, Absent, Torn

(* No file and an empty one are contents of a configuration. *)
LEMMA EmptyContents == Nothing \in Contents /\ EmptyFile \in Contents /\ EmptyFile.there
<1>1. 0 \in 0 .. MaxParams
  BY SetupAssumption
<1>2. Nothing \in Contents
  BY <1>1 DEF Nothing, Contents
<1>3. EmptyFile \in Contents /\ EmptyFile.there
  BY <1>2 DEF EmptyFile, Contents
<1> QED
  BY <1>2, <1>3

(* What Adapter.Apply writes has Keld's parameters and the user's things.  *)
LEMMA AppliedProperty ==
  ASSUME TypeOK, NEW f \in Contents
  PROVE  /\ Applied(f) \in Contents
         /\ Applied(f).there /\ Applied(f).keld = ob /\ ~Applied(f).broken
         /\ f.own /\ ~f.broken => Applied(f).own
<1>1. ob \in 0 .. MaxParams
  BY SetupAssumption DEF TypeOK
<1>2. f.own \in BOOLEAN /\ (f.own /\ ~f.broken) \in BOOLEAN
  BY DEF Contents
<1> QED
  BY <1>1, <1>2 DEF Applied, AppliedWith, Contents

(* What uninstall leaves has nothing of Keld's, and the user's things      *)
(* unless it is a JSON file that did not parse.                            *)
LEMMA CleanedProperty ==
  ASSUME TypeOK, NEW t \in Tools
  PROVE  /\ Cleaned(t) \in Contents
         /\ Cleaned(t).there \/ Cleaned(t) = Nothing
         /\ Cleaned(t).keld = 0
         /\ OwnAt(t) => Cleaned(t).own
<1> DEFINE f == config[t]
<1>1. f \in Contents /\ (f.there \/ f = Nothing)
  BY DEF TypeOK
<1>2. CASE ~f.there
  <2>1. f = Nothing /\ Removed(t, f) = EmptyFile
    BY <1>1, <1>2 DEF Removed
  <2>2. ~OwnAt(t)
    BY <2>1 DEF Nothing, OwnAt
  <2>3. Cleaned(t) \in {Nothing, EmptyFile}
    BY <2>1 DEF Cleaned
  <2>4. Nothing.keld = 0 /\ EmptyFile.keld = 0
    BY DEF Nothing, EmptyFile
  <2> QED
    BY <2>2, <2>3, <2>4, EmptyContents
<1>3. CASE f.there
  <2> DEFINE r == Removed(t, f)
  <2>1. /\ r \in Contents /\ r.there /\ r.keld = 0
        /\ OwnAt(t) => r.own
    <3>1. CASE t = "codex"
      BY <1>1, <1>3, <3>1, SetupAssumption DEF Removed, RemovedBlock, Contents, OwnAt
    <3>2. CASE t # "codex" /\ f.broken
      BY <1>1, <1>3, <3>2, EmptyContents DEF Removed, RemovedKeys, EmptyFile, Nothing, OwnAt
    <3>3. CASE t # "codex" /\ ~f.broken
      <4>1. r = [f EXCEPT !.keld = 0, !.telemetry = FALSE]
        BY <1>3, <3>3 DEF Removed, RemovedKeys
      <4>2. r = [there |-> f.there, own |-> f.own, telemetry |-> FALSE,
                 broken |-> f.broken, keld |-> 0]
        BY <1>1, <4>1 DEF Contents
      <4> QED
        BY <1>1, <1>3, <4>2, SetupAssumption DEF Contents, OwnAt
    <3> QED
      BY <3>1, <3>2, <3>3
  <2>2. Cleaned(t) = r \/ (Cleaned(t) = Nothing /\ ~r.own)
    BY DEF Cleaned, IsEmpty
  <2>3. Nothing.keld = 0
    BY DEF Nothing
  <2> QED
    BY <2>1, <2>2, <2>3, EmptyContents
<1> QED
  BY <1>2, <1>3
-----------------------------------------------------------------------------
(* The invariant holds at the start. *)
LEMMA InitInv == Init => IInv
<1> SUFFICES ASSUME Init PROVE IInv
  OBVIOUS
<1> USE SetupAssumption DEF Init
<1>1. TypeOK
  <2>1. config \in [Tools -> Contents] /\ \A t \in Tools : config[t].there \/ config[t] = Nothing
    OBVIOUS
  <2>2. hook \in Absent .. Torn /\ params \in 1 .. MaxParams /\ ob \in 1 .. MaxParams
    BY DEF Absent, Torn
  <2>3. manifest \in [Tools -> Recorded] /\ memory \in [Tools -> Recorded]
    BY DEF NoTools, Recorded
  <2>4. backup \in [Tools -> Contents]
    BY EmptyContents
  <2>5. plans \in [Tools -> [after : Contents, created : BOOLEAN]]
    BY EmptyContents DEF NoPlan
  <2> QED
    BY <2>1, <2>2, <2>3, <2>4, <2>5 DEF TypeOK
<1>2. RunInv /\ PlanInv /\ SetupInv /\ UninstallInv
  BY DEF RunInv, PlanInv, SetupInv, UninstallInv
<1>3. RecordedToolHasHook
  BY DEF RecordedToolHasHook, NoTools
<1> QED
  BY <1>1, <1>2, <1>3 DEF IInv
-----------------------------------------------------------------------------
(* The end of a command. *)

(* A command that ends, in whatever way, leaves nothing of itself; with    *)
(* the files as they were, or with a manifest or a hook.json that keeps    *)
(* the tools that run the hook together with hook.json.                    *)
LEMMA EndsInv ==
  ASSUME IInv, Ends, UNCHANGED <<config, backup, params>>,
         hook' \in Absent .. Torn, manifest' \in [Tools -> Recorded], torn' \in BOOLEAN,
         commands' \in Nat, edits' \in Nat, breaks' \in Nat,
         RecordedToolHasHook'
  PROVE  IInv'
<1> USE DEF IInv, Ends
<1>1. plans' \in [Tools -> [after : Contents, created : BOOLEAN]]
  BY EmptyContents DEF NoPlan
<1>2. memory' \in [Tools -> Recorded]
  BY DEF NoTools, Recorded
<1>3. TypeOK'
  BY <1>1, <1>2 DEF TypeOK, Absent, Torn
<1>4. RunInv' /\ PlanInv' /\ SetupInv' /\ UninstallInv'
  BY DEF RunInv, PlanInv, SetupInv, UninstallInv
<1> QED
  BY <1>3, <1>4

(* A command that is broken off leaves hook.json as it was or torn, and    *)
(* the configurations alone.                                               *)
LEMMA BrokenOffInv ==
  ASSUME IInv, PlanAborts \/ SetupDeclined \/ Break \/ TearHook \/ TearManifest
  PROVE  IInv'
<1> USE DEF IInv, PlanAborts, SetupDeclined, Break, TearHook, TearManifest, files, counts
<1>1. Torn \in Absent .. Torn
  BY SetupAssumption DEF Absent, Torn
<1>2. /\ Ends
      /\ UNCHANGED <<config, manifest, backup, params>>
      /\ hook' \in {hook, Torn}
  OBVIOUS
<1>3. commands' \in Nat /\ edits' \in Nat /\ breaks' \in Nat
  BY DEF TypeOK
<1>4. torn' \in BOOLEAN
  <2>1. torn' = torn \/ torn' = TRUE
    OBVIOUS
  <2> QED
    BY <2>1 DEF TypeOK
<1>5. RecordedToolHasHook'
  BY <1>2, HookIsThere DEF RecordedToolHasHook
<1> QED
  BY <1>1, <1>2, <1>3, <1>4, <1>5, EndsInv DEF TypeOK

(* Manifest.Save: what setup records has the hook.json it wrote first;     *)
(* what uninstall still records was recorded before.                       *)
LEMMA SaveManifestInv == IInv /\ SaveManifest => IInv'
<1> SUFFICES ASSUME IInv, SaveManifest PROVE IInv'
  OBVIOUS
<1> USE DEF IInv, SaveManifest, counts
<1>1. RecordedToolHasHook'
  <2>1. CASE command = "setup"
    BY <2>1, HookIsThere DEF RecordedToolHasHook, SetupInv
  <2>2. CASE command = "uninstall"
    BY <2>2 DEF RecordedToolHasHook, UninstallInv
  <2> QED
    BY <2>1, <2>2 DEF RunInv
<1> QED
  BY <1>1, EndsInv DEF TypeOK
-----------------------------------------------------------------------------
(* Setup. *)

(* setup begins without a plan. *)
LEMMA SetupBeginsInv ==
  ASSUME IInv, NEW T \in SUBSET Tools, SetupBegins(T)
  PROVE  IInv'
<1> USE DEF IInv, SetupBegins, files
<1>1. TypeOK'
  BY DEF TypeOK
<1>2. RunInv' /\ PlanInv' /\ SetupInv' /\ UninstallInv'
  BY DEF RunInv, PlanInv, SetupInv, UninstallInv
<1>3. RecordedToolHasHook'
  BY DEF RecordedToolHasHook
<1> QED
  BY <1>1, <1>2, <1>3

(* A plan is made from the file as it is. *)
LEMMA PlanToolInv ==
  ASSUME IInv, NEW t \in Tools, PlanTool(t)
  PROVE  IInv'
<1> USE DEF IInv, PlanTool, files, counts
<1>1. UNCHANGED <<plans, stale>> \/ Approve(t)
  OBVIOUS
<1>2. config[t] \in Contents /\ plans \in [Tools -> [after : Contents, created : BOOLEAN]]
  BY DEF TypeOK
<1>3. CASE UNCHANGED <<plans, stale>>
  <2>1. TypeOK'
    BY <1>3 DEF TypeOK
  <2>2. RunInv' /\ PlanInv' /\ SetupInv' /\ UninstallInv' /\ RecordedToolHasHook'
    BY <1>3 DEF RunInv, PlanInv, OwnAt, SetupInv, UninstallInv, RecordedToolHasHook
  <2> QED
    BY <2>1, <2>2
<1>4. CASE Approve(t) /\ ~UNCHANGED <<plans, stale>>
  <2>1. plans' = [plans EXCEPT ![t] = plans'[t]] /\ plans'[t].after = Applied(config[t])
    BY <1>2, <1>4 DEF Approve
  <2>2. plans'[t] \in [after : Contents, created : BOOLEAN]
    BY <1>2, <1>4, AppliedProperty DEF Approve, Contents
  <2>3. TypeOK'
    BY <1>4, <2>1, <2>2 DEF TypeOK, Approve
  <2>4. OwnAt(t) => plans'[t].after.own
    <3>1. t = "codex" => ~config[t].broken
      BY <1>4 DEF Approve, Conflict, Replaceable, TypeOK
    <3> QED
      BY <1>2, <2>1, <3>1, AppliedProperty DEF OwnAt
  <2>5. PlanInv'
    BY <1>2, <1>4, <2>1, <2>4, AppliedProperty DEF PlanInv, Approve, OwnAt
  <2>6. RunInv' /\ SetupInv' /\ UninstallInv' /\ RecordedToolHasHook'
    BY <1>4 DEF RunInv, SetupInv, UninstallInv, RecordedToolHasHook
  <2> QED
    BY <2>3, <2>6, <2>5
<1> QED
  BY <1>1, <1>3, <1>4

(* setup writes hook.json before anything refers to it. *)
LEMMA SaveHookInv == IInv /\ SaveHook => IInv'
<1> SUFFICES ASSUME IInv, SaveHook PROVE IInv'
  OBVIOUS
<1> USE DEF IInv, SaveHook, counts, NewHook
<1>1. TypeOK'
  <2>1. memory' \in [Tools -> Recorded]
    BY DEF NoTools, Recorded
  <2>2. hook' \in Absent .. Torn /\ todo' \subseteq Tools
    BY SetupAssumption DEF TypeOK, Absent, Torn, Approved
  <2> QED
    BY <2>1, <2>2 DEF TypeOK, Absent, Torn
<1>2. command = "setup"
  BY DEF RunInv
<1>3. RunInv' /\ UninstallInv'
  BY <1>2 DEF RunInv, UninstallInv
<1>4. PlanInv'
  BY DEF PlanInv, OwnAt
<1>5. SetupInv'
  BY DEF SetupInv, Approved, NoTools
<1>6. RecordedToolHasHook'
  BY HookIsThere DEF RecordedToolHasHook
<1> QED
  BY <1>1, <1>3, <1>4, <1>5, <1>6

(* The written plan gives the tool what hook.json has. *)
LEMMA WriteToolInv ==
  ASSUME IInv, NEW t \in Tools, WriteTool(t)
  PROVE  IInv'
<1> USE DEF IInv, WriteTool, counts
<1>1. /\ command = "setup" /\ plans[t] # NoPlan
      /\ plans[t].after \in Contents
      /\ plans[t].after.there /\ plans[t].after.keld = ob /\ ~plans[t].after.broken
      /\ hook = ob
  BY DEF RunInv, SetupInv, PlanInv, TypeOK
<1>2. TypeOK'
  <2>1. backup' \in [Tools -> Contents]
    BY DEF BackedUp, TypeOK
  <2>2. memory' \in [Tools -> Recorded]
    BY DEF TypeOK, Recorded
  <2>3. /\ config' \in [Tools -> Contents]
        /\ \A u \in Tools : config'[u].there \/ config'[u] = Nothing
    BY <1>1 DEF TypeOK
  <2> QED
    BY <2>1, <2>2, <2>3 DEF TypeOK
<1>3. \A u \in Tools : u # t => config'[u] = config[u] /\ memory'[u] = memory[u]
  BY DEF TypeOK
<1>4. config'[t] = plans[t].after
  BY DEF TypeOK
<1>5. RunInv' /\ UninstallInv'
  BY <1>1 DEF RunInv, UninstallInv
<1>6. PlanInv'
  BY <1>3 DEF PlanInv, OwnAt
<1>7. SetupInv'
  BY <1>1, <1>3, <1>4 DEF SetupInv
<1>8. RecordedToolHasHook'
  BY <1>1, HookIsThere DEF RecordedToolHasHook
<1> QED
  BY <1>2, <1>5, <1>6, <1>7, <1>8

(* setup goes on to the manifest when every plan is written. *)
LEMMA SetupWrittenInv == IInv /\ SetupWritten => IInv'
<1> SUFFICES ASSUME IInv, SetupWritten PROVE IInv'
  OBVIOUS
<1> USE DEF IInv, SetupWritten, files, counts
<1>1. TypeOK'
  BY DEF TypeOK
<1>2. command = "setup"
  BY DEF RunInv
<1>3. RunInv' /\ PlanInv' /\ SetupInv' /\ UninstallInv' /\ RecordedToolHasHook'
  BY <1>2 DEF RunInv, PlanInv, OwnAt, SetupInv, UninstallInv, RecordedToolHasHook
<1> QED
  BY <1>1, <1>3
-----------------------------------------------------------------------------
(* Uninstall. *)

(* uninstall takes the tools of the manifest. *)
LEMMA UninstallBeginsInv ==
  ASSUME IInv, NEW T \in SUBSET Tools, UninstallBegins(T)
  PROVE  IInv'
<1> USE DEF IInv, UninstallBegins, files
<1>1. TypeOK'
  BY DEF TypeOK
<1>2. RunInv' /\ PlanInv' /\ SetupInv' /\ UninstallInv' /\ RecordedToolHasHook'
  BY DEF RunInv, PlanInv, OwnAt, SetupInv, UninstallInv, RecordedToolHasHook
<1> QED
  BY <1>1, <1>2

(* A removed tool is clean before it drops out of the record. *)
LEMMA RemoveToolInv ==
  ASSUME IInv, NEW t \in Tools, RemoveTool(t)
  PROVE  IInv'
<1> USE DEF IInv, RemoveTool, counts
<1>1. command = "uninstall"
  BY DEF RunInv
<1>2. config'[t] = Cleaned(t) /\ memory'[t] = "no"
  BY DEF TypeOK
<1>3. \A u \in Tools : u # t => config'[u] = config[u] /\ memory'[u] = memory[u]
  BY DEF TypeOK
<1>4. TypeOK'
  <2>1. memory' \in [Tools -> Recorded]
    BY DEF TypeOK, Recorded
  <2>2. /\ config' \in [Tools -> Contents]
        /\ \A u \in Tools : config'[u].there \/ config'[u] = Nothing
    BY <1>2, <1>3, CleanedProperty DEF TypeOK
  <2> QED
    BY <2>1, <2>2 DEF TypeOK
<1>5. RunInv' /\ SetupInv'
  BY <1>1 DEF RunInv, SetupInv
<1>6. PlanInv'
  BY DEF PlanInv
<1>7. UninstallInv'
  BY <1>1, <1>2, <1>3, CleanedProperty DEF UninstallInv
<1>8. RecordedToolHasHook'
  BY <1>2, <1>3, CleanedProperty DEF RecordedToolHasHook
<1> QED
  BY <1>4, <1>5, <1>6, <1>7, <1>8

(* hook.json goes when no tool is left in memory: by then each tool that   *)
(* the manifest still records is clean.                                    *)
LEMMA ClearHookInv == IInv /\ ClearHook => IInv'
<1> SUFFICES ASSUME IInv, ClearHook PROVE IInv'
  OBVIOUS
<1> USE DEF IInv, ClearHook, counts
<1>1. command = "uninstall"
  BY DEF RunInv
<1>2. TypeOK'
  <2>1. hook' \in Absent .. Torn
    BY SetupAssumption DEF TypeOK, Absent, Torn
  <2> QED
    BY <2>1 DEF TypeOK, Absent, Torn
<1>3. RunInv' /\ PlanInv' /\ SetupInv' /\ UninstallInv'
  BY <1>1 DEF RunInv, PlanInv, SetupInv, UninstallInv
<1>4. RecordedToolHasHook'
  <2>1. CASE NoToolLeft
    <3>1. \A t \in Tools : memory[t] = "no"
      BY <2>1 DEF NoToolLeft, NoTools
    <3> QED
      BY <1>1, <3>1 DEF RecordedToolHasHook, UninstallInv
  <2>2. CASE ~NoToolLeft
    BY <2>2 DEF RecordedToolHasHook
  <2> QED
    BY <2>1, <2>2
<1> QED
  BY <1>2, <1>3, <1>4
-----------------------------------------------------------------------------
(* The others. *)

(* An edit keeps Keld's part or drops it; it never brings one in. *)
LEMMA EditInv ==
  ASSUME IInv, NEW t \in Tools, NEW f \in Contents, Edit(t, f)
  PROVE  IInv'
<1> USE DEF IInv, Edit, run
<1>1. config'[t] = f /\ f.keld \in {0, config[t].keld} /\ (f.there \/ f = Nothing)
  BY DEF TypeOK, Nothing
<1>2. \A u \in Tools : u # t => config'[u] = config[u]
  BY DEF TypeOK
<1>3. TypeOK'
  <2>1. /\ config' \in [Tools -> Contents]
        /\ \A u \in Tools : config'[u].there \/ config'[u] = Nothing
    BY <1>1, <1>2 DEF TypeOK
  <2> QED
    BY <2>1 DEF TypeOK
<1>4. pc # "idle" => t \in stale' /\ stale \subseteq stale'
  OBVIOUS
<1>5. RunInv'
  BY DEF RunInv
<1>6. PlanInv'
  BY <1>2, <1>4 DEF PlanInv, RunInv, OwnAt
<1>7. SetupInv'
  BY <1>2, <1>4 DEF SetupInv
<1>8. UninstallInv' /\ RecordedToolHasHook'
  BY <1>1, <1>2 DEF UninstallInv, RecordedToolHasHook
<1> QED
  BY <1>3, <1>5, <1>6, <1>7, <1>8

(* New parameters concern only the next setup. *)
LEMMA QuietInv == IInv /\ (ParamsChange \/ UNCHANGED vars) => IInv'
<1> SUFFICES ASSUME IInv, ParamsChange \/ UNCHANGED vars PROVE IInv'
  OBVIOUS
<1> USE DEF IInv, ParamsChange, vars, files, run, counts
<1>1. UNCHANGED <<files, run, stale, counts>> /\ params' \in 1 .. MaxParams
  BY SetupAssumption DEF TypeOK
<1>2. TypeOK'
  BY <1>1 DEF TypeOK
<1>3. RunInv' /\ PlanInv' /\ SetupInv' /\ UninstallInv' /\ RecordedToolHasHook'
  BY <1>1 DEF RunInv, PlanInv, OwnAt, SetupInv, UninstallInv, RecordedToolHasHook
<1> QED
  BY <1>2, <1>3

(* No step breaks the invariant. *)
LEMMA NextInv == IInv /\ [Next]_vars => IInv'
  BY SetupBeginsInv, UninstallBeginsInv, PlanToolInv, WriteToolInv, RemoveToolInv,
     BrokenOffInv, SaveHookInv, SetupWrittenInv, ClearHookInv, SaveManifestInv,
     EditInv, QuietInv DEF Next

(* The inductive invariant holds in every reachable state. *)
THEOREM SetupInvariant == Spec => []IInv
<1>1. IInv /\ [][Next]_vars => []IInv
  BY NextInv, PTL
<1> QED
  BY InitInv, <1>1, PTL DEF Spec

(* Type correctness. *)
THEOREM SetupTypeOK == Spec => []TypeOK
  BY SetupInvariant, PTL DEF IInv

(* Wherever setup or uninstall is broken off, a tool that is recorded and  *)
(* runs Keld's hook finds hook.json.                                       *)
THEOREM SetupRecordedToolHasHook == Spec => []RecordedToolHasHook
  BY SetupInvariant, PTL DEF IInv

(* A setup that has saved its manifest leaves tools that have the          *)
(* parameters of hook.json and that doctor is content with.                *)
THEOREM SetupEndConsistent == Spec => SetupEndsConsistent
<1> DEFINE A == command = "setup" /\ pc = "save" /\ pc' = "idle" /\ manifest' = memory =>
                  /\ hook = ob
                  /\ DoctorProblems' \subseteq stale
                  /\ \A t \in Tools \ stale : memory[t] # "no" => config[t].keld = ob
<1>1. ASSUME IInv, [Next]_vars, command = "setup", pc = "save", pc' = "idle", manifest' = memory
      PROVE  /\ hook = ob
             /\ DoctorProblems' \subseteq stale
             /\ \A t \in Tools \ stale : memory[t] # "no" => config[t].keld = ob
  <2>1. UNCHANGED <<config, hook>>
    BY <1>1 DEF Next, SetupBegins, UninstallBegins, PlanTool, WriteTool, RemoveTool, PlanAborts,
                SetupDeclined, SaveHook, SetupWritten, ClearHook, SaveManifest, Break,
                TearHook, TearManifest, Edit, ParamsChange, vars, files, run
  <2>2. hook = ob /\ ob # Absent /\ ob \in Nat /\ ob > 0
    BY <1>1, HookIsThere DEF IInv, SetupInv, TypeOK
  <2>3. ASSUME NEW t \in Tools, t \notin stale, memory[t] # "no"
        PROVE  Configured(t, config[t]) /\ config[t].keld = ob
    <3>1. config[t].keld = ob /\ ~config[t].broken
      BY <1>1, <2>3 DEF IInv, SetupInv
    <3> QED
      BY <2>2, <3>1, SetupAssumption DEF Configured
  <2>4. DoctorProblems' \subseteq stale
    BY <1>1, <2>1, <2>2, <2>3 DEF DoctorProblems
  <2> QED
    BY <2>2, <2>3, <2>4
<1>2. IInv /\ [Next]_vars => [A]_vars
  BY <1>1
<1> QED
  BY <1>2, SetupInvariant, PTL DEF Spec, SetupEndsConsistent

(* What uninstall takes off the manifest is clean, whatever the user made  *)
(* of the file in between.                                                 *)
THEOREM SetupUninstallCleans == Spec => UninstallCleansRecorded
<1> DEFINE A == command = "uninstall" /\ manifest' # manifest =>
                  \A t \in Tools : manifest[t] # "no" /\ manifest'[t] = "no" =>
                    config[t].keld = 0
<1>1. ASSUME IInv, [Next]_vars, command = "uninstall", manifest' # manifest
      PROVE  \A t \in Tools : manifest[t] # "no" /\ manifest'[t] = "no" => config[t].keld = 0
  <2>1. manifest' = memory
    BY <1>1 DEF Next, SetupBegins, UninstallBegins, PlanTool, WriteTool, RemoveTool, PlanAborts,
                SetupDeclined, SaveHook, SetupWritten, ClearHook, SaveManifest, Break,
                TearHook, TearManifest, Edit, ParamsChange, vars, files
  <2> QED
    BY <1>1, <2>1 DEF IInv, UninstallInv
<1>2. IInv /\ [Next]_vars => [A]_vars
  BY <1>1
<1> QED
  BY <1>2, SetupInvariant, PTL DEF Spec, UninstallCleansRecorded

(* The user's own content of a file that parses survives every step of     *)
(* both commands, unless it came after the command had read the file.      *)
THEOREM SetupOwnContentKept == Spec => OwnContentKept
<1> DEFINE A == \A t \in Tools :
                  OwnAt(t) /\ edits' = edits /\ t \notin stale => config'[t].own
<1>1. ASSUME IInv, [Next]_vars, NEW t \in Tools,
             OwnAt(t), edits' = edits, t \notin stale
      PROVE  config'[t].own
  <2>1. CASE WriteTool(t)
    <3>1. config'[t] = plans[t].after /\ pc = "write" /\ t \in todo
      BY <2>1, <1>1 DEF WriteTool, IInv, TypeOK
    <3>2. plans[t] # NoPlan
      BY <1>1, <3>1 DEF IInv, RunInv, SetupInv
    <3> QED
      BY <1>1, <3>1, <3>2 DEF IInv, PlanInv
  <2>2. CASE RemoveTool(t)
    <3>1. config'[t] = Cleaned(t)
      BY <2>2, <1>1 DEF RemoveTool, IInv, TypeOK
    <3> QED
      BY <1>1, <3>1, CleanedProperty DEF IInv
  <2>3. CASE \E u \in Tools : u # t /\ (WriteTool(u) \/ RemoveTool(u))
    <3>1. config'[t] = config[t]
      BY <2>3, <1>1 DEF WriteTool, RemoveTool, IInv, TypeOK
    <3> QED
      BY <1>1, <3>1 DEF OwnAt
  <2>4. CASE \E u \in Tools, f \in Contents : Edit(u, f)
    <3>1. edits' = edits + 1 /\ edits \in Nat
      BY <2>4, <1>1 DEF Edit, IInv, TypeOK
    <3> QED
      BY <1>1, <3>1
  <2>5. CASE /\ ~\E u \in Tools : WriteTool(u) \/ RemoveTool(u)
             /\ ~\E u \in Tools, f \in Contents : Edit(u, f)
    <3>1. config' = config
      BY <1>1, <2>5 DEF Next, SetupBegins, UninstallBegins, PlanTool, PlanAborts,
                SetupDeclined, SaveHook, SetupWritten, ClearHook, SaveManifest, Break,
                TearHook, TearManifest, ParamsChange, vars, files
    <3> QED
      BY <1>1, <3>1 DEF OwnAt
  <2> QED
    BY <2>1, <2>2, <2>3, <2>4, <2>5
<1>2. IInv /\ [Next]_vars => [A]_vars
  BY <1>1
<1> QED
  BY <1>2, SetupInvariant, PTL DEF Spec, OwnContentKept
-----------------------------------------------------------------------------
(* 2. Folds.  The algorithms on texts are folds over the lines, for which  *)
(* FoldLeft picks values with CHOOSE. For a step that is a function there *)
(* are such values, along the sequence there is one run of them, and what  *)
(* holds of the empty sequence and passes from t to Append(t, x) holds of  *)
(* all (SeqInduct).  Induction is by the least counterexample, in a set of *)
(* numbers.                                                                *)

(* Any set of numbers that is not empty has a least one. *)
LEMMA NatHasLeast ==
  ASSUME NEW S \in SUBSET Nat, S # {}
  PROVE  \E x \in S : \A y \in S : x <= y
<1> DEFINE Less == {pair \in Nat \X Nat : pair[1] < pair[2]}
<1>1. IsWellFoundedOn(Less, Nat)
  BY NatLessThanWellFounded DEF OpToRel
<1>2. PICK x \in S : \A y \in S : <<y, x>> \notin Less
  <2> HIDE DEF Less
  <2> QED
    BY <1>1, WFMin
<1>3. \A y \in S : ~ (y < x)
  BY <1>2
<1> QED
  BY <1>3

(* What holds of 0, and of n + 1 if of n, holds of every number. *)
LEMMA Induct ==
  ASSUME NEW S \in SUBSET Nat, 0 \in S, \A n \in S : n + 1 \in S
  PROVE  S = Nat
<1> SUFFICES ASSUME Nat \ S # {} PROVE FALSE
  OBVIOUS
<1>1. PICK n \in Nat \ S : \A m \in Nat \ S : n <= m
  BY NatHasLeast
<1>2. n # 0 /\ n - 1 \in Nat /\ ~ (n <= n - 1)
  BY <1>1
<1>3. n - 1 \in S
  BY <1>1, <1>2
<1> QED
  BY <1>1, <1>3

(* Max finds the greatest number of a bounded set. *)
LEMMA GreatestProperty ==
  ASSUME NEW n \in Nat, NEW S \in SUBSET (0 .. n), S # {}
  PROVE  Max(S) \in S /\ \A y \in S : y <= Max(S)
<1> DEFINE D == {n - y : y \in S}
<1>1. D \in SUBSET Nat /\ D # {}
  <2>1. \A y \in S : y \in 0 .. n /\ n - y \in Nat
    OBVIOUS
  <2>2. PICK y \in S : TRUE
    OBVIOUS
  <2>3. n - y \in D
    OBVIOUS
  <2> QED
    BY <2>1, <2>3
<1>2. PICK d \in D : \A e \in D : d <= e
  BY <1>1, NatHasLeast
<1>3. PICK x \in S : d = n - x
  BY <1>2
<1>4. ASSUME NEW y \in S PROVE x >= y
  <2>1. n - y \in D /\ x \in 0 .. n /\ y \in 0 .. n
    OBVIOUS
  <2>2. n - x <= n - y
    BY <1>2, <1>3, <2>1
  <2> QED
    BY <2>1, <2>2
<1> QED
  BY <1>4 DEF Max

(* Max of positions in a sequence is the last of them. *)
LEMMA MaxProperty ==
  ASSUME NEW n \in Nat, NEW S \in SUBSET (1 .. n), S # {}
  PROVE  Max(S) \in S /\ \A y \in S : y <= Max(S)
<1>1. S \in SUBSET (0 .. n)
  OBVIOUS
<1> QED
  BY <1>1, GreatestProperty

(* Max is the number that no other of the set exceeds. *)
LEMMA MaxIs ==
  ASSUME NEW n \in Nat, NEW S \in SUBSET (0 .. n), NEW x \in S, \A y \in S : y <= x
  PROVE  Max(S) = x
<1>1. Max(S) \in S /\ \A y \in S : y <= Max(S)
  BY GreatestProperty
<1>2. Max(S) \in 0 .. n /\ x \in 0 .. n /\ Max(S) <= x /\ x <= Max(S)
  BY <1>1
<1> QED
  BY <1>2
-----------------------------------------------------------------------------
(* A fold whose step is a function. *)
Steps(step, W, X) == step \in [W -> [X -> W]]
Fold(step, base, s) == FoldLeft(LAMBDA w, x : step[w][x], base, s)

(* What FoldLeft builds: the result of the fold over the positions d. *)
Folds(g, n, step, base, s) ==
  g = [d \in SUBSET (1 .. n) |->
         IF d = {} THEN base ELSE step[g[d \ {Max(d)}]][s[Max(d)]]]

(* The greatest position of a set is its last one, if it is there. *)
LEMMA MaxOfLast ==
  ASSUME NEW k \in Nat, NEW d \in SUBSET (1 .. k + 1), k + 1 \in d
  PROVE  Max(d) = k + 1
<1>1. Max(d) \in d /\ \A y \in d : y <= Max(d)
  <2>1. k + 1 \in Nat /\ d # {}
    OBVIOUS
  <2> QED
    BY <2>1, MaxProperty
<1>2. Max(d) \in 1 .. k + 1 /\ k + 1 <= Max(d)
  BY <1>1
<1> QED
  BY <1>2

(* One more position. *)
LEMMA FoldsOneMore ==
  ASSUME NEW W, NEW X, NEW step, Steps(step, W, X), NEW base \in W, NEW s \in Seq(X),
         NEW k \in Nat, k + 1 <= Len(s),
         NEW g \in [SUBSET (1 .. k) -> W], Folds(g, k, step, base, s)
  PROVE  \E h \in [SUBSET (1 .. k + 1) -> W] : Folds(h, k + 1, step, base, s)
<1> DEFINE h == [d \in SUBSET (1 .. k + 1) |->
                   IF k + 1 \in d THEN step[g[d \ {k + 1}]][s[k + 1]] ELSE g[d]]
<1>0. s[k + 1] \in X
  OBVIOUS
<1>1. ASSUME NEW d \in SUBSET (1 .. k + 1)
      PROVE  /\ h[d] \in W
             /\ h[d] = IF d = {} THEN base ELSE step[h[d \ {Max(d)}]][s[Max(d)]]
  <2>1. CASE k + 1 \in d
    <3>1. Max(d) = k + 1
      BY <2>1, MaxOfLast
    <3>2. d \ {k + 1} \in SUBSET (1 .. k) /\ d \ {k + 1} \in SUBSET (1 .. k + 1)
      OBVIOUS
    <3>3. h[d \ {k + 1}] = g[d \ {k + 1}]
      BY <3>2
    <3>4. h[d] = step[g[d \ {k + 1}]][s[k + 1]]
      BY <2>1
    <3>5. h[d] \in W
      <4>1. g[d \ {k + 1}] \in W
        BY <3>2
      <4>2. step[g[d \ {k + 1}]] \in [X -> W]
        BY <4>1 DEF Steps
      <4>3. step[g[d \ {k + 1}]][s[k + 1]] \in W
        BY <1>0, <4>2
      <4> HIDE DEF h
      <4> QED
        BY <3>4, <4>3
    <3> HIDE DEF h
    <3> QED
      BY <2>1, <3>1, <3>3, <3>4, <3>5
  <2>2. CASE k + 1 \notin d
    <3>1. d \in SUBSET (1 .. k) /\ h[d] = g[d]
      BY <2>2
    <3>2. g[d] = IF d = {} THEN base ELSE step[g[d \ {Max(d)}]][s[Max(d)]]
      BY <3>1 DEF Folds
    <3>3. d \ {Max(d)} \in SUBSET (1 .. k + 1) /\ k + 1 \notin d \ {Max(d)}
      BY <2>2
    <3>4. h[d \ {Max(d)}] = g[d \ {Max(d)}]
      BY <3>3
    <3>5. h[d] \in W
      BY <3>1
    <3> HIDE DEF h
    <3> QED
      BY <3>1, <3>2, <3>4, <3>5
  <2> QED
    BY <2>1, <2>2
<1>2. h \in [SUBSET (1 .. k + 1) -> W]
  BY <1>1
<1>3. h = [d \in SUBSET (1 .. k + 1) |-> h[d]]
  OBVIOUS
<1>4. Folds(h, k + 1, step, base, s)
  <2> HIDE DEF h
  <2> QED
    BY <1>1, <1>3 DEF Folds
<1> QED
  BY <1>2, <1>4

(* Any sequence can be folded. *)
LEMMA FoldsExists ==
  ASSUME NEW W, NEW X, NEW step, Steps(step, W, X), NEW base \in W, NEW s \in Seq(X)
  PROVE  \E g \in [SUBSET (1 .. Len(s)) -> W] : Folds(g, Len(s), step, base, s)
<1> DEFINE Good(k) == \E g \in [SUBSET (1 .. k) -> W] : Folds(g, k, step, base, s)
           K == {k \in Nat : k <= Len(s) => Good(k)}
<1>1. Good(0)
  <2> DEFINE g == [d \in SUBSET (1 .. 0) |-> base]
  <2>1. \A d \in SUBSET (1 .. 0) : d = {}
    OBVIOUS
  <2>2. Folds(g, 0, step, base, s)
    BY <2>1 DEF Folds
  <2>3. g \in [SUBSET (1 .. 0) -> W]
    OBVIOUS
  <2> QED
    BY <2>2, <2>3
<1>2. ASSUME NEW k \in Nat, k + 1 <= Len(s), Good(k) PROVE Good(k + 1)
  BY <1>2, FoldsOneMore
<1> HIDE DEF Good
<1>3. 0 \in K /\ \A k \in K : k + 1 \in K
  <2>1. ASSUME NEW k \in K PROVE k + 1 \in K
    <3>1. Len(s) \in Nat /\ k \in Nat /\ (k <= Len(s) => Good(k))
      OBVIOUS
    <3> QED
      BY <1>2, <3>1
  <2> QED
    BY <1>1, <2>1
<1>4. K = Nat
  <2>1. K \in SUBSET Nat
    OBVIOUS
  <2> HIDE DEF K
  <2> QED
    BY <1>3, <2>1, Induct
<1>5. Good(Len(s))
  <2>1. Len(s) \in Nat /\ Len(s) \in K
    BY <1>4
  <2> QED
    BY <2>1
<1> QED
  BY <1>5 DEF Good

(* The positions up to i. *)
LEMMA UpTo ==
  ASSUME NEW i \in Nat \ {0}
  PROVE  1 .. i # {} /\ Max(1 .. i) = i /\ (1 .. i) \ {i} = 1 .. i - 1
<1>1. i - 1 \in Nat /\ i = (i - 1) + 1
  OBVIOUS
<1>2. Max(1 .. i) = i
  <2>1. 1 .. i \in SUBSET (1 .. (i - 1) + 1) /\ (i - 1) + 1 \in 1 .. i
    OBVIOUS
  <2> QED
    BY <1>1, <2>1, MaxOfLast
<1> QED
  BY <1>2

(* The values over the positions up to i, one step after the other. *)
Along(g, n, step, base, s) ==
  /\ g[1 .. 0] = base
  /\ \A i \in 1 .. n : g[1 .. i] = step[g[1 .. i - 1]][s[i]]

(* What a fold builds goes along the sequence. *)
LEMMA FoldsSteps ==
  ASSUME NEW step, NEW base, NEW n \in Nat, NEW s, NEW g, Folds(g, n, step, base, s)
  PROVE  Along(g, n, step, base, s)
<1>1. g[{}] = base
  BY DEF Folds
<1>2. ASSUME NEW i \in 1 .. n PROVE g[1 .. i] = step[g[1 .. i - 1]][s[i]]
  <2>1. 1 .. i \in SUBSET (1 .. n)
    OBVIOUS
  <2>2. 1 .. i # {} /\ Max(1 .. i) = i /\ (1 .. i) \ {i} = 1 .. i - 1
    <3>1. i \in Nat \ {0}
      OBVIOUS
    <3> QED
      BY <3>1, UpTo
  <2>3. g[1 .. i] = IF 1 .. i = {} THEN base
                    ELSE step[g[(1 .. i) \ {Max(1 .. i)}]][s[Max(1 .. i)]]
    BY <2>1 DEF Folds
  <2> QED
    BY <2>2, <2>3
<1>3. 1 .. 0 = {}
  OBVIOUS
<1> QED
  BY <1>1, <1>2, <1>3 DEF Along

(* q goes the way of a fold, as long as it has the type that the steps keep. *)
Goes(q, W, step, base, s) ==
  /\ q[0] = base
  /\ \A i \in 1 .. Len(s) : q[i - 1] \in W => q[i] = step[q[i - 1]][s[i]]

(* There is one such way only, and it has its type. *)
LEMMA RunIsUnique ==
  ASSUME NEW W, NEW X, NEW step, Steps(step, W, X), NEW base \in W, NEW s \in Seq(X),
         NEW r, Goes(r, W, step, base, s), NEW q, Goes(q, W, step, base, s)
  PROVE  \A k \in 0 .. Len(s) : q[k] \in W /\ q[k] = r[k]
<1> DEFINE K == {k \in Nat : k <= Len(s) => q[k] \in W /\ q[k] = r[k]}
<1>1. 0 \in K
  BY DEF Goes
<1>2. ASSUME NEW k \in K PROVE k + 1 \in K
  <2> SUFFICES ASSUME k + 1 <= Len(s) PROVE q[k + 1] \in W /\ q[k + 1] = r[k + 1]
    OBVIOUS
  <2>1. Len(s) \in Nat /\ k \in Nat
    OBVIOUS
  <2>2. k + 1 \in 1 .. Len(s) /\ (k + 1) - 1 = k /\ q[k] \in W /\ q[k] = r[k]
    BY <2>1
  <2>3. q[k + 1] = step[q[k]][s[k + 1]] /\ r[k + 1] = step[r[k]][s[k + 1]]
    BY <2>2 DEF Goes
  <2>4. s[k + 1] \in X
    BY <2>2
  <2>5. step[q[k]][s[k + 1]] \in W
    BY <2>2, <2>4 DEF Steps
  <2> QED
    BY <2>2, <2>3, <2>5
<1>3. K = Nat
  <2>1. K \in SUBSET Nat
    OBVIOUS
  <2> HIDE DEF K
  <2> QED
    BY <1>1, <1>2, <2>1, Induct
<1> QED
  BY <1>3

(* The values of a fold by length: the states its walk goes through. *)
Run(r, W, step, base, s) ==
  /\ r \in [0 .. Len(s) -> W]
  /\ r[0] = base
  /\ \A i \in 1 .. Len(s) : r[i] = step[r[i - 1]][s[i]]
  /\ Fold(step, base, s) = r[Len(s)]

(* A fold has a run ... *)
LEMMA FoldRuns ==
  ASSUME NEW W, NEW X, NEW step, Steps(step, W, X), NEW base \in W, NEW s \in Seq(X)
  PROVE  \E r : Run(r, W, step, base, s)
<1>0. Len(s) \in Nat /\ DOMAIN s = 1 .. Len(s)
  OBVIOUS
<1>1. PICK h : Folds(h, Len(s), step, base, s) /\ Fold(step, base, s) = h[1 .. Len(s)]
  <2> DEFINE c == CHOOSE g : Folds(g, Len(s), step, base, s)
  <2>1. Folds(c, Len(s), step, base, s)
    <3>1. PICK g \in [SUBSET (1 .. Len(s)) -> W] : Folds(g, Len(s), step, base, s)
      BY FoldsExists
    <3> QED
      BY <3>1, Zenon
  <2>2. Fold(step, base, s) = c[1 .. Len(s)]
    BY <1>0, Zenon DEF Fold, FoldLeft, MapThenFoldSet, Folds
  <2> QED
    BY <2>1, <2>2, Zenon
<1> DEFINE r == [i \in 0 .. Len(s) |-> h[1 .. i]]
<1>2. r[0] = base /\ \A i \in 1 .. Len(s) : r[i] = step[r[i - 1]][s[i]]
  <2>1. /\ h[1 .. 0] = base
        /\ \A i \in 1 .. Len(s) : h[1 .. i] = step[h[1 .. i - 1]][s[i]]
    <3> HIDE DEF r
    <3>1. Folds(h, Len(s), step, base, s)
      BY <1>1
    <3>2. Along(h, Len(s), step, base, s)
      BY <1>0, <3>1, FoldsSteps
    <3> QED
      BY <3>2 DEF Along
  <2>2. 0 \in 0 .. Len(s) /\ \A i \in 1 .. Len(s) : i \in 0 .. Len(s) /\ i - 1 \in 0 .. Len(s)
    BY <1>0
  <2> QED
    BY <2>1, <2>2
<1>3. \A k \in 0 .. Len(s) : r[k] \in W
  <2> HIDE DEF r
  <2>1. Goes(r, W, step, base, s)
    BY <1>2 DEF Goes
  <2> QED
    BY <2>1, RunIsUnique
<1>4. r \in [0 .. Len(s) -> W] /\ Fold(step, base, s) = r[Len(s)]
  BY <1>0, <1>1, <1>3
<1>5. Run(r, W, step, base, s)
  <2> HIDE DEF r
  <2> QED
    BY <1>2, <1>4 DEF Run
<1> QED
  BY <1>5

(* ... and what runs like it ends like it. *)
LEMMA FoldIs ==
  ASSUME NEW W, NEW X, NEW step, Steps(step, W, X), NEW base \in W, NEW s \in Seq(X),
         NEW q, q[0] = base,
         \A i \in 1 .. Len(s) : q[i - 1] \in W => q[i] = step[q[i - 1]][s[i]]
  PROVE  q[Len(s)] = Fold(step, base, s) /\ Fold(step, base, s) \in W
<1>1. PICK r : Run(r, W, step, base, s)
  BY FoldRuns
<1>2. Goes(r, W, step, base, s) /\ Goes(q, W, step, base, s)
  BY <1>1 DEF Run, Goes
<1>3. \A k \in 0 .. Len(s) : q[k] \in W /\ q[k] = r[k]
  BY <1>2, RunIsUnique
<1>4. Len(s) \in 0 .. Len(s)
  OBVIOUS
<1> QED
  BY <1>1, <1>3, <1>4 DEF Run
-----------------------------------------------------------------------------
(* The result of a fold has the type that its step keeps. *)
LEMMA FoldType ==
  ASSUME NEW W, NEW X, NEW step, Steps(step, W, X), NEW base \in W, NEW s \in Seq(X)
  PROVE  Fold(step, base, s) \in W
<1>1. PICK r : Run(r, W, step, base, s)
  BY FoldRuns
<1>2. Len(s) \in 0 .. Len(s)
  OBVIOUS
<1> QED
  BY <1>1, <1>2 DEF Run

(* The fold of the empty sequence is the value it starts with. *)
LEMMA FoldEmpty ==
  ASSUME NEW W, NEW X, NEW step, Steps(step, W, X), NEW base \in W
  PROVE  Fold(step, base, <<>>) = base
<1>1. <<>> \in Seq(X)
  OBVIOUS
<1>2. PICK r : Run(r, W, step, base, <<>>)
  BY <1>1, FoldRuns
<1> QED
  BY <1>2 DEF Run

(* To fold s \o t is to fold t from where the fold of s ends. *)
LEMMA FoldConcat ==
  ASSUME NEW W, NEW X, NEW step, Steps(step, W, X), NEW base \in W,
         NEW s \in Seq(X), NEW t \in Seq(X)
  PROVE  Fold(step, base, s \o t) = Fold(step, Fold(step, base, s), t)
<1> DEFINE n == Len(s)
           m == Len(t)
<1>0. /\ n \in Nat /\ m \in Nat /\ s \o t \in Seq(X) /\ Len(s \o t) = n + m
      /\ \A i \in 1 .. n : (s \o t)[i] = s[i]
      /\ \A i \in 1 .. m : (s \o t)[n + i] = t[i]
  OBVIOUS
<1> HIDE DEF n, m
<1>1. PICK r : Run(r, W, step, base, s \o t)
  BY <1>0, FoldRuns
<1>2. r[n] = Fold(step, base, s) /\ r[n] \in W
  <2>1. \A i \in 1 .. Len(s) : r[i] = step[r[i - 1]][s[i]]
    BY <1>0, <1>1 DEF n, Run
  <2>2. r[Len(s)] = Fold(step, base, s) /\ Fold(step, base, s) \in W
    <3>1. r[0] = base
      BY <1>1 DEF Run
    <3> QED
      BY <2>1, <3>1, FoldIs
  <2> QED
    BY <2>2 DEF n
<1> DEFINE q == [i \in 0 .. m |-> r[n + i]]
<1>3. q[0] = r[n] /\ q[m] = r[n + m]
  BY <1>0
<1>4. ASSUME NEW i \in 1 .. m PROVE q[i] = step[q[i - 1]][t[i]]
  <2>1. n + i \in 1 .. n + m /\ (n + i) - 1 = n + (i - 1) /\ i - 1 \in 0 .. m /\ i \in 0 .. m
    BY <1>0
  <2>2. r[n + i] = step[r[n + (i - 1)]][t[i]]
    BY <1>0, <1>1, <2>1 DEF Run
  <2> QED
    BY <2>1, <2>2
<1>5. q[m] = Fold(step, r[n], t)
  <2> HIDE DEF q
  <2> QED
    BY <1>2, <1>3, <1>4, FoldIs DEF m
<1>6. Fold(step, base, s \o t) = r[n + m]
  BY <1>0, <1>1 DEF Run
<1> QED
  BY <1>2, <1>3, <1>5, <1>6

(* The fold of one element is one step. *)
LEMMA FoldOne ==
  ASSUME NEW W, NEW X, NEW step, Steps(step, W, X), NEW base \in W, NEW x \in X
  PROVE  Fold(step, base, <<x>>) = step[base][x]
<1>1. <<x>> \in Seq(X) /\ Len(<<x>>) = 1 /\ <<x>>[1] = x
  OBVIOUS
<1>2. PICK r : Run(r, W, step, base, <<x>>)
  BY <1>1, FoldRuns
<1> QED
  BY <1>1, <1>2 DEF Run

(* The fold of a longer sequence takes one more step. *)
LEMMA FoldAppend ==
  ASSUME NEW W, NEW X, NEW step, Steps(step, W, X), NEW base \in W,
         NEW s \in Seq(X), NEW x \in X
  PROVE  Fold(step, base, Append(s, x)) = step[Fold(step, base, s)][x]
<1> DEFINE one == <<x>>
<1>0. one \in Seq(X)
  OBVIOUS
<1>1. Append(s, x) = s \o one
  BY AppendIsConcat
<1>2. Fold(step, base, s) \in W
  BY FoldType
<1>3. Fold(step, base, s \o one) = Fold(step, Fold(step, base, s), one)
  <2> HIDE DEF one
  <2> QED
    BY <1>0, FoldConcat
<1>4. Fold(step, Fold(step, base, s), one) = step[Fold(step, base, s)][x]
  BY <1>2, FoldOne
<1> QED
  BY <1>1, <1>3, <1>4

(* What holds of the empty sequence, and of every longer one, holds of all. *)
LEMMA SeqInduct ==
  ASSUME NEW X, NEW S \in SUBSET Seq(X), <<>> \in S,
         \A s \in S, x \in X : Append(s, x) \in S
  PROVE  S = Seq(X)
<1> DEFINE K == {k \in Nat : \A s \in Seq(X) : Len(s) = k => s \in S}
<1>1. 0 \in K
  <2>1. \A s \in Seq(X) : Len(s) = 0 => s = <<>>
    BY EmptySeq
  <2> QED
    BY <2>1
<1>2. ASSUME NEW k \in K PROVE k + 1 \in K
  <2> SUFFICES ASSUME NEW s \in Seq(X), Len(s) = k + 1 PROVE s \in S
    OBVIOUS
  <2>1. s # <<>>
    BY EmptySeq
  <2>2. PICK f \in Seq(X), x \in X : s = Append(f, x)
    BY <2>1, SequenceEmptyOrAppend
  <2>3. Len(f) = k
    BY <2>2
  <2> QED
    BY <2>2, <2>3
<1>3. K = Nat
  <2>1. K \in SUBSET Nat
    OBVIOUS
  <2> HIDE DEF K
  <2> QED
    BY <1>1, <1>2, <2>1, Induct
<1>4. ASSUME NEW s \in Seq(X) PROVE s \in S
  <2>1. Len(s) \in K
    BY <1>3
  <2> QED
    BY <2>1
<1> QED
  BY <1>4
-----------------------------------------------------------------------------
(* A function that agrees with a fold as far as the values have their type *)
(* gives its result: what CHOOSE picks for a FoldLeft is such a function.  *)
Like(c, W, n, step, base, s) ==
  /\ c[{}] = base
  /\ \A d \in SUBSET (1 .. n) :
       d # {} /\ c[d \ {Max(d)}] \in W => c[d] = step[c[d \ {Max(d)}]][s[Max(d)]]

(* Such a function has the result of the fold. *)
LEMMA LikeIs ==
  ASSUME NEW W, NEW X, NEW step, Steps(step, W, X), NEW base \in W, NEW s \in Seq(X),
         NEW c, Like(c, W, Len(s), step, base, s)
  PROVE  c[1 .. Len(s)] = Fold(step, base, s)
<1>0. Len(s) \in Nat
  OBVIOUS
<1> DEFINE q == [i \in 0 .. Len(s) |-> c[1 .. i]]
<1>1. q[0] = base /\ q[Len(s)] = c[1 .. Len(s)]
  <2>1. 1 .. 0 = {}
    OBVIOUS
  <2> QED
    BY <1>0, <2>1 DEF Like
<1>2. ASSUME NEW i \in 1 .. Len(s), q[i - 1] \in W PROVE q[i] = step[q[i - 1]][s[i]]
  <2>1. 1 .. i \in SUBSET (1 .. Len(s)) /\ i \in 0 .. Len(s) /\ i - 1 \in 0 .. Len(s)
    BY <1>0
  <2>2. 1 .. i # {} /\ Max(1 .. i) = i /\ (1 .. i) \ {i} = 1 .. i - 1
    <3>1. i \in Nat \ {0}
      OBVIOUS
    <3> QED
      BY <3>1, UpTo
  <2>3. q[i] = c[1 .. i] /\ q[i - 1] = c[1 .. i - 1]
    BY <2>1
  <2> HIDE DEF q
  <2>4. c[(1 .. i) \ {Max(1 .. i)}] \in W
    BY <1>2, <2>2, <2>3
  <2>5. c[1 .. i] = step[c[(1 .. i) \ {Max(1 .. i)}]][s[Max(1 .. i)]]
    BY <2>1, <2>2, <2>4 DEF Like
  <2> QED
    BY <2>2, <2>3, <2>5
<1>3. q[Len(s)] = Fold(step, base, s)
  <2> HIDE DEF q
  <2> QED
    BY <1>1, <1>2, FoldIs
<1> QED
  BY <1>1, <1>3

(* The values of a fold, how they come about. *)
Builds(g, W, X, step, base, s) ==
  /\ g = [d \in SUBSET (1 .. Len(s)) |-> g[d]]
  /\ g[{}] = base
  /\ \A d \in SUBSET (1 .. Len(s)) : d # {} =>
       /\ s[Max(d)] \in X /\ g[d \ {Max(d)}] \in W
       /\ g[d] = step[g[d \ {Max(d)}]][s[Max(d)]]

(* Every fold has its values. *)
LEMMA BuildsExists ==
  ASSUME NEW W, NEW X, NEW step, Steps(step, W, X), NEW base \in W, NEW s \in Seq(X)
  PROVE  \E g : Builds(g, W, X, step, base, s)
<1>1. PICK g \in [SUBSET (1 .. Len(s)) -> W] : Folds(g, Len(s), step, base, s)
  BY FoldsExists
<1>2. ASSUME NEW d \in SUBSET (1 .. Len(s)), d # {}
      PROVE  /\ s[Max(d)] \in X /\ g[d \ {Max(d)}] \in W
             /\ g[d] = step[g[d \ {Max(d)}]][s[Max(d)]]
  <2>1. Max(d) \in d
    <3>1. Len(s) \in Nat
      OBVIOUS
    <3> QED
      BY <1>2, <3>1, MaxProperty
  <2>2. Max(d) \in 1 .. Len(s) /\ d \ {Max(d)} \in SUBSET (1 .. Len(s))
    BY <2>1
  <2>3. g[d] = step[g[d \ {Max(d)}]][s[Max(d)]]
    BY <1>1, <1>2 DEF Folds
  <2> QED
    BY <2>2, <2>3
<1>3. g[{}] = base /\ g = [d \in SUBSET (1 .. Len(s)) |-> g[d]]
  BY <1>1 DEF Folds
<1> QED
  BY <1>2, <1>3 DEF Builds

(* What FoldLeft chooses. *)
Walk(Op(_, _), g, n, base, s) ==
  g = [d \in SUBSET (1 .. n) |->
         IF d = {} THEN base ELSE Op(g[d \ {Max(d)}], s[Max(d)])]
-----------------------------------------------------------------------------
(* 3. The entries of settings.json: the user's, and those that Keld adds.     *)
(* Users keeps the user's.                                                 *)
Entries == UserEntries \cup {KeldEntry(m) : m \in {"startup", "resume", "none"}}
KeepStep == [w \in Seq(UserEntries) |-> [x \in Entries |-> KeepUsers(w, x)]]
Users(s) == Fold(KeepStep, <<>>, s)

(* An entry is Keld's or the user's, and IsKelds tells which. *)
LEMMA EntriesOwner ==
  /\ \A x \in UserEntries : x \in Entries /\ ~IsKelds(x)
  /\ \A x \in Entries : IsKelds(x) <=> x \notin UserEntries
<1>1. \A x \in UserEntries : ~IsKelds(x)
  BY DEF UserEntries, IsKelds
<1>2. \A m \in {"startup", "resume", "none"} : IsKelds(KeldEntry(m))
  BY DEF IsKelds, KeldEntry
<1> QED
  BY <1>1, <1>2 DEF Entries

(* The filter of RemoveHooksByCommand is a fold over entries, and for each *)
(* entry it decides what the user's own view of the list decides.          *)
LEMMA KeepSteps ==
  /\ Steps(KeepStep, Seq(UserEntries), Entries)
  /\ \A w \in Seq(UserEntries), x \in Entries :
       /\ KeepStep[w][x] = KeepUsers(w, x)
       /\ KeepUsers(w, x) = UsersOnly(w, x)
<1>1. ASSUME NEW w \in Seq(UserEntries), NEW x \in Entries
      PROVE  KeepUsers(w, x) \in Seq(UserEntries) /\ KeepUsers(w, x) = UsersOnly(w, x)
  BY EntriesOwner DEF KeepUsers, UsersOnly
<1>2. ASSUME NEW w \in Seq(UserEntries)
      PROVE  KeepStep[w] = [x \in Entries |-> KeepUsers(w, x)]
  BY DEF KeepStep
<1>3. \A w \in Seq(UserEntries) : KeepStep[w] \in [Entries -> Seq(UserEntries)]
  BY <1>1, <1>2
<1>4. KeepStep \in [Seq(UserEntries) -> [Entries -> Seq(UserEntries)]]
  BY <1>3 DEF KeepStep
<1> QED
  BY <1>1, <1>2, <1>4 DEF Steps

(* RemoveHooksByCommand keeps what UsersOf takes for the user's. *)
LEMMA UsersAre ==
  ASSUME NEW s \in Seq(Entries)
  PROVE  /\ FoldLeft(KeepUsers, <<>>, s) = Users(s)
         /\ FoldLeft(UsersOnly, <<>>, s) = Users(s)
         /\ Users(s) \in Seq(UserEntries)
<1> DEFINE W == Seq(UserEntries)
           n == Len(s)
<1>0. n \in Nat /\ DOMAIN s = 1 .. n /\ <<>> \in W /\ Steps(KeepStep, W, Entries)
  BY KeepSteps
<1>1. PICK g : Builds(g, W, Entries, KeepStep, <<>>, s)
  BY <1>0, BuildsExists
<1>2. Walk(KeepUsers, g, n, <<>>, s) /\ Walk(UsersOnly, g, n, <<>>, s)
  BY <1>1, KeepSteps DEF Walk, Builds
<1>3. PICK c : Walk(KeepUsers, c, n, <<>>, s) /\ FoldLeft(KeepUsers, <<>>, s) = c[1 .. n]
  <2> DEFINE c == CHOOSE f : Walk(KeepUsers, f, n, <<>>, s)
  <2>1. Walk(KeepUsers, c, n, <<>>, s)
    BY <1>2, Zenon
  <2>2. FoldLeft(KeepUsers, <<>>, s) = c[1 .. n]
    BY <1>0, Zenon DEF FoldLeft, MapThenFoldSet, Walk
  <2> QED
    BY <2>1, <2>2, Zenon
<1>4. PICK b : Walk(UsersOnly, b, n, <<>>, s) /\ FoldLeft(UsersOnly, <<>>, s) = b[1 .. n]
  <2> DEFINE b == CHOOSE f : Walk(UsersOnly, f, n, <<>>, s)
  <2>1. Walk(UsersOnly, b, n, <<>>, s)
    BY <1>2, Zenon
  <2>2. FoldLeft(UsersOnly, <<>>, s) = b[1 .. n]
    BY <1>0, Zenon DEF FoldLeft, MapThenFoldSet, Walk
  <2> QED
    BY <2>1, <2>2, Zenon
<1>5. Like(c, W, n, KeepStep, <<>>, s) /\ Like(b, W, n, KeepStep, <<>>, s)
  <2>1. \A d \in SUBSET (1 .. n) : d # {} => s[Max(d)] \in Entries
    BY <1>1 DEF Builds
  <2>2. \A d \in SUBSET (1 .. n) : d # {} => c[d] = KeepUsers(c[d \ {Max(d)}], s[Max(d)])
    BY <1>3 DEF Walk
  <2>3. \A d \in SUBSET (1 .. n) : d # {} => b[d] = UsersOnly(b[d \ {Max(d)}], s[Max(d)])
    BY <1>4 DEF Walk
  <2>4. c[{}] = <<>> /\ b[{}] = <<>>
    BY <1>3, <1>4 DEF Walk
  <2> HIDE DEF n, W
  <2>5. Like(c, W, n, KeepStep, <<>>, s)
    BY <2>1, <2>2, <2>4, KeepSteps DEF W, Like
  <2>6. Like(b, W, n, KeepStep, <<>>, s)
    BY <2>1, <2>3, <2>4, KeepSteps DEF W, Like
  <2> QED
    BY <2>5, <2>6
<1> HIDE DEF W, n
<1>6. c[1 .. Len(s)] = Fold(KeepStep, <<>>, s) /\ b[1 .. Len(s)] = Fold(KeepStep, <<>>, s)
  BY <1>0, <1>5, LikeIs DEF n
<1>7. Fold(KeepStep, <<>>, s) \in W
  BY <1>0, FoldType
<1> QED
  BY <1>3, <1>4, <1>6, <1>7 DEF Users, W, n

(* The user's entries are all there is, or one of Keld's comes to them. *)
LEMMA UsersKept ==
  /\ \A s \in Seq(UserEntries) : Users(s) = s
  /\ \A s \in Seq(Entries), x \in Entries : IsKelds(x) => Users(Append(s, x)) = Users(s)
<1>0. Steps(KeepStep, Seq(UserEntries), Entries) /\ <<>> \in Seq(UserEntries)
  BY KeepSteps
<1>1. ASSUME NEW s \in Seq(Entries), NEW x \in Entries
      PROVE  Users(Append(s, x)) = KeepUsers(Users(s), x)
  <2>1. Fold(KeepStep, <<>>, Append(s, x)) = KeepStep[Fold(KeepStep, <<>>, s)][x]
    <3> DEFINE W == Seq(UserEntries)
               none == <<>>
    <3>1. Steps(KeepStep, W, Entries) /\ none \in W
      BY <1>0
    <3> HIDE DEF W, none
    <3>2. Fold(KeepStep, none, Append(s, x)) = KeepStep[Fold(KeepStep, none, s)][x]
      BY <3>1, FoldAppend
    <3> QED
      BY <3>2 DEF none
  <2>2. Fold(KeepStep, <<>>, s) \in Seq(UserEntries)
    BY UsersAre DEF Users
  <2> QED
    BY <2>1, <2>2, KeepSteps DEF Users
<1>2. \A s \in Seq(Entries), x \in Entries : IsKelds(x) => Users(Append(s, x)) = Users(s)
  BY <1>1 DEF KeepUsers
<1> DEFINE S == {s \in Seq(UserEntries) : Users(s) = s}
<1>3. <<>> \in S
  <2>1. Users(<<>>) = <<>>
    <3> DEFINE W == Seq(UserEntries)
    <3> HIDE DEF W
    <3> QED
      BY <1>0, FoldEmpty DEF W, Users
  <2> QED
    BY <2>1
<1>4. ASSUME NEW s \in S, NEW x \in UserEntries PROVE Append(s, x) \in S
  <2>1. s \in Seq(Entries) /\ x \in Entries /\ ~IsKelds(x)
    <3>1. UserEntries \subseteq Entries
      BY DEF Entries
    <3> QED
      BY <3>1, EntriesOwner
  <2>2. Users(Append(s, x)) = Append(s, x)
    BY <1>1, <2>1 DEF KeepUsers
  <2> QED
    BY <2>2
<1>5. S = Seq(UserEntries)
  <2>1. S \in SUBSET Seq(UserEntries)
    OBVIOUS
  <2> HIDE DEF S
  <2> QED
    BY <1>3, <1>4, <2>1, SeqInduct
<1> QED
  BY <1>2, <1>5
-----------------------------------------------------------------------------
(* The hooks of a document, the entries that setup adds to them, and       *)
(* adding one as a step.                                                   *)
HookSets == [Events -> Seq(Entries)]
HookEvents == {ClaudeHookEvents[i] : i \in 1 .. 3}
AddStep == [w \in HookSets |-> [he \in HookEvents |-> AddClaudeHook(w, he)]]
HasHook(hooks, he) ==
  \E i \in DOMAIN hooks[he.event] : hooks[he.event][i] = KeldEntry(he.matcher)

(* The entries of ClaudeHookEvents are for events there are, and are       *)
(* Keld's.                                                                 *)
LEMMA HookEventsType ==
  /\ \A he \in HookEvents : he.event \in Events /\ KeldEntry(he.matcher) \in Entries
  /\ \A he \in HookEvents : IsKelds(KeldEntry(he.matcher))
<1>1. \A he \in HookEvents :
        he.event \in Events /\ he.matcher \in {"startup", "resume", "none"}
  BY DEF HookEvents, ClaudeHookEvents, Events
<1> QED
  BY <1>1 DEF Entries, IsKelds, KeldEntry

(* AddClaudeHook adds Keld's entry where it is missing and changes nothing *)
(* where it is there; the user's entries and the hooks of other events     *)
(* stay.                                                                   *)
LEMMA AddProperty ==
  ASSUME NEW w \in HookSets, NEW he \in HookEvents
  PROVE  /\ AddClaudeHook(w, he) \in HookSets
         /\ \A e \in Events : Users(AddClaudeHook(w, he)[e]) = Users(w[e])
         /\ HasHook(AddClaudeHook(w, he), he)
         /\ \A x \in HookEvents : HasHook(w, x) => HasHook(AddClaudeHook(w, he), x)
         /\ HasHook(w, he) => AddClaudeHook(w, he) = w
<1>0. /\ he.event \in Events /\ KeldEntry(he.matcher) \in Entries
      /\ IsKelds(KeldEntry(he.matcher))
  BY HookEventsType
<1>1. CASE HasHook(w, he)
  <2>1. AddClaudeHook(w, he) = w
    BY <1>1 DEF AddClaudeHook, HasHook
  <2> QED
    BY <1>1, <2>1
<1>2. CASE ~HasHook(w, he)
  <2> DEFINE k == KeldEntry(he.matcher)
             a == [w EXCEPT ![he.event] = Append(@, k)]
  <2>1. AddClaudeHook(w, he) = a
    BY <1>2 DEF AddClaudeHook, HasHook
  <2>2. w \in [Events -> Seq(Entries)] /\ k \in Entries
    BY <1>0 DEF HookSets
  <2>3. /\ a \in [Events -> Seq(Entries)]
        /\ a[he.event] = Append(w[he.event], k)
        /\ \A e \in Events : e # he.event => a[e] = w[e]
    <3> HIDE DEF k
    <3> QED
      BY <1>0, <2>2
  <2>4. \A e \in Events : w[e] \in Seq(Entries)
    BY <2>2
  <2> HIDE DEF a
  <2>5. ASSUME NEW e \in Events PROVE Users(a[e]) = Users(w[e])
    BY <1>0, <2>2, <2>3, <2>4, UsersKept DEF k
  <2> HIDE DEF k
  <2>6. /\ DOMAIN a[he.event] = 1 .. Len(w[he.event]) + 1
        /\ a[he.event][Len(w[he.event]) + 1] = k
        /\ DOMAIN w[he.event] = 1 .. Len(w[he.event]) /\ Len(w[he.event]) \in Nat
        /\ \A i \in DOMAIN w[he.event] : a[he.event][i] = w[he.event][i]
    BY <1>0, <2>2, <2>3, <2>4
  <2>7. HasHook(a, he)
    BY <2>6 DEF HasHook, k
  <2>8. ASSUME NEW x \in HookEvents, HasHook(w, x) PROVE HasHook(a, x)
    <3>1. x.event \in Events
      BY HookEventsType
    <3>2. CASE x.event = he.event
      BY <2>6, <2>8, <3>2 DEF HasHook
    <3>3. CASE x.event # he.event
      BY <2>3, <2>8, <3>1, <3>3 DEF HasHook
    <3> QED
      BY <3>2, <3>3
  <2> QED
    BY <1>2, <2>1, <2>3, <2>5, <2>7, <2>8 DEF HookSets
<1> QED
  BY <1>1, <1>2

(* ClaudeApply's walk over ClaudeHookEvents is a fold over hooks. *)
LEMMA AddSteps ==
  /\ Steps(AddStep, HookSets, HookEvents)
  /\ \A w \in HookSets, he \in HookEvents : AddStep[w][he] = AddClaudeHook(w, he)
<1>1. \A w \in HookSets : AddStep[w] = [he \in HookEvents |-> AddClaudeHook(w, he)]
  BY DEF AddStep
<1>2. ASSUME NEW w \in HookSets PROVE AddStep[w] \in [HookEvents -> HookSets]
  <2>1. \A he \in HookEvents : AddClaudeHook(w, he) \in HookSets
    BY AddProperty
  <2> QED
    BY <1>1, <2>1
<1>3. AddStep \in [HookSets -> [HookEvents -> HookSets]]
  BY <1>2 DEF AddStep
<1> QED
  BY <1>1, <1>3 DEF Steps

(* ClaudeApply goes through the events in their order. *)
LEMMA AddedAll ==
  ASSUME NEW h \in HookSets
  PROVE  FoldLeft(AddClaudeHook, h, ClaudeHookEvents) = Fold(AddStep, h, ClaudeHookEvents)
<1> DEFINE s == ClaudeHookEvents
           n == Len(s)
<1>0. /\ n \in Nat /\ DOMAIN s = 1 .. n /\ s \in Seq(HookEvents)
      /\ Steps(AddStep, HookSets, HookEvents)
  BY AddSteps DEF ClaudeHookEvents, HookEvents
<1> HIDE DEF s, n
<1>1. PICK g : Builds(g, HookSets, HookEvents, AddStep, h, s)
  BY <1>0, BuildsExists
<1>2. Walk(AddClaudeHook, g, n, h, s)
  BY <1>1, AddSteps DEF Walk, Builds, n
<1>3. PICK c : Walk(AddClaudeHook, c, n, h, s) /\ FoldLeft(AddClaudeHook, h, s) = c[1 .. n]
  <2> DEFINE c == CHOOSE f : Walk(AddClaudeHook, f, n, h, s)
  <2>1. Walk(AddClaudeHook, c, n, h, s)
    BY <1>2, Zenon
  <2>2. FoldLeft(AddClaudeHook, h, s) = c[1 .. n]
    BY <1>0, Zenon DEF FoldLeft, MapThenFoldSet, Walk
  <2> QED
    BY <2>1, <2>2, Zenon
<1>4. Like(c, HookSets, n, AddStep, h, s)
  <2>1. \A d \in SUBSET (1 .. n) : d # {} => s[Max(d)] \in HookEvents
    BY <1>1 DEF Builds, n
  <2>2. \A d \in SUBSET (1 .. n) : d # {} => c[d] = AddClaudeHook(c[d \ {Max(d)}], s[Max(d)])
    BY <1>3 DEF Walk
  <2>3. c[{}] = h
    BY <1>3 DEF Walk
  <2> QED
    BY <2>1, <2>2, <2>3, AddSteps DEF Like
<1> QED
  BY <1>0, <1>3, <1>4, LikeIs DEF n, s

(* What the three events come to. *)
LEMMA AddedAllProperty ==
  ASSUME NEW h \in HookSets
  PROVE  LET r == FoldLeft(AddClaudeHook, h, ClaudeHookEvents)
         IN  /\ r \in HookSets
             /\ \A e \in Events : Users(r[e]) = Users(h[e])
             /\ \A x \in HookEvents : HasHook(r, x)
             /\ (\A x \in HookEvents : HasHook(h, x)) => r = h
<1> DEFINE a == ClaudeHookEvents[1]
           b == ClaudeHookEvents[2]
           c == ClaudeHookEvents[3]
           r == FoldLeft(AddClaudeHook, h, ClaudeHookEvents)
<1>1. PICK q : Run(q, HookSets, AddStep, h, ClaudeHookEvents)
  <2>1. ClaudeHookEvents \in Seq(HookEvents)
    BY DEF ClaudeHookEvents, HookEvents
  <2> QED
    BY <2>1, AddSteps, FoldRuns
<1>2. Len(ClaudeHookEvents) = 3
  BY DEF ClaudeHookEvents
<1>3. /\ q[0] = h /\ r = q[3]
      /\ \A i \in 0 .. 3 : q[i] \in HookSets
      /\ q[1] = AddStep[q[0]][a] /\ q[2] = AddStep[q[1]][b] /\ q[3] = AddStep[q[2]][c]
  BY <1>1, <1>2, AddedAll DEF Run
<1>4. HookEvents = {a, b, c} /\ a \in HookEvents /\ b \in HookEvents /\ c \in HookEvents
  BY DEF HookEvents
<1> HIDE DEF a, b, c, r
<1>5. /\ q[0] \in HookSets /\ q[1] \in HookSets /\ q[2] \in HookSets /\ q[3] \in HookSets
      /\ q[1] = AddClaudeHook(q[0], a) /\ q[2] = AddClaudeHook(q[1], b)
      /\ q[3] = AddClaudeHook(q[2], c)
  BY <1>3, <1>4, AddSteps
<1>6. /\ HasHook(q[1], a) /\ HasHook(q[2], a) /\ HasHook(q[3], a)
      /\ HasHook(q[2], b) /\ HasHook(q[3], b) /\ HasHook(q[3], c)
  BY <1>4, <1>5, AddProperty
<1>7. \A e \in Events : Users(q[3][e]) = Users(h[e])
  BY <1>3, <1>4, <1>5, AddProperty
<1>8. ASSUME \A x \in HookEvents : HasHook(h, x) PROVE q[3] = h
  BY <1>3, <1>4, <1>5, <1>8, AddProperty
<1>9. r \in HookSets /\ \A x \in HookEvents : HasHook(r, x)
  BY <1>3, <1>4, <1>5, <1>6
<1> QED
  BY <1>3, <1>7, <1>8, <1>9 DEF r
-----------------------------------------------------------------------------
(* What is in front of a concatenation stays where it is. *)
LEMMA ConcatFront ==
  ASSUME NEW X, NEW s \in Seq(X), NEW t \in Seq(X), NEW i \in DOMAIN s
  PROVE  i \in DOMAIN (s \o t) /\ (s \o t)[i] = s[i]
OBVIOUS

(* Documents without Keld's part, with any number of entries; and with it. *)
PlainDocuments ==
  [env : [EnvKeys -> {NoValue, UserValue}], hooks : [Events -> Seq(UserEntries)],
   other : BOOLEAN]
WithKeld ==
  {d \in [env : [EnvKeys -> {NoValue, UserValue} \cup Parameters], hooks : HookSets,
          other : BOOLEAN] :
     /\ d.env["otel"] \in Parameters /\ d.env["user"] \notin Parameters
     /\ \A x \in HookEvents : HasHook(d.hooks, x)}

(* The bounded sequences that the runs use are sequences. *)
LEMMA BoundedIsSeq == ASSUME NEW X, NEW n \in Int PROVE BoundedSeq(X, n) \subseteq Seq(X)
<1>1. \A m \in 0 .. n : \A s \in [1 .. m -> X] : s \in Seq(X)
  OBVIOUS
<1> QED
  BY <1>1 DEF BoundedSeq, SeqOf

(* ClaudeConfigured finds the hooks in any document with Keld's part, and  *)
(* in no other.                                                            *)
LEMMA Hooked ==
  /\ \A d \in PlainDocuments : ~HasHookWithCommand(d.hooks)
  /\ \A h \in HookSets : (\A x \in HookEvents : HasHook(h, x)) => HasHookWithCommand(h)
<1>1. ASSUME NEW d \in PlainDocuments PROVE ~HasHookWithCommand(d.hooks)
  <2>1. ASSUME NEW e \in Events, NEW i \in DOMAIN d.hooks[e]
        PROVE  ~IsKelds(d.hooks[e][i])
    <3>1. d.hooks[e] \in Seq(UserEntries)
      BY DEF PlainDocuments
    <3>2. d.hooks[e][i] \in UserEntries
      BY <3>1
    <3> QED
      BY <3>2, EntriesOwner
  <2> QED
    BY <2>1 DEF HasHookWithCommand
<1>2. ASSUME NEW h \in HookSets, \A x \in HookEvents : HasHook(h, x)
      PROVE  HasHookWithCommand(h)
  <2>1. ClaudeHookEvents[1] \in HookEvents
    BY DEF HookEvents
  <2>2. PICK x \in HookEvents : HasHook(h, x) /\ x.event \in Events /\ IsKelds(KeldEntry(x.matcher))
    BY <1>2, <2>1, HookEventsType
  <2> QED
    BY <2>2 DEF HasHook, HasHookWithCommand
<1> QED
  BY <1>1, <1>2

(* Without Keld's part all entries are the user's. *)
LEMMA PlainType ==
  ASSUME NEW d \in PlainDocuments
  PROVE  /\ d.hooks \in HookSets
         /\ \A e \in Events : Users(d.hooks[e]) = d.hooks[e]
<1>1. d.hooks \in [Events -> Seq(UserEntries)] /\ UserEntries \subseteq Entries
  BY DEF PlainDocuments, Entries
<1>2. \A e \in Events : d.hooks[e] \in Seq(UserEntries) /\ d.hooks[e] \in Seq(Entries)
  BY <1>1
<1>3. \A e \in Events : Users(d.hooks[e]) = d.hooks[e]
  BY <1>2, UsersKept
<1>4. d.hooks = [e \in Events |-> d.hooks[e]]
  BY <1>1
<1> QED
  BY <1>2, <1>3, <1>4 DEF HookSets

(* The user's entries as the model finds them. *)
LEMMA UsersOfIs ==
  ASSUME NEW h \in HookSets
  PROVE  /\ UsersOf(h) = [e \in Events |-> Users(h[e])]
         /\ RemoveHooksByCommand(h) = [e \in Events |-> Users(h[e])]
         /\ RemoveHooksByCommand(h) \in [Events -> Seq(UserEntries)]
<1>1. \A e \in Events : h[e] \in Seq(Entries)
  BY DEF HookSets
<1>2. \A e \in Events :
        /\ FoldLeft(KeepUsers, <<>>, h[e]) = Users(h[e])
        /\ FoldLeft(UsersOnly, <<>>, h[e]) = Users(h[e])
        /\ Users(h[e]) \in Seq(UserEntries)
  BY <1>1, UsersAre
<1> QED
  BY <1>2 DEF UsersOf, RemoveHooksByCommand

(* Any document once set up has Keld's part, and its user's entries. *)
LEMMA ApplyDocument ==
  ASSUME NEW d \in PlainDocuments \cup WithKeld, NEW p \in Parameters
  PROVE  LET after == ClaudeApply(d, p)
         IN  /\ after \in WithKeld
             /\ after.env = [d.env EXCEPT !["otel"] = p]
             /\ after.other = d.other
             /\ UsersOf(after.hooks) = UsersOf(d.hooks)
             /\ d \in WithKeld => after.hooks = d.hooks
<1> DEFINE after == ClaudeApply(d, p)
           h == FoldLeft(AddClaudeHook, d.hooks, ClaudeHookEvents)
<1>1. d.hooks \in HookSets
  BY PlainType DEF WithKeld
<1>2. /\ h \in HookSets /\ \A e \in Events : Users(h[e]) = Users(d.hooks[e])
      /\ \A x \in HookEvents : HasHook(h, x)
      /\ (\A x \in HookEvents : HasHook(d.hooks, x)) => h = d.hooks
  BY <1>1, AddedAllProperty
<1>3. d = [env |-> d.env, hooks |-> d.hooks, other |-> d.other] /\ d.other \in BOOLEAN
  BY DEF PlainDocuments, WithKeld
<1>4. /\ d.env \in [EnvKeys -> {NoValue, UserValue} \cup Parameters]
      /\ d.env["user"] \notin Parameters
  BY DEF PlainDocuments, WithKeld, EnvKeys, Parameters, NoValue, UserValue
<1>5. after = [d EXCEPT !.env = [d.env EXCEPT !["otel"] = p], !.hooks = h]
  BY Zenon DEF ClaudeApply, MergeEnv
<1> HIDE DEF h
<1>6. after = [env |-> [d.env EXCEPT !["otel"] = p], hooks |-> h, other |-> d.other]
  <2> HIDE DEF after
  <2> QED
    BY <1>3, <1>5
<1> HIDE DEF after
<1>7. [d.env EXCEPT !["otel"] = p] \in [EnvKeys -> {NoValue, UserValue} \cup Parameters]
  BY <1>4
<1>8. after.env["otel"] = p /\ after.env["user"] = d.env["user"]
  BY <1>4, <1>6 DEF EnvKeys
<1>9. after \in WithKeld
  BY <1>2, <1>3, <1>4, <1>6, <1>7, <1>8 DEF WithKeld
<1>10. UsersOf(after.hooks) = UsersOf(d.hooks)
  BY <1>1, <1>2, <1>6, UsersOfIs
<1>11. d \in WithKeld => after.hooks = d.hooks
  BY <1>2, <1>6 DEF WithKeld
<1> QED
  BY <1>6, <1>9, <1>10, <1>11 DEF after

(* ClaudeRemove leaves a document without Keld's part: its variables and   *)
(* its hooks are gone, the user's variable, entries and other keys are     *)
(* what they were.                                                         *)
LEMMA RemoveDocument ==
  ASSUME NEW d \in PlainDocuments \cup WithKeld
  PROVE  LET after == ClaudeRemove(d)
         IN  /\ after \in PlainDocuments
             /\ after.env["otel"] = NoValue /\ after.env["user"] = d.env["user"]
             /\ after.other = d.other
             /\ UsersOf(after.hooks) = UsersOf(d.hooks)
             /\ after.hooks = UsersOf(d.hooks)
<1> DEFINE after == ClaudeRemove(d)
           h == RemoveHooksByCommand(d.hooks)
<1>1. d.hooks \in HookSets
  BY PlainType DEF WithKeld
<1>2. h = UsersOf(d.hooks) /\ h \in [Events -> Seq(UserEntries)]
  BY <1>1, UsersOfIs
<1>3. d = [env |-> d.env, hooks |-> d.hooks, other |-> d.other] /\ d.other \in BOOLEAN
  BY DEF PlainDocuments, WithKeld
<1>4. /\ d.env \in [EnvKeys -> {NoValue, UserValue} \cup Parameters]
      /\ d.env["user"] \in {NoValue, UserValue}
  BY DEF PlainDocuments, WithKeld, EnvKeys, Parameters, NoValue, UserValue
<1>5. after = [d EXCEPT !.env = [d.env EXCEPT !["otel"] = NoValue], !.hooks = h]
  BY Zenon DEF ClaudeRemove, RemoveSectionKeys
<1> HIDE DEF h, after
<1>6. after = [env |-> [d.env EXCEPT !["otel"] = NoValue], hooks |-> h, other |-> d.other]
  BY <1>3, <1>5
<1>7. [d.env EXCEPT !["otel"] = NoValue] \in [EnvKeys -> {NoValue, UserValue}]
  BY <1>4 DEF EnvKeys
<1>8. after \in PlainDocuments
  BY <1>2, <1>3, <1>6, <1>7 DEF PlainDocuments
<1>9. after.env["otel"] = NoValue /\ after.env["user"] = d.env["user"]
  BY <1>4, <1>6 DEF EnvKeys
<1>10. UsersOf(after.hooks) = h
  <2>1. after.hooks = h /\ h \in HookSets /\ \A e \in Events : Users(h[e]) = h[e]
    BY <1>6, <1>8, PlainType
  <2>2. UsersOf(h) = [e \in Events |-> Users(h[e])]
    BY <2>1, UsersOfIs
  <2> QED
    BY <1>2, <2>1, <2>2
<1> QED
  BY <1>2, <1>6, <1>8, <1>9, <1>10 DEF after

(* What setup and uninstall do to documents is what the model says. *)
LEMMA KeysAppliedAlways ==
  ASSUME NEW d \in PlainDocuments \cup WithKeld, NEW p \in Parameters
  PROVE  KeysApplied(d, p)
<1> DEFINE f == DocumentContents(d)
           after == ClaudeApply(d, p)
           once == ClaudeApply(after, p)
           back == ClaudeRemove(after)
<1>0. NoValue \notin Parameters /\ UserValue \notin Parameters /\ p \in Parameters
  BY DEF Parameters, NoValue, UserValue
<1>1. /\ after \in WithKeld /\ after.env = [d.env EXCEPT !["otel"] = p]
      /\ after.other = d.other /\ UsersOf(after.hooks) = UsersOf(d.hooks)
  BY ApplyDocument
<1>2. d.env \in [EnvKeys -> {NoValue, UserValue} \cup Parameters]
  BY DEF PlainDocuments, WithKeld
<1> HIDE DEF after
<1>3. after.env["otel"] = p /\ after.env["user"] = d.env["user"] /\ HasHookWithCommand(after.hooks)
  <2>1. HasHookWithCommand(after.hooks)
    BY <1>1, Hooked DEF WithKeld
  <2> QED
    BY <1>1, <1>2, <2>1 DEF EnvKeys
<1>4. DocumentContents(after) = AppliedWith(f, p)
  BY <1>0, <1>1, <1>3 DEF DocumentContents, AppliedWith, ClaudeConfigured
<1>5. ClaudeApply(after, p) = after
  <2>1. /\ once \in WithKeld /\ once.env = [after.env EXCEPT !["otel"] = p]
        /\ once.other = after.other /\ once.hooks = after.hooks
    BY <1>1, ApplyDocument
  <2> HIDE DEF once
  <2>2. once.env = after.env
    BY <1>1, <1>3, <2>1 DEF WithKeld
  <2>3. /\ once = [env |-> once.env, hooks |-> once.hooks, other |-> once.other]
        /\ after = [env |-> after.env, hooks |-> after.hooks, other |-> after.other]
    BY <1>1, <2>1 DEF WithKeld
  <2> QED
    BY <2>1, <2>2, <2>3 DEF once
<1>6. ASSUME f.keld = 0, ~f.telemetry PROVE ClaudeRemove(after) = d
  <2>1. d \in PlainDocuments /\ d.env["otel"] = NoValue
    <3>1. d.env["otel"] # UserValue
      BY <1>6 DEF DocumentContents
    <3>2. d \notin WithKeld
      <4> SUFFICES ASSUME d \in WithKeld PROVE FALSE
        OBVIOUS
      <4>1. ClaudeConfigured(d)
        BY <1>0, Hooked DEF WithKeld, ClaudeConfigured
      <4>2. f.keld = d.env["otel"] /\ d.env["otel"] \in Parameters
        BY <3>1, <4>1 DEF DocumentContents, WithKeld
      <4> QED
        BY <1>6, <4>2 DEF Parameters
    <3> QED
      BY <3>1, <3>2 DEF PlainDocuments, EnvKeys
  <2>2. /\ back \in PlainDocuments /\ back.env["otel"] = NoValue
        /\ back.env["user"] = after.env["user"] /\ back.other = after.other
        /\ back.hooks = UsersOf(after.hooks)
    BY <1>1, RemoveDocument
  <2> HIDE DEF back
  <2>3. back.env = d.env
    BY <1>3, <2>1, <2>2 DEF PlainDocuments, EnvKeys
  <2>4. UsersOf(d.hooks) = d.hooks
    <3>1. d.hooks \in HookSets /\ \A e \in Events : Users(d.hooks[e]) = d.hooks[e]
      BY <2>1, PlainType
    <3>2. UsersOf(d.hooks) = [e \in Events |-> Users(d.hooks[e])]
      BY <3>1, UsersOfIs
    <3> QED
      BY <3>1, <3>2 DEF HookSets
  <2>5. /\ back = [env |-> back.env, hooks |-> back.hooks, other |-> back.other]
        /\ d = [env |-> d.env, hooks |-> d.hooks, other |-> d.other]
    BY <2>1, <2>2 DEF PlainDocuments
  <2> QED
    BY <1>1, <2>2, <2>3, <2>4, <2>5 DEF back
<1> QED
  BY <1>1, <1>4, <1>5, <1>6 DEF KeysApplied, after

(* merge_json.go, on settings.json with any number of entries per event:   *)
(* what setup and uninstall leave is what Setup.tla says, the user's       *)
(* entries stay, a second setup changes nothing, and uninstall restores a  *)
(* document that had nothing of Keld's.                                    *)
THEOREM SetupKeysTreated == \A d \in PlainDocuments \cup WithKeld : KeysTreated(d)
<1> SUFFICES ASSUME NEW d \in PlainDocuments \cup WithKeld PROVE KeysTreated(d)
  OBVIOUS
<1> DEFINE after == ClaudeRemove(d)
<1>1. DocumentContents(after) = Removed("claude_code", DocumentContents(d))
  <2>1. /\ after \in PlainDocuments /\ after.env["otel"] = NoValue
        /\ after.env["user"] = d.env["user"]
        /\ after.other = d.other /\ UsersOf(after.hooks) = UsersOf(d.hooks)
    BY RemoveDocument
  <2> HIDE DEF after
  <2>2. ~HasHookWithCommand(after.hooks)
    BY <2>1, Hooked
  <2>3. DocumentContents(after) =
          [there |-> TRUE,
           own |-> \/ d.other \/ d.env["user"] # NoValue
                   \/ \E e \in Events : UsersOf(d.hooks)[e] # <<>>,
           telemetry |-> FALSE, broken |-> FALSE, keld |-> 0]
    <3>1. (after.env["otel"] = UserValue) = FALSE
      BY <2>1 DEF NoValue, UserValue
    <3>2. ~ClaudeConfigured(after)
      BY <2>2 DEF ClaudeConfigured
    <3> QED
      BY <2>1, <3>1, <3>2 DEF DocumentContents
  <2>4. Removed("claude_code", DocumentContents(d)) =
          [DocumentContents(d) EXCEPT !.keld = 0, !.telemetry = FALSE]
    BY DEF DocumentContents, Removed, RemovedKeys
  <2> QED
    BY <2>3, <2>4 DEF DocumentContents
<1>2. \A p \in Parameters : KeysApplied(d, p)
  BY KeysAppliedAlways
<1> QED
  BY <1>1, <1>2 DEF KeysTreated

(* The documents that the runs check are among these. *)
LEMMA DocumentsCovered == Documents \subseteq PlainDocuments \cup WithKeld
<1>0. MaxEntries \in Nat
  BY TextsAssumption
<1>1. BoundedSeq(UserEntries, MaxEntries) \subseteq Seq(UserEntries)
  BY <1>0, BoundedIsSeq
<1>2. UserDocuments \subseteq PlainDocuments
  <2>1. UserHooks \subseteq [Events -> Seq(UserEntries)]
    BY <1>1 DEF UserHooks
  <2> QED
    BY <2>1 DEF UserDocuments, PlainDocuments
<1>3. ASSUME NEW d \in UserDocuments, NEW p \in Parameters, NEW more \in UserHooks
      PROVE  WithMore(ClaudeApply(d, p), more) \in WithKeld
  <2> DEFINE a == ClaudeApply(d, p)
             h == [e \in Events |-> a.hooks[e] \o more[e]]
  <2>1. a \in WithKeld
    BY <1>2, ApplyDocument
  <2> HIDE DEF a
  <2>2. \A e \in Events : a.hooks[e] \in Seq(Entries) /\ more[e] \in Seq(Entries)
    <3>1. UserEntries \subseteq Entries
      BY DEF Entries
    <3>2. \A e \in Events : more[e] \in Seq(UserEntries)
      BY <1>1 DEF UserHooks
    <3> QED
      BY <2>1, <3>1, <3>2 DEF WithKeld, HookSets
  <2>3. h \in HookSets
    BY <2>2 DEF HookSets
  <2>4. ASSUME NEW x \in HookEvents, HasHook(a.hooks, x) PROVE HasHook(h, x)
    <3>1. x.event \in Events
      BY HookEventsType
    <3>2. PICK i \in DOMAIN a.hooks[x.event] : a.hooks[x.event][i] = KeldEntry(x.matcher)
      BY <2>4 DEF HasHook
    <3>3. i \in DOMAIN h[x.event] /\ h[x.event][i] = a.hooks[x.event][i]
      <4>1. h[x.event] = a.hooks[x.event] \o more[x.event]
        BY <3>1
      <4>2. a.hooks[x.event] \in Seq(Entries) /\ more[x.event] \in Seq(Entries)
        BY <2>2, <3>1
      <4> DEFINE front == a.hooks[x.event]
                 behind == more[x.event]
                 all == h[x.event]
      <4> HIDE DEF h
      <4>3. /\ front \in Seq(Entries) /\ behind \in Seq(Entries)
            /\ all = front \o behind /\ i \in DOMAIN front
        BY <3>2, <4>1, <4>2
      <4> HIDE DEF front, behind, all
      <4>4. i \in DOMAIN all /\ all[i] = front[i]
        BY <4>3, ConcatFront
      <4> QED
        BY <4>4 DEF front, all
    <3> HIDE DEF h
    <3> QED
      BY <3>2, <3>3 DEF HasHook
  <2> HIDE DEF h
  <2>5. [a EXCEPT !.hooks = h] \in WithKeld
    BY <2>1, <2>3, <2>4 DEF WithKeld
  <2> QED
    BY <2>5 DEF a, h, WithMore
<1>4. ASSUME NEW k \in KeldDocuments PROVE k \in WithKeld
  <2>1. PICK d \in UserDocuments, p \in Parameters, more \in UserHooks :
          k = WithMore(ClaudeApply(d, p), more)
    BY DEF KeldDocuments
  <2> QED
    BY <1>3, <2>1
<1> QED
  BY <1>2, <1>4 DEF Documents

(* No settings.json that the commands come to is one that merge_json.go    *)
(* treats otherwise than Setup.tla says.                                   *)
THEOREM SetupClaudeFileRefines == Spec => []ClaudeFileRefines
<1>1. DocumentsMistreated = {}
  BY DocumentsCovered, SetupKeysTreated DEF DocumentsMistreated
<1>2. ClaudeFileRefines
  BY <1>1 DEF ClaudeFileRefines
<1> QED
  BY <1>2, PTL
-----------------------------------------------------------------------------
(* 4. config.toml: trailing blank lines. *)

(* Trimmed drops a blank line at the end, and stops at any other. *)
LEMMA TrimmedAppend ==
  ASSUME NEW X, Blank \in X
  PROVE  /\ Trimmed(<<>>) = <<>>
         /\ \A t \in Seq(X) : Trimmed(t) \in Seq(X)
         /\ \A t \in Seq(X) : Trimmed(Append(t, Blank)) = Trimmed(t)
         /\ \A t \in Seq(X), l \in X : l # Blank => Trimmed(Append(t, l)) = Append(t, l)
<1> DEFINE Inked(t) == {0} \cup {i \in DOMAIN t : t[i] # Blank}
<1>1. ASSUME NEW t \in Seq(X)
      PROVE  /\ Max(Inked(t)) \in 0 .. Len(t) /\ Max(Inked(t)) \in Inked(t)
             /\ \A i \in Inked(t) : i <= Max(Inked(t))
  <2>1. Len(t) \in Nat /\ Inked(t) \in SUBSET (0 .. Len(t)) /\ Inked(t) # {}
    OBVIOUS
  <2> HIDE DEF Inked
  <2>2. Max(Inked(t)) \in Inked(t) /\ \A i \in Inked(t) : i <= Max(Inked(t))
    BY <2>1, GreatestProperty
  <2> QED
    BY <2>1, <2>2
<1>2. \A t : Trimmed(t) = SubSeq(t, 1, Max(Inked(t)))
  BY DEF Trimmed
<1>3. ASSUME NEW t \in Seq(X) PROVE Inked(Append(t, Blank)) = Inked(t)
  OBVIOUS
<1>4. ASSUME NEW t \in Seq(X), NEW l \in X, l # Blank
      PROVE  Max(Inked(Append(t, l))) = Len(t) + 1
  <2>1. /\ Len(t) \in Nat /\ Append(t, l) \in Seq(X) /\ Len(Append(t, l)) = Len(t) + 1
        /\ Len(t) + 1 \in Inked(Append(t, l))
        /\ Inked(Append(t, l)) \in SUBSET (0 .. Len(t) + 1)
    BY <1>4
  <2> DEFINE S == Inked(Append(t, l))
             n == Len(t) + 1
  <2>2. n \in Nat /\ n \in S /\ S \in SUBSET (0 .. n) /\ \A y \in S : y <= n
    BY <2>1
  <2> HIDE DEF S, n, Inked
  <2>3. Max(S) = n
    BY <2>2, MaxIs
  <2> QED
    BY <2>3 DEF S, n
<1> HIDE DEF Inked
<1>5. ASSUME NEW t \in Seq(X), NEW m \in 0 .. Len(t), NEW l \in X
      PROVE  SubSeq(Append(t, l), 1, m) = SubSeq(t, 1, m) /\ SubSeq(t, 1, m) \in Seq(X)
  OBVIOUS
<1>6. ASSUME NEW t \in Seq(X) PROVE SubSeq(t, 1, Len(t)) = t
  OBVIOUS
<1>7. Trimmed(<<>>) = <<>>
  <2> DEFINE none == <<>>
  <2>1. none \in Seq(X) /\ Len(none) = 0 /\ SubSeq(none, 1, 0) = none
    OBVIOUS
  <2> HIDE DEF none
  <2>2. Max(Inked(none)) = 0
    <3>1. none \in Seq(X)
      BY <2>1
    <3>2. Max(Inked(none)) \in 0 .. Len(none)
      BY <1>1, <3>1
    <3> QED
      BY <2>1, <3>2
  <2>3. Trimmed(none) = none
    BY <1>2, <2>1, <2>2
  <2> QED
    BY <2>3 DEF none
<1>8. \A t \in Seq(X) : Trimmed(t) \in Seq(X)
  BY <1>1, <1>2, <1>5
<1>9. \A t \in Seq(X) : Trimmed(Append(t, Blank)) = Trimmed(t)
  BY <1>1, <1>2, <1>3, <1>5
<1>10. ASSUME NEW t \in Seq(X), NEW l \in X, l # Blank PROVE Trimmed(Append(t, l)) = Append(t, l)
  <2>1. Append(t, l) \in Seq(X) /\ Len(Append(t, l)) = Len(t) + 1
    OBVIOUS
  <2> QED
    BY <1>2, <1>4, <1>6, <1>10, <2>1
<1> QED
  BY <1>7, <1>8, <1>9, <1>10

(* The text that StripKeldBlock makes of what is outside of the block. *)
Norm(t) == Append(Trimmed(t), Blank)

(* What does not depend on one blank line at the end is the same for a     *)
(* text, for its trimmed one and for what StripKeldBlock makes of it.      *)
LEMMA BlanksIrrelevant ==
  ASSUME NEW X, Blank \in X, NEW S \in SUBSET Seq(X),
         \A t \in Seq(X) : Append(t, Blank) \in S <=> t \in S
  PROVE  \A t \in Seq(X) : (Trimmed(t) \in S <=> t \in S) /\ (Norm(t) \in S <=> t \in S)
<1> DEFINE G == {t \in Seq(X) : Trimmed(t) \in S <=> t \in S}
<1>1. <<>> \in G
  BY TrimmedAppend
<1>2. ASSUME NEW t \in G, NEW l \in X PROVE Append(t, l) \in G
  <2>1. CASE l = Blank
    <3>1. Trimmed(Append(t, l)) = Trimmed(t)
      BY <2>1, TrimmedAppend
    <3> QED
      BY <2>1, <3>1
  <2>2. CASE l # Blank
    <3>1. Trimmed(Append(t, l)) = Append(t, l)
      BY <2>2, TrimmedAppend
    <3>2. Append(t, l) \in Seq(X)
      OBVIOUS
    <3> HIDE DEF Norm
    <3> QED
      BY <3>1, <3>2
  <2> QED
    BY <2>1, <2>2
<1>3. G = Seq(X)
  <2>1. G \in SUBSET Seq(X)
    OBVIOUS
  <2> HIDE DEF G
  <2> QED
    BY <1>1, <1>2, <2>1, SeqInduct
<1>4. \A t \in Seq(X) : Trimmed(t) \in Seq(X)
  BY TrimmedAppend
<1> QED
  BY <1>3, <1>4 DEF Norm

(* Trimming twice is trimming once. *)
LEMMA TrimmedTwice ==
  ASSUME NEW X, Blank \in X, NEW t \in Seq(X)
  PROVE  /\ Trimmed(Trimmed(t)) = Trimmed(t) /\ Trimmed(Norm(t)) = Trimmed(t)
         /\ Norm(t) \in Seq(X)
<1> DEFINE S == {u \in Seq(X) : Trimmed(u) = Trimmed(t)}
<1>1. \A u \in Seq(X) : Append(u, Blank) \in S <=> u \in S
  <2>1. \A u \in Seq(X) : Trimmed(Append(u, Blank)) = Trimmed(u) /\ Append(u, Blank) \in Seq(X)
    BY TrimmedAppend
  <2> QED
    BY <2>1
<1>2. S \in SUBSET Seq(X) /\ t \in S
  OBVIOUS
<1>3. Trimmed(t) \in S /\ Norm(t) \in S
  <2> HIDE DEF S
  <2> QED
    BY <1>1, <1>2, BlanksIrrelevant
<1> QED
  BY <1>3

(* A fold to which blank lines are nothing. *)
LEMMA BlanksFolded ==
  ASSUME NEW W, NEW X, NEW step, Steps(step, W, X), NEW base \in W, Blank \in X,
         \A w \in W : step[w][Blank] = w,
         NEW t \in Seq(X)
  PROVE  /\ Fold(step, base, Append(t, Blank)) = Fold(step, base, t)
         /\ Fold(step, base, Trimmed(t)) = Fold(step, base, t)
         /\ Fold(step, base, Norm(t)) = Fold(step, base, t)
<1> DEFINE S == {u \in Seq(X) : Fold(step, base, u) = Fold(step, base, t)}
<1>1. ASSUME NEW u \in Seq(X) PROVE Fold(step, base, Append(u, Blank)) = Fold(step, base, u)
  <2>1. Fold(step, base, Append(u, Blank)) = step[Fold(step, base, u)][Blank]
    BY FoldAppend
  <2>2. Fold(step, base, u) \in W
    BY FoldType
  <2> QED
    BY <2>1, <2>2
<1>2. S \in SUBSET Seq(X) /\ t \in S
  OBVIOUS
<1>3. \A u \in Seq(X) : Append(u, Blank) \in S <=> u \in S
  <2>1. \A u \in Seq(X) : Append(u, Blank) \in Seq(X)
    OBVIOUS
  <2> QED
    BY <1>1, <2>1
<1>4. Trimmed(t) \in S /\ Norm(t) \in S
  <2> HIDE DEF S
  <2> QED
    BY <1>2, <1>3, BlanksIrrelevant
<1> QED
  BY <1>1, <1>4
-----------------------------------------------------------------------------
(* Keld's block. *)
Markers == {Line("start"), Line("end")}
Lines == UserKinds \cup Markers \cup {KeldLine(p) : p \in Parameters}

(* The lines of the user are not those of Keld's block. *)
LEMMA LineKinds ==
  /\ Blank \in UserKinds /\ UserKinds \subseteq Lines
  /\ Line("start") \in Lines /\ Line("end") \in Lines
  /\ \A p \in Parameters : KeldLine(p) \in Lines
  /\ \A l \in UserKinds : l.is \notin {"start", "end", "keld"}
<1>1. Blank \in UserKinds
  BY DEF Blank, UserKinds
<1>2. UserKinds \subseteq Lines
  BY DEF Lines
<1>3. Line("start") \in Lines /\ Line("end") \in Lines
  BY DEF Lines, Markers
<1>4. \A p \in Parameters : KeldLine(p) \in Lines
  BY DEF Lines
<1>5. \A l \in UserKinds : l.is \notin {"start", "end", "keld"}
  BY DEF UserKinds, Line
<1> QED
  BY <1>1, <1>2, <1>3, <1>4, <1>5

(* One line more, behind both texts. A name of its own keeps the equation  *)
(* out of the terms it is about.                                           *)
Joined(s, t, x) == Append(s \o t, x) = s \o Append(t, x)
(* A line appended to the second of two texts is appended to both. *)
LEMMA ConcatAppend ==
  ASSUME NEW X, NEW s \in Seq(X), NEW t \in Seq(X), NEW x \in X
  PROVE  Joined(s, t, x)
<1>1. s \o t \in Seq(X)
  OBVIOUS
<1>2. Append(t, x) \in Seq(X) /\ Append(s \o t, x) \in Seq(X) /\ s \o Append(t, x) \in Seq(X)
  OBVIOUS
<1>3. Len(Append(s \o t, x)) = Len(s \o Append(t, x))
  OBVIOUS
<1>4. \A i \in 1 .. Len(s \o Append(t, x)) : Append(s \o t, x)[i] = (s \o Append(t, x))[i]
  OBVIOUS
<1>5. Append(s \o t, x) = s \o Append(t, x)
  BY <1>1, <1>2, <1>3, <1>4, SeqEqual
<1> QED
  BY <1>5 DEF Joined

(* The empty text before or behind another is nothing. *)
LEMMA ConcatEmpty ==
  ASSUME NEW X, NEW s \in Seq(X) PROVE <<>> \in Seq(X) /\ s \o <<>> = s /\ <<>> \o s = s
OBVIOUS

(* The lines of a text of three. *)
LEMMA ThreeOf ==
  ASSUME NEW X, NEW s \in Seq(X), Len(s) = 3
  PROVE  s[1] \in X /\ s[2] \in X /\ s[3] \in X
<1>1. \A i \in 1 .. 3 : s[i] \in X
  OBVIOUS
<1> QED
  BY <1>1

(* StripKeldBlock's walk: whether it is inside of a block, and the lines   *)
(* that stay.                                                              *)
BlockStates == [inside : BOOLEAN, out : Seq(Lines)]
BlockStep == [w \in BlockStates |-> [l \in Lines |-> BlockWalk(w, l)]]
At(inside, out) == [inside |-> inside, out |-> out]

(* The states of the walk, inside of a block and outside. *)
LEMMA AtType ==
  \A out \in Seq(Lines) : At(TRUE, out) \in BlockStates /\ At(FALSE, out) \in BlockStates
BY DEF At, BlockStates

(* One line of a text. *)
LEMMA BlockWalkCases ==
  ASSUME NEW out \in Seq(Lines)
  PROVE  /\ \A l \in Lines : l.is = "start" =>
              BlockWalk(At(FALSE, out), l) = At(TRUE, out)
         /\ \A l \in Lines : l.is # "start" =>
              BlockWalk(At(FALSE, out), l) = At(FALSE, Append(out, l))
         /\ \A l \in Lines : l.is # "end" => BlockWalk(At(TRUE, out), l) = At(TRUE, out)
         /\ \A l \in Lines : l.is = "end" => BlockWalk(At(TRUE, out), l) = At(FALSE, out)
BY DEF BlockWalk, At

(* StripKeldBlock's walk over the lines is a fold. *)
LEMMA BlockSteps ==
  /\ Steps(BlockStep, BlockStates, Lines)
  /\ \A w \in BlockStates, l \in Lines : BlockStep[w][l] = BlockWalk(w, l)
<1>1. ASSUME NEW w \in BlockStates, NEW l \in Lines PROVE BlockWalk(w, l) \in BlockStates
  <2>1. PICK out \in Seq(Lines) : w = At(TRUE, out) \/ w = At(FALSE, out)
    <3>1. w = [inside |-> w.inside, out |-> w.out] /\ w.out \in Seq(Lines)
      BY DEF BlockStates
    <3>2. w.inside = TRUE \/ w.inside = FALSE
      BY DEF BlockStates
    <3> QED
      BY <3>1, <3>2 DEF At
  <2>2. Append(out, l) \in Seq(Lines)
    OBVIOUS
  <2> QED
    BY <2>1, <2>2, BlockWalkCases, AtType
<1>2. \A w \in BlockStates : BlockStep[w] = [l \in Lines |-> BlockWalk(w, l)]
  BY DEF BlockStep
<1>3. ASSUME NEW w \in BlockStates PROVE BlockStep[w] \in [Lines -> BlockStates]
  BY <1>1, <1>2
<1>4. BlockStep \in [BlockStates -> [Lines -> BlockStates]]
  BY <1>3 DEF BlockStep
<1> QED
  BY <1>2, <1>4 DEF Steps

(* OutsideBlock is the result of this fold. *)
LEMMA OutsideBlockIs ==
  ASSUME NEW t \in Seq(Lines)
  PROVE  OutsideBlock(t) = Fold(BlockStep, At(FALSE, <<>>), t).out
<1> DEFINE n == Len(t)
           base == At(FALSE, <<>>)
<1>0. /\ n \in Nat /\ DOMAIN t = 1 .. n /\ base \in BlockStates
      /\ Steps(BlockStep, BlockStates, Lines)
  <2>1. base \in BlockStates
    BY AtType, ConcatEmpty
  <2> HIDE DEF base
  <2> QED
    BY <2>1, BlockSteps
<1> HIDE DEF base
<1>1. PICK g : Builds(g, BlockStates, Lines, BlockStep, base, t)
  BY <1>0, BuildsExists
<1>2. Walk(BlockWalk, g, n, base, t)
  BY <1>1, BlockSteps DEF Walk, Builds
<1>3. PICK c : Walk(BlockWalk, c, n, base, t) /\ FoldLeft(BlockWalk, base, t) = c[1 .. n]
  <2> DEFINE c == CHOOSE f : Walk(BlockWalk, f, n, base, t)
  <2>1. Walk(BlockWalk, c, n, base, t)
    BY <1>2, Zenon
  <2>2. FoldLeft(BlockWalk, base, t) = c[1 .. n]
    BY <1>0, Zenon DEF FoldLeft, MapThenFoldSet, Walk
  <2> QED
    BY <2>1, <2>2, Zenon
<1>4. Like(c, BlockStates, n, BlockStep, base, t)
  <2>1. \A d \in SUBSET (1 .. n) : d # {} => t[Max(d)] \in Lines
    BY <1>1 DEF Builds
  <2>2. \A d \in SUBSET (1 .. n) : d # {} => c[d] = BlockWalk(c[d \ {Max(d)}], t[Max(d)])
    BY <1>3 DEF Walk
  <2>3. c[{}] = base
    BY <1>3 DEF Walk
  <2> HIDE DEF n
  <2> QED
    BY <2>1, <2>2, <2>3, BlockSteps DEF Like
<1>5. FoldLeft(BlockWalk, base, t) = Fold(BlockStep, base, t)
  BY <1>0, <1>3, <1>4, LikeIs
<1>6. OutsideBlock(t) = FoldLeft(BlockWalk, base, t).out
  BY Zenon DEF OutsideBlock, base, At
<1> QED
  BY <1>5, <1>6 DEF base

(* Lines of the user outside of a block stay. *)
LEMMA BlockOfUsers ==
  ASSUME NEW t \in Seq(UserKinds), NEW out \in Seq(Lines)
  PROVE  Fold(BlockStep, At(FALSE, out), t) = At(FALSE, out \o t)
<1> DEFINE base == At(FALSE, out)
           S == {u \in Seq(UserKinds) : Fold(BlockStep, base, u) = At(FALSE, out \o u)}
<1>0. /\ Steps(BlockStep, BlockStates, Lines) /\ base \in BlockStates
      /\ UserKinds \subseteq Lines
  BY BlockSteps, AtType, LineKinds
<1>1. <<>> \in S
  <2> DEFINE none == <<>>
  <2>1. none \in Seq(UserKinds) /\ out \o none = out
    BY ConcatEmpty
  <2>2. Fold(BlockStep, base, none) = base
    <3> HIDE DEF base
    <3> QED
      BY <1>0, FoldEmpty
  <2> HIDE DEF none
  <2>3. none \in S
    BY <2>1, <2>2
  <2> QED
    BY <2>3 DEF none
<1>2. ASSUME NEW u \in Seq(UserKinds), Fold(BlockStep, base, u) = At(FALSE, out \o u),
             NEW l \in UserKinds
      PROVE  Fold(BlockStep, base, Append(u, l)) = At(FALSE, out \o Append(u, l))
  <2>1. u \in Seq(Lines) /\ l \in Lines /\ l.is # "start"
    BY <1>0, LineKinds
  <2>2. Fold(BlockStep, base, Append(u, l)) = BlockStep[Fold(BlockStep, base, u)][l]
    <3> HIDE DEF base
    <3>1. u \in Seq(Lines) /\ l \in Lines
      BY <2>1
    <3> QED
      BY <1>0, <3>1, FoldAppend
  <2>3. out \o u \in Seq(Lines) /\ Append(out \o u, l) = out \o Append(u, l)
    <3>1. u \in Seq(Lines) /\ l \in Lines
      BY <2>1
    <3> HIDE DEF S, base
    <3>2. out \o u \in Seq(Lines)
      BY <3>1
    <3>3. Joined(out, u, l)
      BY <3>1, ConcatAppend
    <3> QED
      BY <3>2, <3>3 DEF Joined
  <2>4. At(FALSE, out \o u) \in BlockStates
    BY <2>3, AtType
  <2>5. BlockStep[At(FALSE, out \o u)][l] = BlockWalk(At(FALSE, out \o u), l)
    BY <2>1, <2>4, BlockSteps
  <2>6. BlockWalk(At(FALSE, out \o u), l) = At(FALSE, Append(out \o u, l))
    BY <2>1, <2>3, BlockWalkCases
  <2> HIDE DEF base
  <2> QED
    BY <1>2, <2>2, <2>3, <2>5, <2>6
<1> HIDE DEF base
<1>3. ASSUME NEW u \in S, NEW l \in UserKinds PROVE Append(u, l) \in S
  <2>1. Append(u, l) \in Seq(UserKinds)
    OBVIOUS
  <2> QED
    BY <1>2, <2>1
<1>4. S = Seq(UserKinds)
  <2>1. S \in SUBSET Seq(UserKinds)
    OBVIOUS
  <2> HIDE DEF S
  <2> QED
    BY <1>1, <1>3, <2>1, SeqInduct
<1> QED
  BY <1>4 DEF base

(* What is between the markers does not. *)
LEMMA OutsideUsers ==
  /\ \A t \in Seq(UserKinds) : OutsideBlock(t) = t
  /\ \A a \in Seq(UserKinds), p \in Parameters, c \in Seq(UserKinds) :
       OutsideBlock(Around(a, p, c)) = a \o c
<1>0. Steps(BlockStep, BlockStates, Lines) /\ UserKinds \subseteq Lines
  BY BlockSteps, LineKinds
<1> DEFINE none == <<>>
<1>1. none \in Seq(Lines) /\ \A t \in Seq(UserKinds) : t \in Seq(Lines) /\ none \o t = t
  BY <1>0
<1>2. \A out : At(FALSE, out).out = out
  BY DEF At
<1>3. ASSUME NEW t \in Seq(UserKinds) PROVE OutsideBlock(t) = t
  <2>1. OutsideBlock(t) = Fold(BlockStep, At(FALSE, <<>>), t).out
    BY <1>1, OutsideBlockIs
  <2> HIDE DEF none
  <2>2. Fold(BlockStep, At(FALSE, none), t) = At(FALSE, none \o t)
    BY <1>1, BlockOfUsers
  <2> QED
    BY <1>1, <1>2, <2>1, <2>2 DEF none
<1>4. ASSUME NEW a \in Seq(UserKinds), NEW p \in Parameters, NEW c \in Seq(UserKinds)
      PROVE  OutsideBlock(Around(a, p, c)) = a \o c
  <2> DEFINE m == Marked(p)
             base == At(FALSE, none)
  <2>1. m \in Seq(Lines)
    BY LineKinds DEF Marked
  <2>2. Len(m) = 3 /\ m[1].is = "start" /\ m[2].is = "keld" /\ m[3].is = "end"
    BY DEF Marked, Line, KeldLine
  <2>3. base \in BlockStates /\ At(FALSE, a) \in BlockStates /\ At(TRUE, a) \in BlockStates
    BY <1>1, AtType
  <2>4. OutsideBlock(Around(a, p, c)) = Fold(BlockStep, At(FALSE, <<>>), Around(a, p, c)).out
    <3>1. Around(a, p, c) \in Seq(Lines)
      BY <1>1, <2>1 DEF Around
    <3> QED
      BY <3>1, OutsideBlockIs
  <2>5. Fold(BlockStep, At(FALSE, a), m) = At(FALSE, a)
    <3> HIDE DEF m
    <3>1. PICK r : Run(r, BlockStates, BlockStep, At(FALSE, a), m)
      BY <1>0, <2>1, <2>3, FoldRuns
    <3>2. /\ r[0] = At(FALSE, a) /\ r[3] = Fold(BlockStep, At(FALSE, a), m)
          /\ r[1] = BlockStep[r[0]][m[1]] /\ r[2] = BlockStep[r[1]][m[2]]
          /\ r[3] = BlockStep[r[2]][m[3]]
      <4>1. \A i \in 1 .. 3 : r[i] = BlockStep[r[i - 1]][m[i]]
        BY <2>2, <3>1 DEF Run
      <4>2. r[0] = At(FALSE, a) /\ r[3] = Fold(BlockStep, At(FALSE, a), m)
        BY <2>2, <3>1 DEF Run
      <4>3. 1 \in 1 .. 3 /\ 2 \in 1 .. 3 /\ 3 \in 1 .. 3 /\ 1 - 1 = 0 /\ 2 - 1 = 1 /\ 3 - 1 = 2
        OBVIOUS
      <4>4. r[1] = BlockStep[r[0]][m[1]]
        BY <4>1, <4>3
      <4>5. r[2] = BlockStep[r[1]][m[2]]
        BY <4>1, <4>3
      <4>6. r[3] = BlockStep[r[2]][m[3]]
        BY <4>1, <4>3
      <4> QED
        BY <4>2, <4>4, <4>5, <4>6
    <3>3. m[1] \in Lines /\ m[2] \in Lines /\ m[3] \in Lines
      BY <2>1, <2>2, ThreeOf
    <3>4. r[1] = At(TRUE, a)
      BY <1>1, <2>2, <2>3, <3>2, <3>3, BlockSteps, BlockWalkCases
    <3>5. r[2] = At(TRUE, a)
      BY <1>1, <2>2, <2>3, <3>2, <3>3, <3>4, BlockSteps, BlockWalkCases
    <3> QED
      BY <1>1, <2>2, <2>3, <3>2, <3>3, <3>5, BlockSteps, BlockWalkCases
  <2> HIDE DEF m
  <2>6. Fold(BlockStep, base, a) = At(FALSE, a)
    <3> HIDE DEF none
    <3>1. Fold(BlockStep, At(FALSE, none), a) = At(FALSE, none \o a)
      BY <1>1, BlockOfUsers
    <3> QED
      BY <1>1, <3>1
  <2>7. Fold(BlockStep, At(FALSE, a), c) = At(FALSE, a \o c)
    BY <1>1, BlockOfUsers
  <2> HIDE DEF base
  <2>8. Fold(BlockStep, base, a \o m) = Fold(BlockStep, Fold(BlockStep, base, a), m)
    BY <1>0, <1>1, <2>1, <2>3, FoldConcat
  <2>9. Fold(BlockStep, base, (a \o m) \o c) = Fold(BlockStep, Fold(BlockStep, base, a \o m), c)
    <3> DEFINE am == a \o m
    <3>1. am \in Seq(Lines)
      BY <1>1, <2>1
    <3> HIDE DEF am
    <3>2. Fold(BlockStep, base, am \o c) = Fold(BlockStep, Fold(BlockStep, base, am), c)
      BY <1>0, <1>1, <2>3, <3>1, FoldConcat
    <3> QED
      BY <3>2 DEF am
  <2> QED
    BY <1>2, <2>4, <2>5, <2>6, <2>7, <2>8, <2>9 DEF Around, base, m
<1> QED
  BY <1>3, <1>4
-----------------------------------------------------------------------------
(* The lines that are not blank. *)
LinesStep == [w \in Seq(Lines) |-> [l \in Lines |-> LinesWalk(w, l)]]
NotBlank(t) == Fold(LinesStep, <<>>, t)

(* To collect the lines that are not blank is a fold. *)
LEMMA LinesSteps ==
  /\ Steps(LinesStep, Seq(Lines), Lines)
  /\ \A w \in Seq(Lines), l \in Lines : LinesStep[w][l] = LinesWalk(w, l)
<1>1. ASSUME NEW w \in Seq(Lines), NEW l \in Lines PROVE LinesWalk(w, l) \in Seq(Lines)
  BY DEF LinesWalk
<1>2. \A w \in Seq(Lines) : LinesStep[w] = [l \in Lines |-> LinesWalk(w, l)]
  BY DEF LinesStep
<1>3. ASSUME NEW w \in Seq(Lines) PROVE LinesStep[w] \in [Lines -> Seq(Lines)]
  BY <1>1, <1>2
<1>4. LinesStep \in [Seq(Lines) -> [Lines -> Seq(Lines)]]
  BY <1>3 DEF LinesStep
<1> QED
  BY <1>2, <1>4 DEF Steps

(* What FoldLeft collects is what this fold does. *)
LEMMA NotBlankIs ==
  ASSUME NEW t \in Seq(Lines)
  PROVE  FoldLeft(LinesWalk, <<>>, t) = NotBlank(t)
<1> DEFINE n == Len(t)
           base == <<>>
<1>0. /\ n \in Nat /\ DOMAIN t = 1 .. n /\ base \in Seq(Lines)
      /\ Steps(LinesStep, Seq(Lines), Lines)
  <2>1. base \in Seq(Lines)
    BY ConcatEmpty
  <2> HIDE DEF base
  <2> QED
    BY <2>1, LinesSteps
<1> HIDE DEF base
<1>1. PICK g : Builds(g, Seq(Lines), Lines, LinesStep, base, t)
  BY <1>0, BuildsExists
<1>2. Walk(LinesWalk, g, n, base, t)
  BY <1>1, LinesSteps DEF Walk, Builds
<1>3. PICK c : Walk(LinesWalk, c, n, base, t) /\ FoldLeft(LinesWalk, base, t) = c[1 .. n]
  <2> DEFINE c == CHOOSE f : Walk(LinesWalk, f, n, base, t)
  <2>1. Walk(LinesWalk, c, n, base, t)
    BY <1>2, Zenon
  <2>2. FoldLeft(LinesWalk, base, t) = c[1 .. n]
    BY <1>0, Zenon DEF FoldLeft, MapThenFoldSet, Walk
  <2> QED
    BY <2>1, <2>2, Zenon
<1>4. Like(c, Seq(Lines), n, LinesStep, base, t)
  <2>1. \A d \in SUBSET (1 .. n) : d # {} => t[Max(d)] \in Lines
    BY <1>1 DEF Builds
  <2>2. \A d \in SUBSET (1 .. n) : d # {} => c[d] = LinesWalk(c[d \ {Max(d)}], t[Max(d)])
    BY <1>3 DEF Walk
  <2>3. c[{}] = base
    BY <1>3 DEF Walk
  <2> HIDE DEF n
  <2> QED
    BY <2>1, <2>2, <2>3, LinesSteps DEF Like
<1>5. FoldLeft(LinesWalk, base, t) = Fold(LinesStep, base, t)
  BY <1>0, <1>3, <1>4, LikeIs
<1> QED
  BY <1>5 DEF NotBlank, base
-----------------------------------------------------------------------------
(* The user's text. *)
TextStep == [w \in Seq(Lines) |-> [l \in Lines |-> UsersWalk(w, l)]]

(* To collect the lines that are not of Keld's block is a fold. *)
LEMMA TextSteps ==
  /\ Steps(TextStep, Seq(Lines), Lines)
  /\ \A w \in Seq(Lines), l \in Lines : TextStep[w][l] = UsersWalk(w, l)
<1>1. ASSUME NEW w \in Seq(Lines), NEW l \in Lines PROVE UsersWalk(w, l) \in Seq(Lines)
  BY DEF UsersWalk
<1>2. \A w \in Seq(Lines) : TextStep[w] = [l \in Lines |-> UsersWalk(w, l)]
  BY DEF TextStep
<1>3. ASSUME NEW w \in Seq(Lines) PROVE TextStep[w] \in [Lines -> Seq(Lines)]
  BY <1>1, <1>2
<1>4. TextStep \in [Seq(Lines) -> [Lines -> Seq(Lines)]]
  BY <1>3 DEF TextStep
<1> QED
  BY <1>2, <1>4 DEF Steps

(* The user's text is the result of this fold. *)
LEMMA UsersTextIs ==
  ASSUME NEW t \in Seq(Lines)
  PROVE  UsersText(t) = Fold(TextStep, <<>>, t)
<1> DEFINE n == Len(t)
           base == <<>>
<1>0. /\ n \in Nat /\ DOMAIN t = 1 .. n /\ base \in Seq(Lines)
      /\ Steps(TextStep, Seq(Lines), Lines)
  <2>1. base \in Seq(Lines)
    BY ConcatEmpty
  <2> HIDE DEF base
  <2> QED
    BY <2>1, TextSteps
<1> HIDE DEF base
<1>1. PICK g : Builds(g, Seq(Lines), Lines, TextStep, base, t)
  BY <1>0, BuildsExists
<1>2. Walk(UsersWalk, g, n, base, t)
  BY <1>1, TextSteps DEF Walk, Builds
<1>3. PICK c : Walk(UsersWalk, c, n, base, t) /\ FoldLeft(UsersWalk, base, t) = c[1 .. n]
  <2> DEFINE c == CHOOSE f : Walk(UsersWalk, f, n, base, t)
  <2>1. Walk(UsersWalk, c, n, base, t)
    BY <1>2, Zenon
  <2>2. FoldLeft(UsersWalk, base, t) = c[1 .. n]
    BY <1>0, Zenon DEF FoldLeft, MapThenFoldSet, Walk
  <2> QED
    BY <2>1, <2>2, Zenon
<1>4. Like(c, Seq(Lines), n, TextStep, base, t)
  <2>1. \A d \in SUBSET (1 .. n) : d # {} => t[Max(d)] \in Lines
    BY <1>1 DEF Builds
  <2>2. \A d \in SUBSET (1 .. n) : d # {} => c[d] = UsersWalk(c[d \ {Max(d)}], t[Max(d)])
    BY <1>3 DEF Walk
  <2>3. c[{}] = base
    BY <1>3 DEF Walk
  <2> HIDE DEF n
  <2> QED
    BY <2>1, <2>2, <2>3, TextSteps DEF Like
<1>5. FoldLeft(UsersWalk, base, t) = Fold(TextStep, base, t)
  BY <1>0, <1>3, <1>4, LikeIs
<1>6. UsersText(t) = FoldLeft(UsersWalk, base, t)
  BY Zenon DEF UsersText, base
<1> QED
  BY <1>5, <1>6 DEF base

(* It takes every line of the user. *)
LEMMA TextOfUsers ==
  ASSUME NEW t \in Seq(UserKinds), NEW out \in Seq(Lines)
  PROVE  Fold(TextStep, out, t) = out \o t
<1> DEFINE S == {u \in Seq(UserKinds) : Fold(TextStep, out, u) = out \o u}
<1>0. Steps(TextStep, Seq(Lines), Lines) /\ UserKinds \subseteq Lines
  BY TextSteps, LineKinds
<1>1. <<>> \in S
  <2> DEFINE none == <<>>
  <2>1. none \in Seq(UserKinds) /\ out \o none = out
    BY ConcatEmpty
  <2>2. Fold(TextStep, out, none) = out
    BY <1>0, FoldEmpty
  <2> HIDE DEF none
  <2>3. none \in S
    BY <2>1, <2>2
  <2> QED
    BY <2>3 DEF none
<1>2. ASSUME NEW u \in Seq(UserKinds), Fold(TextStep, out, u) = out \o u, NEW l \in UserKinds
      PROVE  Fold(TextStep, out, Append(u, l)) = out \o Append(u, l)
  <2>1. u \in Seq(Lines) /\ l \in Lines /\ l.is \notin {"start", "keld", "end"}
    BY <1>0, LineKinds
  <2>2. Fold(TextStep, out, Append(u, l)) = TextStep[Fold(TextStep, out, u)][l]
    BY <1>0, <2>1, FoldAppend
  <2> HIDE DEF S
  <2>3. out \o u \in Seq(Lines) /\ Joined(out, u, l)
    BY <2>1, ConcatAppend
  <2>4. TextStep[out \o u][l] = Append(out \o u, l)
    BY <2>1, <2>3, TextSteps DEF UsersWalk
  <2> QED
    BY <1>2, <2>2, <2>3, <2>4 DEF Joined
<1>3. ASSUME NEW u \in S, NEW l \in UserKinds PROVE Append(u, l) \in S
  <2>1. Append(u, l) \in Seq(UserKinds)
    OBVIOUS
  <2> QED
    BY <1>2, <2>1
<1>4. S = Seq(UserKinds)
  <2>1. S \in SUBSET Seq(UserKinds)
    OBVIOUS
  <2> HIDE DEF S
  <2> QED
    BY <1>1, <1>3, <2>1, SeqInduct
<1> QED
  BY <1>4

(* The user's text is all of it without a block, and else what is in front *)
(* of the block and behind it.                                             *)
LEMMA UsersTextAre ==
  /\ \A t \in Seq(UserKinds) : UsersText(t) = t
  /\ \A a \in Seq(UserKinds), p \in Parameters, c \in Seq(UserKinds) :
       UsersText(Around(a, p, c)) = a \o c
<1>0. Steps(TextStep, Seq(Lines), Lines) /\ UserKinds \subseteq Lines
  BY TextSteps, LineKinds
<1> DEFINE none == <<>>
<1>1. none \in Seq(Lines) /\ \A t \in Seq(UserKinds) : t \in Seq(Lines) /\ none \o t = t
  BY <1>0
<1> HIDE DEF none
<1>2. ASSUME NEW t \in Seq(UserKinds) PROVE UsersText(t) = t
  <2>1. UsersText(t) = Fold(TextStep, none, t)
    BY <1>1, UsersTextIs DEF none
  <2>2. Fold(TextStep, none, t) = none \o t
    BY <1>1, TextOfUsers
  <2> QED
    BY <1>1, <2>1, <2>2
<1>3. ASSUME NEW a \in Seq(UserKinds), NEW p \in Parameters, NEW c \in Seq(UserKinds)
      PROVE  UsersText(Around(a, p, c)) = a \o c
  <2> DEFINE m == Marked(p)
             am == a \o m
  <2>1. m \in Seq(Lines)
    BY LineKinds DEF Marked
  <2>2. Len(m) = 3 /\ m[1].is = "start" /\ m[2].is = "keld" /\ m[3].is = "end"
    BY DEF Marked, Line, KeldLine
  <2>3. UsersText(Around(a, p, c)) = Fold(TextStep, none, Around(a, p, c))
    <3>1. Around(a, p, c) \in Seq(Lines)
      BY <1>1, <2>1 DEF Around
    <3> QED
      BY <3>1, UsersTextIs DEF none
  <2> HIDE DEF m
  <2>4. Fold(TextStep, a, m) = a
    <3>1. PICK r : Run(r, Seq(Lines), TextStep, a, m)
      BY <1>0, <1>1, <2>1, FoldRuns
    <3>2. \A i \in 1 .. 3 : r[i] = TextStep[r[i - 1]][m[i]]
      BY <2>2, <3>1 DEF Run
    <3>3. r[0] = a /\ r[3] = Fold(TextStep, a, m)
      BY <2>2, <3>1 DEF Run
    <3>4. 1 \in 1 .. 3 /\ 2 \in 1 .. 3 /\ 3 \in 1 .. 3 /\ 1 - 1 = 0 /\ 2 - 1 = 1 /\ 3 - 1 = 2
      OBVIOUS
    <3>5. \A i \in 1 .. 3 : m[i] \in Lines /\ m[i].is \in {"start", "keld", "end"}
      BY <2>1, <2>2, ThreeOf
    <3>6. \A i \in 1 .. 3 : TextStep[a][m[i]] = a
      BY <1>1, <3>5, TextSteps DEF UsersWalk
    <3>7. r[1] = a
      BY <3>2, <3>3, <3>4, <3>6
    <3>8. r[2] = a
      BY <3>2, <3>4, <3>6, <3>7
    <3> QED
      BY <3>2, <3>3, <3>4, <3>6, <3>8
  <2>5. Fold(TextStep, none, a) = a
    BY <1>1, TextOfUsers
  <2>6. Fold(TextStep, a, c) = a \o c
    BY <1>1, TextOfUsers
  <2>7. Fold(TextStep, none, am) = Fold(TextStep, Fold(TextStep, none, a), m)
    BY <1>0, <1>1, <2>1, FoldConcat
  <2>8. am \in Seq(Lines)
    BY <1>1, <2>1
  <2> HIDE DEF am
  <2>9. Fold(TextStep, none, am \o c) = Fold(TextStep, Fold(TextStep, none, am), c)
    BY <1>0, <1>1, <2>8, FoldConcat
  <2> QED
    BY <2>3, <2>4, <2>5, <2>6, <2>7, <2>9 DEF Around, am, m
<1> QED
  BY <1>2, <1>3
-----------------------------------------------------------------------------
(* What the parser finds. *)
Parts == {"top", "otel", "hooks", "table", "keld"}
OtelStates == [in : Parts, out : Seq(Parts \X Lines)]
OtelStep == [w \in OtelStates |-> [l \in Lines |-> OtelWalk(w, l)]]
OtelStart == [in |-> "top", out |-> <<>>]

(* The walk that leaves out the lines of [otel] is a fold. *)
LEMMA OtelSteps ==
  /\ Steps(OtelStep, OtelStates, Lines)
  /\ \A w \in OtelStates, l \in Lines : OtelStep[w][l] = OtelWalk(w, l)
<1>1. ASSUME NEW w \in OtelStates, NEW l \in Lines PROVE OtelWalk(w, l) \in OtelStates
  <2> DEFINE in == IF l.is \in {"otel", "hooks", "table", "keld"} THEN l.is ELSE w.in
             out == IF in = "otel" \/ l.is \in {"blank", "start", "end"} THEN w.out
                    ELSE Append(w.out, <<in, l>>)
  <2>1. in \in Parts /\ w.out \in Seq(Parts \X Lines)
    BY DEF OtelStates, Parts
  <2>2. OtelWalk(w, l) = [in |-> in, out |-> out]
    BY DEF OtelWalk
  <2> HIDE DEF in
  <2>3. Append(w.out, <<in, l>>) \in Seq(Parts \X Lines)
    BY <2>1
  <2>4. out \in Seq(Parts \X Lines)
    BY <2>1, <2>3
  <2> HIDE DEF out
  <2> QED
    BY <2>1, <2>2, <2>4 DEF OtelStates
<1>2. \A w \in OtelStates : OtelStep[w] = [l \in Lines |-> OtelWalk(w, l)]
  BY DEF OtelStep
<1>3. ASSUME NEW w \in OtelStates PROVE OtelStep[w] \in [Lines -> OtelStates]
  BY <1>1, <1>2
<1>4. OtelStep \in [OtelStates -> [Lines -> OtelStates]]
  BY <1>3 DEF OtelStep
<1> QED
  BY <1>2, <1>4 DEF Steps

(* OutsideOtel is the result of this fold. *)
LEMMA OutsideOtelIs ==
  ASSUME NEW t \in Seq(Lines)
  PROVE  OutsideOtel(t) = Fold(OtelStep, OtelStart, t).out
<1> DEFINE n == Len(t)
           base == OtelStart
<1>0. /\ n \in Nat /\ DOMAIN t = 1 .. n /\ base \in OtelStates
      /\ Steps(OtelStep, OtelStates, Lines)
  <2>1. base \in OtelStates
    BY ConcatEmpty DEF OtelStart, OtelStates, Parts
  <2> HIDE DEF base
  <2> QED
    BY <2>1, OtelSteps
<1> HIDE DEF base
<1>1. PICK g : Builds(g, OtelStates, Lines, OtelStep, base, t)
  BY <1>0, BuildsExists
<1>2. Walk(OtelWalk, g, n, base, t)
  BY <1>1, OtelSteps DEF Walk, Builds
<1>3. PICK c : Walk(OtelWalk, c, n, base, t) /\ FoldLeft(OtelWalk, base, t) = c[1 .. n]
  <2> DEFINE c == CHOOSE f : Walk(OtelWalk, f, n, base, t)
  <2>1. Walk(OtelWalk, c, n, base, t)
    BY <1>2, Zenon
  <2>2. FoldLeft(OtelWalk, base, t) = c[1 .. n]
    BY <1>0, Zenon DEF FoldLeft, MapThenFoldSet, Walk
  <2> QED
    BY <2>1, <2>2, Zenon
<1>4. Like(c, OtelStates, n, OtelStep, base, t)
  <2>1. \A d \in SUBSET (1 .. n) : d # {} => t[Max(d)] \in Lines
    BY <1>1 DEF Builds
  <2>2. \A d \in SUBSET (1 .. n) : d # {} => c[d] = OtelWalk(c[d \ {Max(d)}], t[Max(d)])
    BY <1>3 DEF Walk
  <2>3. c[{}] = base
    BY <1>3 DEF Walk
  <2> HIDE DEF n
  <2> QED
    BY <2>1, <2>2, <2>3, OtelSteps DEF Like
<1>5. FoldLeft(OtelWalk, base, t) = Fold(OtelStep, base, t)
  BY <1>0, <1>3, <1>4, LikeIs
<1>6. OutsideOtel(t) = FoldLeft(OtelWalk, base, t).out
  BY Zenon DEF OutsideOtel, base, OtelStart
<1> QED
  BY <1>5, <1>6 DEF base
-----------------------------------------------------------------------------
(* What StripTOMLTable leaves. *)
OtherKinds == {l \in UserKinds : l.is # "otel"}
StripStates == [dropping : BOOLEAN, out : Seq(OtherKinds)]
StripStep == [w \in StripStates |-> [l \in UserKinds |-> StripWalk(w, l)]]
StripStart == [dropping |-> FALSE, out |-> <<>>]

(* StripTOMLTable's walk over the lines is a fold. *)
LEMMA StripSteps ==
  /\ Steps(StripStep, StripStates, UserKinds)
  /\ \A w \in StripStates, l \in UserKinds : StripStep[w][l] = StripWalk(w, l)
<1>1. ASSUME NEW w \in StripStates, NEW l \in UserKinds PROVE StripWalk(w, l) \in StripStates
  <2>1. w.dropping \in BOOLEAN /\ w.out \in Seq(OtherKinds)
    BY DEF StripStates
  <2>2. CASE l.is = "otel"
    <3>1. StripWalk(w, l) = [dropping |-> TRUE, out |-> w.out]
      BY <2>2 DEF StripWalk
    <3> QED
      BY <2>1, <3>1 DEF StripStates
  <2>3. CASE l.is # "otel"
    <3>1. Append(w.out, l) \in Seq(OtherKinds)
      <4>1. l \in OtherKinds
        BY <2>3 DEF OtherKinds
      <4> QED
        BY <2>1, <4>1
    <3>2. \/ StripWalk(w, l) = [dropping |-> FALSE, out |-> Append(w.out, l)]
          \/ StripWalk(w, l) = [dropping |-> w.dropping, out |-> Append(w.out, l)]
          \/ StripWalk(w, l) = [dropping |-> w.dropping, out |-> w.out]
      <4>1. CASE l.is \in {"hooks", "table", "cont"}
        BY <2>3, <4>1 DEF StripWalk
      <4>2. CASE l.is \notin {"hooks", "table", "cont"} /\ w.dropping
        BY <2>3, <4>2 DEF StripWalk
      <4>3. CASE l.is \notin {"hooks", "table", "cont"} /\ ~w.dropping
        BY <2>3, <4>3 DEF StripWalk
      <4> QED
        BY <4>1, <4>2, <4>3
    <3>3. /\ [dropping |-> FALSE, out |-> Append(w.out, l)] \in StripStates
          /\ [dropping |-> w.dropping, out |-> Append(w.out, l)] \in StripStates
          /\ [dropping |-> w.dropping, out |-> w.out] \in StripStates
      <4>1. [dropping |-> FALSE, out |-> Append(w.out, l)] \in StripStates
        BY <3>1 DEF StripStates
      <4>2. [dropping |-> w.dropping, out |-> Append(w.out, l)] \in StripStates
        BY <2>1, <3>1 DEF StripStates
      <4>3. [dropping |-> w.dropping, out |-> w.out] \in StripStates
        BY <2>1 DEF StripStates
      <4> QED
        BY <4>1, <4>2, <4>3
    <3> QED
      BY <3>2, <3>3
  <2> QED
    BY <2>2, <2>3
<1>2. \A w \in StripStates : StripStep[w] = [l \in UserKinds |-> StripWalk(w, l)]
  BY DEF StripStep
<1>3. ASSUME NEW w \in StripStates PROVE StripStep[w] \in [UserKinds -> StripStates]
  BY <1>1, <1>2
<1>4. StripStep \in [StripStates -> [UserKinds -> StripStates]]
  BY <1>3 DEF StripStep
<1> QED
  BY <1>2, <1>4 DEF Steps

(* What StripTOMLTable leaves is the result of this fold, with a blank     *)
(* last line if the text ended in the table.                               *)
LEMMA StripIs ==
  ASSUME NEW t \in Seq(UserKinds)
  PROVE  LET end == Fold(StripStep, StripStart, t)
         IN  /\ end \in StripStates
             /\ StripTOMLTable(t) = IF end.dropping THEN Append(end.out, Blank) ELSE end.out
<1> DEFINE n == Len(t)
           base == StripStart
<1>0. /\ n \in Nat /\ DOMAIN t = 1 .. n /\ base \in StripStates
      /\ Steps(StripStep, StripStates, UserKinds)
  <2>1. base \in StripStates
    BY ConcatEmpty DEF StripStart, StripStates
  <2> HIDE DEF base
  <2> QED
    BY <2>1, StripSteps
<1> HIDE DEF base
<1>1. PICK g : Builds(g, StripStates, UserKinds, StripStep, base, t)
  BY <1>0, BuildsExists
<1>2. Walk(StripWalk, g, n, base, t)
  BY <1>1, StripSteps DEF Walk, Builds
<1>3. PICK c : Walk(StripWalk, c, n, base, t) /\ FoldLeft(StripWalk, base, t) = c[1 .. n]
  <2> DEFINE c == CHOOSE f : Walk(StripWalk, f, n, base, t)
  <2>1. Walk(StripWalk, c, n, base, t)
    BY <1>2, Zenon
  <2>2. FoldLeft(StripWalk, base, t) = c[1 .. n]
    BY <1>0, Zenon DEF FoldLeft, MapThenFoldSet, Walk
  <2> QED
    BY <2>1, <2>2, Zenon
<1>4. Like(c, StripStates, n, StripStep, base, t)
  <2>1. \A d \in SUBSET (1 .. n) : d # {} => t[Max(d)] \in UserKinds
    BY <1>1 DEF Builds
  <2>2. \A d \in SUBSET (1 .. n) : d # {} => c[d] = StripWalk(c[d \ {Max(d)}], t[Max(d)])
    BY <1>3 DEF Walk
  <2>3. c[{}] = base
    BY <1>3 DEF Walk
  <2> HIDE DEF n
  <2> QED
    BY <2>1, <2>2, <2>3, StripSteps DEF Like
<1>5. FoldLeft(StripWalk, base, t) = Fold(StripStep, base, t)
  BY <1>0, <1>3, <1>4, LikeIs
<1>6. Fold(StripStep, StripStart, t) \in StripStates
  BY <1>0, FoldType DEF base
<1>7. StripTOMLTable(t) = LET end == FoldLeft(StripWalk, StripStart, t)
                          IN  IF end.dropping THEN Append(end.out, Blank) ELSE end.out
  BY Zenon DEF StripTOMLTable, StripStart
<1> QED
  BY <1>5, <1>6, <1>7 DEF base

(* No [otel] is left, and nothing comes to the other lines. *)
LEMMA StripType ==
  ASSUME NEW t \in Seq(UserKinds)
  PROVE  StripTOMLTable(t) \in Seq(OtherKinds)
<1> DEFINE end == Fold(StripStep, StripStart, t)
<1>1. /\ end \in StripStates
      /\ StripTOMLTable(t) = IF end.dropping THEN Append(end.out, Blank) ELSE end.out
  BY StripIs
<1>2. Blank \in OtherKinds
  BY LineKinds DEF OtherKinds, Blank, Line
<1> HIDE DEF end
<1>3. end.out \in Seq(OtherKinds)
  BY <1>1 DEF StripStates
<1>4. Append(end.out, Blank) \in Seq(OtherKinds)
  BY <1>2, <1>3
<1> QED
  BY <1>1, <1>3, <1>4

(* The user's tables of hooks stay. *)
HasHooks(t) == \E i \in DOMAIN t : t[i].is = "hooks"

LEMMA HasHooksAppend ==
  ASSUME NEW X, NEW t \in Seq(X), NEW l \in X
  PROVE  HasHooks(Append(t, l)) <=> HasHooks(t) \/ l.is = "hooks"
<1> DEFINE u == Append(t, l)
           n == Len(t)
<1>1. /\ n \in Nat /\ DOMAIN t = 1 .. n /\ DOMAIN u = 1 .. n + 1 /\ u[n + 1] = l
      /\ \A i \in 1 .. n : u[i] = t[i]
  OBVIOUS
<1> HIDE DEF u, n
<1>2. \A i \in 1 .. n + 1 : i \in 1 .. n \/ i = n + 1
  BY <1>1
<1>3. n + 1 \in 1 .. n + 1 /\ \A i \in 1 .. n : i \in 1 .. n + 1
  BY <1>1
<1>4. HasHooks(u) <=> HasHooks(t) \/ l.is = "hooks"
  BY <1>1, <1>2, <1>3 DEF HasHooks
<1> QED
  BY <1>4 DEF u

LEMMA StripKeepsHooks ==
  ASSUME NEW t \in Seq(UserKinds), HasHooks(t)
  PROVE  HasHooks(StripTOMLTable(t))
<1> DEFINE base == StripStart
           S == {u \in Seq(UserKinds) : HasHooks(u) => HasHooks(Fold(StripStep, base, u).out)}
<1>0. base \in StripStates /\ Steps(StripStep, StripStates, UserKinds)
  <2>1. base \in StripStates
    BY ConcatEmpty DEF StripStart, StripStates
  <2> QED
    BY <2>1, StripSteps
<1> HIDE DEF base
<1>1. <<>> \in S
  <2>1. <<>> \in Seq(UserKinds) /\ ~HasHooks(<<>>)
    BY DEF HasHooks
  <2> QED
    BY <2>1
<1>2. ASSUME NEW u \in S, NEW l \in UserKinds PROVE Append(u, l) \in S
  <2> DEFINE w == Fold(StripStep, base, u)
  <2>1. u \in Seq(UserKinds) /\ Append(u, l) \in Seq(UserKinds)
    OBVIOUS
  <2>2. w \in StripStates
    <3> HIDE DEF S
    <3> QED
      BY <1>0, <2>1, FoldType
  <2>3. w.out \in Seq(OtherKinds)
    BY <2>2 DEF StripStates
  <2>4. Fold(StripStep, base, Append(u, l)) = StripWalk(w, l)
    <3>1. Fold(StripStep, base, Append(u, l)) = StripStep[w][l]
      BY <1>0, <2>1, FoldAppend
    <3> QED
      BY <2>2, <3>1, StripSteps
  <2>5. HasHooks(u) => HasHooks(w.out)
    OBVIOUS
  <2> HIDE DEF w, S
  <2>6. /\ l.is = "hooks" => StripWalk(w, l).out = Append(w.out, l)
        /\ StripWalk(w, l).out \in {w.out, Append(w.out, l)}
    BY DEF StripWalk
  <2>7. HasHooks(Append(u, l)) <=> HasHooks(u) \/ l.is = "hooks"
    BY <2>1, HasHooksAppend
  <2>8. l.is # "otel" => (HasHooks(Append(w.out, l)) <=> HasHooks(w.out) \/ l.is = "hooks")
    <3>1. l.is # "otel" => l \in OtherKinds
      BY DEF OtherKinds
    <3> QED
      BY <2>3, <3>1, HasHooksAppend
  <2>9. l.is = "otel" => StripWalk(w, l).out = w.out
    BY DEF StripWalk
  <2>10. HasHooks(Append(u, l)) => HasHooks(StripWalk(w, l).out)
    <3>1. CASE l.is = "otel"
      BY <2>5, <2>7, <2>9, <3>1
    <3>2. CASE l.is # "otel"
      BY <2>5, <2>6, <2>7, <2>8, <3>2
    <3> QED
      BY <3>1, <3>2
  <2> QED
    BY <2>1, <2>4, <2>10 DEF S
<1>3. S = Seq(UserKinds)
  <2>1. S \in SUBSET Seq(UserKinds)
    OBVIOUS
  <2> HIDE DEF S
  <2> QED
    BY <1>1, <1>2, <2>1, SeqInduct
<1> DEFINE end == Fold(StripStep, base, t)
<1>4. HasHooks(end.out)
  BY <1>3
<1>5. /\ end \in StripStates
      /\ StripTOMLTable(t) = IF end.dropping THEN Append(end.out, Blank) ELSE end.out
  BY StripIs DEF base
<1>6. Blank \in OtherKinds
  BY LineKinds DEF OtherKinds, Blank, Line
<1> HIDE DEF end
<1>7. HasHooks(Append(end.out, Blank))
  <2>1. end.out \in Seq(OtherKinds)
    BY <1>5 DEF StripStates
  <2> QED
    BY <1>4, <1>6, <2>1, HasHooksAppend
<1> QED
  BY <1>4, <1>5, <1>7
-----------------------------------------------------------------------------
(* What a parser makes of the user's text; AllParse: there may be a block  *)
(* of Keld's beside it, but for an [otel].                                 *)
AllParse(t) == \A i \in DOMAIN t : Parses(t, i) /\ t[i].is # "hooks"
HasOtel(t) == \E i \in DOMAIN t : t[i].is = "otel"
ContentsWith(t, k) ==
  [there |-> TRUE, own |-> ~AllParse(t) \/ OutsideOtel(t) # <<>>,
   telemetry |-> HasOtel(t), broken |-> ~AllParse(t), keld |-> k]

(* Two texts that are the same to the parser and to the user. *)
Same(t, u) ==
  /\ AllParse(t) <=> AllParse(u)
  /\ HasOtel(t) <=> HasOtel(u)
  /\ OutsideOtel(t) = OutsideOtel(u)
  /\ NotBlank(t) = NotBlank(u)

(* Two such texts have the same contents. *)
LEMMA SameContents ==
  ASSUME NEW t, NEW u, NEW k, Same(t, u) PROVE ContentsWith(t, k) = ContentsWith(u, k)
<1>1. AllParse(t) = AllParse(u)
  BY DEF Same, AllParse
<1>2. HasOtel(t) = HasOtel(u)
  BY DEF Same, HasOtel
<1>3. OutsideOtel(t) = OutsideOtel(u)
  BY DEF Same
<1> QED
  BY <1>1, <1>2, <1>3, Zenon DEF ContentsWith

(* A blank line at the end neither breaks nor mends a text. *)
LEMMA ParsesBlank ==
  ASSUME NEW t \in Seq(UserKinds)
  PROVE  /\ AllParse(Append(t, Blank)) <=> AllParse(t)
         /\ HasOtel(Append(t, Blank)) <=> HasOtel(t)
<1> DEFINE u == Append(t, Blank)
           n == Len(t)
<1>1. /\ n \in Nat /\ DOMAIN t = 1 .. n /\ DOMAIN u = 1 .. n + 1 /\ u[n + 1] = Blank
      /\ \A i \in 1 .. n : u[i] = t[i]
  OBVIOUS
<1>2. Blank.is = "blank"
  BY DEF Blank, Line
<1> HIDE DEF u, n
<1>3. \A i \in 1 .. n : (Parses(u, i) <=> Parses(t, i)) /\ u[i] = t[i]
  <2> SUFFICES ASSUME NEW i \in 1 .. n PROVE (Parses(u, i) <=> Parses(t, i)) /\ u[i] = t[i]
    OBVIOUS
  <2>1. u[i] = t[i] /\ (i > 1 => u[i - 1] = t[i - 1])
    BY <1>1
  <2> QED
    BY <2>1 DEF Parses
<1>4. Parses(u, n + 1) /\ u[n + 1].is # "hooks"
  BY <1>1, <1>2 DEF Parses
<1>5. \A i \in 1 .. n + 1 : i \in 1 .. n \/ i = n + 1
  BY <1>1
<1>6. \A i \in 1 .. n : i \in 1 .. n + 1
  BY <1>1
<1>7. AllParse(u) <=> AllParse(t)
  BY <1>1, <1>3, <1>4, <1>5, <1>6 DEF AllParse
<1>8. HasOtel(u) <=> HasOtel(t)
  BY <1>1, <1>2, <1>5, <1>6 DEF HasOtel
<1> QED
  BY <1>7, <1>8 DEF u

(* Blank lines at the end change nothing. *)
LEMMA SameTrimmed ==
  ASSUME NEW t \in Seq(UserKinds)
  PROVE  Same(Append(t, Blank), t) /\ Same(Trimmed(t), t) /\ Same(Norm(t), t)
<1>0. Blank \in UserKinds /\ UserKinds \subseteq Lines /\ Blank \in Lines /\ t \in Seq(Lines)
  BY LineKinds
<1>1. /\ AllParse(Trimmed(t)) <=> AllParse(t)
      /\ AllParse(Norm(t)) <=> AllParse(t)
  <2> DEFINE S == {u \in Seq(UserKinds) : AllParse(u)}
  <2>1. \A u \in Seq(UserKinds) : Append(u, Blank) \in S <=> u \in S
    <3>1. \A u \in Seq(UserKinds) : Append(u, Blank) \in Seq(UserKinds)
      BY <1>0
    <3> QED
      BY <3>1, ParsesBlank
  <2>2. S \in SUBSET Seq(UserKinds)
    OBVIOUS
  <2>3. (Trimmed(t) \in S <=> t \in S) /\ (Norm(t) \in S <=> t \in S)
    <3> HIDE DEF S
    <3> QED
      BY <1>0, <2>1, <2>2, BlanksIrrelevant
  <2>4. Trimmed(t) \in Seq(UserKinds) /\ Norm(t) \in Seq(UserKinds)
    BY <1>0, TrimmedAppend, TrimmedTwice
  <2> QED
    BY <2>3, <2>4
<1>2. /\ HasOtel(Trimmed(t)) <=> HasOtel(t)
      /\ HasOtel(Norm(t)) <=> HasOtel(t)
  <2> DEFINE S == {u \in Seq(UserKinds) : HasOtel(u)}
  <2>1. \A u \in Seq(UserKinds) : Append(u, Blank) \in S <=> u \in S
    <3>1. \A u \in Seq(UserKinds) : Append(u, Blank) \in Seq(UserKinds)
      BY <1>0
    <3> QED
      BY <3>1, ParsesBlank
  <2>2. S \in SUBSET Seq(UserKinds)
    OBVIOUS
  <2>3. (Trimmed(t) \in S <=> t \in S) /\ (Norm(t) \in S <=> t \in S)
    <3> HIDE DEF S
    <3> QED
      BY <1>0, <2>1, <2>2, BlanksIrrelevant
  <2>4. Trimmed(t) \in Seq(UserKinds) /\ Norm(t) \in Seq(UserKinds)
    BY <1>0, TrimmedAppend, TrimmedTwice
  <2> QED
    BY <2>3, <2>4
<1>3. /\ Append(t, Blank) \in Seq(Lines) /\ Trimmed(t) \in Seq(Lines) /\ Norm(t) \in Seq(Lines)
  <2>1. Append(t, Blank) \in Seq(Lines)
    BY <1>0
  <2> QED
    BY <1>0, <2>1, TrimmedAppend, TrimmedTwice
<1>4. /\ OutsideOtel(Append(t, Blank)) = OutsideOtel(t)
      /\ OutsideOtel(Trimmed(t)) = OutsideOtel(t) /\ OutsideOtel(Norm(t)) = OutsideOtel(t)
  <2>1. ASSUME NEW w \in OtelStates PROVE OtelStep[w][Blank] = w
    <3>1. OtelStep[w][Blank] = OtelWalk(w, Blank)
      BY <1>0, OtelSteps
    <3>2. Blank.is = "blank"
      BY DEF Blank, Line
    <3>3. OtelWalk(w, Blank) = [in |-> w.in, out |-> w.out]
      BY <3>2 DEF OtelWalk
    <3> QED
      BY <3>1, <3>3 DEF OtelStates
  <2>2. OtelStart \in OtelStates
    BY ConcatEmpty DEF OtelStart, OtelStates, Parts
  <2>3. /\ Fold(OtelStep, OtelStart, Append(t, Blank)) = Fold(OtelStep, OtelStart, t)
        /\ Fold(OtelStep, OtelStart, Trimmed(t)) = Fold(OtelStep, OtelStart, t)
        /\ Fold(OtelStep, OtelStart, Norm(t)) = Fold(OtelStep, OtelStart, t)
    BY <1>0, <2>1, <2>2, OtelSteps, BlanksFolded
  <2> QED
    BY <1>0, <1>3, <2>3, OutsideOtelIs
<1>5. /\ NotBlank(Append(t, Blank)) = NotBlank(t)
      /\ NotBlank(Trimmed(t)) = NotBlank(t) /\ NotBlank(Norm(t)) = NotBlank(t)
  <2> DEFINE none == <<>>
             W == Seq(Lines)
  <2>1. ASSUME NEW w \in W PROVE LinesStep[w][Blank] = w
    BY <1>0, LinesSteps DEF LinesWalk
  <2>2. none \in W /\ Steps(LinesStep, W, Lines)
    BY LinesSteps
  <2> HIDE DEF none, W
  <2>3. /\ Fold(LinesStep, none, Append(t, Blank)) = Fold(LinesStep, none, t)
        /\ Fold(LinesStep, none, Trimmed(t)) = Fold(LinesStep, none, t)
        /\ Fold(LinesStep, none, Norm(t)) = Fold(LinesStep, none, t)
    BY <1>0, <2>1, <2>2, BlanksFolded
  <2> QED
    BY <2>3 DEF NotBlank, none
<1> QED
  BY <1>1, <1>2, <1>4, <1>5, ParsesBlank DEF Same

(* Without Keld's block a text is what it is. *)
LEMMA StripUsers ==
  ASSUME NEW t \in Seq(UserKinds)
  PROVE  /\ StripKeldBlock(t) = t
         /\ TomlContents(t) = ContentsWith(t, 0)
         /\ UserLines(t) = NotBlank(t)
<1>1. \A i \in DOMAIN t : t[i].is # "start" /\ t[i].is # "keld"
  <2>1. \A i \in DOMAIN t : t[i] \in UserKinds
    OBVIOUS
  <2> QED
    BY <2>1, LineKinds
<1>2. StripKeldBlock(t) = t
  BY <1>1 DEF StripKeldBlock, HasKeldBlock
<1>3. {t[i].p : i \in {i \in DOMAIN t : t[i].is = "keld"}} = {}
  BY <1>1
<1>4. Max({0} \cup {}) = 0
  <2>1. {0} \cup {} \in SUBSET (0 .. 0) /\ 0 \in {0} \cup {}
    OBVIOUS
  <2>2. 0 \in Nat /\ \A y \in {0} \cup {} : y <= 0
    OBVIOUS
  <2> QED
    BY <2>1, <2>2, MaxIs
<1>5. UsersText(t) = t
  BY UsersTextAre
<1>6. TomlContents(t) = ContentsWith(t, 0)
  BY <1>5, <1>3, <1>4, Zenon DEF TomlContents, ContentsWith, AllParse, HasOtel
<1>7. UserLines(t) = NotBlank(t)
  <2>1. t \in Seq(Lines)
    BY LineKinds
  <2>2. FoldLeft(LinesWalk, <<>>, t) = NotBlank(t)
    BY <2>1, NotBlankIs
  <2> QED
    BY <1>5, <2>2, Zenon DEF UserLines
<1> QED
  BY <1>2, <1>6, <1>7

(* Where the lines of a text with a block are. *)
AroundAt(a, p, c, t) ==
  /\ Len(a) \in Nat /\ Len(c) \in Nat
  /\ DOMAIN t = 1 .. Len(a) + 3 + Len(c)
  /\ \A i \in 1 .. Len(a) : t[i] = a[i]
  /\ t[Len(a) + 1] = Line("start")
  /\ t[Len(a) + 2] = KeldLine(p)
  /\ t[Len(a) + 3] = Line("end")
  /\ \A j \in 1 .. Len(c) : t[Len(a) + 3 + j] = c[j]

(* Where the lines of a concatenation are. *)
LEMMA ConcatAt ==
  ASSUME NEW a \in Seq(Lines), NEW c \in Seq(Lines)
  PROVE  /\ Len(a) \in Nat /\ a \o c \in Seq(Lines) /\ Len(a \o c) = Len(a) + Len(c)
         /\ DOMAIN (a \o c) = 1 .. Len(a) + Len(c)
         /\ \A i \in 1 .. Len(a) : (a \o c)[i] = a[i]
         /\ \A j \in 1 .. Len(c) : (a \o c)[Len(a) + j] = c[j]
OBVIOUS

(* Where the lines of a text with Keld's block are. *)
LEMMA AroundLines ==
  ASSUME NEW a \in Seq(Lines), NEW p \in Parameters, NEW c \in Seq(Lines)
  PROVE  AroundAt(a, p, c, Around(a, p, c)) /\ Around(a, p, c) \in Seq(Lines)
<1> DEFINE m == Marked(p)
           b == a \o m
           t == b \o c
           n == Len(a)
<1>1. m \in Seq(Lines)
  BY LineKinds DEF Marked
<1>2. Len(m) = 3 /\ m[1] = Line("start") /\ m[2] = KeldLine(p) /\ m[3] = Line("end")
  BY DEF Marked
<1> HIDE DEF m
<1>3. /\ n \in Nat /\ b \in Seq(Lines) /\ Len(b) = n + 3
      /\ \A i \in 1 .. n : b[i] = a[i]
      /\ \A i \in 1 .. 3 : b[n + i] = m[i]
  <2>1. /\ Len(a) \in Nat /\ a \o m \in Seq(Lines) /\ Len(a \o m) = Len(a) + Len(m)
        /\ \A i \in 1 .. Len(a) : (a \o m)[i] = a[i]
        /\ \A j \in 1 .. Len(m) : (a \o m)[Len(a) + j] = m[j]
    BY <1>1, ConcatAt
  <2>2. Len(m) = 3
    BY <1>2
  <2> HIDE DEF b, n
  <2>3. b \in Seq(Lines) /\ Len(b) = n + Len(m) /\ \A j \in 1 .. Len(m) : b[n + j] = m[j]
    BY <2>1 DEF b, n
  <2>4. n \in Nat /\ \A i \in 1 .. n : b[i] = a[i]
    BY <2>1 DEF b, n
  <2> QED
    BY <2>2, <2>3, <2>4
<1> HIDE DEF b, n
<1>4. /\ Len(c) \in Nat /\ t \in Seq(Lines) /\ DOMAIN t = 1 .. n + 3 + Len(c)
      /\ \A i \in 1 .. n + 3 : t[i] = b[i]
      /\ \A j \in 1 .. Len(c) : t[n + 3 + j] = c[j]
  BY <1>3
<1> HIDE DEF t
<1>5. \A i \in 1 .. n : t[i] = a[i]
  BY <1>3, <1>4
<1>6. n + 1 \in 1 .. n + 3 /\ n + 2 \in 1 .. n + 3 /\ n + 3 \in 1 .. n + 3
  BY <1>3
<1>7. t[n + 1] = Line("start") /\ t[n + 2] = KeldLine(p) /\ t[n + 3] = Line("end")
  BY <1>2, <1>3, <1>4, <1>6
<1> QED
  BY <1>3, <1>4, <1>5, <1>7 DEF AroundAt, Around, t, b, n, m

(* Without its block a text still parses, and its [otel] was not there     *)
(* beside Keld's.                                                          *)
LEMMA AroundValid ==
  ASSUME NEW a \in Seq(UserKinds), NEW p \in Parameters, NEW c \in Seq(UserKinds),
         ValidTOML(Around(a, p, c))
  PROVE  AllParse(a \o c) /\ ~HasOtel(a \o c)
<1> DEFINE t == Around(a, p, c)
           u == a \o c
           n == Len(a)
           m == Len(c)
<1>1. a \in Seq(Lines) /\ c \in Seq(Lines)
  BY LineKinds
<1>2. AroundAt(a, p, c, t)
  BY <1>1, AroundLines
<1>3. /\ DOMAIN u = 1 .. n + m /\ \A i \in 1 .. n : u[i] = a[i]
      /\ \A j \in 1 .. m : u[n + j] = c[j]
  BY <1>1, ConcatAt
<1> HIDE DEF t, u, n, m
<1>4. /\ n \in Nat /\ m \in Nat /\ DOMAIN t = 1 .. n + 3 + m
      /\ \A i \in 1 .. n : t[i] = a[i]
      /\ t[n + 2] = KeldLine(p) /\ t[n + 3] = Line("end")
      /\ \A j \in 1 .. m : t[n + 3 + j] = c[j]
  BY <1>2 DEF AroundAt, n, m
<1>5. KeldLine(p).is = "keld" /\ Line("end").is = "end"
  BY DEF KeldLine, Line
<1>6. /\ \A i \in 1 .. n + 3 + m : Parses(t, i)
      /\ \A i, j \in 1 .. n + 3 + m :
           /\ t[i].is \in {"otel", "keld"} /\ t[j].is \in {"otel", "keld"} => i = j
           /\ ~(t[i].is = "hooks" /\ t[j].is = "keld")
  BY <1>4 DEF ValidTOML, t
<1>7. \A i \in 1 .. n + m : i \in 1 .. n \/ (i - n \in 1 .. m /\ i = n + (i - n))
  BY <1>4
<1>8. ASSUME NEW i \in 1 .. n PROVE Parses(u, i) /\ u[i].is \notin {"otel", "hooks"}
  <2>1. u[i] = t[i] /\ (i > 1 => u[i - 1] = t[i - 1]) /\ Parses(t, i)
    BY <1>3, <1>4, <1>6
  <2>2. t[i].is \notin {"otel", "hooks"}
    <3>1. n + 2 \in 1 .. n + 3 + m /\ i \in 1 .. n + 3 + m /\ i # n + 2
      BY <1>4
    <3> QED
      BY <1>4, <1>5, <1>6, <3>1
  <2> QED
    BY <2>1, <2>2 DEF Parses
<1>9. ASSUME NEW j \in 1 .. m PROVE Parses(u, n + j) /\ u[n + j].is \notin {"otel", "hooks"}
  <2> DEFINE i == n + 3 + j
  <2>1. i \in 1 .. n + 3 + m /\ n + 2 \in 1 .. n + 3 + m /\ i # n + 2
    BY <1>4
  <2>2. u[n + j] = t[i] /\ Parses(t, i)
    BY <1>3, <1>4, <1>6, <2>1
  <2>3. t[i].is \notin {"otel", "hooks"}
    BY <1>4, <1>5, <1>6, <2>1
  <2>4. ASSUME t[i].is = "cont" PROVE n + j > 1 /\ u[(n + j) - 1].is \in {"multi", "cont"}
    <3>1. t[i - 1].is \in {"multi", "cont"}
      BY <2>2, <2>4 DEF Parses
    <3>2. j # 1
      <4>1. j = 1 => i - 1 = n + 3
        BY <1>4
      <4> QED
        BY <1>4, <1>5, <3>1, <4>1
    <3>3. j - 1 \in 1 .. m /\ i - 1 = n + 3 + (j - 1) /\ (n + j) - 1 = n + (j - 1) /\ n + j > 1
      BY <1>4, <3>2
    <3>4. u[n + (j - 1)] = t[n + 3 + (j - 1)]
      BY <1>3, <1>4, <3>3
    <3> QED
      BY <3>1, <3>3, <3>4
  <2> HIDE DEF i
  <2> QED
    BY <2>2, <2>3, <2>4 DEF Parses
<1>10. \A i \in 1 .. n + m : Parses(u, i) /\ u[i].is \notin {"otel", "hooks"}
  BY <1>7, <1>8, <1>9
<1> QED
  BY <1>3, <1>10 DEF AllParse, HasOtel, u

(* A block behind the user's lines. *)
LEMMA BehindValid ==
  ASSUME NEW a \in Seq(UserKinds), NEW p \in Parameters
  PROVE  ValidTOML(Around(a, p, <<Blank>>)) <=> AllParse(a) /\ ~HasOtel(a)
<1> DEFINE c == <<Blank>>
           t == Around(a, p, c)
           n == Len(a)
<1>1. a \in Seq(Lines) /\ c \in Seq(UserKinds) /\ c \in Seq(Lines) /\ Len(c) = 1 /\ c[1] = Blank
  BY LineKinds
<1>2. AroundAt(a, p, c, t)
  BY <1>1, AroundLines
<1>3. /\ Blank.is = "blank" /\ Line("start").is = "start" /\ Line("end").is = "end"
      /\ KeldLine(p).is = "keld"
  BY DEF Blank, Line, KeldLine
<1>4. ASSUME ValidTOML(t) PROVE AllParse(a) /\ ~HasOtel(a)
  <2> HIDE DEF c
  <2>1. AllParse(a \o c) /\ ~HasOtel(a \o c)
    BY <1>1, <1>4, AroundValid
  <2>2. a \o c = Append(a, Blank)
    BY DEF c
  <2> QED
    BY <2>1, <2>2, ParsesBlank
<1>5. ASSUME AllParse(a), ~HasOtel(a) PROVE ValidTOML(t)
  <2> HIDE DEF t, c, n
  <2>1. /\ n \in Nat /\ DOMAIN t = 1 .. n + 3 + 1 /\ DOMAIN a = 1 .. n
        /\ \A i \in 1 .. n : t[i] = a[i]
        /\ t[n + 1] = Line("start") /\ t[n + 2] = KeldLine(p) /\ t[n + 3] = Line("end")
        /\ t[n + 3 + 1] = Blank
    <3>1. DOMAIN a = 1 .. n
      BY DEF n
    <3>2. 1 \in 1 .. 1
      OBVIOUS
    <3> QED
      BY <1>1, <1>2, <3>1, <3>2 DEF AroundAt, n
  <2>2. \A i \in 1 .. n + 3 + 1 :
          i \in 1 .. n \/ i = n + 1 \/ i = n + 2 \/ i = n + 3 \/ i = n + 3 + 1
    BY <2>1
  <2>3. ASSUME NEW i \in 1 .. n PROVE Parses(t, i) /\ t[i].is \notin {"otel", "hooks", "keld"}
    <3>1. /\ t[i] = a[i] /\ (i > 1 => t[i - 1] = a[i - 1])
          /\ Parses(a, i) /\ a[i].is \notin {"otel", "hooks"}
      BY <1>5, <2>1 DEF AllParse, HasOtel
    <3>2. a[i].is # "keld"
      <4>1. a[i] \in UserKinds
        BY <2>1
      <4> QED
        BY <4>1, LineKinds
    <3> QED
      BY <3>1, <3>2 DEF Parses
  <2>4. /\ Parses(t, n + 1) /\ Parses(t, n + 2) /\ Parses(t, n + 3) /\ Parses(t, n + 3 + 1)
        /\ t[n + 1].is \notin {"otel", "hooks", "keld"}
        /\ t[n + 3].is \notin {"otel", "hooks", "keld"}
        /\ t[n + 3 + 1].is \notin {"otel", "hooks", "keld"} /\ t[n + 2].is # "hooks"
    BY <1>3, <2>1 DEF Parses
  <2>5. \A i \in 1 .. n + 3 + 1 : Parses(t, i)
    BY <2>2, <2>3, <2>4
  <2>6. \A i \in 1 .. n + 3 + 1 :
          t[i].is # "hooks" /\ (t[i].is \in {"otel", "keld"} => i = n + 2)
    BY <2>2, <2>3, <2>4
  <2> QED
    BY <2>1, <2>5, <2>6 DEF ValidTOML
<1> QED
  BY <1>4, <1>5

(* StripKeldBlock on a text with a block. *)
LEMMA StripAround ==
  ASSUME NEW a \in Seq(UserKinds), NEW p \in Parameters, NEW c \in Seq(UserKinds)
  PROVE  /\ StripKeldBlock(Around(a, p, c)) = Norm(a \o c)
         /\ TomlContents(Around(a, p, c)) = ContentsWith(a \o c, p)
         /\ UserLines(Around(a, p, c)) = NotBlank(a \o c)
<1> DEFINE t == Around(a, p, c)
           n == Len(a)
<1>1. a \in Seq(Lines) /\ c \in Seq(Lines) /\ a \o c \in Seq(Lines) /\ a \o c \in Seq(UserKinds)
  BY LineKinds
<1>2. AroundAt(a, p, c, t)
  BY <1>1, AroundLines
<1>3. OutsideBlock(t) = a \o c /\ UsersText(t) = a \o c
  BY OutsideUsers, UsersTextAre
<1>4. /\ Line("start").is = "start" /\ Line("end").is = "end"
      /\ KeldLine(p).is = "keld" /\ KeldLine(p).p = p
  BY DEF Line, KeldLine
<1> HIDE DEF t
<1>5. HasKeldBlock(t)
  <2>1. n + 1 \in DOMAIN t /\ t[n + 1].is = "start"
    BY <1>2, <1>4 DEF AroundAt
  <2> QED
    BY <2>1 DEF HasKeldBlock
<1>6. StripKeldBlock(t) = Norm(a \o c)
  <2> DEFINE kept == Trimmed(a \o c)
  <2>1. StripKeldBlock(t) = IF kept = <<>> THEN EmptyText ELSE Append(kept, Blank)
    BY <1>3, <1>5, Zenon DEF StripKeldBlock
  <2>2. kept = <<>> => Append(kept, Blank) = EmptyText
    BY DEF EmptyText
  <2> HIDE DEF kept
  <2>3. StripKeldBlock(t) = Append(kept, Blank)
    BY <2>1, <2>2
  <2> QED
    BY <2>3 DEF Norm, kept
<1>7. {t[i].p : i \in {i \in DOMAIN t : t[i].is = "keld"}} = {p}
  <2>1. n + 2 \in DOMAIN t /\ t[n + 2].is = "keld" /\ t[n + 2].p = p
    BY <1>2, <1>4 DEF AroundAt
  <2>2. ASSUME NEW i \in DOMAIN t, t[i].is = "keld" PROVE i = n + 2
    <3>1. \/ i \in 1 .. n \/ i = n + 1 \/ i = n + 2 \/ i = n + 3
          \/ i - (n + 3) \in 1 .. Len(c) /\ i = n + 3 + (i - (n + 3))
      BY <1>2 DEF AroundAt
    <3>2. CASE i \in 1 .. n
      <4>1. t[i] = a[i] /\ a[i] \in UserKinds
        BY <1>2, <3>2 DEF AroundAt
      <4> QED
        BY <2>2, <4>1, LineKinds
    <3>3. CASE i - (n + 3) \in 1 .. Len(c) /\ i = n + 3 + (i - (n + 3))
      <4> DEFINE j == i - (n + 3)
      <4>1. t[n + 3 + j] = c[j] /\ c[j] \in UserKinds
        BY <1>2, <3>3 DEF AroundAt
      <4> QED
        BY <2>2, <3>3, <4>1, LineKinds
    <3> QED
      BY <1>2, <1>4, <2>2, <3>1, <3>2, <3>3 DEF AroundAt
  <2> HIDE DEF n
  <2>3. {i \in DOMAIN t : t[i].is = "keld"} = {n + 2}
    BY <2>1, <2>2
  <2> QED
    BY <2>1, <2>3
<1>8. Max({0} \cup {p}) = p
  <2>1. /\ p \in Nat /\ {0} \cup {p} \in SUBSET (0 .. p) /\ p \in {0} \cup {p}
        /\ \A y \in {0} \cup {p} : y <= p
    BY DEF Parameters
  <2> QED
    BY <2>1, MaxIs
<1>9. TomlContents(t) = ContentsWith(a \o c, p)
  BY <1>3, <1>7, <1>8, Zenon DEF TomlContents, ContentsWith, AllParse, HasOtel
<1>10. UserLines(t) = NotBlank(a \o c)
  <2>1. FoldLeft(LinesWalk, <<>>, a \o c) = NotBlank(a \o c)
    BY <1>1, NotBlankIs
  <2> QED
    BY <1>3, <2>1, Zenon DEF UserLines
<1> QED
  BY <1>6, <1>9, <1>10 DEF t

(* What UpsertKeldBlock keeps of the text in front of the block. *)
Leading(b) == IF Trimmed(b) = <<>> THEN <<>> ELSE b

(* UpsertKeldBlock keeps the user's lines in front of the block, so that a *)
(* later StripKeldBlock finds the same text, whose form it does not change *)
(* again.                                                                  *)
LEMMA LeadingProperty ==
  ASSUME NEW b \in Seq(UserKinds)
  PROVE  /\ Leading(b) \in Seq(UserKinds)
         /\ Same(Leading(b), b)
         /\ Norm(Leading(b) \o <<Blank>>) = Norm(b)
         /\ Norm(b) \in Seq(UserKinds) /\ Norm(Norm(b)) = Norm(b)
         /\ Same(Leading(b) \o <<Blank>>, b) /\ Same(Norm(b), b)
<1>0. Blank \in UserKinds
  BY LineKinds
<1> DEFINE x == Leading(b)
<1>1. x \in Seq(UserKinds) /\ Same(x, b) /\ Trimmed(x) = Trimmed(b)
  <2>1. CASE Trimmed(b) = <<>>
    <3>1. x = Trimmed(b)
      BY <2>1 DEF Leading
    <3>2. /\ Same(Trimmed(b), b) /\ Trimmed(b) \in Seq(UserKinds)
          /\ Trimmed(Trimmed(b)) = Trimmed(b)
      BY <1>0, SameTrimmed, TrimmedAppend, TrimmedTwice
    <3> QED
      BY <3>1, <3>2
  <2>2. CASE Trimmed(b) # <<>>
    <3>1. x = b
      BY <2>2 DEF Leading
    <3> QED
      BY <3>1 DEF Same
  <2> QED
    BY <2>1, <2>2
<1> HIDE DEF x
<1>2. x \o <<Blank>> = Append(x, Blank)
  BY <1>1
<1>3. Trimmed(Append(x, Blank)) = Trimmed(x)
  BY <1>0, <1>1, TrimmedAppend
<1>4. Norm(x \o <<Blank>>) = Norm(b)
  BY <1>1, <1>2, <1>3 DEF Norm
<1>5. Norm(b) \in Seq(UserKinds) /\ Trimmed(Norm(b)) = Trimmed(b)
  BY <1>0, TrimmedTwice
<1>6. Norm(Norm(b)) = Norm(b)
  BY <1>5 DEF Norm
<1>7. Same(x \o <<Blank>>, b) /\ Same(Norm(b), b)
  <2>1. Same(Append(x, Blank), x) /\ Same(Norm(b), b)
    BY <1>1, SameTrimmed
  <2> QED
    BY <1>1, <1>2, <2>1 DEF Same
<1> QED
  BY <1>1, <1>4, <1>5, <1>6, <1>7 DEF x

(* The block that UpsertKeldBlock writes: the marked lines and a blank     *)
(* one.                                                                    *)
LEMMA BlockIs == ASSUME NEW p \in Parameters PROVE Block(p) = Marked(p) \o <<Blank>>
<1> DEFINE m == Marked(p)
           c == <<Blank>>
           all == m \o c
           b == Block(p)
<1>1. /\ Line("start") \in Lines /\ KeldLine(p) \in Lines /\ Line("end") \in Lines
      /\ Blank \in Lines
  BY LineKinds
<1>2. m \in Seq(Lines) /\ Len(m) = 3
  BY <1>1 DEF Marked
<1>3. c \in Seq(Lines) /\ Len(c) = 1
  BY <1>1
<1>4. b \in Seq(Lines) /\ Len(b) = 4
  BY <1>1 DEF Block
<1>5. /\ m[1] = b[1] /\ m[2] = b[2] /\ m[3] = b[3] /\ c[1] = b[4]
  BY DEF Marked, Block
<1> HIDE DEF m, c, b
<1>6. /\ Len(m) \in Nat /\ all \in Seq(Lines) /\ Len(all) = Len(m) + Len(c)
      /\ \A i \in 1 .. Len(m) : all[i] = m[i]
      /\ \A j \in 1 .. Len(c) : all[Len(m) + j] = c[j]
  BY <1>2, <1>3, ConcatAt
<1> HIDE DEF all
<1>7. Len(all) = 4
  BY <1>2, <1>3, <1>6
<1>8. all[1] = b[1] /\ all[2] = b[2] /\ all[3] = b[3] /\ all[4] = b[4]
  <2>1. 1 \in 1 .. 3 /\ 2 \in 1 .. 3 /\ 3 \in 1 .. 3 /\ 1 \in 1 .. 1 /\ 3 + 1 = 4
    OBVIOUS
  <2>2. all[1] = m[1] /\ all[2] = m[2] /\ all[3] = m[3]
    BY <1>2, <1>6, <2>1
  <2>3. all[4] = c[1]
    BY <1>2, <1>3, <1>6, <2>1
  <2> QED
    BY <1>5, <2>2, <2>3
<1>9. \A i \in 1 .. Len(all) : all[i] = b[i]
  <2>1. \A i \in 1 .. 4 : i = 1 \/ i = 2 \/ i = 3 \/ i = 4
    OBVIOUS
  <2> QED
    BY <1>7, <1>8, <2>1
<1>10. all = b
  BY <1>4, <1>6, <1>7, <1>9, SeqEqual
<1> QED
  BY <1>10 DEF all, m, c, b

(* UpsertKeldBlock writes the block behind the user's lines. *)
LEMMA UpsertIs ==
  ASSUME NEW t, NEW p \in Parameters, StripKeldBlock(t) \in Seq(UserKinds)
  PROVE  UpsertKeldBlock(t, p) = Around(Leading(StripKeldBlock(t)), p, <<Blank>>)
<1> DEFINE b == StripKeldBlock(t)
<1>1. UpsertKeldBlock(t, p) = IF Trimmed(b) = <<>> THEN Block(p) ELSE b \o Block(p)
  BY Zenon DEF UpsertKeldBlock
<1>2. /\ Line("start") \in Lines /\ KeldLine(p) \in Lines /\ Line("end") \in Lines
      /\ Blank \in Lines /\ b \in Seq(Lines)
  BY LineKinds
<1> HIDE DEF b
<1>3. Block(p) = Around(<<>>, p, <<Blank>>)
  <2>1. Marked(p) \in Seq(Lines)
    BY <1>2 DEF Marked
  <2>2. <<>> \o Marked(p) = Marked(p)
    BY <2>1, ConcatEmpty
  <2> QED
    BY <2>2, BlockIs DEF Around
<1>4. b \o Block(p) = Around(b, p, <<Blank>>)
  <2> DEFINE m == Marked(p)
             c == <<Blank>>
  <2>1. m \in Seq(Lines) /\ c \in Seq(Lines)
    BY <1>2 DEF Marked
  <2>2. Block(p) = m \o c
    BY BlockIs
  <2> HIDE DEF m, c
  <2>3. b \o (m \o c) = (b \o m) \o c
    BY <1>2, <2>1
  <2> QED
    BY <2>2, <2>3 DEF Around, m, c
<1> QED
  BY <1>1, <1>3, <1>4 DEF Leading, b

(* The text after a setup: the block, and the same to the user. *)
LEMMA UpsertProperty ==
  ASSUME NEW b \in Seq(UserKinds), NEW p \in Parameters
  PROVE  LET after == Around(Leading(b), p, <<Blank>>)
         IN  /\ StripKeldBlock(after) = Norm(b)
             /\ TomlContents(after) = ContentsWith(b, p)
             /\ UserLines(after) = NotBlank(b)
             /\ ValidTOML(after) <=> AllParse(b) /\ ~HasOtel(b)
             /\ OutsideOtel(UsersText(after)) = OutsideOtel(b)
<1> DEFINE x == Leading(b)
           c == <<Blank>>
           after == Around(x, p, c)
<1>1. c \in Seq(UserKinds)
  BY LineKinds
<1>2. /\ x \in Seq(UserKinds) /\ Same(x, b) /\ Norm(x \o c) = Norm(b)
      /\ Same(x \o c, b) /\ Same(Norm(b), b)
  BY LeadingProperty
<1>3. ValidTOML(after) <=> AllParse(x) /\ ~HasOtel(x)
  BY <1>2, BehindValid
<1> HIDE DEF x, c
<1>4. /\ StripKeldBlock(after) = Norm(x \o c)
      /\ TomlContents(after) = ContentsWith(x \o c, p)
      /\ UserLines(after) = NotBlank(x \o c)
      /\ UsersText(after) = x \o c
  BY <1>1, <1>2, StripAround, UsersTextAre
<1>5. ContentsWith(x \o c, p) = ContentsWith(b, p)
  BY <1>2, SameContents
<1> QED
  BY <1>2, <1>3, <1>4, <1>5 DEF Same, x, c
-----------------------------------------------------------------------------
(* Texts of any length, without a block and with one. *)
PlainTexts == Seq(UserKinds) \ {<<>>}
MarkedTexts ==
  UNION {{Around(a, p, c) : a \in Seq(UserKinds), c \in Seq(UserKinds)} : p \in Parameters}

(* What the algorithms see of a text: its lines outside of the block.      *)
Seen(t, b, k) ==
  /\ b \in Seq(UserKinds) /\ k \in 0 .. MaxParams
  /\ StripKeldBlock(t) = b /\ StripKeldBlock(b) = b
  /\ TomlContents(t) = ContentsWith(b, k) /\ TomlContents(b) = ContentsWith(b, 0)
  /\ UserLines(t) = NotBlank(b) /\ UserLines(b) = NotBlank(b)
  /\ k # 0 => (ValidTOML(t) => AllParse(b) /\ ~HasOtel(b))
  /\ k = 0 => t = b

(* Each of these texts has lines outside of the block, that the algorithms *)
(* see.                                                                    *)
LEMMA SeenExists ==
  ASSUME NEW t \in PlainTexts \cup MarkedTexts PROVE \E b, k : Seen(t, b, k)
<1>1. CASE t \in PlainTexts
  <2>1. 0 \in 0 .. MaxParams
    BY SetupAssumption
  <2>2. Seen(t, t, 0)
    BY <1>1, <2>1, StripUsers DEF Seen, PlainTexts
  <2> QED
    BY <2>2
<1>2. CASE t \in MarkedTexts
  <2>1. PICK p \in Parameters : t \in {Around(a, p, c) : a \in Seq(UserKinds), c \in Seq(UserKinds)}
    BY <1>2 DEF MarkedTexts
  <2>2. PICK a \in Seq(UserKinds), c \in Seq(UserKinds) : t = Around(a, p, c)
    BY <2>1
  <2> DEFINE b == Norm(a \o c)
  <2>3. a \o c \in Seq(UserKinds)
    OBVIOUS
  <2>4. b \in Seq(UserKinds) /\ Same(b, a \o c)
    <3> DEFINE ac == a \o c
    <3> HIDE DEF ac
    <3>1. ac \in Seq(UserKinds)
      BY <2>3 DEF ac
    <3>2. Norm(ac) \in Seq(UserKinds) /\ Same(Norm(ac), ac)
      BY <3>1, LeadingProperty
    <3> QED
      BY <3>2 DEF ac
  <2>5. /\ StripKeldBlock(t) = b /\ TomlContents(t) = ContentsWith(a \o c, p)
        /\ UserLines(t) = NotBlank(a \o c)
    BY <2>2, StripAround
  <2>6. ContentsWith(b, p) = ContentsWith(a \o c, p)
    BY <2>4, SameContents
  <2>7. ValidTOML(t) => AllParse(a \o c) /\ ~HasOtel(a \o c)
    BY <2>2, AroundValid
  <2>8. p \in 0 .. MaxParams /\ p # 0
    BY SetupAssumption DEF Parameters
  <2> HIDE DEF b
  <2>9. /\ StripKeldBlock(b) = b /\ TomlContents(b) = ContentsWith(b, 0)
        /\ UserLines(b) = NotBlank(b)
    BY <2>4, StripUsers
  <2>10. Seen(t, b, p)
    BY <2>4, <2>5, <2>7, <2>8, <2>9, <2>6 DEF Seen, Same
  <2> QED
    BY <2>10
<1> QED
  BY <1>1, <1>2

(* The fields of such contents, one by one. *)
LEMMA ContentsFields ==
  ASSUME NEW t, NEW k
  PROVE  /\ ContentsWith(t, k).there /\ ContentsWith(t, k).keld = k
         /\ ContentsWith(t, k).broken <=> ~AllParse(t)
         /\ ContentsWith(t, k).telemetry <=> HasOtel(t)
         /\ [ContentsWith(t, k) EXCEPT !.keld = 0] = ContentsWith(t, 0)
         /\ AllParse(t) /\ ~HasOtel(t) =>
              ContentsWith(t, k) = [there |-> TRUE, own |-> OutsideOtel(t) # <<>>,
                                    telemetry |-> FALSE, broken |-> FALSE, keld |-> k]
         /\ AllParse(t) => (ContentsWith(t, k).own <=> OutsideOtel(t) # <<>>)
<1> DEFINE none == <<>>
           own == ~AllParse(t) \/ OutsideOtel(t) # none
           telemetry == HasOtel(t)
           broken == ~AllParse(t)
<1>1. \A i : ContentsWith(t, i) = [there |-> TRUE, own |-> own, telemetry |-> telemetry,
                                 broken |-> broken, keld |-> i]
  BY Zenon DEF ContentsWith
<1>2. /\ broken <=> ~AllParse(t)
      /\ telemetry <=> HasOtel(t)
      /\ AllParse(t) => (own <=> OutsideOtel(t) # none)
  OBVIOUS
<1>3. /\ AllParse(t) => broken = FALSE
      /\ ~HasOtel(t) => telemetry = FALSE
      /\ AllParse(t) => own = (OutsideOtel(t) # none)
  <2>1. AllParse(t) => broken = FALSE
    BY DEF AllParse
  <2>2. ~HasOtel(t) => telemetry = FALSE
    BY DEF HasOtel
  <2>3. AllParse(t) => own = (OutsideOtel(t) # none)
    BY DEF AllParse
  <2> QED
    BY <2>1, <2>2, <2>3
<1> HIDE DEF none, own, telemetry, broken
<1>4. /\ ContentsWith(t, k).there /\ ContentsWith(t, k).keld = k
      /\ ContentsWith(t, k).broken = broken /\ ContentsWith(t, k).telemetry = telemetry
      /\ ContentsWith(t, k).own = own
  BY <1>1
<1>5. [ContentsWith(t, k) EXCEPT !.keld = 0] = ContentsWith(t, 0)
  <2> DEFINE there == TRUE
  <2>1. \A i : ContentsWith(t, i) = [there |-> there, own |-> own, telemetry |-> telemetry,
                                   broken |-> broken, keld |-> i]
    BY <1>1
  <2> HIDE DEF there
  <2>2. ContentsWith(t, k) = [there |-> there, own |-> own, telemetry |-> telemetry,
                              broken |-> broken, keld |-> k]
    BY <2>1
  <2>3. ContentsWith(t, 0) = [there |-> there, own |-> own, telemetry |-> telemetry,
                              broken |-> broken, keld |-> 0]
    BY <2>1
  <2> QED
    BY <2>2, <2>3
<1>6. AllParse(t) /\ ~HasOtel(t) =>
        ContentsWith(t, k) = [there |-> TRUE, own |-> OutsideOtel(t) # none,
                              telemetry |-> FALSE, broken |-> FALSE, keld |-> k]
  BY <1>1, <1>3, Zenon
<1> QED
  BY <1>2, <1>4, <1>5, <1>6 DEF none

(* StripKeldBlock leaves what Setup's Removed says, and the user's lines. *)
LEMMA BlockRemovedAlways == ASSUME NEW t, NEW b, NEW k, Seen(t, b, k) PROVE BlockRemoved(t)
<1>1. /\ StripKeldBlock(t) = b /\ UserLines(b) = UserLines(t)
      /\ TomlContents(t) = ContentsWith(b, k) /\ TomlContents(b) = ContentsWith(b, 0)
  BY DEF Seen
<1>2. ContentsWith(b, k).there /\ [ContentsWith(b, k) EXCEPT !.keld = 0] = ContentsWith(b, 0)
  BY ContentsFields
<1>3. Removed("codex", TomlContents(t)) = [TomlContents(t) EXCEPT !.keld = 0]
  BY <1>1, <1>2 DEF Removed, RemovedBlock
<1>4. TomlContents(StripKeldBlock(t)) = Removed("codex", TomlContents(t))
  BY <1>1, <1>2, <1>3
<1> QED
  BY <1>1, <1>4 DEF BlockRemoved

(* A text with a block is never NoText. *)
LEMMA AroundIsText ==
  ASSUME NEW a \in Seq(UserKinds), NEW p \in Parameters, NEW c \in Seq(UserKinds)
  PROVE  Around(a, p, c) # NoText
<1>1. a \in Seq(Lines) /\ c \in Seq(Lines)
  BY LineKinds
<1>2. Len(a) \in Nat /\ Len(c) \in Nat /\ DOMAIN Around(a, p, c) = 1 .. Len(a) + 3 + Len(c)
  BY <1>1, AroundLines DEF AroundAt
<1>3. 1 \in DOMAIN Around(a, p, c)
  BY <1>2
<1>4. DOMAIN NoText = {}
  BY DEF NoText
<1> QED
  BY <1>3, <1>4

(* CodexApply refuses where Setup finds a conflict, and else leaves what   *)
(* Applied says; with its own consent the user's [otel] alone is replaced. *)
LEMMA BlockAppliedAlways ==
  ASSUME NEW t, NEW b, NEW k, Seen(t, b, k), NEW p \in Parameters
  PROVE  BlockApplied(t, p)
<1> DEFINE f == TomlContents(t)
           up == UpsertKeldBlock(t, p)
           s == StripTOMLTable(t)
           other == UpsertKeldBlock(s, p)
           after == CodexApply(t, p, FALSE)
           replaced == CodexApply(t, p, TRUE)
<1>0. <<Blank>> \in Seq(UserKinds) /\ b \in Seq(UserKinds) /\ Leading(b) \in Seq(UserKinds)
  BY LineKinds, LeadingProperty DEF Seen
<1>1. up = Around(Leading(b), p, <<Blank>>)
  BY UpsertIs DEF Seen
<1>2. /\ TomlContents(up) = ContentsWith(b, p) /\ UserLines(up) = NotBlank(b)
      /\ ValidTOML(up) <=> AllParse(b) /\ ~HasOtel(b)
  BY <1>0, <1>1, UpsertProperty
<1>3. up # NoText
  BY <1>0, <1>1, AroundIsText
<1>4. f = ContentsWith(b, k)
  BY DEF Seen
<1>5. /\ after = IF ValidTOML(up) THEN up ELSE NoText
      /\ replaced = IF ValidTOML(up) THEN up
                    ELSE IF SafeToReplace(t) /\ ValidTOML(other) THEN other ELSE NoText
  BY Zenon DEF CodexApply
<1>6. (f.broken <=> ~AllParse(b)) /\ (f.telemetry <=> HasOtel(b))
  BY <1>4, ContentsFields
<1> HIDE DEF after, replaced, up, other, s, f
<1>7. after = NoText <=> Conflict("codex", f)
  <2>1. Conflict("codex", f) <=> f.broken \/ f.telemetry
    BY DEF Conflict
  <2> QED
    BY <1>2, <1>3, <1>5, <1>6, <2>1
<1>8. ASSUME after # NoText
      PROVE  TomlContents(after) = AppliedWith(f, p) /\ UserLines(after) = UserLines(t)
  <2>1. after = up /\ AllParse(b) /\ ~HasOtel(b)
    BY <1>2, <1>5, <1>8
  <2>2. ContentsWith(b, p) = AppliedWith(f, p)
    <3>1. /\ ContentsWith(b, p) = [there |-> TRUE, own |-> OutsideOtel(b) # <<>>,
                                   telemetry |-> FALSE, broken |-> FALSE, keld |-> p]
          /\ f.own <=> OutsideOtel(b) # <<>>
      BY <1>4, <2>1, ContentsFields
    <3>2. ~f.broken
      BY <1>6, <2>1
    <3> QED
      BY <3>1, <3>2 DEF AppliedWith
  <2> QED
    BY <1>2, <2>1, <2>2 DEF Seen
<1>9. ASSUME after = NoText, replaced # NoText
      PROVE  /\ Replaceable(f)
             /\ TomlContents(replaced) = AppliedWith(f, p)
             /\ OutsideOtel(UsersText(replaced)) = OutsideOtel(t)
  <2>1. /\ ~ValidTOML(up) /\ SafeToReplace(t) /\ ValidTOML(other) /\ replaced = other
    BY <1>3, <1>5, <1>9
  <2>2. ValidTOML(t) /\ OutsideOtel(s) = OutsideOtel(t)
    BY <2>1 DEF SafeToReplace, s
  <2>3. k = 0 /\ t = b
    BY <1>2, <2>1, <2>2 DEF Seen
  <2>4. /\ s \in Seq(UserKinds) /\ ~HasOtel(s)
    <3>1. s \in Seq(OtherKinds)
      BY <1>0, <2>3, StripType DEF s
    <3>2. s \in Seq(UserKinds) /\ \A i \in DOMAIN s : s[i].is # "otel"
      BY <3>1 DEF OtherKinds
    <3> QED
      BY <3>2 DEF HasOtel
  <2>5. StripKeldBlock(s) = s
    BY <2>4, StripUsers
  <2>6. other = Around(Leading(s), p, <<Blank>>)
    BY <2>4, <2>5, UpsertIs DEF other
  <2>7. /\ TomlContents(other) = ContentsWith(s, p)
        /\ ValidTOML(other) <=> AllParse(s) /\ ~HasOtel(s)
        /\ OutsideOtel(UsersText(other)) = OutsideOtel(s)
    BY <2>4, <2>6, UpsertProperty
  <2>8. AllParse(t)
    <3>1. ~HasHooks(s)
      BY <2>1, <2>7 DEF HasHooks, AllParse
    <3>2. ~HasHooks(t)
      BY <1>0, <2>3, <3>1, StripKeepsHooks DEF s
    <3> QED
      BY <2>2, <3>2 DEF ValidTOML, AllParse, HasHooks
  <2>9. Replaceable(f)
    <3>1. f.keld = 0
      BY <1>4, <2>3, ContentsFields
    <3> QED
      BY <1>6, <2>3, <2>8, <3>1 DEF Replaceable
  <2>10. ContentsWith(s, p) = AppliedWith(f, p)
    <3>1. ContentsWith(s, p) = [there |-> TRUE, own |-> OutsideOtel(s) # <<>>,
                                telemetry |-> FALSE, broken |-> FALSE, keld |-> p]
      BY <2>1, <2>4, <2>7, ContentsFields
    <3>2. (f.own <=> OutsideOtel(s) # <<>>) /\ ~f.broken
      BY <1>4, <1>6, <2>2, <2>3, <2>8, ContentsFields
    <3> QED
      BY <3>1, <3>2 DEF AppliedWith
  <2> QED
    BY <2>1, <2>2, <2>7, <2>9, <2>10
<1> QED
  BY <1>7, <1>8, <1>9 DEF BlockApplied, f, after, replaced

(* Another setup finds the text as it would leave it. *)
LEMMA BlockSettlesAlways ==
  ASSUME NEW t, NEW b, NEW k, Seen(t, b, k), NEW p \in Parameters
  PROVE  BlockSettles(t, p)
<1> SUFFICES ASSUME NEW q \in Parameters
             PROVE  LET twice == UpsertKeldBlock(UpsertKeldBlock(t, q), p)
                    IN  UpsertKeldBlock(twice, p) = twice
  BY DEF BlockSettles
<1> DEFINE once == UpsertKeldBlock(t, q)
           twice == UpsertKeldBlock(once, p)
<1>0. b \in Seq(UserKinds) /\ StripKeldBlock(t) = b
  BY DEF Seen
<1>1. Norm(b) \in Seq(UserKinds) /\ Norm(Norm(b)) = Norm(b)
  BY <1>0, LeadingProperty
<1>2. once = Around(Leading(b), q, <<Blank>>)
  BY <1>0, UpsertIs
<1> HIDE DEF once
<1>3. StripKeldBlock(once) = Norm(b)
  BY <1>0, <1>2, UpsertProperty
<1>4. twice = Around(Leading(Norm(b)), p, <<Blank>>)
  BY <1>1, <1>3, UpsertIs
<1> HIDE DEF twice
<1>5. StripKeldBlock(twice) = Norm(b)
  BY <1>1, <1>4, UpsertProperty
<1>6. UpsertKeldBlock(twice, p) = twice
  BY <1>1, <1>4, <1>5, UpsertIs
<1> QED
  BY <1>6 DEF twice, once

(* merge_toml.go and the Codex adapter, on config.toml of any length: what *)
(* setup and uninstall leave is what Setup.tla says, the user's lines stay *)
(* in their order, and the block does not grow with each setup.            *)
THEOREM SetupTextsTreated == \A t \in PlainTexts \cup MarkedTexts : Treated(t)
<1> SUFFICES ASSUME NEW t \in PlainTexts \cup MarkedTexts PROVE Treated(t)
  OBVIOUS
<1>1. PICK b, k : Seen(t, b, k)
  BY SeenExists
<1>2. BlockRemoved(t)
  BY <1>1, BlockRemovedAlways
<1>3. \A p \in Parameters : BlockApplied(t, p) /\ BlockSettles(t, p)
  BY <1>1, BlockAppliedAlways, BlockSettlesAlways
<1> QED
  BY <1>2, <1>3 DEF Treated

(* The texts that the runs check are among these. *)
LEMMA TextsCovered == TomlTexts \subseteq PlainTexts \cup MarkedTexts
<1>1. UserTexts \subseteq PlainTexts
  <2>1. BoundedSeq(UserKinds, MaxLines) \subseteq Seq(UserKinds)
    BY TextsAssumption, BoundedIsSeq
  <2> QED
    BY <2>1 DEF UserTexts, PlainTexts
<1>2. ASSUME NEW t \in BlockTexts PROVE t \in MarkedTexts
  <2>1. PICK a \in BoundedSeq(UserKinds, MaxLines - 2), p \in Parameters,
             c \in BoundedSeq(UserKinds, 2) \ {<<>>} : t = Around(a, p, c)
    BY DEF BlockTexts
  <2>2. a \in Seq(UserKinds) /\ c \in Seq(UserKinds)
    <3>1. BoundedSeq(UserKinds, MaxLines - 2) \subseteq Seq(UserKinds)
      BY BoundedIsSeq, TextsAssumption
    <3>2. BoundedSeq(UserKinds, 2) \subseteq Seq(UserKinds)
      BY BoundedIsSeq
    <3> QED
      BY <2>1, <3>1, <3>2
  <2> QED
    BY <2>1, <2>2 DEF MarkedTexts
<1> QED
  BY <1>1, <1>2 DEF TomlTexts

(* No config.toml that the commands come to is one that merge_toml.go      *)
(* treats otherwise than Setup.tla says.                                   *)
THEOREM SetupCodexFileRefines == Spec => []CodexFileRefines
<1>1. ContentsMistreated = {}
  BY TextsCovered, SetupTextsTreated DEF ContentsMistreated
<1>2. CodexFileRefines
  BY <1>1 DEF CodexFileRefines
<1> QED
  BY <1>2, PTL
=============================================================================
