----------------------------- MODULE Enrichment -----------------------------
(***************************************************************************)
(* The enrichment of one job after another by the worker and the settings  *)
(* poller beside it (internal/agent/daemon/daemon.go: process,             *)
(* pollSettings; internal/agent/enrich, internal/agent/settings,           *)
(* internal/agent/publish).                                                *)
(*                                                                         *)
(* A job goes through the extractors one by one; each of them probes the   *)
(* health of the sidecar anew and may get its answer from the sidecar, no  *)
(* answer from it, or an answer from the deterministic model.  The worker  *)
(* reads the effective setting when it builds the message to Atlas.        *)
(*                                                                         *)
(* Of the answers only function_guess, the subcategory that depends on it  *)
(* and the presence of domain entities are kept; the others differ in      *)
(* whether they came.  NoLabel, the empty label, is an abstention.         *)
(***************************************************************************)
EXTENDS Integers, Sequences, Functions

CONSTANTS FunctionIds,  (* ids of the function_guess labels, in order      *)
          Subcats,      (* the subcategory ids of each function, in order  *)
          MaxJobs,      (* bound: how many jobs are resolved               *)
          MaxChanges    (* bound: how often the org changes its document   *)

NoLabel == ""

ASSUME LabelsAssumption ==
  /\ FunctionIds \in Seq(STRING) /\ FunctionIds # <<>>
  /\ Subcats \in [Range(FunctionIds) -> Seq(STRING)]
  /\ NoLabel \notin Range(FunctionIds)
ASSUME BoundsAssumption == MaxJobs \in Nat /\ MaxChanges \in Nat

VARIABLES base, eff,       (* Live.base, Live.eff: include_entity_text     *)
          org,             (* the document of the org, kept by Atlas       *)
          poll, doc,       (* where pollSettings is; the document it got   *)
          ctxDone

VARIABLES ml,              (* the model is the router over the sidecar     *)
          at,              (* the stage the job is in                      *)
          backend,         (* the model the router picked for the stage    *)
          function, subcategory, entities, anyFailed,
          built            (* the Enrichment being sent                    *)

VARIABLES unanswered,      (* history: the sidecar did not answer a stage  *)
          lateTexts,       (* history: messages with text sent since the   *)
                           (* effective setting was turned off             *)
          jobs, changes

setVars == <<base, eff, org, poll, doc, changes>>
jobVars == <<at, backend, function, subcategory, entities, anyFailed, built,
             unanswered, lateTexts, jobs>>
vars == <<setVars, ctxDone, ml, jobVars>>

Documents == {"unset", "on", "off"}
Stages == <<"task_type", "sensitivity", "domain_entities", "activity_type",
            "personal", "function_guess", "subcategory">>
Idle == 0
Build == Len(Stages) + 1
Send == Len(Stages) + 2

Nothing == [text |-> FALSE, function |-> NoLabel, subcategory |-> NoLabel, status |-> NoLabel]
-----------------------------------------------------------------------------
Init ==
  /\ base \in BOOLEAN
  /\ eff = base
  /\ org \in Documents
  /\ poll = "due"
  /\ doc = "unset"
  /\ ctxDone = FALSE
  /\ ml \in BOOLEAN
  /\ at = Idle
  /\ backend = "none"
  /\ function = NoLabel /\ subcategory = NoLabel
  /\ entities = FALSE
  /\ anyFailed = FALSE
  /\ built = Nothing
  /\ unanswered = FALSE
  /\ lateTexts = 0
  /\ jobs = 0 /\ changes = 0

-----------------------------------------------------------------------------
(* The settings. *)

(* An admin sets or unsets the key. *)
OrgChanges(d) ==
  /\ changes < MaxChanges
  /\ d # org
  /\ org' = d
  /\ changes' = changes + 1
  /\ UNCHANGED <<base, eff, poll, doc, ctxDone, ml, jobVars>>

(* Atlas answers a fetch with the document of that moment. *)
FetchAnswered ==
  /\ poll = "due"
  /\ ~ctxDone
  /\ doc' = org
  /\ poll' = "answered"
  /\ UNCHANGED <<base, eff, org, changes, ctxDone, ml, jobVars>>

(* No answer, not status 200, not JSON, or cancelled: nothing is applied. *)
FetchFails ==
  /\ poll = "due"
  /\ poll' = "waiting"
  /\ UNCHANGED <<base, eff, org, doc, changes, ctxDone, ml, jobVars>>

(* Live.Apply: the local base overlaid with the keys that are present. *)
OverlayOnEffective(d) == IF d = "unset" THEN eff ELSE d = "on"
Overlay(d) == IF d = "unset" THEN base ELSE d = "on"

Apply ==
  /\ poll = "answered"
  /\ eff' = Overlay(doc)
  /\ poll' = "waiting"
  /\ lateTexts' = IF Overlay(doc) THEN 0 ELSE lateTexts
  /\ UNCHANGED <<base, org, doc, changes, ctxDone, ml, at, backend, function,
                 subcategory, entities, anyFailed, built, unanswered, jobs>>

(* The ticker fires; a cancelled context ends the loop, unless the ticker  *)
(* wins the select once more.                                              *)
PollAgain ==
  /\ poll = "waiting"
  /\ poll' = "due"
  /\ UNCHANGED <<base, eff, org, doc, changes, ctxDone, ml, jobVars>>

PollEnds ==
  /\ poll = "waiting"
  /\ ctxDone
  /\ poll' = "ended"
  /\ UNCHANGED <<base, eff, org, doc, changes, ctxDone, ml, jobVars>>

Cancel ==
  /\ ~ctxDone
  /\ ctxDone' = TRUE
  /\ UNCHANGED <<setVars, ml, jobVars>>
-----------------------------------------------------------------------------
(* The job. *)

(* process: the text of the next job is resolved.  (A job whose text is    *)
(* not found ends at once and leaves no trace here.)                       *)
Resolve ==
  /\ at = Idle
  /\ jobs < MaxJobs
  /\ jobs' = jobs + 1
  /\ at' = 1
  /\ function' = NoLabel /\ subcategory' = NoLabel
  /\ entities' = FALSE
  /\ anyFailed' = FALSE
  /\ unanswered' = FALSE
  /\ UNCHANGED <<setVars, ctxDone, ml, backend, built, lateTexts>>

(* The labels of the conditioned pass: those of the function that was      *)
(* committed after the first wave; none for an abstention.                 *)
FamilyOrFirst ==
  IF function \in Range(FunctionIds) THEN Subcats[function] ELSE Subcats[FunctionIds[1]]
Family == IF function \in Range(FunctionIds) THEN Subcats[function] ELSE <<>>

Unconditioned == Stages[at] = "subcategory" /\ Family = <<>>

(* router.pick, anew for every stage: the health probe may say anything.   *)
(* Without ML the model is the deterministic one.                          *)
Pick(b) ==
  /\ at \in 1 .. Len(Stages)
  /\ backend = "none"
  /\ ~Unconditioned
  /\ b = "sidecar" => ml
  /\ backend' = b
  /\ UNCHANGED <<setVars, ctxDone, ml, at, function, subcategory, entities,
                 anyFailed, built, unanswered, lateTexts, jobs>>

NextStage == at + 1

(* The conditioned pass has no labels: it abstains without asking a model. *)
SkipStage ==
  /\ at \in 1 .. Len(Stages)
  /\ Unconditioned
  /\ at' = NextStage
  /\ UNCHANGED <<setVars, ctxDone, ml, backend, function, subcategory, entities,
                 anyFailed, built, unanswered, lateTexts, jobs>>

(* classifyPass over labels: the model's choice, where a text that is not  *)
(* among the labels has no id; the first label, with confidence 0, if the  *)
(* sidecar gave no answer; nothing from the deterministic model, which has *)
(* no keywords for these passes.                                           *)
Unanswered(labels) == {labels[1]}
Abstention == {NoLabel}

Classified(labels, answer) ==
  CASE answer = "fallback" -> Abstention
    [] answer = "none"     -> Unanswered(labels)
    [] answer = "sidecar"  -> Range(labels) \cup {NoLabel}

(* runStage ends with an answer of the sidecar, none within 5 seconds or   *)
(* none with status 200, or one of the deterministic model.                *)
StageEnds(answer) ==
  /\ at \in 1 .. Len(Stages)
  /\ IF backend = "sidecar" THEN answer \in {"sidecar", "none"}
                            ELSE backend = "deterministic" /\ answer = "fallback"
  /\ function' \in IF Stages[at] = "function_guess" THEN Classified(FunctionIds, answer)
                                                    ELSE {function}
  /\ subcategory' \in IF Stages[at] = "subcategory" THEN Classified(Family, answer)
                                                    ELSE {subcategory}
  /\ entities' \in IF Stages[at] = "domain_entities" /\ answer = "sidecar"
                   THEN BOOLEAN ELSE {entities}
  /\ unanswered' = (unanswered \/ answer = "none")
  /\ backend' = "none"
  /\ at' = NextStage
  /\ UNCHANGED <<setVars, ctxDone, ml, anyFailed, built, lateTexts, jobs>>

(* runStage recovers from a panic: the stage has no output. *)
StagePanics ==
  /\ at \in 1 .. Len(Stages)
  /\ backend # "none"
  /\ anyFailed' = TRUE
  /\ backend' = "none"
  /\ at' = NextStage
  /\ UNCHANGED <<setVars, ctxDone, ml, function, subcategory, entities, built,
                 unanswered, lateTexts, jobs>>

(* publish.Build, with the setting of this moment. *)
IncludeOfStartup == base
IncludeEntityText == eff

BuildMessage ==
  /\ at = Build
  /\ built' = [text |-> entities /\ IncludeEntityText,
               function |-> function,
               subcategory |-> subcategory,
               status |-> IF anyFailed THEN "partial" ELSE "enriched"]
  /\ at' = Send
  /\ UNCHANGED <<setVars, ctxDone, ml, backend, function, subcategory, entities,
                 anyFailed, unanswered, lateTexts, jobs>>

(* Publisher.Send: one attempt, whether or not Atlas takes it. *)
SendMessage ==
  /\ at = Send
  /\ lateTexts' = IF built.text /\ ~eff THEN lateTexts + 1 ELSE lateTexts
  /\ at' = Idle
  /\ built' = Nothing
  /\ UNCHANGED <<setVars, ctxDone, ml, backend, function, subcategory, entities,
                 anyFailed, unanswered, jobs>>

StageStep ==
  \/ \E b \in {"sidecar", "deterministic"} : Pick(b)
  \/ SkipStage
  \/ \E answer \in {"sidecar", "none", "fallback"} : StageEnds(answer)

WorkerStep == StageStep \/ StagePanics \/ BuildMessage \/ SendMessage
PollerStep == FetchAnswered \/ FetchFails \/ Apply \/ PollAgain \/ PollEnds

Next ==
  \/ \E d \in Documents : OrgChanges(d)
  \/ PollerStep
  \/ Cancel
  \/ Resolve
  \/ WorkerStep

Spec == Init /\ [][Next]_vars

(* Both goroutines run, every call has a time limit, the ticker ticks; of  *)
(* the fetches that are made again and again some are answered.            *)
FairSpec ==
  /\ Spec
  /\ WF_vars(WorkerStep)
  /\ WF_vars(PollerStep)
  /\ SF_vars(FetchAnswered)
-----------------------------------------------------------------------------
SubcatIds == UNION {Range(Subcats[f]) : f \in Range(FunctionIds)}
Labels == Range(FunctionIds) \cup SubcatIds \cup {NoLabel}

TypeOK ==
  /\ base \in BOOLEAN /\ eff \in BOOLEAN
  /\ org \in Documents /\ doc \in Documents
  /\ poll \in {"due", "answered", "waiting", "ended"}
  /\ ctxDone \in BOOLEAN /\ ml \in BOOLEAN
  /\ at \in 0 .. Send
  /\ backend \in {"none", "sidecar", "deterministic"}
  /\ backend # "none" => at \in 1 .. Len(Stages)
  /\ function \in Labels /\ subcategory \in Labels
  /\ entities \in BOOLEAN /\ anyFailed \in BOOLEAN /\ unanswered \in BOOLEAN
  /\ built \in [text : BOOLEAN, function : Labels, subcategory : Labels,
                status : {NoLabel, "enriched", "partial"}]
  /\ lateTexts \in 0 .. MaxJobs
  /\ jobs \in 0 .. MaxJobs /\ changes \in 0 .. MaxChanges

(* When the org turns entity text off, the message already built is the    *)
(* last one that carries it: the setting is read for every job.            *)
OneTextAfterOff == lateTexts <= 1

(* The published subcategory belongs to the published function, although   *)
(* the two stages may be answered by different models, or not at all.      *)
FamilyMatch ==
  built.subcategory # NoLabel =>
    /\ built.function \in Range(FunctionIds)
    /\ built.subcategory \in Range(Subcats[built.function])

(* What the org decides comes into force on a machine that runs on and     *)
(* whose fetches are answered now and then; a key the org unsets falls     *)
(* back to the local value, whatever was in force before                   *)
(* (docs/enrichment-settings.md).                                          *)
OrgGoverns ==
  <>[](\/ eff = (IF org = "unset" THEN base ELSE org = "on")
       \/ ctxDone)

(* sidecar/README.md:35-36: when the runner rejects, "the endpoint returns *)
(* 503 (the daemon treats that facet as abstained -> the enrichment        *)
(* publishes as `partial`)".                                               *)
UnansweredIsPartial == at = Send /\ unanswered => built.status = "partial"
=============================================================================
