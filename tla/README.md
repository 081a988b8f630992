# keld-cli in TLA+

This directory is a verification development of keld-cli: the `keld` command
line (`src/internal/cli`, `internal/config`, `internal/tools`), the telemetry
hook `keld __hook` (`internal/hook`), the enrichment daemon `keld-agent`
(`internal/agent`) and its Python inference sidecar (`sidecar/app`). The modules
are translated from the source; TLC checks small instances of them and the TLA+
proof system proves theorems for every value of the constants. `PROJECT.json`
maps every definition to the lines it models and lists runs, findings, hazards
and theorems.

Contents: [the system](#1-the-system), [the modules](#2-the-modules),
[the runs](#3-the-runs), [the bounds](#4-bounds),
[fairness](#5-fairness), [the proofs](#6-the-proofs),
[what the code does otherwise than documented](#7-findings),
[what is not modelled](#8-what-is-not-modelled), [the plan](#9-the-plan).

## 1. The system

A coding tool (Claude Code, Codex, Gemini CLI) runs `keld __hook` on every event
of a session. The hook reports the context of the session (repository and
attributes) to Atlas and hands a pointer to the prompt to the daemon over
loopback HTTP. The daemon queues the pointer, reads the prompt out of the
tool's transcript, classifies it stage by stage with the sidecar (or with a
deterministic model) and publishes labels, never text, to Atlas. `keld signal
setup` and `uninstall` configure the tools and hook.json. An admin governs the
daemon by a settings document that it polls.

| Component | State it keeps | Operations | What makes it correct |
|---|---|---|---|
| Job queue `agent/queue/queue.go` | channel, in-flight keys, dropped count, closed | Offer, Next, Close, Dropped | bounded; no key pending twice; FIFO, nothing lost; Close drains |
| Ingress `agent/ingress/ingress.go` | none; offers to the queue | POST /enrich | never blocks; every accepted job is settled |
| Worker and daemon `agent/daemon/daemon.go` | job in hand, gate, listener | Worker, process, Run, serve, mlBackend | no job before the backend is decided; none lost while running; a signal ends it |
| Supervisor `agent/daemon/supervisor.go` | child, restarts, ready, fellBack | Start, killChild | one child at a time; no orphan; the gate opens on every exit path |
| Provisioning `agent/provision`, `enrich/sidecar/hf.go` | model directory, staging directories | EnsureModel, Fetch | the sentinel vouches for no file being missing, whatever ended the lives before; failure opens the gate |
| Transcript reader `agent/resolve` | a byte cursor per transcript | Read | no line twice, none entered in its middle, none ahead of the cursor missed |
| Enrichment `agent/enrich` | results of the stages of a job | Run, the extractors, router.pick | facets fit each other whatever model answered; one failing stage does not spoil the others |
| Settings `agent/settings` | base, effective | Apply, Fetch, pollSettings | effective = base overlaid with the last document; comes into force without restart |
| Publisher `agent/publish` | none | Build, Send | entity text only while allowed |
| Hook `internal/hook` | signature file per session | Run, ChangedSinceLast, forwardToAgent | what it has on file is what Atlas got last; reports a change once; never blocks the tool |
| Setup, uninstall `internal/cli`, `internal/config`, `internal/tools` | tool configurations, hook.json, manifest, backups | runSetup, runUninstall, the adapters' Apply and Remove | the user's content survives; files agree with each other; uninstall undoes setup |
| Discovery file `agent/agentcfg` | agent.json | Write, Read | the hook finds the daemon that runs, and hands over to no other |
| Login `internal/auth`, `internal/api` | auth.json | Login, RequireAuth, Save, Load, Clear, Onboarding | ends; a timeout is fair; the file stays readable |
| Inference runner `sidecar/app/runner.py` | queue, consumer task, executor thread | submit, _run, stop | one inference at a time, in order; bounded; callers do not hang |
| Governor, endpoints `sidecar/app/governor.py`, `main.py` | load average, time of last start | await_slot, /entities, /classify, /extract, /health | model calls keep their distance however the load moves; overload answers 503 |
| Text merging `config/merge_toml.go`, `merge_json.go` | none | the block of config.toml; env and hooks of settings.json | settles; keeps the user's lines and entries; removal undoes |
| Status, doctor `cli/status.go` | none | what counts as configured | a setup that ended leaves doctor nothing to report |
| Debug log, service files, paths, console, eval | - | - | read-only or logging |

How they interact, and what is hard about it:

* **Handlers and worker share the queue.** `Next` receives from the channel and
  releases the key in a second step under the lock; `Offer` and `Close` come in
  between.
* **Four goroutines decide the gate.** Provisioning, supervisor, the settings of
  start-up and the sidecar's health make the worker wait or go on, and the child
  may crash, hang, become healthy late or never, while a signal may arrive at
  any point. On a signal the process ends as soon as `srv.Serve` returns.
* **A transcript is read while it is written**, in halves of lines, and may be
  cut or replaced between two attempts of one `Read`.
* **Each stage of a job asks again whether the sidecar is healthy**, so that one
  message mixes answers of two models and of none; the settings it is built
  under change meanwhile.
* **The event loop of the sidecar** interleaves callers, consumer and stop at
  every await; a caller may go away between submission and answer.
* **Hooks of one session overlap** and share one signature file, which is
  written before the report it stands for is sent. They look for the daemon in a
  file that outlives every daemon, while ports are given out again.
* **The daemon may end anywhere in a download** or in the exchange of the old
  model for the new one; the next life judges by one file what is installed.
* **Logins run in several terminals** against a code that expires, and write one
  file in place.
* **Setup and uninstall write several files one after another**, wait for answers
  in between, and may be killed anywhere; users and tools edit the same files.

The hazards these make, each at its line and with the properties that would
catch it, are listed in `PROJECT.json` under `hazards`.

## 2. The modules

| Module | Models | Notes |
|---|---|---|
| `DedupFifo` | the promise of the queue | abstract: a FIFO of pending jobs without two equal keys |
| `JobQueue` | `queue.go` | one action per outcome of `Offer`; `Next` is `NextReceive` then `NextRelease`, or `NextEnd` |
| `JobQueueProofs` | | theorems on `JobQueue`, and its refinement of `DedupFifo` |
| `Supervisor` | `supervisor.go` | `pc` is the place in `Start`; `procs` has the process of every spawn attempt |
| `Provision` | `provision.go`, `hf.go` | the model directory file by file, over the lives of the daemon |
| `Backend` | what `mlBackend` starts | extends `Supervisor` and `Provision`; every life of the process starts both anew over the same disk |
| `EnrichServer` | the promise of the daemon | abstract: a `DedupFifo` in front of one job in work at a time |
| `Daemon` | `daemon.go`, `ingress.go`, the queue and the supervisor | instantiates `JobQueue` and `Supervisor` over its own variables; every action conjoins `~exited`, except the sidecar's own exit |
| `TranscriptReader` | `resolve/claude.go` | the file is a sequence of cells, a line being a content cell and a newline cell |
| `Enrichment` | `enrich/*`, `settings/*`, `publish.go`, `process`, `pollSettings` | the worker's job and the poller side by side |
| `Governor` | `sidecar/app/governor.py` | whole loads and times; the average is a choice between the last one and the sample |
| `SerialCalls` | the promise of the runner | abstract: one line of calls, one in the model at a time, to each caller its own outcome |
| `InferenceRunner` | `sidecar/app/runner.py`, the sampler of `main.py` | extends `Governor`; what lies between two awaits is one step |
| `Discovery` | `agentcfg.go`, the daemon's start | agent.json and the daemons that write it |
| `HookReporter` | `internal/hook`, `cli/hook.go` | extends `Discovery`; a process per hook, one signature file |
| `Setup` | `cli/setup.go`, `cli/uninstall.go`, `cli/status.go`, `config/*`, `tools/*` | one command at a time, one step per file or question |
| `TomlBlock` | `merge_toml.go`, `tools/codex.go` | operators on texts as sequences of lines |
| `ClaudeSettings` | `merge_json.go`, `tools/claude.go` | operators on parsed documents |
| `SetupTexts` | | the files behind `Setup`: that the operators of the two modules do to a text or document what `Setup` says of its contents |
| `Login` | `auth/*`, `api/client.go`, `cli/login.go` | commands in several terminals over one auth.json |
| `BackendProofs` | | theorems on `Supervisor` alone, then on `Backend` (which extends it and `Provision`) |
| `DaemonProofs` | | theorems on `Daemon`, by instances of `JobQueueProofs` and `BackendProofs`, and its refinement of `EnrichServer` |
| `ProcessProofs` | | theorems on `TranscriptReader`, then on `Enrichment`: what the worker does inside `process` |
| `InferenceRunnerProofs`, `HookReporterProofs`, `SetupProofs`, `LoginProofs` | | theorems on the module of that name: the governor with the runner and its refinement of `SerialCalls`, the discovery file with the hook, the texts of `SetupTexts` with setup |
| `MC...` | | instances for TLC |

**JobQueue.** `ch`, `inflight`, `dropped`, `closed` are the fields of `Queue`;
`hand` is the job between line 69 and line 75 of `Next`; `ended` says that `Next`
returned `false`. `accepted` and `taken` are history. `Capacity` is the
`if capacity < 1` of `New`. A job is known by its key (`Job.Key`) only; jobs that
differ in other fields share keys in the instance.

**Supervisor.** A select with several ready cases is a choice between actions.
`TickHealthy` and `TickTimeout` are the two ticks that change something;
`DeadlinePasses` makes the second possible. `Cancel`, `ChildExits` and
`ContextKills` (the watcher of `exec.CommandContext`) are the environment.
`fellBack` is set before `Start` returns on the error paths, as in the code.

**Provision.** `step` is the place in `EnsureModel`. A file is absent, or holds
the bytes of a revision, or other bytes (`Wrong`): Fetch is not trusted
(`FetchFile` stages what was served), only the sentinel is verified, and
`RemoveAll` goes file by file and may stop. `Complete` is what a replacement is
held to: the sentinel of the build, and in every other file its bytes or `Wrong`
ones, which nothing in the code tells apart. `End` is the end of the process at
any step: deferred calls do not run. `Begin` starts the next life, perhaps of a
newer build that wants another revision.

**Backend.** `Started` is the success of `EnsureModel`, on which `Start` runs.
`BackendGate` is the closure the worker waits at. A sidecar that outlives its
daemon leaves the model with the next life: its port is asked by nobody.

**Daemon.** `Gate` is the same closure with provisioning as one step, `worker` is
the place in `Worker`: at the `gate` it asks `ready()`, and when the answer was no
it is in the select (`wait`), which ends with another look (`GateRetry`) or, once
the queue is closed, with the job thrown away (`GateQuit`), also if the gate has
opened meanwhile. A finished job is `settled`, one given up is `discarded`.
`RunReturns` is enabled as soon as the server is closing, because `srv.Serve`
returns when `Shutdown` begins; `ShutdownCloses` is the rest of the goroutine,
which closes the queue if it still gets to run. `Server` is the refinement mapping
to `EnrichServer`: what waits is `Q!Pending` (a job waits until `Next` has
forgotten its key), what is in work is `job`, the backend is decided when `Gate`
is open, and a job is `held` while the worker is in the select.

**TranscriptReader.** `off`, `left`, `lastAdv` are the locals of `Read`, `cursor`
the map entry of the transcript. `Matching` and `Consumed` are what `scanFrom`
finds from an offset in the file of that moment. An offset into the middle of a
line yields a fragment that matches nothing, as its JSON does not parse. Its
specification is named `ReadSpec` so that `ProcessProofs` can extend it beside
`Enrichment`.

**Enrichment.** `at` counts through the seven extractors, then building and
sending. For each stage a model is picked (`Pick`), and the stage ends with an
answer of the sidecar, none, or one of the deterministic model. `function_guess`
and `subcategory` keep their labels, because the second pass is conditioned on
the first; of the others only their having an answer matters here.

**Governor and InferenceRunner.** `consumer` is the await the consumer task is at,
`thread` the single thread of the executor. `Stop` sets the flag and cancels;
`ConsumerCancelled` is the `CancelledError` in the consumer; `StopDrains` is the
rest of `stop`. `Get` ends in `await_slot`, which fixes its pause (`AskSlot`);
`SlotGranted` is its return, which stamps the start (`TakeSlot`). Only the time
since the last start matters, up to the longest interval. `Serial` is the
refinement mapping to `SerialCalls`: the entry that waits for its slot is still at
the head of the line (`Line`), and the call in the model is the one the consumer
holds in `exec`.

**Discovery.** A daemon is the number of its life and stands for its secret; ports
are given out again. agent.json is absent, torn, or names a daemon; writing it is
`TruncateAgent` then `FillAgent`. Daemons may overlap.

**HookReporter.** `pc` is the place of each hook in `Run`. `sig` is the signature
file; writing it is `TruncateSig` then `FillSig`, as `os.WriteFile` does it.
`ReadAgent`, `NothingToHand` and `HandOver` are `forwardToAgent`: what it found in
agent.json, that an event without a prompt_id hands over nothing, and who at that
port takes the pointer. Whatever comes of it, the hook goes on. `DeriveLate` is a git
that was killed after its two seconds, and another context for it. `astray` is
history: since the file was filled last, a POST failed or was cut short by a kill, or
one of another context was on its way. An uninstall unlinks the file under a hook
that writes it.

**Setup.** A configuration is a record of whose parts it holds (`own`,
`telemetry` settings of the user, `keld`'s part with its parameters, `broken`).
`Applied`, `Removed`, `Conflict` and `Replaceable` are what the three adapters
do to such a file; `Configured` is what their `Status` answers, and
`DoctorProblems` what doctor makes of it. `plans` holds texts planned from what
was read; `WriteTool` writes them later, whatever the file holds by then.
`Break`, `TearHook` and `TearManifest` end a command between two writes or inside
one.

**TomlBlock, ClaudeSettings, SetupTexts.** A line of config.toml is a kind: the
user's keys, values that go on in lines that begin with a bracket, `[otel]`,
tables of hooks that clash with Keld's, and other tables, lines that do not parse,
the markers, and what `CodexBlockBody` writes. A document of settings.json is its
env keys, its hook entries per event, and the rest. `TomlContents` and
`DocumentContents` map a text and a document to the record `Setup` knows, and
`CodexFileRefines` and `ClaudeFileRefines` say that the diagram commutes: for
every text with the contents a configuration of `Setup` has, the algorithm gives a
text with the contents `Setup` says, or a conflict exactly where `Setup` has one;
the user's lines and entries stay in their order, a second setup settles, and
removal undoes. What is the user's is told by the lines and entries themselves
(`UsersText`, `UserLines`, `UsersOnly`), not by the algorithms under test: a walk
that ate a line behind the block would be seen (`BlockWalkOn` is that mutant).

**Login.** `pc` is the place in `RequireAuth`, `Login` and `Save`; `waited` is
what the loop counts, `age` the real seconds since Atlas made the code. `Approve`
is the user in the browser, who may come between Atlas' answer that the code is
not approved (`AnswersPending`) and its arrival. The model takes from `DevicePoll`
that Atlas gives credentials for an approved code, or an error.

The environment (clients, children, the writer of a transcript, the org's admin,
the user, the clock, the tool that kills a hook) is marked `external` in
`PROJECT.json` where it has no line in `src`.

## 3. The runs

Passing runs:

* `queue`: `InflightExact` (the dedup map is exactly what waits, across the two
  steps of `Next`), `FifoOnce`, `DropMeansDistinctBacklog` (a job is shed only
  when a full capacity of other keys waits), `CloseEndsConsumer` (liveness),
  `AbstractSpec` (refinement of `DedupFifo`, a job being pending until `Next`
  releases it).
* `supervisor` (module `Backend`): `SentinelVouches` (what `EnsureModel` relies on
  when it looks at one file only: no other is missing), `ReplacementReady` (the
  installed model changes only while a replacement with every file and a verified
  sentinel is staged), `SidecarHasModel` (a sidecar runs beside a sentinel of its
  revision and without a file missing or of another revision; bytes of no revision
  in a file that nothing verifies are not excluded), `OneChild`, `NoOrphan`,
  `StopOpensGate`, and `GateOpens` (liveness: a life that lasts opens the gate).
* `daemon`: `Conservation` (every accepted job is in the queue, in hand, settled
  or the single one given up after Close by a worker that had found the gate shut),
  `AcceptedIsSettled` (no failure of download or sidecar holds the queue),
  `SignalEndsProcess`, `ServerSpec` (refinement of `EnrichServer`: jobs are worked
  off one by one in their order, none is finished before the backend is decided,
  only one that was held back because it was not is given up, and after that none is
  begun).
* `transcript`: `CursorAtLineEnd`, `LinesInOrder`, `FirstMissIsPassed`.
* `runner`: `Backpressure`, `StopLeavesOneAtMost`, `Paced` (two
  starts are apart by the interval of the calmest moment between them),
  `CallsEnd` (liveness), `SerialSpec` (refinement of `SerialCalls`: each caller is
  told the outcome of its own call, once, or nothing when it has gone, and stop
  leaves one at most without). The order of the calls is in it; `InOrderOnce` is
  only proved, as `ProcessBehindGate` of the daemon is, which `ServerSpec` holds.
* `enrichment`: `OneTextAfterOff` (one message at most carries entity text after
  the setting went off, the one already built), `FamilyMatch`, `OrgGoverns`
  (liveness: the last document, overlaid on the settings of start-up and on
  nothing else, comes into force).
* `setup`: `RecordedToolHasHook`, `SetupEndsConsistent` (the tools it records have
  the parameters of hook.json and doctor finds nothing), `UninstallCleansRecorded`,
  `OwnContentKept`, `CodexFileRefines`, `ClaudeFileRefines`.
* `hook`: `SigIsReported` (what is on file is what Atlas got last or is about to get,
  unless a report went astray since), `ReportedOnce`, `SteadyIsHeard` (where one
  daemon runs undisturbed, the file leads to it, whatever earlier ones left there).
* `login`: `SavedWhole`, `TimeoutIsFair`, `LoginEnds` (liveness).

Runs that find a statement of the repository violated: `daemon_sidecar`,
`enrichment_partial`, `setup_uninstall`; see [section 7](#7-findings).

Every property of a passing run has a mutant: a changed definition of the model,
as a plausible bug in that code would change it, under which TLC finds the
property violated. The mutated forms stand before the definitions they replace
and are used by nothing else.

Every module with state has a type invariant (but for the abstract `DedupFifo`,
`EnrichServer` and `SerialCalls`). All of them are proved
([section 6](#6-the-proofs)); they say nothing of the code that would be worth a
place among the properties.

Deadlock is checked for the queue. The other systems may really stop (a process
that has ended, a runner that is down, bounds that are used up), and their
configurations say so.

## 4. Bounds

| Run | Instance | Why it is enough |
|---|---|---|
| `queue` | 2 requested slots, 5 acceptances, 2 drops, jobs that share keys | the channel fills, drains and fills again; a key comes back while it waits, is in hand and after its release |
| `supervisor` | the code's 3 restarts, 3 lives, 2 builds, the sentinel and another file | a life that breaks off in each step of an upgrade, one that repeats it, and one that judges the outcome; the restart bound is the program's own |
| `daemon` | 2 requests, 1 slot, 2 acceptances, 1 restart | a job in hand and one in the queue at each decision; a restart and a spent budget |
| `transcript` | 2 prompts, 2 attempts, 7 cells, 4 Reads, 1 rewrite | three complete lines and a half; every order of write, scan, cut and give-up; the cursor before and after a cut; Reads after a miss |
| `runner` | 4 calls, queue of 2, loads 0 to 2 between the governor's limits, intervals up to 2 | one taken, a full queue, one refused; no pause, half of it and all of it |
| `enrichment` | 2 functions with subcategories, 2 jobs, 2 changes | on, off and unset in any order before, between and during two jobs |
| `setup` | Claude Code and Codex, 2 sets of parameters, 3 commands, 1 edit, 1 break; texts of up to 4 lines of the user, 2 entries per event | setup, another setup, uninstall, with an edit and a break at any step; every initial content of the files; a table, a value over two lines and lines behind the block at once |
| `setup_uninstall` | Codex and Gemini CLI, shorter texts | the shortest history with two setups and an uninstall |
| `hook` | 2 hooks, 2 contexts, 4 starts, 1 kill, 3 changes, 2 daemons, 2 ports | a context that changes and changes back while two hooks overlap, and one more of each after them; a daemon that gets the port of the one before, beside it or after it |
| `login` | 2 terminals, 3 commands, 1 kill, a code that lives 2 seconds, intervals 0 to 2 | the lifetime is a multiple of the interval and is not; two saves at once, and a logout between |

The bounds are guards named as constants (`MaxAccepted`, `MaxReads`, ...); they
limit how often the environment acts, and never cut the program's own steps
short. In `Setup` three tools would add no interaction: the commands touch one
tool at a time, and the pair of the passing run has both adapters with conflicts.
`SYMMETRY` is used in `hook` only, where no property is a liveness property.

## 5. Fairness

Weak fairness is assumed of what runs by itself, and nothing of what need not
happen.

* Goroutines, tasks and threads that can take a step take it: the Go scheduler
  and the event loop see to that (`NextReceive \/ NextRelease \/ NextEnd`,
  `Proceed`, `ProvisionStep`, `WorkerStep`, `ConsumerStep`, `LoginStep`, ...).
* Waits end where the code bounds them: 10 s for Atlas, 5 s for the sidecar, 30 s
  for a request of the CLI (`api.NewClient`), 30 min per request of the model
  download (`hf.go`). Therefore the answer *or* the failure happens; which of
  them is left open. Nobody has to approve a login.
* Timers fire (`DeadlinePasses`, `BackoffOver`, the ticker), time passes (`Tick`
  of the runner, `SleepPasses`), and a process that got SIGKILL exits. The
  governor's pause is not assumed to end: it ends because time passes.
* One strong fairness assumption: of fetches that are made again and again some
  are answered (`SF_vars(FetchAnswered)`), only for `OrgGoverns`, which says
  nothing of a machine that is always offline.
* No fairness for clients, signals, ends of the daemon, edits, kills, health of the
  sidecar, exits of healthy children or the writer of a transcript.

## 6. The proofs

`JobQueueProofs` (for every capacity, set of jobs, key function, under
`JobsAssumption` and `BoundsAssumption`):

* Inductive invariant `IInv == TypeOK /\ InflightExact /\ DistinctKeys /\
  FifoOnce /\ EndIsFinal`. None of the parts is inductive alone: that a new key
  keeps the pending keys distinct needs `InflightExact` (the dedup map is what
  `Offer` looks at, not the channel), and that releasing a key leaves
  `InflightExact` true needs `DistinctKeys` (or another job with the key could
  still wait). `FifoOnce` needs the type of `taken` to cut `accepted`.
* `InitInv`, one lemma per kind of step (`AcceptInv`, `ReceiveInv`, `ReleaseInv`,
  `QuietInv`), `NextInv`, then `QueueInvariant` by temporal reasoning; the
  named invariants are its consequences.
* `QueueDropMeansDistinctBacklog`, an action property: from `IInv`, a full
  channel has as many keys as jobs (`FullIsDistinct`, by a counting argument over
  `FS_CountingElements`).
* `QueueImplementsDedupFifo`: under `pending <- Pending` and `shut <- closed`,
  `OfferAccept` is `Accept`, `NextRelease` is `Deliver`, `Close` is `Shut`, and
  all other steps stutter.

`BackendProofs`, the supervisor (for every restart budget, under
`RestartsAssumption`):

* `IInv == TypeOK /\ BudgetInv /\ ChildInv /\ GateInv`. `BudgetInv` ties
  `attempts` to `restarts` at each place of `Start`, so that the next attempt
  always has a number and a fresh process; `ChildInv` says that only the current
  child can be alive, and only where `Start` holds one; `GateInv` says how
  `Start` may have returned. `OneChild` and `NoOrphan` follow from `ChildInv`,
  `StopOpensGate` from `GateInv`.

`BackendProofs`, the backend (for every set of files, number of builds and of
lives, under `ProvisionAssumption` besides):

* `BInv == IInv /\ PInv /\ ChildHasModel`, where `PInv` is about the disk:
  `NothingNewer` (nothing on it is of a build yet to come, so that an upgrade does
  not meet its own sentinel), `StagingInv` (what is staged at each place of
  `EnsureModel`: everything by `verify`, the wanted sentinel by `remove`) and
  `InstalledInv` (`SentinelVouches`, and that the installed sentinel is not the
  wanted one from `mkdir` to `rename`). `SentinelVouches` alone is not inductive:
  a life may end between two files of the old model's removal, and only
  `InstalledInv` says that the sentinel cannot vouch for what is left.
* A new life establishes `IInv` afresh over the old disk; a step of the
  supervisor happens only where `EnsureModel` has succeeded, so that
  `SidecarHasModel` follows from `ChildHasModel` and `PInv`. `ReplacementReady` is
  an action property, from what `StagingInv` says before the step.

`DaemonProofs`, the daemon (under `DaemonAssumption`):

* `DaemonRunsQueue` and `DaemonRunsSupervisor`: refinement. Each action of the
  daemon is an action of `JobQueue` or leaves the queue alone (`QueueSteps`), and
  likewise for the supervisor (`SupervisorSteps`). `Spec => QP!Spec` then brings
  `JobQueueProofs!QueueInvariant` over, so that nothing of the queue is proved
  twice (`DaemonKeepsQueue`), and the same with the supervisor
  (`DaemonKeepsSupervisor`). The constants of the instances satisfy the assumptions
  of those modules because of `DaemonAssumption`.
* `IInv == WorkInv /\ Conservation /\ ProcessBehindGate`, inductive given
  `QP!IInv`. `WorkInv` says where the worker has a job; without it `Conservation`
  would not know that a job passed on is no longer in the hand. For
  `ProcessBehindGate`: an open gate stays open (`GateStays`), which for the
  supervisor is `DecisionStays`. That the worker which gives up had seen the gate
  shut is the shape of `GateShut` and `GateQuit`; the gate may be open by then.
* `DaemonTypeOK` puts the parts' types together; that no more jobs are settled
  than accepted is `Conservation`.
* `DaemonImplementsServer`: `WorkerRelease` is `TakeUp`, `Process` is `Finish` and
  needs `ProcessBehindGate`, `GateShut` is `HoldBack`, `GateRetry` `LookAgain`,
  `GateQuit` is `GiveUp`, `WorkerEnd` is `Stop`; every other step opens the gate,
  closes the queue or stutters, because an open gate stays open. The backlog is
  not looked into again: `AcceptRefines`, `ReceiveStutters` and `ReleaseRefines`
  of `JobQueueProofs` are cited through the instance.

`ProcessProofs`, the transcript reader (for every set of prompts, number of
attempts and length, under `ReaderAssumption`):

* `IInv == TypeOK /\ CursorInv /\ OffsetInv /\ OrderInv /\ DeliveredInv`. The
  cursor, the offset of the `Read` and the farthest consumed tail rest on ends of
  lines; a `Read` starts at the cursor; what was returned ascends up to the cursor;
  before the first give-up only a returned line moved it. `Min` and `Max` (of the
  community modules) get their defining facts from the well-foundedness of the
  natural numbers.

`ProcessProofs`, the enrichment (for every taxonomy and any number of jobs and of
changes of the org, under `LabelsAssumption` and `BoundsAssumption`):

* `JobInv == TypeOK /\ TextInv /\ FamilyInv`. `TextInv` strengthens
  `OneTextAfterOff`: as long as the built message has text, or the setting is on,
  none has been sent since it went off. `FamilyInv` carries the label of the
  function from its stage to the message: a subcategory is there only behind the
  last stage and belongs to the function committed before it, and no model is
  asked where that function has no subcategories.

`InferenceRunnerProofs` (for every number of calls, bound of the queue and setting of
the governor, under `RunnerAssumption` and `GovernorAssumption`):

* `IInv == TypeOK /\ ConsumerInv /\ WaitingInv /\ OrderInv /\ PaceInv`.
  `WaitingInv` says that of the callers that wait one at most is outside the queue,
  the one whose entry the consumer holds or held when it was cancelled;
  `Backpressure` and `StopLeavesOneAtMost` count from there, with
  `FiniteSetTheorems`. `PaceInv` says that what is left of the pause is enough even
  for the interval of the calmest moment since the last start; `Paced` needs that
  the interval grows with the load (`IntervalMonotone`, over integer division).
* `RunnerImplementsSerial` needs `HeldInv` besides: every entry in the queue or in
  the hands of the consumer belongs to a caller that waits or has gone, and no
  caller has two. Without it an outcome might go to a caller that was told one
  before. `Get` stutters, `SlotGranted` is `Run`, `Resolve` is `Tell`, the
  cancelled consumer is `LeaveOff`.

`HookReporterProofs` (for any number of hooks, contexts, ports and daemons, under
`HookAssumption`):

* `IInv == TypeOK /\ SentInv /\ CalmInv /\ HandInv /\ SoleInv /\ SteadyInv`.
  `SentInv` adds to `SigIsReported` that, as long as nothing went astray,
  whatever is about to be sent is what is on file. `CalmInv` says that while some hook is
  calm no other is about to replace the context on file; `HandInv` where a hook has
  handed something over; `SoleInv` that what a
  daemon without others wrote is still in agent.json, `SteadyInv` that a hook
  undisturbed reads just that.

`SetupProofs` (for any tools, parameters, commands, edits and breaks, under
`SetupAssumption`):

* `IInv == TypeOK /\ RunInv /\ PlanInv /\ SetupInv /\ UninstallInv /\
  RecordedToolHasHook`. `PlanInv` says what a plan made earlier keeps of a file
  nobody edited since; `SetupInv` that hook.json has the parameters of the run
  before the first tool has; `UninstallInv` that what is struck off in memory is
  clean although the manifest on disk still has it. `SetupEndsConsistent`,
  `UninstallCleansRecorded` and `OwnContentKept` are action properties from these.

`SetupProofs`, the texts (for texts of any length and documents with any number of
entries, under `TextsAssumption` and `SetupAssumption`). The runs enumerate short
ones; `SetupTextsTreated` and `SetupKeysTreated` are about all of them, and
`CodexFileRefines` and `ClaudeFileRefines` follow, for whatever bounds:

* The algorithms are `FoldLeft`s over the lines, and `FoldLeft` picks a function
  with CHOOSE whose step is an operator. The proofs give each walk a step that is
  a function (`BlockStep`, `OtelStep`, `StripStep`, `AddStep`, ...), show that
  such a function exists for every sequence and that its values on the prefixes
  are fixed (`FoldsExists`, `FoldRuns`, `RunIsUnique`), and that what CHOOSE picks
  has these values too (`LikeIs`). From there `FoldConcat` and `FoldAppend` say
  what a fold does to `s \o t` and to one more line.
* Induction over texts without a theorem that takes an operator: the set of the
  lengths at which something fails has a least number (`WFMin` of the
  well-foundedness library), so that it is empty (`Induct`); `SeqInduct` is the same
  for a *set* of sequences that has the empty one and with each its extensions.
* settings.json: `Users` is the user's part of a list of entries, which adding an
  entry of Keld's leaves alone (`AddProperty`), removing Keld's restores
  (`RemoveDocument`) and a second setup finds settled.
* config.toml: what the algorithms see of a text is what is outside of its block
  (`Seen`). A text and what `StripKeldBlock` or `UpsertKeldBlock` make of it are the
  `Same` to parser and user, because blank lines at the end change nothing;
  `Norm` is idempotent, therefore the block does not grow. The user's text is a fold
  of its own that picks lines by their kind; `UsersTextAre` says what it is of a text
  with and without a block, and another lemma what `OutsideBlock` leaves of these.

`LoginProofs` (for any number of terminals and commands, and whatever lifetimes
and intervals Atlas answers, under `LoginAssumption`):

* `IInv == TypeOK /\ StoreInv /\ TimeInv`. `StoreInv` says that an unspoiled file
  is open in one terminal at most and empty while it is; `TimeInv` that the time
  `Login` counts has passed, and that an approval the last poll did not see came
  after that poll.

Out of the prover's reach and left to TLC: liveness under fairness and
`ENABLED` (`CloseEndsConsumer`, `GateOpens`, `AcceptedIsSettled`,
`SignalEndsProcess`, `CallsEnd`, `OrgGoverns`, `LoginEnds`). All other properties of
the passing runs, every safety invariant, action property and refinement, are
proved. There are no RECURSIVE operators.

The assumptions are those of the modules of the model and state what the constants
are (a key for every job, distinct special values, natural bounds, time enough to
outlast a code), nothing of the behaviour; TLC evaluates each on the run of its
module.

## 7. Findings

Each is the counterexample of a run; `PROJECT.json` quotes the lines.

1. `daemon_sidecar`: a daemon that is told to stop may exit before anyone has
   killed the sidecar, which then goes on running (`supervisor.go:22`,
   `daemon.go:209-210` say otherwise).
2. `enrichment_partial`: a stage the sidecar did not answer leaves the status
   `enriched`; the sidecar's README and the design say `partial`.
3. `setup_uninstall`: the manifest forgets tools of earlier setups, so that
   uninstall leaves their configuration and takes hook.json away under them;
   the README says that it removes everything.


Stated carefully because of what the code does:

* `StopLeavesOneAtMost`: the entry the consumer holds when `stop` cancels it is
  neither run nor failed.
* `LinesInOrder` and `CursorAtLineEnd` are for a transcript that only grew;
  `FirstMissIsPassed`: a later `Read` may miss lines a give-up passed over.
* `SigIsReported`: the signature is written before the POST (`hook.go:369`, `146`).
  When the POST fails, or its hook is killed between the two, later hooks skip the
  context although Atlas never got it, until it changes; and when two contexts are on
  their way at once Atlas may get the older one last. The property exempts these
  (`astray`), although `hook.go:337` speaks of the last reported
  value. `ReportedOnce` is about hooks that begin while no other is about to replace
  the file; overlapping ones may report twice, or in the other order.
* `Conservation`, `ServerSpec`: the worker may give up a job although the gate is
  open, if it opened and the queue closed within its 20 ms wait (`daemon.go:49-55`).
* `SidecarHasModel`: only the sentinel's bytes are ever verified.
* `OwnContentKept`: of a configuration that was not edited after the command had
  read it, and that parses, if it is JSON. The user's telemetry settings, which a
  confirmed setup replaces, are counted apart. `RecordedToolHasHook`: a torn
  hook.json exists, but does not parse.
* `SetupEndsConsistent` is about the tools the setup records. One that an earlier
  setup configured and this one does not record keeps its old token, while
  hook.json has the new one (`setup.go:119`, the drift of the third finding). It
  says that doctor finds nothing after a setup, not that it would find everything:
  it only asks whether hook.json exists (`status.go:120`), and takes Codex for
  configured by the start marker alone.
* `SentinelVouches`: for builds that are never older than the one before, and one
  daemon at a time. After a removal broken off, a downgrade could meet its own
  sentinel without the other files. A killed daemon leaves its staging directory.
* `SteadyIsHeard`: of overlapping daemons the last to write stays in agent.json,
  also when it is the first to end; the other is not heard from then on.
* `SavedWhole`: nothing but `keld logout` gets past an auth.json that does not
  parse (`RequireAuth` returns the error).
* `TimeoutIsFair`: an interval of 0 is counted as a second and not slept
  (`device.go:66-71`).
* `CodexFileRefines`: the design asks that a second setup change nothing
  (`2026-06-25-keld-cli-design.md:175`); a text without a last newline, or with
  several, is changed once more, in its blank lines, and not again. A block
  without its end marker loses everything behind it (`merge_toml.go:42`), and for
  a TOML parser the user's lines behind the block belong to its last table.
* `ClaudeFileRefines`: an entry in which a command of the user stands beside
  Keld's is removed as a whole (`merge_json.go:237`), and a value of the user that
  Keld's variables overwrote is not restored. Documents whose `env` or `hooks` is of
  another type are left out: the code replaces them by a new map
  (`merge_json.go:91-97`, `168-178`).

Met while modelling, and not in a module: README.md:94 says that the URL chosen
with `--api-url` is stored, so that subsequent commands target it. It is stored,
but setup takes `paths.APIBase()` (`setup.go:210`), which does not look at it, and
`RequireAuth` returns stored credentials whatever server they are from. The daemon
reads hook.json once (`daemon.go:159`): a new token reaches it at its next start.

## 8. What is not modelled

* The text of things: the layout of JSON (`DumpJSON`, escapes, key order),
  transcripts' JSON, prompts, labels' wording, git remotes, masking, Luhn, keyword
  scores. The models use what these do to whose parts are where.
* Floating point: confidences; the governor's average is abstracted to whole
  numbers.
* The search for the sidecar binary, port allocation of the sidecar, start-up
  errors before the listener exists, service unit files, console, diff view,
  debug log, evaluation.
* Gemini's settings below the key `telemetry`, which is set and deleted as a whole.
* Several commands of setup or uninstall at the same time, and two daemons over
  one model directory: nothing in the code or its documents speaks of it.
* `KELD_SIDECAR_QUEUE_MAX` of 0 switches the bound of the runner's queue off
  (`Full` models it; no run has it).

## 9. The plan

Done, most important behaviour first: queue with its abstract specification and
proofs, supervisor with proofs, daemon (composition), transcript reader, runner
with governor, enrichment with settings, setup with the texts behind it, hook with
discovery, provisioning with the supervisor in `Backend`, login.

The safety properties of all passing runs are proved, those about whole texts
included; so are three refinements of abstract specifications (`DedupFifo`,
`EnrichServer`, `SerialCalls`) and those of the components by the daemon.

What remains:

1. **Gemini's settings and the layout of JSON** as texts: `DumpJSON`, escapes and the
   order of keys, which `ClaudeSettings` leaves out.
2. **Hazards without a property** (`PROJECT.json`): jobs lost at the end of the
   process, a transcript that was cut and has grown, the single attempt to publish,
   the backup taken once. What the code does there is in the models; that it should
   do something else, nothing in the repository says.
3. **Reporting** has no abstract specification: what overlapping hooks owe is
   `SigIsReported` and `ReportedOnce`, and one that said more (each context sent once)
   would not be implemented.
4. **Settings of other types** (`env` or `hooks` of settings.json that is no object)
   in `ClaudeSettings`.
