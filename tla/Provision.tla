------------------------------ MODULE Provision ------------------------------
(***************************************************************************)
(* Model provisioning (internal/agent/provision/provision.go and           *)
(* internal/agent/enrich/sidecar/hf.go): what EnsureModel does to the      *)
(* model directory and to the staging directories beside it, over the      *)
(* lives of the daemon.  A life may end between any two steps, also in the *)
(* middle of a download or of the removal of the old model; the next one   *)
(* finds what is on disk.                                                  *)
(*                                                                         *)
(* A file is absent, holds the bytes of some revision of the model, or     *)
(* other bytes.  Builds of the agent are numbered, each wants one revision *)
(* (manifest.go), and an upgrade comes between two lives.  Revisions are   *)
(* told apart by their sentinels: one that changes other files only is, to *)
(* EnsureModel, the same.                                                  *)
(***************************************************************************)
EXTENDS Integers

CONSTANTS Files,      (* the files of a revision's manifest                *)
          Sentinel,   (* model.safetensors, the one file that is verified  *)
          MaxBuild,   (* bound: builds of the agent                        *)
          MaxLives    (* bound: lives of the daemon                        *)

ASSUME ProvisionAssumption ==
  /\ Sentinel \in Files
  /\ MaxBuild \in Nat \ {0}
  /\ MaxLives \in Nat

Builds == 1 .. MaxBuild
Absent == 0
Wrong == -1
Contents == Builds \cup {Absent, Wrong}

VARIABLES
  lives,    (* how many lives began                                        *)
  want,     (* the revision the running build wants                        *)
  step,     (* down; check, mkdir, fetch, verify, remove, rename, cleanup; *)
            (* failed, installed: EnsureModel has returned                 *)
  dir,      (* the model directory, file by file                           *)
  staged,   (* the staging directory of this life                          *)
  dirs      (* staging directories on disk                                 *)

provisionVars == <<lives, want, step, dir, staged, dirs>>

Empty == [f \in Files |-> Absent]

(* A directory with the verified sentinel of a build's revision and, at    *)
(* the place of every other file, what was served for that revision: no    *)
(* file is missing and none is another revision's.                         *)
Complete(d, build) ==
  /\ d[Sentinel] = build
  /\ \A f \in Files : d[f] \in {build, Wrong}
-----------------------------------------------------------------------------
(* A fresh machine, or one that has the model of the first build.          *)
ProvisionInit ==
  /\ lives = 0
  /\ want = 1
  /\ step = "down"
  /\ dir \in {Empty, [f \in Files |-> 1]}
  /\ staged = Empty
  /\ dirs = 0

(* Run starts the goroutine that calls EnsureModel; the build may be newer *)
(* than the last one, never older.                                         *)
Begin ==
  /\ step = "down"
  /\ lives < MaxLives
  /\ lives' = lives + 1
  /\ want' \in want .. MaxBuild
  /\ step' = "check"
  /\ UNCHANGED <<dir, staged, dirs>>

(* The process ends, wherever it is: deferred calls do not run, and a      *)
(* staging directory stays for good.                                       *)
End ==
  /\ step # "down"
  /\ step' = "down"
  /\ staged' = Empty
  /\ UNCHANGED <<lives, want, dir, dirs>>
-----------------------------------------------------------------------------
(* EnsureModel. *)
Proceeds(place) ==
  /\ step' = place
  /\ UNCHANGED <<lives, want, dirs>>

Changes(place) == Proceeds(place) /\ UNCHANGED <<dir, staged>>

(* A sentinel of the wanted revision means there is nothing to do.         *)
AnySentinel == dir[Sentinel] # Absent
Present == dir[Sentinel] = want

Check ==
  /\ step = "check"
  /\ Changes(IF Present THEN "installed" ELSE "mkdir")

MakeStaging ==
  /\ step = "mkdir"
  /\ step' = "fetch"
  /\ dirs' = dirs + 1
  /\ UNCHANGED <<lives, want, dir, staged>>

MkdirFails == step = "mkdir" /\ Changes("failed")

(* fetchFile: a file is written beside its place and renamed into it, so   *)
(* it is there as a whole or not at all; its bytes are what was served.    *)
FetchInPlace(f) ==
  /\ step = "fetch"
  /\ staged[f] = Absent
  /\ \E bytes \in {want, Wrong} : staged' = [staged EXCEPT ![f] = bytes]
  /\ dir' = [dir EXCEPT ![f] = staged'[f]]
  /\ Proceeds("fetch")

FetchFile(f) ==
  /\ step = "fetch"
  /\ staged[f] = Absent
  /\ \E bytes \in {want, Wrong} : staged' = [staged EXCEPT ![f] = bytes]
  /\ UNCHANGED dir
  /\ Proceeds("fetch")

(* Fetch ends: with all files of the manifest, or with an error of the     *)
(* network, the disk or the context at any point.                          *)
FetchDone ==
  /\ step = "fetch"
  /\ \A f \in Files : staged[f] # Absent
  /\ Changes("verify")

FetchFails == step = "fetch" /\ Changes("cleanup")

(* Nothing but the sentinel is verified.                                   *)
VerifyNothing ==
  /\ step = "verify"
  /\ Changes("remove")

Verify ==
  /\ step = "verify"
  /\ Changes(IF staged[Sentinel] = want THEN "remove" ELSE "cleanup")

(* RemoveAll(dir) unlinks file by file and may stop with an error, which   *)
(* is ignored.                                                             *)
RemoveFile(f) ==
  /\ step = "remove"
  /\ dir[f] # Absent
  /\ dir' = [dir EXCEPT ![f] = Absent]
  /\ UNCHANGED staged
  /\ Proceeds("remove")

RemoveDone == step = "remove" /\ Changes("rename")

(* Rename succeeds only where nothing is left of the old directory.        *)
Rename ==
  /\ step = "rename"
  /\ dir = Empty
  /\ dir' = staged
  /\ staged' = Empty
  /\ dirs' = dirs - 1
  /\ step' = "installed"
  /\ UNCHANGED <<lives, want>>

RenameFails == step = "rename" /\ Changes("cleanup")

(* The deferred RemoveAll of the staging directory.                        *)
Cleanup ==
  /\ step = "cleanup"
  /\ step' = "failed"
  /\ staged' = Empty
  /\ dirs' = dirs - 1
  /\ UNCHANGED <<lives, want, dir>>

EnsureModel ==
  \/ Check
  \/ MakeStaging \/ MkdirFails
  \/ \E f \in Files : FetchFile(f) \/ RemoveFile(f)
  \/ FetchDone \/ FetchFails
  \/ Verify
  \/ RemoveDone
  \/ Rename \/ RenameFails
  \/ Cleanup
-----------------------------------------------------------------------------
ProvisionTypeOK ==
  /\ lives \in 0 .. MaxLives
  /\ want \in Builds
  /\ step \in {"down", "check", "mkdir", "fetch", "verify", "remove", "rename",
               "cleanup", "failed", "installed"}
  /\ dir \in [Files -> Contents]
  /\ staged \in [Files -> Contents]
  /\ dirs \in Nat

(* What EnsureModel relies on when it looks at the sentinel only: where    *)
(* the sentinel of the wanted revision is installed, no file is missing or *)
(* left over from another revision, whatever ended the lives before        *)
(* (provision.go:39-41).                                                   *)
SentinelVouches == dir[Sentinel] = want => Complete(dir, want)

(* The old model is touched only while its replacement is on disk, all of  *)
(* one revision with a verified sentinel: "on mismatch nothing is          *)
(* installed" (provision.go:38), and a failed download leaves what worked. *)
ReplacementReady == [][dir' # dir => Complete(staged, want)]_provisionVars
=============================================================================
