--------------------------- MODULE MCHookReporter ---------------------------
(* An instance of HookReporter for TLC: hooks that overlap, contexts that  *)
(* change and change back, one kill, and daemons that follow or overlap    *)
(* each other, on the same port or on another.                             *)
EXTENDS HookReporter, TLC

(* Hooks, contexts and ports are interchangeable; no liveness is checked.  *)
Interchangeable ==
  Permutations(Hooks) \cup Permutations(Contexts) \cup Permutations(Ports)
=============================================================================
