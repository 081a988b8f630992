--------------------------- MODULE ClaudeSettings ---------------------------
(***************************************************************************)
(* Keld's part of ~/.claude/settings.json: what                            *)
(* internal/config/merge_json.go and the Claude Code adapter               *)
(* (internal/tools/claude.go) do to the parsed document.                   *)
(*                                                                         *)
(* A document has an env section, a list of hook entries per event and     *)
(* other things.  The variables that ClaudeEnv sets are one key, "otel",   *)
(* which holds the parameters it was set with or a value of the user.  An  *)
(* entry has a matcher and commands; commands that contain "keld __hook"   *)
(* are Keld's.  An absent section is an empty one: both functions that     *)
(* remove things delete what they leave empty.  Left out: documents whose  *)
(* env or hooks is no object, which MergeEnv and AddClaudeHook replace by  *)
(* a new map.                                                              *)
(***************************************************************************)
EXTENDS Integers, SequencesExt

NoValue == 0
UserValue == -1
EnvKeys == {"otel", "user"}

(* telemetry.ClaudeHookEvents: the events with their matchers.  CwdChanged *)
(* has none and is like UserPromptSubmit.                                  *)
Events == {"SessionStart", "UserPromptSubmit"}
ClaudeHookEvents ==
  <<[event |-> "SessionStart", matcher |-> "startup"],
    [event |-> "SessionStart", matcher |-> "resume"],
    [event |-> "UserPromptSubmit", matcher |-> "none"]>>

KeldEntry(matcher) == [matcher |-> matcher, commands |-> <<"keld">>]
IsKelds(e) == \E i \in DOMAIN e.commands : e.commands[i] = "keld"

(* MergeEnv sets Keld's variables and leaves the others alone. *)
MergeEnv(env, p) == [env EXCEPT !["otel"] = p]
RemoveSectionKeys(env) == [env EXCEPT !["otel"] = NoValue]

(* AddClaudeHook appends an entry unless an equal one is there.            *)
AppendClaudeHook(hooks, he) ==
  [hooks EXCEPT ![he.event] = Append(@, KeldEntry(he.matcher))]
AddClaudeHook(hooks, he) ==
  IF \E i \in DOMAIN hooks[he.event] : hooks[he.event][i] = KeldEntry(he.matcher)
  THEN hooks
  ELSE [hooks EXCEPT ![he.event] = Append(@, KeldEntry(he.matcher))]

(* RemoveHooksByCommand drops every entry with a command of Keld's.        *)
KeepUsers(kept, x) == IF IsKelds(x) THEN kept ELSE Append(kept, x)
RemoveHooksByCommand(hooks) ==
  [e \in Events |-> FoldLeft(KeepUsers, <<>>, hooks[e])]

HasHookWithCommand(hooks) ==
  \E e \in Events : \E i \in DOMAIN hooks[e] : IsKelds(hooks[e][i])

(* ClaudeAdapter.Apply and Remove on a document that parses. *)
ClaudeApply(d, p) ==
  [d EXCEPT !.env = MergeEnv(@, p),
            !.hooks = FoldLeft(AddClaudeHook, @, ClaudeHookEvents)]

ClaudeRemove(d) ==
  [d EXCEPT !.env = RemoveSectionKeys(@), !.hooks = RemoveHooksByCommand(@)]

(* ClaudeAdapter.Status *)
ClaudeConfigured(d) == d.env["otel"] # NoValue /\ HasHookWithCommand(d.hooks)
=============================================================================
