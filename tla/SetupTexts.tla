----------------------------- MODULE SetupTexts -----------------------------
(***************************************************************************)
(* The files behind Setup.tla: what a text of config.toml or a document of *)
(* settings.json counts for there, and that the text algorithms            *)
(* (TomlBlock.tla, ClaudeSettings.tla) do to files what Setup's Applied,   *)
(* Removed, Conflict and Replaceable say they do.                          *)
(***************************************************************************)
EXTENDS Setup, TomlBlock, ClaudeSettings

CONSTANTS MaxLines,     (* bound: lines of the user in a text              *)
          MaxEntries    (* bound: entries of the user per event            *)

ASSUME TextsAssumption == MaxLines \in Nat /\ MaxEntries \in Nat

Parameters == 1 .. MaxParams
UserKinds ==
  {Line(k) : k \in {"blank", "user", "multi", "cont", "otel", "hooks", "table", "bad"}}

(* Texts without a block, and texts with one that Keld wrote and that the  *)
(* user wrote around, before it and behind it.                             *)
UserTexts == BoundedSeq(UserKinds, MaxLines) \ {<<>>}
Marked(p) == <<Line("start"), KeldLine(p), Line("end")>>
Around(before, p, behind) == before \o Marked(p) \o behind
BlockTexts ==
  {Around(before, p, behind) :
     before \in BoundedSeq(UserKinds, MaxLines - 2), p \in Parameters,
     behind \in BoundedSeq(UserKinds, 2) \ {<<>>}}
TomlTexts == UserTexts \cup BlockTexts

(* What the text counts for in Setup.tla.  It is broken for Keld when the  *)
(* user's text does not parse, or has tables of hooks that Keld's cannot   *)
(* be beside: no consent makes room for Keld's block then.                 *)
TomlContents(t) ==
  LET kelds == {t[i].p : i \in {i \in DOMAIN t : t[i].is = "keld"}}
      users == UsersText(t)
      broken == ~\A i \in DOMAIN users : Parses(users, i) /\ users[i].is # "hooks"
  IN  [there |-> TRUE,
       own |-> broken \/ OutsideOtel(users) # <<>>,
       telemetry |-> \E i \in DOMAIN users : users[i].is = "otel",
       broken |-> broken,
       keld |-> Max({0} \cup kelds)]
-----------------------------------------------------------------------------
UserEntries == {[matcher |-> m, commands |-> <<"user">>] : m \in {"startup", "none"}}

(* Documents without Keld's part, and with it, entries of the user in any  *)
(* place.                                                                  *)
UserHooks == [Events -> BoundedSeq(UserEntries, MaxEntries)]
UserDocuments ==
  [env : [EnvKeys -> {NoValue, UserValue}], hooks : UserHooks, other : BOOLEAN]
WithMore(d, more) == [d EXCEPT !.hooks = [e \in Events |-> @[e] \o more[e]]]
KeldDocuments ==
  {WithMore(ClaudeApply(d, p), more) :
     d \in UserDocuments, p \in Parameters, more \in UserHooks}
Documents == UserDocuments \cup KeldDocuments

UsersOnly(users, x) == IF x \in UserEntries THEN Append(users, x) ELSE users
UsersOf(hooks) == [e \in Events |-> FoldLeft(UsersOnly, <<>>, hooks[e])]

DocumentContents(d) ==
  [there |-> TRUE,
   own |-> \/ d.other \/ d.env["user"] # NoValue
           \/ \E e \in Events : UsersOf(d.hooks)[e] # <<>>,
   telemetry |-> d.env["otel"] = UserValue,
   broken |-> FALSE,
   keld |-> IF ClaudeConfigured(d) /\ d.env["otel"] # UserValue
            THEN d.env["otel"] ELSE 0]
-----------------------------------------------------------------------------
(* merge_toml.go and the Codex adapter do to a text what Setup.tla says of *)
(* its contents: when there is a conflict, when the user's [otel] is       *)
(* replaced, what an applied and a removed block leave.  The user's other  *)
(* lines stay, in their order, and setting up settles: a text that has     *)
(* been through two setups is what any later one with the same parameters  *)
(* writes, whichever parameters came before.                               *)
BlockRemoved(t) ==
  /\ TomlContents(StripKeldBlock(t)) = Removed("codex", TomlContents(t))
  /\ UserLines(StripKeldBlock(t)) = UserLines(t)

BlockApplied(t, p) ==
  LET f == TomlContents(t)
      after == CodexApply(t, p, FALSE)
      replaced == CodexApply(t, p, TRUE)
  IN  /\ after = NoText <=> Conflict("codex", f)
      /\ after # NoText =>
           /\ TomlContents(after) = AppliedWith(f, p)
           /\ UserLines(after) = UserLines(t)
      /\ after = NoText /\ replaced # NoText =>
           /\ Replaceable(f)
           /\ TomlContents(replaced) = AppliedWith(f, p)
           /\ OutsideOtel(UsersText(replaced)) = OutsideOtel(t)

BlockSettles(t, p) ==
  \A q \in Parameters :
    LET twice == UpsertKeldBlock(UpsertKeldBlock(t, q), p)
    IN  UpsertKeldBlock(twice, p) = twice

Treated(t) ==
  BlockRemoved(t) /\ \A p \in Parameters : BlockApplied(t, p) /\ BlockSettles(t, p)
ContentsMistreated == {TomlContents(t) : t \in {t \in TomlTexts : ~Treated(t)}}

(* The same for Claude Code's settings, where a second setup changes       *)
(* nothing, and uninstall restores what was there before the first.        *)
KeysApplied(d, p) ==
  LET f == DocumentContents(d)
      after == ClaudeApply(d, p)
  IN  /\ DocumentContents(after) = AppliedWith(f, p)
      /\ UsersOf(after.hooks) = UsersOf(d.hooks)
      /\ ClaudeApply(after, p) = after
      /\ f.keld = 0 /\ ~f.telemetry => ClaudeRemove(after) = d

KeysTreated(d) ==
  /\ DocumentContents(ClaudeRemove(d)) = Removed("claude_code", DocumentContents(d))
  /\ \A p \in Parameters : KeysApplied(d, p)
DocumentsMistreated == {DocumentContents(d) : d \in {d \in Documents : ~KeysTreated(d)}}
-----------------------------------------------------------------------------
(* No configuration of Codex that the commands come to is that of a text   *)
(* with which merge_toml.go does something else than Setup.tla says: a     *)
(* conflict missed, a line of the user lost, two [otel] tables, a block    *)
(* that grows with each setup.                                             *)
CodexFileRefines ==
  config["codex"] \notin ContentsMistreated

(* No configuration of Claude Code is that of a document with which        *)
(* merge_json.go does something else than Setup.tla says: an entry or a    *)
(* variable of the user changed, a hook left behind or added twice.        *)
ClaudeFileRefines ==
  config["claude_code"] \notin DocumentsMistreated
=============================================================================
