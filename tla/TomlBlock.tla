------------------------------ MODULE TomlBlock ------------------------------
(***************************************************************************)
(* Keld's block in ~/.codex/config.toml: the text algorithms of            *)
(* internal/config/merge_toml.go and what the Codex adapter                *)
(* (internal/tools/codex.go) makes of them.                                *)
(*                                                                         *)
(* A text is the sequence of its lines as strings.Split gives them at each *)
(* newline: the empty text is one blank line, and a text that ends in a    *)
(* newline has a blank last line.  Kinds of lines: "user", a key or a      *)
(* comment; "multi", a key with a value that may go on in "cont" lines,    *)
(* which begin with a bracket; "otel", "hooks" and "table", headers of the *)
(* user's [otel], of a table of hooks that Keld's cannot be beside (say    *)
(* [hooks.SessionStart], which is no array) and of another table; "bad",   *)
(* which does not parse; "start" and "end", the markers; "keld", what      *)
(* CodexBlockBody makes of parameters p, an [otel] table and tables of     *)
(* hooks.                                                                  *)
(***************************************************************************)
EXTENDS Integers, SequencesExt

Line(kind) == [is |-> kind, p |-> 0]
KeldLine(p) == [is |-> "keld", p |-> p]
Blank == Line("blank")
EmptyText == <<Blank>>
NoText == <<>>      (* no text at all: a conflict *)

HasKeldBlock(t) == \E i \in DOMAIN t : t[i].is = "start"

(* The lines outside of the markers; a block without an end goes on to the *)
(* end of the text.                                                        *)
BlockWalkOn(w, l) ==
  IF l.is = "start" \/ w.inside THEN [w EXCEPT !.inside = TRUE]
  ELSE [w EXCEPT !.out = Append(@, l)]

BlockWalk(w, l) ==
  IF l.is = "start" THEN [w EXCEPT !.inside = TRUE]
  ELSE IF w.inside THEN [w EXCEPT !.inside = l.is # "end"]
  ELSE [w EXCEPT !.out = Append(@, l)]
OutsideBlock(t) == FoldLeft(BlockWalk, [inside |-> FALSE, out |-> <<>>], t).out

(* strings.TrimRight(text, "\n") *)
Trimmed(t) ==
  SubSeq(t, 1, Max({0} \cup {i \in DOMAIN t : t[i] # Blank}))

StripKeldBlock(t) ==
  IF HasKeldBlock(t)
  THEN LET kept == Trimmed(OutsideBlock(t))
       IN  IF kept = <<>> THEN EmptyText ELSE Append(kept, Blank)
  ELSE t

Block(p) == <<Line("start"), KeldLine(p), Line("end"), Blank>>

UpsertKeldBlock(t, p) ==
  LET base == StripKeldBlock(t)
  IN  IF Trimmed(base) = <<>> THEN Block(p) ELSE base \o Block(p)
-----------------------------------------------------------------------------
(* What a TOML parser makes of a text. *)
Parses(t, i) ==
  /\ t[i].is # "bad"
  /\ t[i].is = "cont" => i > 1 /\ t[i - 1].is \in {"multi", "cont"}

(* ValidateTOML: every line parses, [otel] is defined once at most, and no *)
(* table of hooks clashes with Keld's.                                     *)
ValidTOML(t) ==
  /\ \A i \in DOMAIN t : Parses(t, i)
  /\ \A i, j \in DOMAIN t :
       /\ t[i].is \in {"otel", "keld"} /\ t[j].is \in {"otel", "keld"} => i = j
       /\ ~(t[i].is = "hooks" /\ t[j].is = "keld")

(* What the parser finds outside of [otel], each line with the table it    *)
(* belongs to; blank lines and markers are nothing to it.  Lines behind    *)
(* Keld's block belong to the last table in it.                            *)
OtelWalk(w, l) ==
  LET in == IF l.is \in {"otel", "hooks", "table", "keld"} THEN l.is ELSE w.in
  IN  [in |-> in,
       out |-> IF in = "otel" \/ l.is \in {"blank", "start", "end"} THEN w.out
               ELSE Append(w.out, <<in, l>>)]
OutsideOtel(t) == FoldLeft(OtelWalk, [in |-> "top", out |-> <<>>], t).out

(* StripTOMLTable(text, "otel") takes every line that begins with a        *)
(* bracket for a header.  (Only texts without Keld's block come here: one  *)
(* that has it and is valid needs no replacement.)  Lines keep their       *)
(* newline: what is left of a text whose end was cut ends in one.          *)
StripWalk(w, l) ==
  LET dropping == IF l.is \in {"otel", "hooks", "table", "cont"}
                  THEN l.is = "otel" ELSE w.dropping
  IN  [dropping |-> dropping, out |-> IF dropping THEN w.out ELSE Append(w.out, l)]
StripTOMLTable(t) ==
  LET end == FoldLeft(StripWalk, [dropping |-> FALSE, out |-> <<>>], t)
  IN  IF end.dropping THEN Append(end.out, Blank) ELSE end.out

(* The adapter replaces the user's [otel] only if nothing but it was cut.  *)
SafeToReplace(t) ==
  /\ ValidTOML(t)
  /\ ValidTOML(StripTOMLTable(t))
  /\ OutsideOtel(StripTOMLTable(t)) = OutsideOtel(t)

(* CodexAdapter.Apply: the text planned, or NoText for a conflict. *)
CodexApply(t, p, replace) ==
  LET after == UpsertKeldBlock(t, p)
      replaced == UpsertKeldBlock(StripTOMLTable(t), p)
  IN  IF ValidTOML(after) THEN after
      ELSE IF replace /\ SafeToReplace(t) /\ ValidTOML(replaced) THEN replaced
      ELSE NoText
-----------------------------------------------------------------------------
(* The user's text: what is neither a marker nor Keld's, wherever in the   *)
(* text it is; and its lines that are not blank, in order.  That is told   *)
(* by the lines themselves, not by what the walks above make of them.      *)
UsersWalk(kept, l) ==
  IF l.is \in {"start", "keld", "end"} THEN kept ELSE Append(kept, l)
UsersText(t) == FoldLeft(UsersWalk, <<>>, t)

LinesWalk(kept, l) == IF l = Blank THEN kept ELSE Append(kept, l)
UserLines(t) == FoldLeft(LinesWalk, <<>>, UsersText(t))
=============================================================================
