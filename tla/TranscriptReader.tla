-------------------------- MODULE TranscriptReader --------------------------
(***************************************************************************)
(* How the daemon's worker finds the text of a prompt in the transcript    *)
(* that Claude Code keeps appending to (internal/agent/resolve/claude.go): *)
(* a byte cursor per transcript, a few attempts per prompt, and a file     *)
(* that may be cut or replaced at any moment.                              *)
(*                                                                         *)
(* The file is a sequence of cells: the content of a line is one cell (the *)
(* prompt its matching user line belongs to, or Other), its newline        *)
(* another, so that a line may be half written and a cursor may point into *)
(* the middle of one.  A scan opens the file anew and is one step.         *)
(***************************************************************************)
EXTENDS Integers, Sequences, FiniteSetsExt

CONSTANTS Prompts,     (* prompt ids of the jobs                           *)
          Other,       (* a line no prompt id matches, malformed or foreign*)
          NewLine,
          NoPrompt,    (* the reader is idle                               *)
          Attempts,    (* how often a Read scans                           *)
          MaxCells,    (* bound: the length of the file                    *)
          MaxReads,    (* bound: how many Reads begin                      *)
          MaxRewrites  (* bound: how often the file is cut or removed      *)

ASSUME ReaderAssumption ==
  /\ Attempts \in Nat
  /\ {Other, NewLine, NoPrompt} \cap Prompts = {}
  /\ NewLine # Other /\ NoPrompt \notin {Other, NewLine}
  /\ MaxCells \in Nat /\ MaxReads \in Nat /\ MaxRewrites \in Nat

VARIABLES file, present,  (* the transcript, if it exists                  *)
          cursor,         (* cursors[path]                                 *)
          prompt,         (* the argument of the Read in progress          *)
          off, left, lastAdv

VARIABLES delivered,      (* history: where the returned lines end         *)
          missed,         (* history: some Read gave up                    *)
          reads, rewrites

readVars == <<prompt, off, left, lastAdv>>
histVars == <<delivered, missed>>
transcriptVars == <<file, present, cursor, readVars, histVars, reads, rewrites>>
-----------------------------------------------------------------------------
ReadInit ==
  /\ file = <<>>
  /\ present = FALSE
  /\ cursor = 0
  /\ prompt = NoPrompt
  /\ off = 0 /\ left = 0 /\ lastAdv = 0
  /\ delivered = <<>>
  /\ missed = FALSE
  /\ reads = 0 /\ rewrites = 0

AtLineStart == file # <<>> => file[Len(file)] = NewLine

(* Claude Code appends the content of a line, then its newline. *)
WriteContent(x) ==
  /\ Len(file) < MaxCells
  /\ AtLineStart
  /\ file' = Append(file, x)
  /\ present' = TRUE
  /\ UNCHANGED <<cursor, readVars, histVars, reads, rewrites>>

WriteNewLine ==
  /\ ~AtLineStart
  /\ file' = Append(file, NewLine)
  /\ UNCHANGED <<present, cursor, readVars, histVars, reads, rewrites>>

(* Truncation, rotation or compaction keeps the last n cells, from the     *)
(* beginning of a line; a removed file is written anew later.              *)
Rewrite(n) ==
  /\ rewrites < MaxRewrites
  /\ present
  /\ n < Len(file)
  /\ n # 0 => file[Len(file) - n] = NewLine
  /\ file' = SubSeq(file, Len(file) - n + 1, Len(file))
  /\ present' \in IF n = 0 THEN BOOLEAN ELSE {TRUE}
  /\ rewrites' = rewrites + 1
  /\ UNCHANGED <<cursor, readVars, delivered, missed, reads>>

(* scanFrom: the ends of the complete lines after o, of those that match,  *)
(* and how far a scan that finds nothing gets.                             *)
LineEnds(o) == {i \in o + 1 .. Len(file) : file[i] = NewLine}
Matching(o) == {i \in LineEnds(o) : i > o + 1 /\ file[i - 1] = prompt}
ConsumedWithPartial(o) == IF Len(file) > o THEN Len(file) - o ELSE 0
Consumed(o) == IF LineEnds(o) = {} THEN 0 ELSE Max(LineEnds(o)) - o

(* setCursor never moves backwards. *)
Raise(o) == cursor' = IF o > cursor THEN o ELSE cursor

(* startOffset: the cursor starts over if the file is shorter than it.     *)
StartOver == 0
StartOffset == IF present /\ Len(file) < cursor THEN 0 ELSE cursor

(* Attempts below one count as one. *)
Budget == IF Attempts < 1 THEN 1 ELSE Attempts

Begin(p) ==
  /\ prompt = NoPrompt
  /\ reads < MaxReads
  /\ prompt' = p
  /\ off' = StartOffset
  /\ cursor' = StartOffset
  /\ left' = Budget
  /\ lastAdv' = 0
  /\ reads' = reads + 1
  /\ UNCHANGED <<file, present, delivered, missed, rewrites>>

(* The scan returns the first match; the cursor moves past it. *)
PassTail == off + Consumed(off)
PassMatch == Min(Matching(off))

Found ==
  /\ prompt # NoPrompt
  /\ Matching(off) # {}
  /\ Raise(PassMatch)
  /\ delivered' = Append(delivered, Min(Matching(off)))
  /\ prompt' = NoPrompt
  /\ UNCHANGED <<file, present, off, left, lastAdv, missed, reads, rewrites>>

Farthest == IF Consumed(off) > lastAdv THEN Consumed(off) ELSE lastAdv

(* No match: one attempt is used up; sleep and scan again from the same    *)
(* offset.                                                                 *)
Retry ==
  /\ prompt # NoPrompt
  /\ Matching(off) = {}
  /\ left > 1
  /\ left' = left - 1
  /\ lastAdv' = Farthest
  /\ UNCHANGED <<file, present, cursor, prompt, off, histVars, reads, rewrites>>

(* No match in the last attempt: the consumed tail is given up. *)
GiveUp ==
  /\ prompt # NoPrompt
  /\ Matching(off) = {}
  /\ left = 1
  /\ Raise(off + Farthest)
  /\ prompt' = NoPrompt
  /\ missed' = TRUE
  /\ UNCHANGED <<file, present, off, left, lastAdv, delivered, reads, rewrites>>

ReadStep == Found \/ Retry \/ GiveUp

ReadNext ==
  \/ \E x \in Prompts \cup {Other} : WriteContent(x)
  \/ WriteNewLine
  \/ \E n \in 0 .. MaxCells : Rewrite(n)
  \/ \E p \in Prompts : Begin(p)
  \/ ReadStep

ReadSpec == ReadInit /\ [][ReadNext]_transcriptVars

-----------------------------------------------------------------------------
ReadTypeOK ==
  /\ file \in Seq(Prompts \cup {Other, NewLine})
  /\ present \in BOOLEAN
  /\ cursor \in Nat
  /\ prompt \in Prompts \cup {NoPrompt}
  /\ off \in Nat /\ lastAdv \in Nat
  /\ left \in 0 .. (IF Attempts < 1 THEN 1 ELSE Attempts)
  /\ delivered \in Seq(Nat)
  /\ missed \in BOOLEAN
  /\ reads \in 0 .. MaxReads /\ rewrites \in 0 .. MaxRewrites

(* While a transcript only grows the cursor rests on the end of a line,    *)
(* also after attempts that met a half-written one: no line is entered in  *)
(* its middle, so none that is completed later is lost as malformed.       *)
CursorAtLineEnd ==
  rewrites = 0 =>
    \A o \in {cursor, off, off + lastAdv} :
      o = 0 \/ (o <= Len(file) /\ file[o] = NewLine)

(* While a transcript only grows no line is returned twice and lines are   *)
(* returned in the order of the file, whatever prompts are asked for: a    *)
(* repeated job does not publish a prompt a second time.                   *)
LinesInOrder ==
  rewrites = 0 =>
    \A i, k \in 1 .. Len(delivered) : i < k => delivered[i] < delivered[k]

(* Before the first give-up of a reader whose transcript only grows, a     *)
(* prompt whose line is complete is missed only if a line at or after it   *)
(* was already returned: jobs in the order of the file lose nothing.       *)
FirstMissIsPassed ==
  [][missed' /\ ~missed /\ rewrites = 0 =>
       \A i \in 2 .. Len(file) :
         file[i] = NewLine /\ file[i - 1] = prompt =>
           \E k \in 1 .. Len(delivered) : i <= delivered[k]]_transcriptVars
=============================================================================
