---------------------------- MODULE ProcessProofs ----------------------------
(***************************************************************************)
(* Proofs about what the worker does with a job in process: it reads the   *)
(* prompt out of the transcript (TranscriptReader.tla), for every set of   *)
(* prompts, every number of attempts and transcripts of every length, and  *)
(* enriches what it read (Enrichment.tla), for every taxonomy and any      *)
(* number of jobs and of changes of the org.                               *)
(***************************************************************************)
EXTENDS TranscriptReader, Enrichment, SequenceTheorems, WellFoundedInduction, TLAPS

(* The transcript. *)

(* The ends of lines, where a cursor may rest. *)
LineEnd(o) == o = 0 \/ (o \in 1 .. Len(file) /\ file[o] = NewLine)

CursorInv ==
  rewrites = 0 => LineEnd(cursor) /\ LineEnd(off) /\ LineEnd(off + lastAdv)

(* A Read starts at the cursor, which no other Read moves meanwhile.       *)
OffsetInv == prompt # NoPrompt => off = cursor

(* The returned lines ascend, up to the cursor.                            *)
OrderInv ==
  rewrites = 0 =>
    /\ LinesInOrder
    /\ \A k \in 1 .. Len(delivered) : delivered[k] <= cursor

(* Before the first give-up nothing but a returned line moved the cursor.  *)
DeliveredInv ==
  rewrites = 0 /\ ~missed =>
    cursor = 0 \/ \E k \in 1 .. Len(delivered) : delivered[k] = cursor

IInv == ReadTypeOK /\ CursorInv /\ OffsetInv /\ OrderInv /\ DeliveredInv
-----------------------------------------------------------------------------
(* Min and Max return what their names say, of sets of cells. *)
LEMMA NatHasLeast ==
  ASSUME NEW S \in SUBSET Nat, S # {}
  PROVE  \E x \in S : \A y \in S : x <= y
<1> DEFINE Less == {pair \in Nat \X Nat : pair[1] < pair[2]}
<1>1. IsWellFoundedOn(Less, Nat)
  BY NatLessThanWellFounded DEF OpToRel
<1>2. PICK x \in S : \A y \in S : <<y, x>> \notin Less
  <2> HIDE DEF Less
  <2> QED
    BY <1>1, WFMin
<1>3. \A y \in S : ~ (y < x)
  BY <1>2
<1> QED
  BY <1>3

(* Min is the least of a set of cells. *)
LEMMA MinProperty ==
  ASSUME NEW S \in SUBSET Nat, S # {}
  PROVE  Min(S) \in S /\ \A y \in S : Min(S) <= y
  BY NatHasLeast DEF Min

(* Max is the greatest of a set of cells. *)
LEMMA MaxProperty ==
  ASSUME NEW n \in Nat, NEW S \in SUBSET (0 .. n), S # {}
  PROVE  Max(S) \in S /\ \A y \in S : y <= Max(S)
<1> DEFINE D == {n - y : y \in S}
<1>1. D \in SUBSET Nat /\ D # {}
  <2>1. \A y \in S : y \in 0 .. n /\ n - y \in Nat
    OBVIOUS
  <2>2. PICK y \in S : TRUE
    OBVIOUS
  <2>3. n - y \in D
    OBVIOUS
  <2> QED
    BY <2>1, <2>3
<1>2. PICK d \in D : \A e \in D : d <= e
  BY <1>1, NatHasLeast
<1>3. PICK x \in S : d = n - x
  BY <1>2
<1>4. \A y \in S : x >= y
  BY <1>2, <1>3
<1> QED
  BY <1>4 DEF Max
-----------------------------------------------------------------------------
(* The invariant holds at the start. *)
LEMMA InitInv == ReadInit => IInv
<1> SUFFICES ASSUME ReadInit PROVE IInv
  OBVIOUS
<1> USE ReaderAssumption DEF ReadInit
<1>1. ReadTypeOK
  <2>1. file \in Seq(Prompts \cup {Other, NewLine}) /\ delivered \in Seq(Nat)
    OBVIOUS
  <2>2. left \in 0 .. (IF Attempts < 1 THEN 1 ELSE Attempts)
    OBVIOUS
  <2>3. reads \in 0 .. MaxReads /\ rewrites \in 0 .. MaxRewrites
    OBVIOUS
  <2> QED
    BY <2>1, <2>2, <2>3 DEF ReadTypeOK
<1>2. CursorInv /\ OffsetInv
  BY DEF CursorInv, OffsetInv, LineEnd
<1>3. OrderInv /\ DeliveredInv
  BY DEF OrderInv, DeliveredInv, LinesInOrder
<1> QED
  BY <1>1, <1>2, <1>3 DEF IInv

(* What is appended moves no line. *)
LEMMA AppendKeepsEnds ==
  ASSUME ReadTypeOK, NEW x \in Prompts \cup {Other, NewLine}, file' = Append(file, x),
         NEW o, LineEnd(o)
  PROVE  LineEnd(o)'
<1>1. Len(file') = Len(file) + 1 /\ \A i \in 1 .. Len(file) : file'[i] = file[i]
  BY DEF ReadTypeOK
<1>2. Len(file) \in Nat
  BY DEF ReadTypeOK
<1> QED
  BY <1>1, <1>2 DEF LineEnd

(* What is appended leaves every end of a line where it is. *)
LEMMA WriteInv ==
  ASSUME IInv, (\E x \in Prompts \cup {Other} : WriteContent(x)) \/ WriteNewLine
  PROVE  IInv'
<1> USE ReaderAssumption DEF IInv
<1>1. UNCHANGED <<cursor, readVars, histVars, reads, rewrites>>
  BY DEF WriteContent, WriteNewLine
<1>2. PICK x \in Prompts \cup {Other, NewLine} : file' = Append(file, x)
  BY DEF WriteContent, WriteNewLine
<1>3. present' \in BOOLEAN
  BY DEF WriteContent, WriteNewLine, ReadTypeOK
<1>4. ReadTypeOK'
  BY <1>1, <1>2, <1>3 DEF ReadTypeOK, readVars, histVars
<1>5. CursorInv'
  BY <1>1, <1>2, AppendKeepsEnds DEF CursorInv, readVars
<1>6. OffsetInv' /\ OrderInv' /\ DeliveredInv'
  BY <1>1 DEF OffsetInv, OrderInv, DeliveredInv, LinesInOrder, readVars, histVars
<1> QED
  BY <1>4, <1>5, <1>6

(* After a rewrite only the types are left to show. *)
LEMMA RewriteInv == ASSUME IInv, NEW n \in 0 .. MaxCells, Rewrite(n) PROVE IInv'
<1> USE ReaderAssumption DEF IInv, Rewrite
<1>1. rewrites' \in 0 .. MaxRewrites /\ rewrites' # 0
  BY DEF ReadTypeOK
<1>2. file' \in Seq(Prompts \cup {Other, NewLine})
  <2> DEFINE m == Len(file)
  <2>1. m \in Nat /\ n \in Nat /\ n < m /\ m - n + 1 >= 1
    BY DEF ReadTypeOK
  <2>2. \A i \in m - n + 1 .. m : file[i] \in Prompts \cup {Other, NewLine}
    BY <2>1 DEF ReadTypeOK
  <2> QED
    BY <2>1, <2>2, SubSeqProperties
<1>3. ReadTypeOK'
  BY <1>1, <1>2 DEF ReadTypeOK, readVars
<1>4. OffsetInv'
  BY DEF OffsetInv, readVars
<1> QED
  BY <1>1, <1>3, <1>4 DEF CursorInv, OrderInv, DeliveredInv

(* A lookup begins at the cursor of its transcript. *)
LEMMA BeginInv == ASSUME IInv, NEW p \in Prompts, Begin(p) PROVE IInv'
<1> USE ReaderAssumption DEF IInv, Begin
<1>1. StartOffset \in {0, cursor} /\ StartOffset \in Nat
  BY DEF StartOffset, ReadTypeOK
<1>2. rewrites = 0 => StartOffset = cursor
  BY DEF StartOffset, CursorInv, LineEnd, ReadTypeOK
<1>3. ReadTypeOK'
  BY <1>1 DEF ReadTypeOK, Budget
<1>4. CursorInv'
  BY <1>1, <1>2 DEF CursorInv, LineEnd
<1>5. OffsetInv'
  BY DEF OffsetInv
<1>6. OrderInv' /\ DeliveredInv'
  BY <1>2 DEF OrderInv, LinesInOrder, DeliveredInv
<1> QED
  BY <1>3, <1>4, <1>5, <1>6

(* The scans: what they consume, and what they find. *)
LEMMA ScanProperty ==
  ASSUME ReadTypeOK
  PROVE  /\ Consumed(off) \in Nat
         /\ LineEnd(off) => LineEnd(off + Consumed(off))
         /\ Matching(off) # {} =>
              /\ Min(Matching(off)) \in Nat
              /\ Min(Matching(off)) > off
              /\ LineEnd(Min(Matching(off)))
<1>1. Len(file) \in Nat /\ off \in Nat
  BY DEF ReadTypeOK
<1>2. /\ LineEnds(off) \in SUBSET (0 .. Len(file))
      /\ \A i \in LineEnds(off) : i > off /\ file[i] = NewLine
  BY <1>1 DEF LineEnds
<1>3. Consumed(off) \in Nat /\ (LineEnd(off) => LineEnd(off + Consumed(off)))
  <2>1. CASE LineEnds(off) = {}
    BY <1>1, <2>1 DEF Consumed
  <2>2. CASE LineEnds(off) # {}
    <3>1. Max(LineEnds(off)) \in LineEnds(off)
      BY <1>1, <1>2, <2>2, MaxProperty
    <3>2. Consumed(off) = Max(LineEnds(off)) - off
      BY <2>2 DEF Consumed
    <3> HIDE DEF Consumed
    <3> QED
      BY <1>1, <1>2, <3>1, <3>2 DEF LineEnd
  <2> QED
    BY <2>1, <2>2
<1>4. ASSUME Matching(off) # {}
      PROVE  /\ Min(Matching(off)) \in Nat
             /\ Min(Matching(off)) > off
             /\ LineEnd(Min(Matching(off)))
  <2>1. Matching(off) \in SUBSET Nat /\ Matching(off) \subseteq LineEnds(off)
    BY <1>1, <1>2 DEF Matching
  <2>2. Min(Matching(off)) \in LineEnds(off)
    BY <1>4, <2>1, MinProperty
  <2> QED
    BY <1>1, <1>2, <2>2 DEF LineEnd
<1> QED
  BY <1>3, <1>4

(* The line that is found lies behind the cursor and ends the cursor       *)
(* there.                                                                  *)
LEMMA FoundInv == ASSUME IInv, Found PROVE IInv'
<1> USE ReaderAssumption DEF IInv, Found
<1> DEFINE m == Min(Matching(off))
<1>1. m \in Nat /\ m > off /\ LineEnd(m) /\ off = cursor /\ off \in Nat
  BY ScanProperty DEF OffsetInv, ReadTypeOK
<1> HIDE DEF m
<1>2. cursor' = m
  BY <1>1 DEF Raise, PassMatch, m, ReadTypeOK
<1>3. /\ delivered' = Append(delivered, m) /\ delivered' \in Seq(Nat)
      /\ Len(delivered) \in Nat /\ Len(delivered') = Len(delivered) + 1
      /\ delivered'[Len(delivered')] = m
      /\ \A k \in 1 .. Len(delivered) : delivered'[k] = delivered[k] /\ delivered[k] \in Nat
  BY <1>1 DEF m, ReadTypeOK
<1>4. ReadTypeOK'
  BY <1>1, <1>2, <1>3 DEF ReadTypeOK
<1>5. CursorInv'
  BY <1>1, <1>2 DEF CursorInv, LineEnd
<1>6. OffsetInv'
  BY DEF OffsetInv
<1>7. OrderInv'
  <2> SUFFICES ASSUME rewrites = 0 PROVE OrderInv'
    BY DEF OrderInv
  <2>1. \A k \in 1 .. Len(delivered) : delivered'[k] < m
    BY <1>1, <1>3 DEF OrderInv
  <2>2. LinesInOrder'
    BY <1>3, <2>1 DEF OrderInv, LinesInOrder
  <2>3. \A k \in 1 .. Len(delivered') : delivered'[k] <= m
    BY <1>1, <1>3, <2>1
  <2> QED
    BY <1>2, <2>2, <2>3 DEF OrderInv
<1>8. DeliveredInv'
  BY <1>2, <1>3 DEF DeliveredInv
<1> QED
  BY <1>4, <1>5, <1>6, <1>7, <1>8

(* A miss keeps the cursor; the last one moves it to the end of a line. *)
LEMMA MissInv == ASSUME IInv, Retry \/ GiveUp PROVE IInv'
<1> USE ReaderAssumption DEF IInv
<1>1. /\ Farthest \in Nat
      /\ rewrites = 0 => LineEnd(off + Farthest)
  BY ScanProperty DEF Farthest, CursorInv, ReadTypeOK
<1>2. CASE Retry
  <2>1. ReadTypeOK'
    BY <1>1, <1>2 DEF Retry, histVars, ReadTypeOK
  <2>2. CursorInv'
    BY <1>1, <1>2 DEF Retry, CursorInv, LineEnd
  <2>3. OffsetInv' /\ OrderInv' /\ DeliveredInv'
    BY <1>2 DEF Retry, histVars, OffsetInv, OrderInv, LinesInOrder, DeliveredInv
  <2> QED
    BY <2>1, <2>2, <2>3
<1>3. CASE GiveUp
  <2>1. cursor' \in {cursor, off + Farthest} /\ cursor' \in Nat /\ cursor' >= cursor
    BY <1>1, <1>3 DEF GiveUp, Raise, ReadTypeOK
  <2>2. ReadTypeOK'
    BY <1>3, <2>1 DEF GiveUp, ReadTypeOK
  <2>3. CursorInv'
    BY <1>1, <1>3, <2>1 DEF GiveUp, CursorInv, LineEnd
  <2>4. OrderInv'
    <3>1. \A k \in 1 .. Len(delivered) : delivered[k] \in Nat
      BY DEF ReadTypeOK
    <3> QED
      BY <1>3, <2>1, <3>1 DEF GiveUp, OrderInv, LinesInOrder, ReadTypeOK
  <2>5. OffsetInv' /\ DeliveredInv'
    BY <1>3 DEF GiveUp, OffsetInv, DeliveredInv
  <2> QED
    BY <2>2, <2>3, <2>4, <2>5
<1> QED
  BY <1>2, <1>3

(* No step breaks the invariant. *)
LEMMA NextInv == IInv /\ [ReadNext]_transcriptVars => IInv'
<1> SUFFICES ASSUME IInv, [ReadNext]_transcriptVars PROVE IInv'
  OBVIOUS
<1>1. CASE UNCHANGED transcriptVars
  BY <1>1 DEF transcriptVars, readVars, histVars, IInv, ReadTypeOK, CursorInv, LineEnd, OffsetInv,
              OrderInv, LinesInOrder, DeliveredInv
<1> QED
  BY <1>1, WriteInv, RewriteInv, BeginInv, FoundInv, MissInv DEF ReadNext, ReadStep
-----------------------------------------------------------------------------
(* The inductive invariant holds in every reachable state. *)
THEOREM ReaderInvariant == ReadSpec => []IInv
  BY InitInv, NextInv, PTL DEF ReadSpec

(* The transcript, the cursor and the lookup are always what the code can  *)
(* hold.                                                                   *)
THEOREM ReaderTypeOK == ReadSpec => []ReadTypeOK
  BY ReaderInvariant, PTL DEF IInv

(* While a transcript only grows the cursor never rests in the middle of a *)
(* line.                                                                   *)
THEOREM ReaderCursorAtLineEnd == ReadSpec => []CursorAtLineEnd
<1>1. IInv => CursorAtLineEnd
  <2>1. ASSUME NEW o, ReadTypeOK, LineEnd(o)
        PROVE  o = 0 \/ (o <= Len(file) /\ file[o] = NewLine)
    BY <2>1 DEF LineEnd, ReadTypeOK
  <2> QED
    BY <2>1 DEF IInv, CursorInv, CursorAtLineEnd
<1> QED
  BY <1>1, ReaderInvariant, PTL

(* While a transcript only grows lines are returned in the order of the    *)
(* file, and none is returned twice.                                       *)
THEOREM ReaderLinesInOrder == ReadSpec => []LinesInOrder
<1>1. IInv => LinesInOrder
  BY DEF IInv, OrderInv, LinesInOrder
<1> QED
  BY <1>1, ReaderInvariant, PTL

(* Before the first give-up only a prompt whose line lies at or before a   *)
(* returned one is missed.                                                 *)
THEOREM ReaderFirstMissIsPassed == ReadSpec => FirstMissIsPassed
<1> DEFINE Passed == missed' /\ ~missed /\ rewrites = 0 =>
                       \A i \in 2 .. Len(file) :
                         file[i] = NewLine /\ file[i - 1] = prompt =>
                           \E k \in 1 .. Len(delivered) : i <= delivered[k]
<1>1. IInv /\ [ReadNext]_transcriptVars => [Passed]_transcriptVars
  <2> SUFFICES ASSUME IInv, ReadNext, missed', ~missed, rewrites = 0,
                      NEW i \in 2 .. Len(file), file[i] = NewLine, file[i - 1] = prompt
               PROVE  \E k \in 1 .. Len(delivered) : i <= delivered[k]
    OBVIOUS
  <2>1. GiveUp
    BY DEF ReadNext, WriteContent, WriteNewLine, Rewrite, Begin, ReadStep, Found, Retry, histVars
  <2>2. /\ Matching(off) = {} /\ prompt # NoPrompt /\ off = cursor
        /\ Len(file) \in Nat /\ off \in Nat /\ i \in Nat
    BY <2>1 DEF GiveUp, IInv, OffsetInv, ReadTypeOK
  <2>3. i <= off + 1
    BY <2>2 DEF Matching, LineEnds
  <2>4. i # off + 1
    <3>1. prompt \in Prompts
      BY <2>2 DEF IInv, ReadTypeOK
    <3>2. file[i - 1] # NewLine
      BY <3>1, ReaderAssumption
    <3> QED
      BY <2>2, <3>2 DEF IInv, CursorInv, LineEnd
  <2>5. i <= cursor /\ cursor # 0
    BY <2>2, <2>3, <2>4
  <2> QED
    BY <2>5 DEF IInv, DeliveredInv
<1> QED
  BY <1>1, ReaderInvariant, PTL DEF ReadSpec, FirstMissIsPassed
-----------------------------------------------------------------------------
(* The enrichment. *)

(* While the setting is off, at most one message with text is sent: none   *)
(* was sent before the one that was built when it was on.                  *)
TextInv ==
  /\ lateTexts \in {0, 1}
  /\ eff \/ built.text => lateTexts = 0
  /\ lateTexts > 0 \/ at # Idle => jobs > 0

(* A subcategory is chosen in the last stage, for the function committed   *)
(* before; a model is asked for it only if that function has any.          *)
FamilyInv ==
  /\ backend # "none" => ~Unconditioned
  /\ subcategory # NoLabel =>
       /\ at \notin 1 .. Len(Stages)
       /\ function \in Range(FunctionIds)
       /\ subcategory \in Range(Subcats[function])
  /\ FamilyMatch

JobInv == TypeOK /\ TextInv /\ FamilyInv

(* The stages and the two steps after them, as numbers. *)
LEMMA SevenStages ==
  /\ Len(Stages) = 7 /\ Build = 8 /\ Send = 9
  /\ \A i \in 1 .. 7 : /\ Stages[i] = "function_guess" <=> i = 6
                       /\ Stages[i] = "subcategory" <=> i = 7
<1>1. Len(Stages) = 7
  BY DEF Stages
<1>2. \A i \in 1 .. 7 : i \in {1, 2, 3, 4, 5, 6, 7}
  OBVIOUS
<1>3. \A i \in {1, 2, 3, 4, 5, 6, 7} : /\ Stages[i] = "function_guess" <=> i = 6
                                       /\ Stages[i] = "subcategory" <=> i = 7
  BY DEF Stages
<1> QED
  BY <1>1, <1>2, <1>3 DEF Build, Send

(* The first label of labels that are there is one of them. *)
LEMMA FirstInRange ==
  ASSUME NEW labels \in Seq(STRING), labels # <<>>
  PROVE  labels[1] \in Range(labels)
  BY DEF Range

(* A stage over labels commits one of them or abstains. *)
LEMMA ClassifiedProperty ==
  ASSUME NEW labels \in Seq(STRING), labels # <<>>,
         NEW answer \in {"sidecar", "none", "fallback"}
  PROVE  Classified(labels, answer) \subseteq Range(labels) \cup {NoLabel}
  BY FirstInRange DEF Classified, Unanswered, Abstention

(* The ids of the taxonomy and the abstention are labels. *)
LEMMA LabelsProperty ==
  /\ NoLabel \in Labels /\ Range(FunctionIds) \subseteq Labels
  /\ \A f \in Range(FunctionIds) : Range(Subcats[f]) \subseteq Labels
<1>1. /\ SubcatIds \subseteq Labels /\ NoLabel \in Labels
      /\ Range(FunctionIds) \subseteq Labels
  BY DEF Labels
<1>2. \A f \in Range(FunctionIds) : Range(Subcats[f]) \subseteq SubcatIds
  BY DEF SubcatIds
<1> QED
  BY <1>1, <1>2, Zenon

(* The conditioned pass has the labels of the committed function, or none. *)
LEMMA FamilyProperty ==
  /\ Family \in Seq(STRING)
  /\ Family # <<>> => function \in Range(FunctionIds) /\ Family = Subcats[function]
<1>1. CASE function \in Range(FunctionIds)
  BY <1>1, LabelsAssumption DEF Family
<1>2. CASE function \notin Range(FunctionIds)
  <2>1. Family = <<>> /\ <<>> \in Seq(STRING)
    BY <1>2 DEF Family
  <2> QED
    BY <2>1
<1> QED
  BY <1>1, <1>2

(* The enrichment starts in its invariant. *)
LEMMA JobInitInv == Init => JobInv
<1> SUFFICES ASSUME Init PROVE JobInv
  OBVIOUS
<1> USE BoundsAssumption, LabelsProperty, SevenStages DEF Init
<1>1. TypeOK
  <2>1. base \in BOOLEAN /\ eff \in BOOLEAN /\ ml \in BOOLEAN /\ ctxDone \in BOOLEAN
    OBVIOUS
  <2>2. org \in Documents /\ doc \in Documents
    BY DEF Documents
  <2>3. built \in [text : BOOLEAN, function : Labels, subcategory : Labels,
                   status : {NoLabel, "enriched", "partial"}]
    BY DEF Nothing
  <2>4. lateTexts \in 0 .. MaxJobs /\ jobs \in 0 .. MaxJobs /\ changes \in 0 .. MaxChanges
    OBVIOUS
  <2>5. at \in 0 .. Send
    BY DEF Idle
  <2> QED
    BY <2>1, <2>2, <2>3, <2>4, <2>5 DEF TypeOK
<1>2. TextInv
  BY DEF TextInv, Nothing
<1>3. FamilyInv
  BY DEF FamilyInv, FamilyMatch, Nothing
<1> QED
  BY <1>1, <1>2, <1>3 DEF JobInv
-----------------------------------------------------------------------------
(* The settings. *)

(* A fetch, the ticker and a change of the org touch neither job nor       *)
(* setting.                                                                *)
LEMMA PollerInv ==
  ASSUME JobInv,
         \/ FetchAnswered \/ FetchFails \/ PollAgain \/ PollEnds \/ Cancel
         \/ \E d \in Documents : OrgChanges(d)
         \/ UNCHANGED vars
  PROVE  JobInv'
<1> USE DEF JobInv, FetchAnswered, FetchFails, PollAgain, PollEnds, Cancel,
        OrgChanges, vars, setVars, jobVars
<1>1. UNCHANGED <<base, eff, ml, jobVars>>
  OBVIOUS
<1>2. TypeOK'
  <2>1. /\ poll' \in {"due", "answered", "waiting", "ended"}
        /\ org' \in Documents /\ doc' \in Documents
    BY DEF TypeOK
  <2>2. changes' \in 0 .. MaxChanges
    <3>1. changes' = changes \/ (changes < MaxChanges /\ changes' = changes + 1)
      OBVIOUS
    <3>2. changes \in 0 .. MaxChanges /\ MaxChanges \in Nat
      BY BoundsAssumption DEF TypeOK
    <3> QED
      BY <3>1, <3>2
  <2>3. ctxDone' \in BOOLEAN
    <3>1. ctxDone' = TRUE \/ ctxDone' = ctxDone
      OBVIOUS
    <3> QED
      BY <3>1 DEF TypeOK
  <2> QED
    BY <1>1, <2>1, <2>2, <2>3 DEF TypeOK
<1>3. TextInv' /\ FamilyInv'
  BY <1>1 DEF TextInv, FamilyInv, FamilyMatch, Unconditioned, Family
<1> QED
  BY <1>2, <1>3

(* A document that is applied can only take the count of late texts back. *)
LEMMA ApplyInv == JobInv /\ Apply => JobInv'
<1> SUFFICES ASSUME JobInv, Apply PROVE JobInv'
  OBVIOUS
<1> USE DEF JobInv, Apply
<1>1. eff' \in BOOLEAN
  <2>1. (doc = "on") \in BOOLEAN /\ base \in BOOLEAN
    BY DEF TypeOK
  <2> QED
    BY <2>1 DEF Overlay
<1>2. lateTexts' \in {0, lateTexts} /\ (eff' => lateTexts' = 0)
  OBVIOUS
<1>3. TypeOK'
  <2>1. 0 \in 0 .. MaxJobs
    BY BoundsAssumption
  <2>2. lateTexts' \in 0 .. MaxJobs
    BY <1>2, <2>1 DEF TypeOK
  <2> QED
    BY <1>1, <2>2 DEF TypeOK
<1>4. TextInv'
  BY <1>2 DEF TextInv
<1>5. FamilyInv'
  BY DEF FamilyInv, FamilyMatch, Unconditioned, Family
<1> QED
  BY <1>3, <1>4, <1>5
-----------------------------------------------------------------------------
(* The job. *)

(* A job starts without a label. *)
LEMMA ResolveInv == JobInv /\ Resolve => JobInv'
<1> SUFFICES ASSUME JobInv, Resolve PROVE JobInv'
  OBVIOUS
<1> USE BoundsAssumption, LabelsProperty, SevenStages DEF JobInv, Resolve, setVars
<1>0. backend = "none"
  BY DEF TypeOK, Idle
<1>1. TypeOK'
  <2>1. at' \in 0 .. Send /\ (backend' # "none" => at' \in 1 .. Len(Stages))
    BY <1>0
  <2>2. jobs' \in 0 .. MaxJobs
    <3>1. jobs \in 0 .. MaxJobs
      BY DEF TypeOK
    <3> QED
      BY <3>1
  <2>3. function' \in Labels /\ subcategory' \in Labels
    OBVIOUS
  <2>4. entities' \in BOOLEAN /\ anyFailed' \in BOOLEAN /\ unanswered' \in BOOLEAN
    OBVIOUS
  <2> QED
    BY <2>1, <2>2, <2>3, <2>4 DEF TypeOK
<1>2. TextInv'
  BY DEF TextInv, TypeOK
<1>3. FamilyInv'
  BY <1>0 DEF FamilyInv, FamilyMatch
<1> QED
  BY <1>1, <1>2, <1>3

(* A model is picked only for a pass that has labels. *)
LEMMA PickInv ==
  ASSUME JobInv, NEW b \in {"sidecar", "deterministic"}, Pick(b)
  PROVE  JobInv'
<1> USE DEF JobInv, Pick, setVars
<1>1. TypeOK'
  BY DEF TypeOK
<1>2. TextInv'
  BY DEF TextInv
<1>3. FamilyInv'
  BY DEF FamilyInv, FamilyMatch, Unconditioned, Family
<1> QED
  BY <1>1, <1>2, <1>3

(* A stage ends with a label of its pass or without one, whoever answers. *)
LEMMA StageInv ==
  ASSUME JobInv,
         \/ SkipStage \/ StagePanics
         \/ \E answer \in {"sidecar", "none", "fallback"} : StageEnds(answer)
  PROVE  JobInv'
<1> USE SevenStages DEF JobInv, setVars
<1>1. /\ at \in 1 .. 7 /\ at' = at + 1 /\ backend' = "none"
      /\ UNCHANGED <<setVars, ctxDone, ml, built, lateTexts, jobs>>
  BY DEF SkipStage, StagePanics, StageEnds, NextStage, FamilyInv
<1>2. anyFailed' \in BOOLEAN /\ entities' \in BOOLEAN /\ unanswered' \in BOOLEAN
  BY DEF SkipStage, StagePanics, StageEnds, TypeOK
<1>3. subcategory = NoLabel
  BY <1>1 DEF FamilyInv
<1>4. /\ function' \in Labels
      /\ subcategory' # NoLabel =>
           /\ at = 7 /\ function' = function
           /\ function \in Range(FunctionIds)
           /\ subcategory' \in Range(Subcats[function])
  <2>1. CASE SkipStage \/ StagePanics
    BY <1>3, <2>1 DEF SkipStage, StagePanics, TypeOK
  <2>2. ASSUME NEW answer \in {"sidecar", "none", "fallback"}, StageEnds(answer)
        PROVE  <1>4!:
    <3>1. CASE at = 6
      <4>1. function' \in Classified(FunctionIds, answer) /\ subcategory' = NoLabel
        BY <1>3, <2>2, <3>1 DEF StageEnds
      <4> QED
        BY <4>1, ClassifiedProperty, LabelsAssumption, LabelsProperty
    <3>2. CASE at = 7
      <4>1. Family # <<>>
        BY <2>2, <3>2 DEF StageEnds, FamilyInv, Unconditioned
      <4>2. function' = function /\ subcategory' \in Classified(Family, answer)
        BY <2>2, <3>2 DEF StageEnds
      <4> QED
        BY <3>2, <4>1, <4>2, ClassifiedProperty, FamilyProperty DEF TypeOK
    <3>3. CASE at \notin {6, 7}
      BY <1>1, <1>3, <2>2, <3>3 DEF StageEnds, TypeOK
    <3> QED
      BY <3>1, <3>2, <3>3
  <2> QED
    BY <2>1, <2>2
<1>5. TypeOK'
  BY <1>1, <1>2, <1>4, LabelsProperty DEF TypeOK
<1>6. TextInv'
  BY <1>1 DEF TextInv, Idle
<1>7. FamilyInv'
  BY <1>1, <1>4 DEF FamilyInv, FamilyMatch
<1> QED
  BY <1>5, <1>6, <1>7

(* The message is built from the committed labels; once it is sent no text *)
(* is left.                                                                *)
LEMMA MessageInv == JobInv /\ (BuildMessage \/ SendMessage) => JobInv'
<1> SUFFICES ASSUME JobInv, BuildMessage \/ SendMessage PROVE JobInv'
  OBVIOUS
<1> USE SevenStages DEF JobInv, setVars
<1>1. CASE BuildMessage
  <2> USE <1>1 DEF BuildMessage
  <2>1. built'.text \in BOOLEAN /\ (built'.text => eff)
    BY DEF IncludeEntityText, TypeOK
  <2>2. built' \in [text : BOOLEAN, function : Labels, subcategory : Labels,
                    status : {NoLabel, "enriched", "partial"}]
    BY <2>1 DEF TypeOK
  <2>3. TypeOK'
    BY <2>2 DEF TypeOK
  <2>4. TextInv'
    BY <2>1 DEF TextInv, Idle
  <2>5. FamilyInv'
    BY DEF FamilyInv, FamilyMatch, TypeOK
  <2> QED
    BY <2>3, <2>4, <2>5
<1>2. CASE SendMessage
  <2> USE <1>2 DEF SendMessage
  <2>1. lateTexts' \in {0, 1} /\ (eff => lateTexts' = 0) /\ jobs > 0
    BY DEF TextInv, Idle
  <2>2. TypeOK'
    <3>1. lateTexts' \in 0 .. MaxJobs
      <4>1. jobs \in 0 .. MaxJobs
        BY DEF TypeOK
      <4> QED
        BY <2>1, <4>1, BoundsAssumption
    <3>2. built' \in [text : BOOLEAN, function : Labels, subcategory : Labels,
                      status : {NoLabel, "enriched", "partial"}]
      BY LabelsProperty DEF Nothing
    <3>3. at' \in 0 .. Send /\ backend' = "none"
      BY DEF TypeOK, Idle
    <3> QED
      BY <3>1, <3>2, <3>3 DEF TypeOK
  <2>3. TextInv'
    BY <2>1 DEF TextInv, Nothing
  <2>4. FamilyInv'
    BY DEF FamilyInv, FamilyMatch, Nothing, TypeOK, Idle
  <2> QED
    BY <2>2, <2>3, <2>4
<1> QED
  BY <1>1, <1>2

(* No step of the worker or the poller breaks the invariant. *)
LEMMA JobNextInv == JobInv /\ [Next]_vars => JobInv'
<1> SUFFICES ASSUME JobInv, [Next]_vars PROVE JobInv'
  OBVIOUS
<1>1. CASE \/ \E d \in Documents : OrgChanges(d)
           \/ PollerStep
           \/ Cancel
           \/ UNCHANGED vars
  BY <1>1, PollerInv, ApplyInv DEF PollerStep
<1>2. CASE Resolve
  BY <1>2, ResolveInv
<1>3. CASE WorkerStep
  BY <1>3, PickInv, StageInv, MessageInv DEF WorkerStep, StageStep
<1> QED
  BY <1>1, <1>2, <1>3 DEF Next

(* The inductive invariant of the enrichment holds in every reachable      *)
(* state.                                                                  *)
THEOREM EnrichmentInvariant == Spec => []JobInv
<1>1. JobInv /\ [][Next]_vars => []JobInv
  BY JobNextInv, PTL
<1> QED
  BY JobInitInv, <1>1, PTL DEF Spec

(* The stage, the model, the labels and the message of the worker, and the *)
(* settings of the poller, are always what the code can hold.              *)
THEOREM EnrichmentTypeOK == Spec => []TypeOK
  BY EnrichmentInvariant, PTL DEF JobInv

(* The message already built is the last with text after the org has       *)
(* turned entity text off.                                                 *)
THEOREM EnrichmentOneTextAfterOff == Spec => []OneTextAfterOff
<1>1. JobInv => OneTextAfterOff
  BY DEF JobInv, TextInv, OneTextAfterOff
<1> QED
  BY <1>1, EnrichmentInvariant, PTL

(* The published subcategory belongs to the published function. *)
THEOREM EnrichmentFamilyMatch == Spec => []FamilyMatch
  BY EnrichmentInvariant, PTL DEF JobInv, FamilyInv
==============================================================================
