------------------------- MODULE HookReporterProofs -------------------------
(***************************************************************************)
(* Proofs about the telemetry hook and the discovery file                  *)
(* (HookReporter.tla, Discovery.tla), for any number of hooks, contexts,   *)
(* ports and daemons.                                                      *)
(***************************************************************************)
EXTENDS HookReporter, TLAPS

(* While a hook is calm nothing is on its way that would replace the       *)
(* context on file: a hook that compares has derived the same context, and *)
(* so ends there.                                                          *)
CalmInv ==
  /\ calm # {} =>
       /\ sig = context
       /\ \A k \in Hooks : /\ pc[k] \notin {"write", "fill"}
                           /\ pc[k] = "compare" => ctx[k] = context
  /\ ReportedOnce

(* A pointer is handed over once, between reading the file and deriving    *)
(* the context.                                                            *)
HandInv == \A h \in Hooks : handed[h] # 0 => pc[h] = "derive"

(* A sole daemon is the only one up, so that what it wrote is still in the *)
(* file.                                                                   *)
SoleInv ==
  sole # 0 =>
    /\ \A m \in Daemons : Up(m) <=> m = sole
    /\ state[sole] = "writing" => agentJson = Torn
    /\ state[sole] = "serving" => agentJson = sole

(* During a steady hand-over the sole daemon serves, and is the one whose  *)
(* secret the hook sends.                                                  *)
SteadyInv ==
  \A h \in steady :
    /\ pc[h] \in {"forward", "hand", "derive"}
    /\ sole # 0 /\ state[sole] = "serving"
    /\ pc[h] = "hand" => seen[h] = sole
    /\ handed[h] \in {0, Slow, sole}

(* As long as nothing went astray, whatever is about to be sent is what is *)
(* on file.                                                                *)
SentInv ==
  /\ sig # None /\ ~astray => \A h \in Hooks : pc[h] = "post" => ctx[h] = sig
  /\ SigIsReported

(* Each is inductive together with the types, save that SteadyInv needs    *)
(* SoleInv and HandInv.                                                    *)
IInv == TypeOK /\ SentInv /\ CalmInv /\ HandInv /\ SoleInv /\ SteadyInv

(* The invariant holds at the start. *)
LEMMA InitInv == Init => IInv
<1> SUFFICES ASSUME Init PROVE IInv
  OBVIOUS
<1> USE HookAssumption DEF Init, DiscoveryInit
<1>1. TypeOK
  <2>1. DiscoveryTypeOK
    BY DEF DiscoveryTypeOK, Daemons, NoFile, Torn
  <2>2. runs \in 0 .. MaxRuns /\ kills \in 0 .. MaxKills /\ changes \in 0 .. MaxChanges
    OBVIOUS
  <2>3. /\ seen \in [Hooks -> Daemons \cup {0}]
        /\ handed \in [Hooks -> Daemons \cup {0, Slow, Unheard}]
        /\ ctx \in [Hooks -> Contexts \cup {None}]
    OBVIOUS
  <2> QED
    BY <2>1, <2>2, <2>3 DEF TypeOK
<1>2. SentInv /\ CalmInv /\ SoleInv /\ SteadyInv
  BY DEF SentInv, SigIsReported, CalmInv, ReportedOnce, SoleInv, SteadyInv
<1>3. HandInv
  BY DEF HandInv
<1> QED
  BY <1>1, <1>2, <1>3 DEF IInv
-----------------------------------------------------------------------------
(* Types. *)

(* The steps of the daemons keep the types of the discovery file. *)
LEMMA DaemonTypes ==
  ASSUME DiscoveryTypeOK, DaemonComesOrGoes \/ DaemonWrites
  PROVE  DiscoveryTypeOK'
<1> USE HookAssumption DEF DiscoveryTypeOK
<1>1. ASSUME NEW n \in Daemons, Listen(n) PROVE DiscoveryTypeOK'
  BY <1>1 DEF Listen
<1>2. ASSUME NEW n \in Daemons, Exit(n) PROVE DiscoveryTypeOK'
  BY <1>2 DEF Exit
<1>3. ASSUME NEW n \in Daemons, TruncateAgent(n) PROVE DiscoveryTypeOK'
  BY <1>3 DEF TruncateAgent
<1>4. ASSUME NEW n \in Daemons, FillAgent(n) PROVE DiscoveryTypeOK'
  <2>1. agentJson' \in {n, Torn}
    BY <1>4 DEF FillAgent
  <2> QED
    BY <1>4, <2>1 DEF FillAgent
<1> QED
  BY <1>1, <1>2, <1>3, <1>4 DEF DaemonComesOrGoes, DaemonWrites

(* A step of a hook keeps every file and variable within its type. *)
LEMMA HookTypes ==
  ASSUME TypeOK, NEW h \in Hooks, HookStep(h)
  PROVE  TypeOK'
<1> USE HookAssumption DEF TypeOK, Goto, Ends, GoOnToPost, fileVars, outVars, handVars,
        discoveryVars, DiscoveryTypeOK
<1>1. CASE ReadAgent(h)
  <2>1. CASE agentJson \in Daemons
    <3>1. agentJson # 0
      BY <2>1 DEF Daemons
    <3> QED
      BY <1>1, <2>1, <3>1 DEF ReadAgent
  <2>2. CASE agentJson \notin Daemons
    BY <1>1, <2>2 DEF ReadAgent
  <2> QED
    BY <2>1, <2>2
<1>2. CASE HandOver(h)
  <2>1. handed' \in [Hooks -> Daemons \cup {0, Slow, Unheard}]
    BY <1>2 DEF HandOver, Takes, AnswersFor
  <2> QED
    BY <1>2, <2>1 DEF HandOver
<1>3. CASE Derive(h)
  BY <1>3 DEF Derive, Derives
<1>4. CASE Compare(h)
  BY <1>4 DEF Compare
<1>5. CASE NothingToHand(h)
  BY <1>5 DEF NothingToHand
<1>6. CASE DeriveLate(h)
  BY <1>6 DEF DeriveLate, Derives
<1>7. CASE TruncateSig(h)
  BY <1>7 DEF TruncateSig
<1>8. CASE FillSig(h)
  BY <1>8 DEF FillSig
<1>9. CASE SigUnwritable(h)
  BY <1>9 DEF SigUnwritable
<1>10. CASE PostTaken(h)
  BY <1>10 DEF PostTaken
<1>11. CASE PostFails(h)
  BY <1>11 DEF PostFails
<1> QED
  BY <1>1, <1>2, <1>3, <1>4, <1>5, <1>6, <1>7, <1>8, <1>9, <1>10, <1>11
     DEF HookStep

(* Every step does. *)
LEMMA TypesKept == TypeOK /\ [Next]_vars => TypeOK'
<1> SUFFICES ASSUME TypeOK, [Next]_vars PROVE TypeOK'
  OBVIOUS
<1> USE HookAssumption DEF fileVars, hookVars, outVars, handVars, discoveryVars
<1>1. ASSUME NEW h \in Hooks, Begin(h) PROVE TypeOK'
  BY <1>1 DEF Begin, TypeOK, DiscoveryTypeOK
<1>2. ASSUME NEW h \in Hooks, HookStep(h) PROVE TypeOK'
  BY <1>2, HookTypes
<1>3. ASSUME NEW h \in Hooks, Killed(h) PROVE TypeOK'
  BY <1>3 DEF Killed, TypeOK, DiscoveryTypeOK
<1>4. ASSUME NEW c \in Contexts, ContextChanges(c) PROVE TypeOK'
  BY <1>4 DEF ContextChanges, TypeOK, DiscoveryTypeOK
<1>5. CASE Configure \/ Unconfigure
  <2>1. changes' \in 0 .. MaxChanges
    BY <1>5 DEF Configure, Unconfigure, TypeOK
  <2>2. configured' \in BOOLEAN
    BY <1>5, Zenon DEF Configure, Unconfigure
  <2> QED
    BY <1>5, <2>1, <2>2 DEF Configure, Unconfigure, TypeOK, DiscoveryTypeOK
<1>6. CASE DaemonStep
  <2>1. DiscoveryTypeOK'
    BY <1>6, DaemonTypes DEF DaemonStep, TypeOK
  <2>2. steady' \subseteq Hooks
    BY <1>6 DEF DaemonStep, TypeOK
  <2> QED
    BY <1>6, <2>1, <2>2 DEF DaemonStep, TypeOK
<1>7. CASE UNCHANGED vars
  BY <1>7 DEF vars, TypeOK, DiscoveryTypeOK
<1> QED
  BY <1>1, <1>2, <1>3, <1>4, <1>5, <1>6, <1>7 DEF Next
-----------------------------------------------------------------------------
(* What is on file is what was reported. *)

(* A hook that fills the file goes on to its POST, beside others of the    *)
(* same context only; when it leaves it, Atlas got the context, or the     *)
(* report went astray.                                                     *)
LEMMA SentKept == TypeOK /\ SentInv /\ [Next]_vars => SentInv'
<1> SUFFICES ASSUME TypeOK, SentInv, [Next]_vars PROVE SentInv'
  OBVIOUS
<1> USE DEF SentInv, SigIsReported, TypeOK, Goto, Ends, GoOnToPost, fileVars, hookVars, outVars
<1>1. ASSUME NEW h \in Hooks,
             \/ Begin(h) \/ ReadAgent(h) \/ NothingToHand(h) \/ HandOver(h)
             \/ Derive(h) \/ DeriveLate(h) \/ Compare(h)
      PROVE  SentInv'
  <2>1. UNCHANGED <<sig, reported, astray>> /\ pc[h] # "post" /\ pc'[h] # "post"
    BY <1>1 DEF Begin, ReadAgent, NothingToHand, HandOver, Derive, DeriveLate, Derives, Compare
  <2>2. \A k \in Hooks : k # h => pc'[k] = pc[k] /\ ctx'[k] = ctx[k]
    BY <1>1 DEF Begin, ReadAgent, NothingToHand, HandOver, Derive, DeriveLate, Derives, Compare
  <2> QED
    BY <2>1, <2>2
<1>2. ASSUME NEW h \in Hooks, TruncateSig(h) PROVE SentInv'
  BY <1>2 DEF TruncateSig
<1>3. ASSUME NEW h \in Hooks, FillSig(h) PROVE SentInv'
  BY <1>3 DEF FillSig
<1>4. ASSUME NEW h \in Hooks, SigUnwritable(h) \/ PostFails(h) PROVE SentInv'
  BY <1>4 DEF SigUnwritable, PostFails
<1>5. ASSUME NEW h \in Hooks, PostTaken(h) PROVE SentInv'
  <2>1. /\ UNCHANGED <<sig, astray>> /\ pc[h] = "post"
        /\ reported' = ctx[h] /\ pc'[h] = "idle"
    BY <1>5 DEF PostTaken
  <2>2. \A k \in Hooks : k # h => pc'[k] = pc[k] /\ ctx'[k] = ctx[k]
    BY <1>5 DEF PostTaken
  <2> QED
    BY <2>1, <2>2
<1>6. ASSUME NEW h \in Hooks, Killed(h) PROVE SentInv'
  <2>1. CASE pc[h] = "post"
    BY <1>6, <2>1 DEF Killed
  <2>2. CASE pc[h] # "post"
    <3>1. UNCHANGED <<sig, reported, astray>> /\ pc'[h] = "idle"
      BY <1>6, <2>2 DEF Killed
    <3>2. \A k \in Hooks : k # h => pc'[k] = pc[k] /\ ctx'[k] = ctx[k]
      BY <1>6 DEF Killed
    <3> QED
      BY <2>2, <3>1, <3>2
  <2> QED
    BY <2>1, <2>2
<1>7. CASE Unconfigure
  BY <1>7 DEF Unconfigure
<1>8. CASE \/ \E c \in Contexts : ContextChanges(c)
           \/ Configure \/ DaemonStep \/ UNCHANGED vars
  <2>1. UNCHANGED <<sig, reported, astray, pc, ctx>>
    BY <1>8 DEF ContextChanges, Configure, DaemonStep, vars
  <2> QED
    BY <2>1
<1> QED
  BY <1>1, <1>2, <1>3, <1>4, <1>5, <1>6, <1>7, <1>8 DEF Next, HookStep
-----------------------------------------------------------------------------
(* Reported once. *)

(* While a hook is calm nothing is under way that would replace the        *)
(* context on file.                                                        *)
LEMMA CalmKept == TypeOK /\ CalmInv /\ [Next]_vars => CalmInv'
<1> SUFFICES ASSUME TypeOK, CalmInv, [Next]_vars PROVE CalmInv'
  OBVIOUS
<1> USE DEF CalmInv, ReportedOnce, TypeOK, Goto, Ends, GoOnToPost, fileVars, hookVars, outVars
(* A hook joins the calm ones only when none is past its derivation. *)
<1>1. ASSUME NEW h \in Hooks, Begin(h) PROVE CalmInv'
  BY <1>1 DEF Begin
<1>2. ASSUME NEW h \in Hooks, ReadAgent(h) \/ NothingToHand(h) \/ HandOver(h)
      PROVE  CalmInv'
  <2>1. /\ UNCHANGED <<calm, sig, context, ctx>>
        /\ pc'[h] \in {"hand", "derive"}
        /\ \A k \in Hooks : k # h => pc'[k] = pc[k]
    BY <1>2 DEF ReadAgent, NothingToHand, HandOver
  <2> QED
    BY <2>1
<1>3. ASSUME NEW h \in Hooks, Derive(h) PROVE CalmInv'
  BY <1>3 DEF Derive, Derives
<1>4. ASSUME NEW h \in Hooks, DeriveLate(h) PROVE CalmInv'
  BY <1>4 DEF DeriveLate
(* While any hook is calm, one that compares finds its context on file. *)
<1>5. ASSUME NEW h \in Hooks, Compare(h) PROVE CalmInv'
  BY <1>5 DEF Compare, Unchanged
(* While any hook is calm, none is there to write. *)
<1>6. ASSUME NEW h \in Hooks, TruncateSig(h) \/ FillSig(h) \/ SigUnwritable(h)
      PROVE  CalmInv'
  <2>1. calm = {}
    BY <1>6 DEF TruncateSig, FillSig, SigUnwritable
  <2>2. calm' = {}
    BY <1>6, <2>1 DEF TruncateSig, FillSig, SigUnwritable
  <2> QED
    BY <2>2
<1>7. ASSUME NEW h \in Hooks, PostTaken(h) \/ PostFails(h) \/ Killed(h)
      PROVE  CalmInv'
  <2>1. /\ UNCHANGED <<calm, sig, context>>
        /\ pc'[h] = "idle"
        /\ \A k \in Hooks : k # h => pc'[k] = pc[k] /\ ctx'[k] = ctx[k]
    BY <1>7 DEF PostTaken, PostFails, Killed
  <2> QED
    BY <2>1
<1>8. CASE (\E c \in Contexts : ContextChanges(c)) \/ Unconfigure
  BY <1>8 DEF ContextChanges, Unconfigure
<1>9. CASE Configure \/ DaemonStep \/ UNCHANGED vars
  <2>1. UNCHANGED <<calm, sig, context, ctx, pc>>
    BY <1>9 DEF Configure, DaemonStep, vars
  <2> QED
    BY <2>1
<1> QED
  BY <1>1, <1>2, <1>3, <1>4, <1>5, <1>6, <1>7, <1>8, <1>9 DEF Next, HookStep
-----------------------------------------------------------------------------
(* The hand-over. *)

(* A pointer is handed over before the context is derived, and only once.  *)
LEMMA HandKept == TypeOK /\ HandInv /\ [Next]_vars => HandInv'
<1> SUFFICES ASSUME TypeOK, HandInv, [Next]_vars PROVE HandInv'
  OBVIOUS
<1> USE DEF HandInv, TypeOK, Goto, Ends, GoOnToPost, hookVars, handVars
<1>1. ASSUME NEW h \in Hooks, Begin(h) PROVE HandInv'
  <2>1. UNCHANGED <<handed, seen>> /\ pc[h] = "idle"
    BY <1>1 DEF Begin
  <2>2. \A k \in Hooks : k # h => pc'[k] = pc[k]
    BY <1>1 DEF Begin
  <2> QED
    BY <2>1, <2>2
<1>2. ASSUME NEW h \in Hooks, ReadAgent(h) \/ NothingToHand(h) \/ HandOver(h)
      PROVE  HandInv'
  <2>1. /\ handed[h] = 0
        /\ handed'[h] # 0 => pc'[h] = "derive"
        /\ \A k \in Hooks : k # h => pc'[k] = pc[k] /\ handed'[k] = handed[k]
    BY <1>2 DEF ReadAgent, NothingToHand, HandOver
  <2> QED
    BY <2>1
<1>3. ASSUME NEW h \in Hooks, Derive(h) \/ DeriveLate(h) \/ Killed(h) PROVE HandInv'
  BY <1>3 DEF Derive, DeriveLate, Derives, Killed
<1>4. ASSUME NEW h \in Hooks,
             \/ Compare(h) \/ TruncateSig(h) \/ FillSig(h) \/ SigUnwritable(h)
             \/ PostTaken(h) \/ PostFails(h)
      PROVE  HandInv'
  <2>1. UNCHANGED <<handed, seen>> /\ pc[h] # "derive"
    BY <1>4 DEF Compare, TruncateSig, FillSig, SigUnwritable, PostTaken, PostFails
  <2>2. \A k \in Hooks : k # h => pc'[k] = pc[k]
    BY <1>4 DEF Compare, TruncateSig, FillSig, SigUnwritable, PostTaken, PostFails
  <2> QED
    BY <2>1, <2>2
<1>5. CASE \/ \E c \in Contexts : ContextChanges(c)
           \/ Configure \/ Unconfigure \/ DaemonStep \/ UNCHANGED vars
  <2>1. UNCHANGED handed /\ \A k \in Hooks : pc[k] = "derive" => pc'[k] = "derive"
    BY <1>5 DEF ContextChanges, Configure, Unconfigure, DaemonStep, vars
  <2> QED
    BY <2>1
<1> QED
  BY <1>1, <1>2, <1>3, <1>4, <1>5 DEF Next, HookStep
-----------------------------------------------------------------------------
(* The file leads to the daemon that runs. *)

(* A daemon that starts alone truncates the file before it fills it, and   *)
(* nobody else is there to write.                                          *)
LEMMA SoleKept ==
  ASSUME DiscoveryTypeOK, SoleInv, DaemonComesOrGoes \/ DaemonWrites
  PROVE  SoleInv'
<1> USE HookAssumption DEF SoleInv, DiscoveryTypeOK, Up
<1>1. ASSUME NEW n \in Daemons, Listen(n) PROVE SoleInv'
  BY <1>1 DEF Listen
<1>2. ASSUME NEW n \in Daemons, Exit(n) PROVE SoleInv'
  BY <1>2 DEF Exit
<1>3. ASSUME NEW n \in Daemons, TruncateAgent(n) PROVE SoleInv'
  BY <1>3 DEF TruncateAgent
<1>4. ASSUME NEW n \in Daemons, FillAgent(n) PROVE SoleInv'
  BY <1>4 DEF FillAgent
<1> QED
  BY <1>1, <1>2, <1>3, <1>4 DEF DaemonComesOrGoes, DaemonWrites

(* A hook leaves the daemons and their file alone. *)
LEMMA OnlyDaemonsWrite ==
  [Next]_vars => DaemonStep \/ UNCHANGED discoveryVars
  BY DEF Next, vars, discoveryVars, Begin, HookStep, ReadAgent, NothingToHand,
         HandOver, Derive, DeriveLate, Derives, Compare, TruncateSig, FillSig,
         SigUnwritable, PostTaken, PostFails, Killed, ContextChanges,
         Configure, Unconfigure

(* During a steady hand-over the daemon serves and the hook reads its      *)
(* file.                                                                   *)
LEMMA SteadyKept ==
  TypeOK /\ HandInv /\ SoleInv /\ SteadyInv /\ [Next]_vars => SteadyInv'
<1> SUFFICES ASSUME TypeOK, HandInv, SoleInv, SteadyInv, [Next]_vars PROVE SteadyInv'
  OBVIOUS
<1> USE DEF SteadyInv, Goto, Ends, GoOnToPost, hookVars, handVars, discoveryVars
<1>1. ASSUME NEW h \in Hooks, Begin(h) PROVE SteadyInv'
  <2>1. handed[h] = 0
    BY <1>1 DEF Begin, HandInv
  <2> QED
    BY <1>1, <2>1 DEF Begin, TypeOK
<1>2. ASSUME NEW h \in Hooks, ReadAgent(h) PROVE SteadyInv'
  <2>1. h \in steady => agentJson = sole /\ sole \in Daemons
    BY DEF SoleInv, TypeOK, DiscoveryTypeOK
  <2> QED
    BY <1>2, <2>1 DEF ReadAgent, TypeOK
<1>3. ASSUME NEW h \in Hooks, HandOver(h) PROVE SteadyInv'
  <2>1. h \in steady => seen[h] = sole /\ sole \in Takes(sole)
    BY <1>3 DEF HandOver, Takes, AnswersFor, SecretMatches, TypeOK, DiscoveryTypeOK
  <2>2. Takes(sole) \subseteq {sole}
    BY DEF Takes, SecretMatches
  <2>3. h \in steady => handed'[h] \in {Slow, sole}
    BY <1>3, <2>1, <2>2 DEF HandOver, TypeOK
  <2>4. \A k \in Hooks : k # h => handed'[k] = handed[k]
    BY <1>3 DEF HandOver, TypeOK
  <2> QED
    BY <1>3, <2>3, <2>4 DEF HandOver, TypeOK
<1>4. ASSUME NEW h \in Hooks, NothingToHand(h) PROVE SteadyInv'
  BY <1>4 DEF NothingToHand, TypeOK
<1>5. ASSUME NEW h \in Hooks, Derive(h) \/ DeriveLate(h) \/ Killed(h)
      PROVE  SteadyInv'
  BY <1>5 DEF Derive, DeriveLate, Derives, Killed, TypeOK
<1>6. ASSUME NEW h \in Hooks,
             \/ Compare(h) \/ TruncateSig(h) \/ FillSig(h) \/ SigUnwritable(h)
             \/ PostTaken(h) \/ PostFails(h)
      PROVE  SteadyInv'
  <2>1. UNCHANGED <<handed, steady, seen, sole, state>> /\ h \notin steady
    BY <1>6 DEF Compare, TruncateSig, FillSig, SigUnwritable, PostTaken, PostFails
  <2>2. \A k \in Hooks : k # h => pc'[k] = pc[k]
    BY <1>6 DEF Compare, TruncateSig, FillSig, SigUnwritable, PostTaken, PostFails, TypeOK
  <2> QED
    BY <2>1, <2>2 DEF TypeOK
<1>7. CASE DaemonStep
  <2>1. CASE DaemonComesOrGoes /\ steady' = {}
    BY <2>1
  <2>2. CASE DaemonWrites /\ UNCHANGED steady
    <3>1. PICK n \in Daemons : TruncateAgent(n) \/ FillAgent(n)
      BY <2>2 DEF DaemonWrites
    <3>2. state[n] # "serving" /\ UNCHANGED sole /\ \A m \in Daemons : m # n => state'[m] = state[m]
      BY <3>1 DEF TruncateAgent, FillAgent, TypeOK, DiscoveryTypeOK
    <3>3. sole # 0 /\ state[sole] = "serving" => state'[sole'] = "serving"
      BY <3>2 DEF TypeOK, DiscoveryTypeOK
    <3> QED
      BY <1>7, <2>2, <3>2, <3>3 DEF DaemonStep
  <2> QED
    BY <1>7, <2>1, <2>2 DEF DaemonStep
<1>8. CASE \/ \E c \in Contexts : ContextChanges(c)
           \/ Configure \/ Unconfigure \/ UNCHANGED vars
  <2>1. /\ UNCHANGED <<handed, steady, seen, sole, state>>
        /\ \A k \in Hooks : pc[k] # "fill" => pc'[k] = pc[k]
    BY <1>8 DEF ContextChanges, Configure, Unconfigure, vars
  <2> QED
    BY <2>1 DEF TypeOK
<1> QED
  BY <1>1, <1>2, <1>3, <1>4, <1>5, <1>6, <1>7, <1>8 DEF Next, HookStep
-----------------------------------------------------------------------------
(* No step breaks the invariant. *)
LEMMA NextInv == IInv /\ [Next]_vars => IInv'
<1> SUFFICES ASSUME IInv, [Next]_vars PROVE IInv'
  OBVIOUS
<1>1. SoleInv'
  <2>1. CASE DaemonStep
    BY <2>1, SoleKept DEF DaemonStep, IInv, TypeOK
  <2>2. CASE UNCHANGED discoveryVars
    BY <2>2 DEF IInv, SoleInv, Up, discoveryVars
  <2> QED
    BY <2>1, <2>2, OnlyDaemonsWrite
<1> QED
  BY <1>1, TypesKept, SentKept, CalmKept, HandKept, SteadyKept DEF IInv

(* The inductive invariant holds in every reachable state. *)
THEOREM HookInvariant == Spec => []IInv
<1>1. IInv /\ [][Next]_vars => []IInv
  BY NextInv, PTL
<1> QED
  BY InitInv, <1>1, PTL DEF Spec

(* Type correctness, of the hooks and of the discovery file. *)
THEOREM HookTypeOK == Spec => []TypeOK
  BY HookInvariant, PTL DEF IInv

(* hook.go saves the signature before it posts: still, unless a report     *)
(* went astray since, what is on file is what Atlas got last, or what is   *)
(* about to be sent, however many hooks overlap.                           *)
THEOREM HookSigIsReported == Spec => []SigIsReported
<1>1. IInv => SigIsReported
  BY DEF IInv, SentInv
<1> QED
  BY <1>1, HookInvariant, PTL

(* Hooks of the context on file report nothing, as long as none was about  *)
(* to replace it when they began.                                          *)
THEOREM HookReportedOnce == Spec => []ReportedOnce
  BY HookInvariant, PTL DEF IInv, CalmInv

(* A hook reaches a daemon that serves alone, whatever earlier ones left   *)
(* in agent.json.                                                          *)
THEOREM HookSteadyIsHeard == Spec => []SteadyIsHeard
<1>1. IInv => SteadyIsHeard
  BY DEF IInv, SteadyInv, SteadyIsHeard
<1> QED
  BY <1>1, HookInvariant, PTL
=============================================================================
