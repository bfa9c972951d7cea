------------------------- MODULE CalderaHarnessProofs -------------------------
(***************************************************************************)
(* What holds of the CALDERA harness for any number of runs, any abilities  *)
(* and flags, and any failures and kills.                                   *)
(***************************************************************************)
EXTENDS CalderaHarness, TLAPS

\* What each run's own state says of itself.
Own(r) ==
  /\ pc[r] = "idle" => ability[r] = "processes"
  /\ pc[r] \in Early => saved[r] = NoFile /\ r \notin restored
  /\ pc[r] \in Early \union {"shell", "execute"} => event[r] = "none"
  /\ pc[r] \in Early \union {"shell", "execute", "restore", "flush"} => found[r] = {}
  /\ pc[r] = "restore" => ability[r] = "avoid_logs"
  /\ r \in restored => pc[r] \in {"flush", "trace", "window", "logs", "report", "done"}
  /\ outcome[r] = "ok" => pc[r] = "done"
  /\ "trace" \in found[r] => span[r] = "searchable"
  /\ outcome[r] \in Verdicts /\ pc[r] = "done" /\ r \notin littered => temp[r] = {}
  /\ saved[r].lines = {} \/ "backup" \in temp[r] \/ (pc[r] = "done" /\ outcome[r] \in Verdicts)

\* Between staging and its end a run has no other avoider beside it, nor has a
\* run that has restored the history ever after, unless they crossed.
Touched(r) == pc[r] \notin Early \union {"done"} \/ r \in restored

Separate ==
  \A r \in Avoiders \ crossed : Touched(r) =>
    \A q \in Avoiders \ {r} : pc[q] \in Early \union {"done"}

\* A history that was restored is not touched again, unless by a run that crosses.
RestoredStays ==
  \A r \in Avoiders \ crossed : r \in restored => saved[r].lines \subseteq history.lines

\* A result of the log queries rests on an event.
FoundIsThere == \A r \in Runs : "logs" \in found[r] => Expected(r) /\ Matching(r) # {}

IInv ==
  /\ TypeOK
  /\ \A r \in Runs : Own(r)
  /\ Separate
  /\ RestoredStays
  /\ FoundIsThere
  /\ VerdictIsTrue

USE DEF Labels, Verdicts, Files, NoFile, AbilityKinds, Flags

-----------------------------------------------------------------------------
(* Types.                                                                   *)

LEMMA GotoType ==
  ASSUME TypeOK, NEW r \in Runs, NEW l \in Labels, Goto(r, l)
  PROVE  pc' \in [Runs -> Labels]
  BY DEF TypeOK, Goto

LEMMA SetsType ==
  ASSUME TypeOK, NEW r \in Runs, NEW o \in Verdicts \union {"none", "aborted", "killed"}, Sets(r, o)
  PROVE  outcome' \in [Runs -> Verdicts \union {"none", "aborted", "killed"}]
  BY DEF TypeOK, Sets

LEMMA AbortsType ==
  ASSUME TypeOK, NEW r \in Runs, Aborts(r)
  PROVE  /\ pc' \in [Runs -> Labels]
         /\ outcome' \in [Runs -> Verdicts \union {"none", "aborted", "killed"}]
  BY GotoType, SetsType DEF Aborts

LEMMA FailsType ==
  ASSUME TypeOK, Fails
  PROVE  failures' \in 0..MaxFailures
  <1>1. failures \in 0..MaxFailures
    BY DEF TypeOK
  <1> QED  BY <1>1, BoundAssumption DEF Fails

LEMMA KillsType ==
  ASSUME TypeOK, NEW r \in Runs, Kill(r)
  PROVE  kills' \in 0..MaxKills
  <1>1. kills \in 0..MaxKills
    BY DEF TypeOK
  <1>2. kills < MaxKills /\ kills' = kills + 1
    BY DEF Kill
  <1> QED  BY <1>1, <1>2, BoundAssumption

LEMMA CommandType ==
  ASSUME TypeOK, NEW r \in Runs, CommandDone(r) \/ UNCHANGED <<history, event>>
  PROVE  history' \in Files /\ event' \in [Runs -> {"none", "raised", "stamped", "searchable"}]
  <1>1. history \in Files /\ event \in [Runs -> {"none", "raised", "stamped", "searchable"}]
    BY DEF TypeOK
  <1>2. [exists |-> TRUE, lines |-> {}] \in Files
    OBVIOUS
  <1>3. CASE CommandDone(r)
    BY <1>1, <1>2, <1>3 DEF CommandDone
  <1> QED  BY <1>1, <1>3

LEMMA SetupType ==
  ASSUME TypeOK, NEW r \in Runs, Setup(r)
  PROVE  TypeOK'
  <1> USE DEF TypeOK, shared, inputs, backend, searches, counters, ghosts
  <1>1. CASE Bootstrap(r)
    BY <1>1, GotoType, SetsType, AbortsType, FailsType, CommandType DEF Bootstrap
  <1>2. CASE Clone(r)
    BY <1>2, GotoType, SetsType, AbortsType, FailsType, CommandType DEF Clone
  <1>3. CASE EndClone(r)
    BY <1>3, GotoType, SetsType, AbortsType, FailsType, CommandType DEF EndClone
  <1>4. CASE Submodule(r)
    BY <1>4, GotoType, SetsType, AbortsType, FailsType, CommandType DEF Submodule
  <1>5. CASE EndCheckout(r)
    BY <1>5, GotoType, SetsType, AbortsType, FailsType, CommandType DEF EndCheckout
  <1>6. CASE LoadAbility(r)
    BY <1>6, GotoType, SetsType, AbortsType, FailsType, CommandType DEF LoadAbility
  <1>7. CASE Stage(r)
    <2>1. Directory(r) \subseteq {"staging", "home", "backup"}
      BY DEF Directory
    <2>2. [history EXCEPT !.exists = TRUE] \in Files
      OBVIOUS
    <2>3. CASE ability[r] = "avoid_logs"
      <3>1. saved' = [saved EXCEPT ![r] = history] /\ history' = [history EXCEPT !.exists = TRUE]
        BY <1>7, <2>3 DEF Stage
      <3>2. saved' \in [Runs -> Files]
        BY <3>1
      <3>3. crossed' \subseteq Runs
        <4>1. crossed \subseteq Runs /\ Others(r) \subseteq Runs
          BY DEF Others, Avoiders
        <4> QED  BY <1>7, <2>3, <4>1 DEF Stage
      <3> QED  BY <1>7, <2>1, <2>2, <3>1, <3>2, <3>3, GotoType DEF Stage, ghosts
    <2>4. CASE ability[r] # "avoid_logs"
      BY <1>7, <2>1, <2>4, GotoType DEF Stage
    <2> QED  BY <2>3, <2>4
  <1>8. CASE StageFails(r)
    BY <1>8, GotoType, SetsType, AbortsType, FailsType, CommandType DEF StageFails, Directory
  <1>9. CASE PrepareShell(r)
    BY <1>9, GotoType, SetsType, AbortsType, FailsType, CommandType DEF PrepareShell
  <1> QED  BY <1>1, <1>2, <1>3, <1>4, <1>5, <1>6, <1>7, <1>8, <1>9 DEF Setup

LEMMA EmulateType ==
  ASSUME TypeOK, NEW r \in Runs, Emulate(r)
  PROVE  TypeOK'
  <1> USE DEF TypeOK, shared, inputs, backend, searches, counters, ghosts
  <1>1. CASE Execute(r)
    BY <1>1, GotoType, SetsType, AbortsType, FailsType, CommandType DEF Execute
  <1>2. CASE CommandTimesOut(r)
    BY <1>2, GotoType, SetsType, AbortsType, FailsType, CommandType DEF CommandTimesOut
  <1>3. CASE Restore(r)
    BY <1>3, GotoType, SetsType, AbortsType, FailsType, CommandType DEF Restore
  <1>4. CASE RestoreFails(r)
    BY <1>4, GotoType, SetsType, AbortsType, FailsType, CommandType DEF RestoreFails
  <1>5. CASE Flush(r)
    <2>1. pc' \in [Runs -> Labels]
      BY <1>5, GotoType DEF Flush
    <2>2. span' \in [Runs -> {"none", "lost", "sent", "searchable"}] /\ failures' \in 0..MaxFailures
      BY <1>5, FailsType DEF Flush
    <2> QED  BY <1>5, <2>1, <2>2 DEF Flush
  <1> QED  BY <1>1, <1>2, <1>3, <1>4, <1>5 DEF Emulate

LEMMA VerifyType ==
  ASSUME TypeOK, NEW r \in Runs, Verify(r)
  PROVE  TypeOK'
  <1> USE DEF TypeOK, shared, inputs, backend, searches, counters, ghosts
  <1>1. CASE TraceFound(r)
    BY <1>1, GotoType, SetsType, AbortsType, FailsType, CommandType DEF TraceFound
  <1>2. CASE TraceTimesOut(r)
    BY <1>2, GotoType, SetsType, AbortsType, FailsType, CommandType DEF TraceTimesOut
  <1>3. CASE FixWindow(r)
    <2>1. window' \in [Runs -> SUBSET Runs]
      <3>1. \/ window' = window
            \/ \E w \in SUBSET Stamped : window' = [window EXCEPT ![r] = w]
        BY <1>3 DEF FixWindow
      <3>2. Stamped \subseteq Runs
        BY DEF Stamped
      <3>3. CASE \E w \in SUBSET Stamped : window' = [window EXCEPT ![r] = w]
        <4> HIDE DEF TypeOK
        <4>1. PICK w \in SUBSET Stamped : window' = [window EXCEPT ![r] = w]
          BY <3>3
        <4>2. window \in [Runs -> SUBSET Runs] /\ w \in SUBSET Runs
          BY <3>2 DEF TypeOK
        <4> QED  BY <4>1, <4>2
      <3> QED  BY <3>1, <3>3
    <2>2. pc' \in [Runs -> Labels]
      BY <1>3, GotoType DEF FixWindow
    <2> QED  BY <1>3, <2>1, <2>2 DEF FixWindow
  <1>4. CASE LogsFound(r)
    BY <1>4, GotoType, SetsType, AbortsType, FailsType, CommandType DEF LogsFound
  <1>5. CASE LogsTimeOut(r)
    BY <1>5, GotoType, SetsType, AbortsType, FailsType, CommandType DEF LogsTimeOut
  <1>6. CASE SearchFails(r)
    BY <1>6, GotoType, SetsType, AbortsType, FailsType, CommandType DEF SearchFails, CleanupStage
  <1>7. CASE Report(r)
    BY <1>7, GotoType, SetsType, AbortsType, FailsType, CommandType DEF Report, CleanupStage, Verdict
  <1> QED  BY <1>1, <1>2, <1>3, <1>4, <1>5, <1>6, <1>7 DEF Verify

LEMMA TypeStep ==
  ASSUME TypeOK, [Next]_vars
  PROVE  TypeOK'
  <1> USE DEF TypeOK, shared, inputs, backend, searches, counters, ghosts
  <1>1. ASSUME NEW r \in Runs, Begin(r)
        PROVE  TypeOK'
    BY <1>1, GotoType, CommandAssumption DEF Begin
  <1>2. ASSUME NEW r \in Runs, Kill(r)
        PROVE  TypeOK'
    BY <1>2, KillsType, GotoType, SetsType, CommandType DEF Kill
  <1>3. ASSUME NEW r \in Runs, Collect(r)
        PROVE  TypeOK'
    BY <1>3 DEF Collect
  <1>4. ASSUME NEW r \in Runs, IndexSpan(r)
        PROVE  TypeOK'
    BY <1>4 DEF IndexSpan
  <1>5. ASSUME NEW l \in Lines, Type(l)
        PROVE  TypeOK'
    BY <1>5 DEF Type
  <1>6. CASE UNCHANGED vars
    BY <1>6 DEF vars
  <1> QED  BY <1>1, <1>2, <1>3, <1>4, <1>5, <1>6, SetupType, EmulateType, VerifyType DEF Next, Run

-----------------------------------------------------------------------------
(* What a step of one run does to the others.                               *)

Rest(r) == Begin(r) \/ Kill(r) \/ Collect(r) \/ IndexSpan(r)
Step(r) == Setup(r) \/ Emulate(r) \/ Verify(r) \/ Rest(r)

\* Nothing of its own state changes.
Same(q) ==
  /\ pc'[q] = pc[q] /\ ability'[q] = ability[q] /\ options'[q] = options[q]
  /\ saved'[q] = saved[q] /\ temp'[q] = temp[q]
  /\ event'[q] = event[q] /\ span'[q] = span[q]
  /\ found'[q] = found[q] /\ outcome'[q] = outcome[q]
  /\ q \in restored' <=> q \in restored
  /\ q \in littered' <=> q \in littered

LEMMA AbortsFrame ==
  ASSUME TypeOK, NEW r \in Runs, Aborts(r)
  PROVE  /\ pc'[r] = "done" /\ outcome'[r] = "aborted"
         /\ \A q \in Runs \ {r} : pc'[q] = pc[q] /\ outcome'[q] = outcome[q]
  BY DEF TypeOK, Aborts, Goto, Sets

LEMMA StageFresh ==
  ASSUME NEW r \in Runs, Own(r), pc[r] = "stage"
  PROVE  saved[r].lines = {}
  <1>1. saved[r] = NoFile
    BY DEF Own, Early
  <1> QED  BY <1>1

LEMMA SetupMoves ==
  ASSUME TypeOK, NEW r \in Runs, Setup(r), NEW q \in Runs \ {r}
  PROVE  pc'[q] = pc[q] /\ outcome'[q] = outcome[q]
  <1> HIDE DEF Labels
  <1>1. DOMAIN pc = Runs /\ DOMAIN outcome = Runs
    BY DEF TypeOK
  <1>2. CASE Bootstrap(r)
    BY <1>1, <1>2 DEF Bootstrap, Goto
  <1>3. CASE Clone(r)
    BY <1>1, <1>3, AbortsFrame DEF Clone, Goto
  <1>4. CASE EndClone(r)
    BY <1>1, <1>4, AbortsFrame DEF EndClone, Goto
  <1>5. CASE Submodule(r)
    BY <1>1, <1>5, AbortsFrame DEF Submodule, Goto
  <1>6. CASE EndCheckout(r)
    BY <1>1, <1>6, AbortsFrame DEF EndCheckout, Goto
  <1>7. CASE LoadAbility(r)
    BY <1>1, <1>7, AbortsFrame DEF LoadAbility, Goto
  <1>8. CASE Stage(r)
    BY <1>1, <1>8 DEF Stage, Goto
  <1>9. CASE StageFails(r)
    BY <1>1, <1>9, AbortsFrame DEF StageFails, Goto
  <1>10. CASE PrepareShell(r)
    BY <1>1, <1>10, AbortsFrame DEF PrepareShell, Goto
  <1> QED  BY <1>2, <1>3, <1>4, <1>5, <1>6, <1>7, <1>8, <1>9, <1>10 DEF Setup

LEMMA CommandFrame ==
  ASSUME TypeOK, NEW r \in Runs, CommandDone(r) \/ UNCHANGED <<history, event>>
  PROVE  \A q \in Runs \ {r} : event'[q] = event[q]
  BY DEF TypeOK, CommandDone

LEMMA SetupFrame ==
  ASSUME TypeOK, NEW r \in Runs, Setup(r), NEW q \in Runs \ {r}
  PROVE  Same(q)
  <1> USE DEF TypeOK, Same, Goto, Sets, shared, inputs, backend, searches, counters, ghosts
  <1>1. CASE Bootstrap(r)
    BY <1>1 DEF Bootstrap
  <1>2. CASE Clone(r)
    <2>1. pc'[q] = pc[q] /\ outcome'[q] = outcome[q]
      BY <1>2, SetupMoves DEF Setup
    <2>2. /\ ability'[q] = ability[q] /\ options'[q] = options[q] /\ saved'[q] = saved[q] /\ temp'[q] = temp[q]
          /\ event'[q] = event[q] /\ span'[q] = span[q] /\ found'[q] = found[q] /\ restored' = restored
          /\ littered' = littered
      BY <1>2 DEF Clone
    <2> QED  BY <2>1, <2>2
  <1>3. CASE EndClone(r)
    <2>1. pc'[q] = pc[q] /\ outcome'[q] = outcome[q]
      BY <1>3, SetupMoves DEF Setup
    <2>2. /\ ability'[q] = ability[q] /\ options'[q] = options[q] /\ saved'[q] = saved[q] /\ temp'[q] = temp[q]
          /\ event'[q] = event[q] /\ span'[q] = span[q] /\ found'[q] = found[q] /\ restored' = restored
          /\ littered' = littered
      BY <1>3 DEF EndClone
    <2> QED  BY <2>1, <2>2
  <1>4. CASE Submodule(r)
    <2>1. pc'[q] = pc[q] /\ outcome'[q] = outcome[q]
      BY <1>4, SetupMoves DEF Setup
    <2>2. /\ ability'[q] = ability[q] /\ options'[q] = options[q] /\ saved'[q] = saved[q] /\ temp'[q] = temp[q]
          /\ event'[q] = event[q] /\ span'[q] = span[q] /\ found'[q] = found[q] /\ restored' = restored
          /\ littered' = littered
      BY <1>4 DEF Submodule
    <2> QED  BY <2>1, <2>2
  <1>5. CASE EndCheckout(r)
    <2>1. pc'[q] = pc[q] /\ outcome'[q] = outcome[q]
      BY <1>5, SetupMoves DEF Setup
    <2>2. /\ ability'[q] = ability[q] /\ options'[q] = options[q] /\ saved'[q] = saved[q] /\ temp'[q] = temp[q]
          /\ event'[q] = event[q] /\ span'[q] = span[q] /\ found'[q] = found[q] /\ restored' = restored
          /\ littered' = littered
      BY <1>5 DEF EndCheckout
    <2> QED  BY <2>1, <2>2
  <1>6. CASE LoadAbility(r)
    <2>1. pc'[q] = pc[q] /\ outcome'[q] = outcome[q]
      BY <1>6, SetupMoves DEF Setup
    <2>2. /\ ability'[q] = ability[q] /\ options'[q] = options[q] /\ saved'[q] = saved[q] /\ temp'[q] = temp[q]
          /\ event'[q] = event[q] /\ span'[q] = span[q] /\ found'[q] = found[q] /\ restored' = restored
          /\ littered' = littered
      BY <1>6 DEF LoadAbility
    <2> QED  BY <2>1, <2>2
  <1>7. CASE Stage(r)
    BY <1>7 DEF Stage
  <1>8. CASE StageFails(r)
    <2>1. pc'[q] = pc[q] /\ outcome'[q] = outcome[q]
      BY <1>8, SetupMoves DEF Setup
    <2>2. /\ ability'[q] = ability[q] /\ options'[q] = options[q] /\ saved'[q] = saved[q] /\ temp'[q] = temp[q]
          /\ event'[q] = event[q] /\ span'[q] = span[q] /\ found'[q] = found[q] /\ restored' = restored
          /\ littered' = littered
      BY <1>8 DEF StageFails
    <2> QED  BY <2>1, <2>2
  <1>9. CASE PrepareShell(r)
    <2>1. pc'[q] = pc[q] /\ outcome'[q] = outcome[q]
      BY <1>9, SetupMoves DEF Setup
    <2>2. /\ ability'[q] = ability[q] /\ options'[q] = options[q] /\ saved'[q] = saved[q] /\ temp'[q] = temp[q]
          /\ event'[q] = event[q] /\ span'[q] = span[q] /\ found'[q] = found[q] /\ restored' = restored
          /\ littered' = littered
      BY <1>9 DEF PrepareShell
    <2> QED  BY <2>1, <2>2
  <1> QED  BY <1>1, <1>2, <1>3, <1>4, <1>5, <1>6, <1>7, <1>8, <1>9 DEF Setup

LEMMA EmulateFrame ==
  ASSUME TypeOK, NEW r \in Runs, Emulate(r), NEW q \in Runs \ {r}
  PROVE  Same(q)
  <1> USE DEF TypeOK, Same, Goto, Sets, shared, inputs, backend, searches, counters, ghosts
  <1>1. CASE Execute(r)
    <2>1. event'[q] = event[q]
      BY <1>1, CommandFrame DEF Execute
    <2> QED  BY <1>1, <2>1 DEF Execute
  <1>2. CASE CommandTimesOut(r)
    BY <1>2, CommandFrame DEF CommandTimesOut
  <1>3. CASE Restore(r)
    BY <1>3 DEF Restore
  <1>4. CASE RestoreFails(r)
    BY <1>4 DEF RestoreFails
  <1>5. CASE Flush(r)
    BY <1>5 DEF Flush
  <1> QED  BY <1>1, <1>2, <1>3, <1>4, <1>5 DEF Emulate

LEMMA VerifyFrame ==
  ASSUME TypeOK, NEW r \in Runs, Verify(r), NEW q \in Runs \ {r}
  PROVE  Same(q)
  <1> USE DEF TypeOK, Same, Goto, Sets, shared, inputs, backend, searches, counters, ghosts
  <1>1. CASE TraceFound(r)
    BY <1>1 DEF TraceFound
  <1>2. CASE TraceTimesOut(r)
    BY <1>2 DEF TraceTimesOut
  <1>3. CASE FixWindow(r)
    BY <1>3 DEF FixWindow
  <1>4. CASE LogsFound(r)
    BY <1>4 DEF LogsFound
  <1>5. CASE LogsTimeOut(r)
    BY <1>5 DEF LogsTimeOut
  <1>6. CASE SearchFails(r)
    BY <1>6 DEF SearchFails, CleanupStage
  <1>7. CASE Report(r)
    BY <1>7 DEF Report, CleanupStage
  <1> QED  BY <1>1, <1>2, <1>3, <1>4, <1>5, <1>6, <1>7 DEF Verify

LEMMA RestFrame ==
  ASSUME TypeOK, NEW r \in Runs, Rest(r), NEW q \in Runs \ {r}
  PROVE  Same(q)
  <1> USE DEF TypeOK, Same, Goto, Sets, shared, inputs, backend, searches, counters, ghosts
  <1>1. CASE Begin(r)
    BY <1>1 DEF Begin
  <1>2. CASE Kill(r)
    BY <1>2, CommandFrame DEF Kill
  <1>3. CASE Collect(r)
    BY <1>3 DEF Collect
  <1>4. CASE IndexSpan(r)
    BY <1>4 DEF IndexSpan
  <1> QED  BY <1>1, <1>2, <1>3, <1>4 DEF Rest

LEMMA Frame ==
  ASSUME TypeOK, NEW r \in Runs, Step(r), NEW q \in Runs \ {r}
  PROVE  Same(q)
  BY SetupFrame, EmulateFrame, VerifyFrame, RestFrame DEF Step

-----------------------------------------------------------------------------
(* A run's own state.                                                       *)

LEMMA SetupOwn ==
  ASSUME TypeOK, NEW r \in Runs, Own(r), Setup(r)
  PROVE  Own(r)'
  <1> USE DEF TypeOK, Own, Early, Goto, Sets, shared, inputs, backend, searches, counters, ghosts
  <1>1. CASE Bootstrap(r)
    BY <1>1 DEF Bootstrap
  <1>2. CASE Clone(r)
    BY <1>2, AbortsFrame DEF Clone
  <1>3. CASE EndClone(r)
    BY <1>3, AbortsFrame DEF EndClone
  <1>4. CASE Submodule(r)
    BY <1>4, AbortsFrame DEF Submodule
  <1>5. CASE EndCheckout(r)
    BY <1>5, AbortsFrame DEF EndCheckout
  <1>6. CASE LoadAbility(r)
    BY <1>6, AbortsFrame DEF LoadAbility
  <1>7. CASE Stage(r)
    <2>1. /\ pc[r] = "stage" /\ pc'[r] = "shell"
          /\ temp'[r] = Directory(r) /\ (ability[r] = "avoid_logs" => "backup" \in Directory(r))
          /\ ability[r] # "avoid_logs" => saved'[r] = saved[r]
      BY <1>7 DEF Stage, Directory
    <2>2. /\ ability'[r] = ability[r] /\ restored' = restored /\ event'[r] = event[r]
          /\ found'[r] = found[r] /\ outcome'[r] = outcome[r] /\ span'[r] = span[r]
      BY <1>7 DEF Stage
    <2>3. CASE ability[r] = "avoid_logs"
      BY <2>1, <2>2, <2>3
    <2>4. CASE ability[r] # "avoid_logs"
      BY <2>1, <2>2, <2>4, StageFresh
    <2> QED  BY <2>3, <2>4
  <1>8. CASE StageFails(r)
    <2>1. pc[r] = "stage" /\ pc'[r] = "done" /\ outcome'[r] = "aborted"
      BY <1>8, AbortsFrame DEF StageFails
    <2>2. /\ ability'[r] = ability[r] /\ restored' = restored /\ event'[r] = event[r]
          /\ found'[r] = found[r] /\ saved'[r] = saved[r] /\ span'[r] = span[r]
      BY <1>8 DEF StageFails
    <2>3. saved[r].lines = {}
      BY <2>1, StageFresh
    <2> QED  BY <2>1, <2>2, <2>3
  <1>9. CASE PrepareShell(r)
    BY <1>9, AbortsFrame DEF PrepareShell
  <1> QED  BY <1>1, <1>2, <1>3, <1>4, <1>5, <1>6, <1>7, <1>8, <1>9 DEF Setup

LEMMA EmulateOwn ==
  ASSUME TypeOK, NEW r \in Runs, Own(r), Emulate(r)
  PROVE  Own(r)'
  <1> USE DEF TypeOK, Own, Early, Goto, Sets, shared, inputs, backend, searches, counters, ghosts
  <1>1. CASE Execute(r)
    BY <1>1 DEF Execute, CommandDone, HasCleanup
  <1>2. CASE CommandTimesOut(r)
    BY <1>2 DEF CommandTimesOut, CommandDone
  <1>3. CASE Restore(r)
    BY <1>3 DEF Restore
  <1>4. CASE RestoreFails(r)
    BY <1>4 DEF RestoreFails
  <1>5. CASE Flush(r)
    BY <1>5 DEF Flush
  <1> QED  BY <1>1, <1>2, <1>3, <1>4, <1>5 DEF Emulate

LEMMA VerifyOwn ==
  ASSUME TypeOK, NEW r \in Runs, Own(r), Verify(r)
  PROVE  Own(r)'
  <1> USE DEF TypeOK, Own, Early, Goto, Sets, shared, inputs, backend, searches, counters, ghosts
  <1>1. CASE TraceFound(r)
    BY <1>1 DEF TraceFound
  <1>2. CASE TraceTimesOut(r)
    BY <1>2 DEF TraceTimesOut
  <1>3. CASE FixWindow(r)
    <2>1. pc[r] = "window" /\ pc'[r] \in {"logs", "report"}
      BY <1>3 DEF FixWindow
    <2>2. UNCHANGED <<ability, restored, event, found, outcome, span, temp, saved, littered>>
      BY <1>3 DEF FixWindow
    <2> QED  BY <2>1, <2>2
  <1>4. CASE LogsFound(r)
    BY <1>4 DEF LogsFound
  <1>5. CASE LogsTimeOut(r)
    BY <1>5 DEF LogsTimeOut
  <1>6. CASE SearchFails(r)
    BY <1>6 DEF SearchFails, CleanupStage
  <1>7. CASE Report(r)
    BY <1>7 DEF Report, CleanupStage, Verdict
  <1> QED  BY <1>1, <1>2, <1>3, <1>4, <1>5, <1>6, <1>7 DEF Verify

LEMMA RestOwn ==
  ASSUME TypeOK, NEW r \in Runs, Own(r), Rest(r)
  PROVE  Own(r)'
  <1> USE DEF TypeOK, Own, Early, Goto, Sets, shared, inputs, backend, searches, counters, ghosts
  <1>1. CASE Begin(r)
    BY <1>1 DEF Begin
  <1>2. CASE Kill(r)
    BY <1>2 DEF Kill, CommandDone
  <1>3. CASE Collect(r)
    BY <1>3 DEF Collect
  <1>4. CASE IndexSpan(r)
    BY <1>4 DEF IndexSpan
  <1> QED  BY <1>1, <1>2, <1>3, <1>4 DEF Rest

LEMMA OwnStep ==
  ASSUME TypeOK, \A q \in Runs : Own(q), NEW r \in Runs, Step(r)
  PROVE  \A q \in Runs : Own(q)'
  <1>1. Own(r)'
    BY SetupOwn, EmulateOwn, VerifyOwn, RestOwn DEF Step
  <1>2. ASSUME NEW q \in Runs \ {r}
        PROVE  Own(q)'
    <2>1. Same(q)
      BY Frame
    <2> QED  BY <2>1 DEF Same, Own
  <1> QED  BY <1>1, <1>2

-----------------------------------------------------------------------------
(* Runs only go forward.                                                    *)

Forward(r) ==
  /\ pc[r] \in Early => pc'[r] \in Early \union {"done"} \/ Stage(r)
  /\ pc[r] = "done" => pc'[r] = "done"
  /\ crossed \subseteq crossed'
  /\ pc[r] # "idle" => ability'[r] = ability[r] /\ options'[r] = options[r]
  /\ pc[r] # "stage" => saved'[r] = saved[r]
  /\ r \in restored' => r \in restored \/ Restore(r)
  /\ event[r] = "searchable" => event'[r] = "searchable"
  /\ pc[r] = "done" /\ span[r] = "searchable" => span'[r] = "searchable"
  /\ "logs" \in found'[r] => "logs" \in found[r] \/ LogsFound(r)
  /\ outcome'[r] = "ok" => outcome[r] = "ok" \/ Report(r)

\* Only the command of an avoider, and its restoring, take lines away.
LinesStay(r) ==
  (r \in Avoiders => pc[r] \notin {"execute", "restore"}) => history.lines \subseteq history'.lines

LEMMA SetupForward ==
  ASSUME TypeOK, NEW r \in Runs, Own(r), Setup(r)
  PROVE  Forward(r)
  <1> USE DEF TypeOK, Forward, Own, Early, Goto, Sets, shared, inputs, backend, searches, counters, ghosts
  <1>1. CASE Bootstrap(r)
    BY <1>1 DEF Bootstrap
  <1>2. CASE Clone(r)
    BY <1>2, AbortsFrame DEF Clone
  <1>3. CASE EndClone(r)
    BY <1>3, AbortsFrame DEF EndClone
  <1>4. CASE Submodule(r)
    BY <1>4, AbortsFrame DEF Submodule
  <1>5. CASE EndCheckout(r)
    BY <1>5, AbortsFrame DEF EndCheckout
  <1>6. CASE LoadAbility(r)
    BY <1>6, AbortsFrame DEF LoadAbility
  <1>7. CASE Stage(r)
    BY <1>7 DEF Stage
  <1>8. CASE StageFails(r)
    BY <1>8, AbortsFrame DEF StageFails
  <1>9. CASE PrepareShell(r)
    BY <1>9, AbortsFrame DEF PrepareShell
  <1> QED  BY <1>1, <1>2, <1>3, <1>4, <1>5, <1>6, <1>7, <1>8, <1>9 DEF Setup

LEMMA EmulateForward ==
  ASSUME TypeOK, NEW r \in Runs, Own(r), Emulate(r)
  PROVE  Forward(r)
  <1> USE DEF TypeOK, Forward, Own, Early, Goto, Sets, shared, inputs, backend, searches, counters, ghosts
  <1>1. CASE Execute(r)
    BY <1>1 DEF Execute, CommandDone
  <1>2. CASE CommandTimesOut(r)
    BY <1>2 DEF CommandTimesOut, CommandDone
  <1>3. CASE Restore(r)
    <2>1. r \in restored' => r \in restored \/ Restore(r)
      BY <1>3
    <2> QED  BY <1>3, <2>1 DEF Restore
  <1>4. CASE RestoreFails(r)
    BY <1>4 DEF RestoreFails
  <1>5. CASE Flush(r)
    BY <1>5 DEF Flush
  <1> QED  BY <1>1, <1>2, <1>3, <1>4, <1>5 DEF Emulate

LEMMA VerifyForward ==
  ASSUME TypeOK, NEW r \in Runs, Own(r), Verify(r)
  PROVE  Forward(r)
  <1> USE DEF TypeOK, Forward, Own, Early, Goto, Sets, shared, inputs, backend, searches, counters, ghosts
  <1>1. CASE TraceFound(r)
    BY <1>1 DEF TraceFound
  <1>2. CASE TraceTimesOut(r)
    BY <1>2 DEF TraceTimesOut
  <1>3. CASE FixWindow(r)
    BY <1>3 DEF FixWindow
  <1>4. CASE LogsFound(r)
    BY <1>4 DEF LogsFound
  <1>5. CASE LogsTimeOut(r)
    BY <1>5 DEF LogsTimeOut
  <1>6. CASE SearchFails(r)
    BY <1>6 DEF SearchFails, CleanupStage
  <1>7. CASE Report(r)
    BY <1>7 DEF Report, CleanupStage
  <1> QED  BY <1>1, <1>2, <1>3, <1>4, <1>5, <1>6, <1>7 DEF Verify

LEMMA RestForward ==
  ASSUME TypeOK, NEW r \in Runs, Own(r), Rest(r)
  PROVE  Forward(r)
  <1> USE DEF TypeOK, Forward, Own, Early, Goto, Sets, shared, inputs, backend, searches, counters, ghosts
  <1>1. CASE Begin(r)
    BY <1>1 DEF Begin
  <1>2. CASE Kill(r)
    BY <1>2 DEF Kill, CommandDone
  <1>3. CASE Collect(r)
    BY <1>3 DEF Collect
  <1>4. CASE IndexSpan(r)
    BY <1>4 DEF IndexSpan
  <1> QED  BY <1>1, <1>2, <1>3, <1>4 DEF Rest

LEMMA SetupLines ==
  ASSUME TypeOK, NEW r \in Runs, Own(r), Setup(r)
  PROVE  LinesStay(r)
  <1> USE DEF LinesStay, Own, Avoiders, shared
  <1>1. CASE Bootstrap(r)
    BY <1>1 DEF Bootstrap
  <1>2. CASE Clone(r)
    BY <1>2 DEF Clone
  <1>3. CASE EndClone(r)
    BY <1>3 DEF EndClone
  <1>4. CASE Submodule(r)
    BY <1>4 DEF Submodule
  <1>5. CASE EndCheckout(r)
    BY <1>5 DEF EndCheckout
  <1>6. CASE LoadAbility(r)
    BY <1>6 DEF LoadAbility
  <1>7. CASE Stage(r)
    <2>1. history' = [history EXCEPT !.exists = TRUE] \/ history' = history
      BY <1>7 DEF Stage
    <2>2. history'.lines = history.lines
      BY <2>1 DEF TypeOK
    <2> QED  BY <2>2
  <1>8. CASE StageFails(r)
    BY <1>8 DEF StageFails
  <1>9. CASE PrepareShell(r)
    BY <1>9 DEF PrepareShell
  <1> QED  BY <1>1, <1>2, <1>3, <1>4, <1>5, <1>6, <1>7, <1>8, <1>9 DEF Setup

LEMMA EmulateLines ==
  ASSUME TypeOK, NEW r \in Runs, Own(r), Emulate(r)
  PROVE  LinesStay(r)
  <1> USE DEF LinesStay, Own, Avoiders, shared
  <1>1. CASE Execute(r)
    BY <1>1 DEF Execute, CommandDone
  <1>2. CASE CommandTimesOut(r)
    BY <1>2 DEF CommandTimesOut, CommandDone
  <1>3. CASE Restore(r)
    BY <1>3 DEF Restore
  <1>4. CASE RestoreFails(r)
    BY <1>4 DEF RestoreFails
  <1>5. CASE Flush(r)
    BY <1>5 DEF Flush
  <1> QED  BY <1>1, <1>2, <1>3, <1>4, <1>5 DEF Emulate

LEMMA VerifyLines ==
  ASSUME TypeOK, NEW r \in Runs, Own(r), Verify(r)
  PROVE  LinesStay(r)
  <1> USE DEF LinesStay, Own, Avoiders, shared
  <1>1. CASE TraceFound(r)
    BY <1>1 DEF TraceFound
  <1>2. CASE TraceTimesOut(r)
    BY <1>2 DEF TraceTimesOut
  <1>3. CASE FixWindow(r)
    BY <1>3 DEF FixWindow
  <1>4. CASE LogsFound(r)
    BY <1>4 DEF LogsFound
  <1>5. CASE LogsTimeOut(r)
    BY <1>5 DEF LogsTimeOut
  <1>6. CASE SearchFails(r)
    BY <1>6 DEF SearchFails
  <1>7. CASE Report(r)
    BY <1>7 DEF Report
  <1> QED  BY <1>1, <1>2, <1>3, <1>4, <1>5, <1>6, <1>7 DEF Verify

LEMMA RestLines ==
  ASSUME TypeOK, NEW r \in Runs, Own(r), Rest(r)
  PROVE  LinesStay(r)
  <1> USE DEF LinesStay, Own, Avoiders, shared
  <1>1. CASE Begin(r)
    BY <1>1 DEF Begin
  <1>2. CASE Kill(r)
    BY <1>2 DEF Kill, CommandDone
  <1>3. CASE Collect(r)
    BY <1>3 DEF Collect
  <1>4. CASE IndexSpan(r)
    BY <1>4 DEF IndexSpan
  <1> QED  BY <1>1, <1>2, <1>3, <1>4 DEF Rest

LEMMA ForwardStep ==
  ASSUME TypeOK, NEW r \in Runs, Own(r), Step(r)
  PROVE  Forward(r) /\ LinesStay(r)
  BY SetupForward, EmulateForward, VerifyForward, RestForward,
     SetupLines, EmulateLines, VerifyLines, RestLines DEF Step

-----------------------------------------------------------------------------
(* The history file.                                                        *)

LEMMA SeparateStep ==
  ASSUME TypeOK, \A q \in Runs : Own(q), Separate, NEW r \in Runs, Step(r)
  PROVE  Separate'
  <1>1. Forward(r)
    BY ForwardStep
  <1>2. \A q \in Runs \ {r} : Same(q)
    BY Frame
  <1>3. SUFFICES ASSUME NEW x \in Avoiders', x \notin crossed', Touched(x)',
                        NEW q \in Avoiders', q # x
                 PROVE  pc'[q] \in Early \union {"done"}
    BY DEF Separate
  <1>4. x \in Runs /\ q \in Runs /\ x \notin crossed
    BY <1>1, <1>3 DEF Avoiders, Forward
  <1>5. \A y \in Runs : y \in Avoiders' /\ (y # r \/ pc[y] # "idle") => y \in Avoiders
    BY <1>1, <1>2 DEF Avoiders, Forward, Same
  <1>6. CASE x # r
    <2>1. x \in Avoiders /\ Touched(x)
      BY <1>2, <1>3, <1>4, <1>5, <1>6 DEF Same, Touched
    <2>2. pc[x] \notin Early
      BY <1>4, <2>1 DEF Touched, Own, Early
    <2>3. CASE q # r
      BY <1>2, <1>3, <1>4, <1>5, <2>1, <2>3 DEF Separate, Same
    <2>4. CASE q = r /\ pc[r] \in Early
      <3>1. CASE Stage(r)
        <4>1. ability[r] = "avoid_logs"
          BY <1>1, <1>3, <2>4, <3>1 DEF Stage, Forward, Avoiders
        <4>2. x \in Others(r)
          BY <1>6, <2>1, <2>2 DEF Others
        <4>3. x \in crossed'
          BY <3>1, <4>1, <4>2 DEF Stage
        <4> QED  BY <1>3, <4>3
      <3> QED  BY <1>1, <2>4, <3>1 DEF Forward
    <2>5. CASE q = r /\ pc[r] \notin Early
      <3>1. q \in Avoiders
        BY <1>3, <1>5, <2>5 DEF Early
      <3>2. pc[r] = "done"
        BY <1>3, <1>4, <2>1, <2>5, <3>1 DEF Separate
      <3> QED  BY <1>1, <2>5, <3>2 DEF Forward
    <2> QED  BY <2>3, <2>4, <2>5
  <1>7. CASE x = r
    <2>1. pc'[q] = pc[q] /\ q \in Avoiders
      BY <1>2, <1>3, <1>4, <1>5, <1>7 DEF Same
    <2>2. CASE Touched(r)
      <3>1. r \in Avoiders
        BY <1>3, <1>5, <1>7, <2>2 DEF Touched, Own, Early
      <3> QED  BY <1>3, <1>4, <1>7, <2>1, <2>2, <3>1 DEF Separate
    <2>3. CASE ~Touched(r)
      <3>1. Stage(r)
        <4>1. ~Restore(r)
          BY <2>3 DEF Touched, Restore, Early
        <4> QED  BY <1>1, <1>3, <1>7, <2>3, <4>1 DEF Touched, Forward
      <3>2. ability[r] = "avoid_logs"
        BY <1>1, <1>3, <1>7, <3>1 DEF Stage, Forward, Avoiders
      <3>3. \A y \in Others(r) : pc[y] = "done"
        BY <1>3, <1>7, <3>1, <3>2 DEF Stage
      <3> QED  BY <1>3, <1>7, <2>1, <3>3 DEF Others
    <2> QED  BY <2>2, <2>3
  <1> QED  BY <1>6, <1>7

LEMMA RestoredStep ==
  ASSUME TypeOK, \A q \in Runs : Own(q), Separate, RestoredStays, NEW r \in Runs, Step(r)
  PROVE  RestoredStays'
  <1>1. Forward(r) /\ LinesStay(r)
    BY ForwardStep
  <1>2. \A q \in Runs \ {r} : Same(q)
    BY Frame
  <1>3. SUFFICES ASSUME NEW x \in Avoiders', x \notin crossed', x \in restored'
                 PROVE  saved'[x].lines \subseteq history'.lines
    BY DEF RestoredStays
  <1>4. x \in Runs /\ x \notin crossed
    BY <1>1, <1>3 DEF Avoiders, Forward
  <1>5. CASE x # r
    <2>1. x \in Avoiders /\ x \in restored /\ saved'[x] = saved[x]
      BY <1>2, <1>3, <1>4, <1>5 DEF Same, Avoiders
    <2>2. r \in Avoiders => pc[r] \in Early \union {"done"}
      BY <1>4, <1>5, <2>1 DEF Separate, Touched
    <2>3. history.lines \subseteq history'.lines
      BY <1>1, <2>2 DEF LinesStay, Early
    <2> QED  BY <1>4, <2>1, <2>3 DEF RestoredStays
  <1>6. CASE x = r
    <2>1. CASE Restore(r)
      BY <1>6, <2>1 DEF Restore
    <2>2. CASE ~Restore(r)
      <3>1. r \in restored
        BY <1>1, <1>3, <1>6, <2>2 DEF Forward
      <3>2. pc[r] \in {"flush", "trace", "window", "logs", "report", "done"}
        BY <3>1 DEF Own
      <3>3. r \in Avoiders /\ saved'[r] = saved[r]
        BY <1>1, <1>3, <1>6, <3>2 DEF Forward, Avoiders
      <3>4. history.lines \subseteq history'.lines
        BY <1>1, <3>2 DEF LinesStay
      <3> QED  BY <1>4, <1>6, <3>1, <3>3, <3>4 DEF RestoredStays
    <2> QED  BY <2>1, <2>2
  <1> QED  BY <1>5, <1>6

-----------------------------------------------------------------------------
(* Events and verdicts.                                                     *)

\* What a query has matched goes on matching.
LEMMA MatchesStay ==
  ASSUME TypeOK, \A q \in Runs : Own(q), NEW r \in Runs, Step(r), NEW x \in Runs, pc[x] # "idle",
         Matching(x) # {}
  PROVE  Matching(x)' # {} /\ ability'[x] = ability[x]
  <1>1. Forward(r)
    BY ForwardStep
  <1>2. \A q \in Runs \ {r} : Same(q)
    BY Frame
  <1>3. PICK q \in Matching(x) : TRUE
    OBVIOUS
  <1>4. q \in Runs /\ event[q] = "searchable"
    BY DEF Matching
  <1>5. pc[q] # "idle"
    BY <1>4 DEF Own, Early
  <1>6. event'[q] = "searchable" /\ ability'[q] = ability[q]
    BY <1>1, <1>2, <1>4, <1>5 DEF Forward, Same
  <1>7. ability'[x] = ability[x]
    BY <1>1, <1>2 DEF Forward, Same
  <1>8. q \in Matching(x)'
    BY <1>3, <1>4, <1>6, <1>7 DEF Matching
  <1> QED  BY <1>7, <1>8

LEMMA FoundStep ==
  ASSUME TypeOK, \A q \in Runs : Own(q), FoundIsThere, NEW r \in Runs, Step(r)
  PROVE  FoundIsThere'
  <1>1. Forward(r)
    BY ForwardStep
  <1>2. \A q \in Runs \ {r} : Same(q)
    BY Frame
  <1>3. SUFFICES ASSUME NEW x \in Runs, "logs" \in found'[x]
                 PROVE  Expected(x)' /\ Matching(x)' # {}
    BY DEF FoundIsThere
  <1>4. pc[x] # "idle" /\ Expected(x) /\ Matching(x) # {}
    <2>1. CASE "logs" \in found[x]
      BY <2>1 DEF FoundIsThere, Own, Early
    <2>2. CASE "logs" \notin found[x]
      <3>1. x = r /\ LogsFound(r)
        BY <1>1, <1>2, <1>3, <2>2 DEF Forward, Same
      <3> QED  BY <3>1 DEF LogsFound
    <2> QED  BY <2>1, <2>2
  <1> QED  BY <1>4, MatchesStay DEF Expected

LEMMA VerdictStep ==
  ASSUME TypeOK, \A q \in Runs : Own(q), FoundIsThere, VerdictIsTrue, NEW r \in Runs, Step(r)
  PROVE  VerdictIsTrue'
  <1>1. Forward(r)
    BY ForwardStep
  <1>2. \A q \in Runs \ {r} : Same(q)
    BY Frame
  <1>3. SUFFICES ASSUME NEW x \in Runs, outcome'[x] = "ok"
                 PROVE  /\ "verify_trace" \in options'[x] => span'[x] = "searchable"
                        /\ "verify_logs" \in options'[x] /\ Expected(x)' =>
                             \E q \in Runs : /\ event'[q] = "searchable" /\ ability'[q] = ability'[x]
                                             /\ q = x \/ ability'[x] = "avoid_logs"
    BY DEF VerdictIsTrue
  <1>a. SUFFICES /\ "verify_trace" \in options'[x] => span'[x] = "searchable"
                 /\ "verify_logs" \in options'[x] /\ ability'[x] # "processes" => Matching(x)' # {}
    BY DEF Matching, Expected
  <1>4. CASE outcome[x] = "ok"
    <2>1. pc[x] = "done"
      BY <1>4 DEF Own
    <2>2. options'[x] = options[x] /\ ability'[x] = ability[x]
      BY <1>1, <1>2, <2>1 DEF Forward, Same
    <2>3. /\ "verify_trace" \in options[x] => span[x] = "searchable"
          /\ "verify_logs" \in options[x] /\ Expected(x) => Matching(x) # {}
      BY <1>4 DEF VerdictIsTrue, Matching
    <2>4. span[x] = "searchable" => span'[x] = "searchable"
      BY <1>1, <1>2, <2>1 DEF Forward, Same
    <2> QED  BY <2>1, <2>2, <2>3, <2>4, MatchesStay DEF Expected
  <1>5. CASE outcome[x] # "ok"
    <2>1. x = r /\ Report(r)
      BY <1>1, <1>2, <1>3, <1>5 DEF Forward, Same
    <2>2. Verdict(r) = "ok" /\ pc[r] = "report"
      BY <1>3, <2>1 DEF Report, Sets, TypeOK
    <2>3. /\ "verify_trace" \in options[r] => "trace" \in found[r]
          /\ "verify_logs" \in options[r] => LogsVerified(r)
      BY <2>2 DEF Verdict
    <2>4. UNCHANGED <<options, ability, span>>
      BY <2>1 DEF Report, inputs, backend
    <2>5. "trace" \in found[r] => span[r] = "searchable"
      BY DEF Own
    <2>6. Expected(r) /\ "verify_logs" \in options[r] => Matching(r) # {}
      BY <2>3 DEF LogsVerified, FoundIsThere
    <2> QED  BY <2>1, <2>2, <2>3, <2>4, <2>5, <2>6, MatchesStay DEF Expected
  <1> QED  BY <1>4, <1>5

-----------------------------------------------------------------------------
(* The theorems.                                                            *)

LEMMA InitInv == Init => IInv
  <1> SUFFICES ASSUME Init
               PROVE  IInv
    OBVIOUS
  <1>1. TypeOK
    <2>1. history \in Files
      <3>1. history \in {[exists |-> TRUE, lines |-> {l}] : l \in Lines} \union {NoFile}
        BY DEF Init
      <3>2. CASE history = NoFile
        BY <3>2 DEF NoFile, Files
      <3>3. CASE history # NoFile
        <4>1. PICK l \in Lines : history = [exists |-> TRUE, lines |-> {l}]
          BY <3>1, <3>3
        <4> QED  BY <4>1 DEF Files
      <3> QED  BY <3>2, <3>3
    <2>2. /\ ability \in [Runs -> AbilityKinds] /\ options \in [Runs -> SUBSET Flags]
          /\ pc \in [Runs -> Labels] /\ temp \in [Runs -> SUBSET {"staging", "home", "backup"}]
          /\ saved \in [Runs -> Files]
      BY DEF Init
    <2>3. /\ span \in [Runs -> {"none", "lost", "sent", "searchable"}]
          /\ event \in [Runs -> {"none", "raised", "stamped", "searchable"}]
          /\ window \in [Runs -> SUBSET Runs] /\ found \in [Runs -> SUBSET {"trace", "logs"}]
          /\ outcome \in [Runs -> Verdicts \union {"none", "aborted", "killed"}]
      BY DEF Init
    <2>4. failures \in 0..MaxFailures /\ kills \in 0..MaxKills
      BY BoundAssumption DEF Init
    <2>5. /\ repo \in {"absent", "broken", "bare", "torn", "ready"} /\ restored \subseteq Runs
          /\ crossed \subseteq Runs /\ littered \subseteq Runs
      BY DEF Init
    <2> QED  BY <2>1, <2>2, <2>3, <2>4, <2>5 DEF TypeOK
  <1>2. \A r \in Runs : Own(r)
    BY DEF Init, Own
  <1>3. Separate /\ RestoredStays
    <2>1. \A r \in Runs : ~Touched(r)
      BY DEF Init, Touched, Early
    <2>2. restored = {}
      BY DEF Init
    <2> QED  BY <2>1, <2>2 DEF Separate, RestoredStays, Avoiders
  <1>4. FoundIsThere /\ VerdictIsTrue
    BY DEF Init, FoundIsThere, VerdictIsTrue
  <1> QED  BY <1>1, <1>2, <1>3, <1>4 DEF IInv

LEMMA Preservation == IInv /\ [Next]_vars => IInv'
  <1> SUFFICES ASSUME IInv, [Next]_vars
               PROVE  IInv'
    OBVIOUS
  <1>0. TypeOK /\ (\A q \in Runs : Own(q)) /\ Separate /\ RestoredStays /\ FoundIsThere /\ VerdictIsTrue
    BY DEF IInv
  <1>1. TypeOK'
    BY <1>0, TypeStep
  <1>2. ASSUME NEW r \in Runs, Step(r)
        PROVE  IInv'
    BY <1>0, <1>1, <1>2, OwnStep, SeparateStep, RestoredStep, FoundStep, VerdictStep DEF IInv
  <1>3. ASSUME NEW l \in Lines, Type(l)
        PROVE  IInv'
    <2>1. history.lines \subseteq history'.lines
      BY <1>3 DEF Type
    <2>2. Separate' /\ RestoredStays'
      BY <1>0, <1>3, <2>1 DEF Separate, Touched, RestoredStays, Type, Avoiders, inputs, ghosts
    <2>3. (\A q \in Runs : Own(q))'
      BY <1>0, <1>3 DEF Own, Type, inputs, backend, searches, ghosts
    <2>4. FoundIsThere' /\ VerdictIsTrue'
      BY <1>0, <1>3 DEF FoundIsThere, VerdictIsTrue, Matching, Expected, Type, inputs, backend, searches
    <2> QED  BY <1>1, <2>2, <2>3, <2>4 DEF IInv
  <1>4. CASE UNCHANGED vars
    <2>1. Separate' /\ RestoredStays'
      BY <1>0, <1>4 DEF Separate, Touched, RestoredStays, vars, Avoiders, inputs, shared, ghosts
    <2>2. (\A q \in Runs : Own(q))'
      BY <1>0, <1>4 DEF Own, vars, inputs, backend, searches, ghosts
    <2>3. FoundIsThere' /\ VerdictIsTrue'
      BY <1>0, <1>4 DEF FoundIsThere, VerdictIsTrue, Matching, Expected, vars, inputs, backend, searches
    <2> QED  BY <1>1, <2>1, <2>2, <2>3 DEF IInv
  <1> QED  BY <1>2, <1>3, <1>4 DEF Next, Step, Run, Rest

\* The invariant that relates each run's progress, its backup of the history, its
\* event and its span, through failures, timeouts and kills.
THEOREM Invariance == Spec => []IInv
  BY InitInv, Preservation, PTL DEF Spec

\* Every variable of the harness's model keeps its type.
THEOREM TypeCorrect == Spec => []TypeOK
  <1>1. IInv => TypeOK
    BY DEF IInv
  <1> QED  BY <1>1, Invariance, PTL

\* The lines a run backed up are in the history file or in its backup, through
\* failures, timeouts and kills - but for a run that reported a result without
\* having restored them (its cleanup command not asked for, or failed), which has
\* deleted the only copy, and for one that another avoid-logs run overlapped or
\* came after.
THEOREM HistorySurvives == Spec => []HistoryIsKept
  <1>1. IInv => HistoryIsKept
    <2>1. SUFFICES ASSUME IInv, NEW r \in Avoiders \ crossed
                   PROVE  \/ saved[r].lines \subseteq history.lines
                          \/ "backup" \in temp[r]
                          \/ pc[r] = "done" /\ outcome[r] \in Verdicts /\ r \notin restored
      BY DEF HistoryIsKept
    <2>2. saved[r].lines = {} \/ "backup" \in temp[r] \/ (pc[r] = "done" /\ outcome[r] \in Verdicts)
      BY <2>1 DEF IInv, Own, Avoiders
    <2>3. r \in restored => saved[r].lines \subseteq history.lines
      BY <2>1 DEF IInv, RestoredStays
    <2> QED  BY <2>2, <2>3
  <1> QED  BY <1>1, Invariance, PTL

\* A run that reported a result has left nothing in /tmp, if its removal worked.
THEOREM NothingLeftInTemp == Spec => []TempIsRemoved
  <1>1. IInv => TempIsRemoved
    BY DEF IInv, TempIsRemoved, Own
  <1> QED  BY <1>1, Invariance, PTL

\* Exit code 0 is backed by a span and, where a rule exists, by an event.
THEOREM OkIsEarned == Spec => []VerdictIsTrue
  <1>1. IInv => VerdictIsTrue
    BY DEF IInv
  <1> QED  BY <1>1, Invariance, PTL

=============================================================================
