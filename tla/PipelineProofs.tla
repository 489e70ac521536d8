--------------------------- MODULE PipelineProofs ---------------------------
(***************************************************************************)
(* Proofs about the driver, for every number of files, every stage list    *)
(* and every set of command lines.  The invariant IInv of Pipeline is      *)
(* inductive; the properties the runs check follow from it.                *)
(***************************************************************************)
EXTENDS Pipeline, TLAPS

\* What an attempt finds in its context is a context, not yet modified.
LEMMA OutcomeType ==
  ASSUME NEW o \in StageOutcomes(Stage.kind)
  PROVE  AfterPublish(o) \in CtxType /\ AfterPublish(o).modified = FALSE
<1>1. o \in CtxType /\ o.modified = FALSE
  BY DEF StageOutcomes, CtxType
<1>2. "NextFile" \in Controls
  BY DEF Controls
<1> QED
  BY <1>1, <1>2 DEF AfterPublish, CtxType

\* The order of the attempts of a file is the one of the nested loops.
LEMMA BeforeTransitive ==
  ASSUME NEW a \in Int \X Int, NEW b \in Int \X Int, NEW c \in Int \X Int
  PROVE  /\ NotAfter(a, b) /\ Before(b, c) => Before(a, c)
         /\ Before(a, b) => NotAfter(a, b)
         /\ NotAfter(a, a)
BY DEF Before, NotAfter

\* The loops only move to attempts later than the ones before.
LEMMA LaterAttempts ==
  ASSUME NEW p \in Nat, NEW r \in Nat
  PROVE  /\ Before(<<p, r>>, <<p, r + 1>>)
         /\ Before(<<p, r>>, <<p + 1, 0>>)
         /\ \A a \in Int \X Int :
              NotAfter(a, <<p, r>>) =>
                Before(a, <<p, r + 1>>) /\ Before(a, <<p + 1, 0>>)
BY DEF Before, NotAfter

\* The names that stand for no attempt are versions all the same.
LEMMA VersionConstants ==
  /\ Original \in Int \X Nat /\ NoFile \in Int \X Nat
  /\ Generated \in Int \X Nat
BY DEF Original, NoFile, Generated

LEMMA InitIInv == Init => IInv
<1> SUFFICES ASSUME Init PROVE IInv
  OBVIOUS
<1>1. TypeOK
  <2>1. opts \in Options /\ opts.max \in Nat
    BY OptionsAssumption DEF OptionType, Init
  <2>2. file \in 1..(NFiles + 1) /\ pass \in 0..NStages /\ retry \in 0..opts.max
    BY <2>1, NFilesAssumption, NStagesAssumption DEF Init
  <2>3. ctx \in CtxType
    BY DEF Init, NoCtx, CtxType, Controls
  <2>4. final \in [Files -> Int \X Nat] /\ suffix \in Int \X Nat
    BY VersionConstants DEF Init
  <2> QED
    BY <2>1, <2>2, <2>3, <2>4 DEF TypeOK, Locations, Init
<1>2. Located /\ OutputsInOrder /\ FreshAttempt /\ NewestInAttempt /\ InputIsNewest
  BY DEF Located, OutputsInOrder, FreshAttempt, NewestInAttempt, InputIsNewest, Init
<1> QED
  BY <1>1, <1>2 DEF IInv

\* Type correctness and the facts about where the driver is, step by step.
LEMMA TypeStep ==
  ASSUME TypeOK, Located, Next
  PROVE  TypeOK' /\ Located'
<1> USE NFilesAssumption, NStagesAssumption
<1>0. opts.max \in Nat /\ pass \in Nat /\ retry \in Nat /\ file \in Nat
  BY OptionsAssumption DEF TypeOK, OptionType
<1>1. CASE BeginFile
  <2>1. ctx' \in CtxType
    BY <1>1 DEF BeginFile, NoCtx, CtxType, Controls
  <2>2. suffix' \in Int \X Nat
    BY <1>1, VersionConstants DEF BeginFile
  <2>3. file \in Files /\ ctx'.control # "NextFile"
    BY <1>1 DEF BeginFile, TypeOK, Files, NoCtx
  <2> QED
    <3>1. /\ opts' \in Options /\ file' \in 1..(NFiles + 1) /\ pass' \in 0..NStages
          /\ retry' \in 0..opts'.max /\ exit' \in {-1, 0, 1}
      BY <1>0, <1>1 DEF BeginFile, TypeOK
    <3>2. /\ startFound' \in BOOLEAN /\ moveNext' \in BOOLEAN /\ gen' \in BOOLEAN
          /\ pc' \in Locations /\ ran' \in SUBSET (Nat \X Nat)
      BY <1>1 DEF BeginFile, Locations
    <3> QED
      BY <1>1, <2>1, <2>2, <2>3, <3>1, <3>2 DEF BeginFile, TypeOK, Located
<1>2. CASE AllFilesDone
  BY <1>0, <1>2 DEF AllFilesDone, TypeOK, Located, Locations, driver
<1>3. CASE PassesDone \/ RetriesExhausted \/ SkipPass \/ SkipBeforeStart
  BY <1>0, <1>3
  DEF PassesDone, RetriesExhausted, SkipPass, SkipBeforeStart, LeavePass, Named,
      Attempting, InLoop, BudgetSpent, TypeOK, Located, Locations, driver
<1>4. CASE \E reason : Fatal(reason)
  BY <1>0, <1>4 DEF Fatal, TypeOK, Located, Locations, driver
<1>5. CASE RunStage
  <2>1. ctx' \in CtxType
    BY <1>5, OutcomeType DEF RunStage
  <2>2. Attempt \in Nat \X Nat /\ ran' \in SUBSET (Nat \X Nat)
    BY <1>0, <1>5 DEF RunStage, Attempt, TypeOK
  <2>3. file \in Files /\ pass < NStages /\ retry < opts.max /\ ~moveNext
    BY <1>0, <1>5
    DEF RunStage, Named, Attempting, InLoop, BudgetSpent, Located, TypeOK
  <2> QED
    BY <1>0, <1>5, <2>1, <2>2, <2>3 DEF RunStage, TypeOK, Located, Locations
<1>6. CASE FinalizeStep
  <2>1. file \in Files /\ Attempt \in Nat \X Nat /\ pc = "finalize"
    BY <1>0, <1>6
    DEF FinalizeStep, NothingWritten, WriteOutput, EmitPancake, WriteFails,
        Located, Attempt
  <2>2. ctx' \in CtxType
    BY <1>6 DEF FinalizeStep, NothingWritten, WriteOutput, EmitPancake,
                WriteFails, TypeOK, CtxType
  <2>3. disk' \in SUBSET (Files \X (Nat \X Nat)) /\ emitted' \in SUBSET Files
    BY <1>6, <2>1 DEF FinalizeStep, NothingWritten, WriteOutput, EmitPancake,
                      WriteFails, TypeOK
  <2> QED
    BY <1>0, <1>6, <2>1, <2>2, <2>3
    DEF FinalizeStep, NothingWritten, WriteOutput, EmitPancake, WriteFails,
        TypeOK, Located, Locations, driver
<1>7. CASE DispatchNextFile \/ DispatchContinue \/ DispatchRepeat
  <2>1. /\ pc = "dispatch" /\ file \in Files /\ pass < NStages
        /\ retry < opts.max /\ ~moveNext /\ ctx \in CtxType
    BY <1>7 DEF DispatchNextFile, DispatchContinue, DispatchRepeat, Reported,
                Located, TypeOK
  <2>2. Attempt \in Int \X Nat
    BY <1>0 DEF Attempt
  <2>3. pass' \in 0..NStages /\ retry' \in 0..opts.max /\ pc' = "pass"
    BY <1>0, <1>7, <2>1
    DEF DispatchNextFile, DispatchContinue, DispatchRepeat, LeavePass, NextRetry
  <2>5. suffix' \in Int \X Nat
    BY <1>7, <2>2 DEF DispatchNextFile, DispatchContinue, DispatchRepeat,
                      RepeatSuffix, AdoptedSuffix, TypeOK
  <2>6. moveNext' \in BOOLEAN /\ gen' \in BOOLEAN
    BY <1>7, <2>1 DEF DispatchNextFile, DispatchContinue, DispatchRepeat,
                      MoveAfterContinue, EndMatches, TypeOK, CtxType
  <2>4. ctx'.control = "NextFile" => moveNext'
    BY <1>7 DEF DispatchNextFile, DispatchContinue, DispatchRepeat
  <2>7. finished' \subseteq Passes
    <3>1. pass \in Passes /\ finished \subseteq Passes
      BY <1>0, <2>1 DEF TypeOK, Passes
    <3>2. finished' = finished \cup {pass} \/ finished' = finished
      BY <1>7 DEF DispatchNextFile, DispatchContinue, DispatchRepeat
    <3> QED
      BY <3>1, <3>2, Zenon
  <2> QED
    BY <1>0, <1>7, <2>1, <2>3, <2>4, <2>5, <2>6, <2>7
    DEF DispatchNextFile, DispatchContinue, DispatchRepeat, TypeOK, Located, Locations
<1>8. CASE KeepGenerated \/ CopyFinal
  <2>1. /\ file \in Files /\ pc = "copy"
        /\ final' \in [Files -> Int \X Nat]
    BY <1>8, VersionConstants
    DEF KeepGenerated, CopyFinal, FinishFile, Located, TypeOK, Files
  <2>2. file + 1 \in 1..(NFiles + 1)
    BY <1>0, <2>1 DEF Files
  <2> QED
    BY <1>0, <1>8, <2>1, <2>2
    DEF KeepGenerated, CopyFinal, FinishFile, TypeOK, Located, Locations, Files
<1>9. CASE Exited
  BY <1>9 DEF Exited, vars, driver, TypeOK, Located
<1> QED
  BY <1>1, <1>2, <1>3, <1>4, <1>5, <1>6, <1>7, <1>8, <1>9
  DEF Next, LoopStep, FinalizeStep, DispatchStep, CopyStep, NoCompileCommand,
      StageUnnamed, ToolRunFails, ControlMissing, StageError, RepeatUnmodified,
      DispatchAbort, CopyFails

LEMMA TypeStutter == TypeOK /\ Located /\ UNCHANGED vars => TypeOK' /\ Located'
BY DEF TypeOK, Located, vars, driver

\* Every variable keeps its type and the loop counters their ranges: retry
\* never passes --max-pass-retries and file never skips past the command line.
THEOREM TypeCorrect == Spec => []TypeOK
<1>1. Init => TypeOK /\ Located
  BY InitIInv DEF IInv
<1>2. TypeOK /\ Located /\ [Next]_vars => TypeOK' /\ Located'
  BY TypeStep, TypeStutter
<1> QED
  BY <1>1, <1>2, PTL DEF Spec

\* The versions of the current file, step by step.  The step that writes an
\* output gives it a name later than every other; the dispatch adopts exactly
\* the outputs that were written.
LEMMA NewestStep ==
  ASSUME IInv, Next
  PROVE  OutputsInOrder' /\ FreshAttempt' /\ NewestInAttempt' /\ InputIsNewest'
<1> USE NFilesAssumption, NStagesAssumption DEF IInv
<1>0. /\ opts.max \in Nat /\ pass \in Nat /\ retry \in Nat /\ file \in Nat
      /\ Attempt \in Int \X Int /\ suffix \in Int \X Int
      /\ \A d \in disk : d[1] \in Int /\ d[2] \in Int \X Int
  BY OptionsAssumption DEF TypeOK, OptionType, Attempt, Files
<1>1. CASE BeginFile
  <2>1. \A d \in disk : d[1] # file
    BY <1>0, <1>1 DEF BeginFile, OutputsInOrder
  <2> QED
    BY <1>0, <1>1, <2>1
    DEF BeginFile, OutputsInOrder, FreshAttempt, NewestInAttempt, InputIsNewest,
        IsNewest
<1>2. CASE AllFilesDone \/ (\E reason : Fatal(reason))
  BY <1>0, <1>2 DEF AllFilesDone, Fatal, driver, OutputsInOrder, FreshAttempt,
                    NewestInAttempt, InputIsNewest
<1>3. CASE PassesDone
  BY <1>0, <1>3 DEF PassesDone, driver, OutputsInOrder, FreshAttempt,
                    NewestInAttempt, InputIsNewest, IsNewest
<1>4. CASE RetriesExhausted \/ SkipPass \/ SkipBeforeStart
  <2>1. /\ pc = "pass" /\ pc' = "pass" /\ UNCHANGED <<disk, file, suffix, ctx>>
        /\ Attempt' = <<pass + 1, 0>>
    BY <1>4 DEF RetriesExhausted, SkipPass, SkipBeforeStart, LeavePass, Named,
                Attempting, Attempt
  <2>2. FreshAttempt'
    <3>1. \A d \in disk : d[1] = file => NotAfter(d[2], Attempt)
      BY <1>0, <2>1 DEF FreshAttempt, NotAfter
    <3>2. Attempt = <<pass, retry>>
      BY DEF Attempt
    <3> QED
      BY <1>0, <2>1, <3>1, <3>2, LaterAttempts DEF FreshAttempt
  <2> QED
    BY <1>0, <2>1, <2>2 DEF OutputsInOrder, NewestInAttempt, InputIsNewest, IsNewest
<1>5. CASE RunStage
  <2>1. /\ pc = "pass" /\ pc' = "finalize"
        /\ UNCHANGED <<disk, file, suffix, pass, retry>>
    BY <1>5 DEF RunStage, Named, Attempting
  <2>2. ctx'.modified = FALSE
    BY <1>5, OutcomeType DEF RunStage
  <2>3. IsNewest(suffix, file)
    BY <1>5 DEF RunStage, Named, Attempting, InLoop, Located, InputIsNewest
  <2> QED
    BY <1>0, <2>1, <2>2, <2>3
    DEF OutputsInOrder, FreshAttempt, Attempt, NewestInAttempt, InputIsNewest, IsNewest
<1>6. CASE NothingWritten \/ EmitPancake \/ WriteFails
  <2>1. /\ pc = "finalize" /\ pc' = "dispatch" /\ ctx'.modified = ctx.modified
        /\ UNCHANGED <<disk, file, suffix, pass, retry>>
    BY <1>6 DEF NothingWritten, EmitPancake, WriteFails, driver, TypeOK, CtxType
  <2> QED
    BY <1>0, <2>1, BeforeTransitive
    DEF OutputsInOrder, FreshAttempt, Attempt, NewestInAttempt, InputIsNewest, IsNewest
<1>7. CASE WriteOutput
  <2>1. /\ pc = "finalize" /\ pc' = "dispatch" /\ ctx'.modified = TRUE
        /\ UNCHANGED <<file, suffix, pass, retry>>
        /\ disk' = disk \cup {<<file, Attempt>>}
    BY <1>7 DEF WriteOutput, driver, TypeOK, CtxType
  <2>2. \A d \in disk' : d[1] = file => NotAfter(d[2], Attempt)
    BY <1>0, <2>1, BeforeTransitive DEF FreshAttempt
  <2>3. Attempt' = Attempt
    BY <2>1 DEF Attempt
  <2>4. OutputsInOrder'
    BY <1>0, <2>1 DEF OutputsInOrder
  <2>5. <<file, Attempt>> \in disk'
    BY <2>1
  <2>6. FreshAttempt' /\ InputIsNewest'
    BY <2>1 DEF FreshAttempt, InputIsNewest
  <2>7. NewestInAttempt'
    BY <2>1, <2>2, <2>3, <2>5 DEF NewestInAttempt, IsNewest
  <2> QED
    BY <2>4, <2>6, <2>7
<1>8. CASE DispatchNextFile \/ DispatchContinue \/ DispatchRepeat
  <2>1. /\ pc = "dispatch" /\ pc' = "pass" /\ UNCHANGED <<disk, file, ctx>>
        /\ Attempt' \in {<<pass + 1, 0>>, <<pass, retry + 1>>}
    BY <1>8 DEF DispatchNextFile, DispatchContinue, DispatchRepeat, Reported,
                LeavePass, NextRetry, Attempt
  <2>2. \A a \in Int \X Int : NotAfter(a, Attempt) => Before(a, Attempt')
    <3>1. Attempt = <<pass, retry>>
      BY DEF Attempt
    <3> QED
      BY <1>0, <2>1, <3>1, LaterAttempts
  <2>3. FreshAttempt'
    BY <1>0, <2>1, <2>2 DEF FreshAttempt, NewestInAttempt
  <2>4. InputIsNewest'
    <3>1. CASE DispatchNextFile
      BY <2>1, <3>1 DEF DispatchNextFile, InputIsNewest
    <3>2. CASE DispatchContinue \/ DispatchRepeat
      <4>1. suffix' = IF ctx.modified THEN Attempt ELSE suffix
        BY <3>2 DEF DispatchContinue, DispatchRepeat, AdoptedSuffix, RepeatSuffix
      <4> QED
        BY <2>1, <4>1 DEF InputIsNewest, NewestInAttempt, IsNewest
    <3> QED
      BY <1>8, <3>1, <3>2
  <2> QED
    BY <1>0, <2>1, <2>3, <2>4 DEF OutputsInOrder, NewestInAttempt
<1>9. CASE KeepGenerated \/ CopyFinal
  <2>1. pc' = "file" /\ disk' = disk /\ file' = file + 1
    BY <1>9 DEF KeepGenerated, CopyFinal, FinishFile
  <2> QED
    BY <1>0, <2>1 DEF OutputsInOrder, FreshAttempt, NewestInAttempt, InputIsNewest
<1>10. CASE Exited
  BY <1>10 DEF Exited, vars, driver, OutputsInOrder, FreshAttempt, Attempt,
               NewestInAttempt, InputIsNewest, IsNewest
<1> QED
  BY <1>1, <1>2, <1>3, <1>4, <1>5, <1>6, <1>7, <1>8, <1>9, <1>10
  DEF Next, LoopStep, FinalizeStep, DispatchStep, CopyStep, NoCompileCommand,
      StageUnnamed, ToolRunFails, ControlMissing, StageError, RepeatUnmodified,
      DispatchAbort, CopyFails

LEMMA IInvStutter == IInv /\ UNCHANGED vars => IInv'
BY DEF IInv, TypeOK, Located, OutputsInOrder, FreshAttempt, Attempt,
       NewestInAttempt, InputIsNewest, IsNewest, vars, driver

\* IInv holds in every reachable state of every instance.
THEOREM Invariance == Spec => []IInv
<1>1. IInv /\ [Next]_vars => IInv'
  <2>1. ASSUME IInv, Next PROVE IInv'
    BY <2>1, TypeStep, NewestStep DEF IInv
  <2> QED
    BY <2>1, IInvStutter
<1> QED
  BY InitIInv, <1>1, PTL DEF Spec

\* No rewrite of a pass is lost: what an attempt reads, and what is copied to
\* the final output, is the newest text of the file.
THEOREM NoRewriteLost == Spec => []InputIsNewest
<1>1. IInv => InputIsNewest
  BY DEF IInv
<1> QED
  BY Invariance, <1>1, PTL

\* No attempt overwrites a file that an earlier attempt wrote.
THEOREM OutputNamesFresh == Spec => []FreshAttempt
<1>1. IInv => FreshAttempt
  BY DEF IInv
<1> QED
  BY Invariance, <1>1, PTL

\* Neither the name of a stage nor --skip and --start can change between two
\* of its attempts.
LEMMA SelectedStep ==
  ASSUME IInv, SelectedStays, [Next]_vars
  PROVE  SelectedStays'
<1>0. pass \in Nat /\ retry \in Nat
  BY NStagesAssumption, OptionsAssumption DEF IInv, TypeOK, OptionType
<1>1. CASE RunStage
  BY <1>1 DEF RunStage, SelectedStays, SkipMatches, Stage
<1>2. CASE FinalizeStep
  BY <1>2 DEF FinalizeStep, NothingWritten, WriteOutput, EmitPancake,
              WriteFails, SelectedStays, SkipMatches, Stage, driver
<1>3. CASE DispatchRepeat
  BY <1>3 DEF DispatchRepeat, Reported, SelectedStays, SkipMatches, Stage
<1>4. CASE DispatchNextFile \/ DispatchContinue \/ RetriesExhausted
           \/ SkipPass \/ SkipBeforeStart \/ BeginFile
  BY <1>4 DEF DispatchNextFile, DispatchContinue, RetriesExhausted, SkipPass,
              SkipBeforeStart, BeginFile, LeavePass, SelectedStays
<1>5. CASE AllFilesDone \/ PassesDone \/ (\E reason : Fatal(reason))
           \/ KeepGenerated \/ CopyFinal
  BY <1>5 DEF AllFilesDone, PassesDone, Fatal, KeepGenerated, CopyFinal,
              FinishFile, SelectedStays
<1>6. CASE UNCHANGED vars
  BY <1>6 DEF vars, driver, SelectedStays, SkipMatches, Stage
<1> QED
  BY <1>1, <1>2, <1>3, <1>4, <1>5, <1>6
  DEF Next, LoopStep, FinalizeStep, DispatchStep, CopyStep, NoCompileCommand,
      StageUnnamed, ToolRunFails, ControlMissing, StageError, RepeatUnmodified,
      DispatchAbort, CopyFails, Exited

\* A stage that asked for another attempt gets one until its budget of
\* max-pass-retries attempts is spent: the loop head leaves a stage that has
\* run only then, because neither its name nor --skip and --start can change
\* between two attempts.
THEOREM RetriesUntilBudget == Spec => RepeatUntilBudget
<1> DEFINE A == pc = "pass" /\ retry > 0 /\ pass' # pass => retry = opts.max
<1>1. Init => SelectedStays
  BY DEF Init, SelectedStays
<1>2. IInv /\ SelectedStays /\ [Next]_vars => SelectedStays'
  BY SelectedStep
<1>3. IInv /\ SelectedStays /\ [Next]_vars => [A]_vars
  <2> SUFFICES ASSUME IInv, SelectedStays, Next, pc = "pass", retry > 0, pass' # pass
               PROVE  retry = opts.max
    BY DEF vars, driver
  <2>0. retry \in 0..opts.max /\ opts.max \in Nat
    BY OptionsAssumption DEF IInv, TypeOK, OptionType
  <2>1. ~SkipMatches /\ StartReached
    BY DEF SelectedStays, StartReached
  <2>2. RetriesExhausted
    BY <2>1 DEF Next, LoopStep, FinalizeStep, DispatchStep, CopyStep,
      BeginFile, AllFilesDone, PassesDone, NoCompileCommand, StageUnnamed,
      SkipPass, SkipBeforeStart, RunStage, NothingWritten, WriteOutput,
      EmitPancake, WriteFails, ToolRunFails, ControlMissing, StageError,
      DispatchNextFile, DispatchContinue, DispatchRepeat, RepeatUnmodified,
      DispatchAbort, KeepGenerated, CopyFinal, CopyFails, Exited, Fatal,
      FinishFile, Reported, driver, vars
  <2> QED
    BY <2>0, <2>2 DEF RetriesExhausted, BudgetSpent
<1>4. Spec => []SelectedStays
  BY <1>1, <1>2, Invariance, PTL DEF Spec
<1> QED
  BY <1>3, <1>4, Invariance, PTL DEF Spec, RepeatUntilBudget

\* What the driver records of the attempts of a file, step by step.  Nothing
\* runs before the first pass --start names has been met, and a pass that
\* --end names takes the driver out of the loop when it reports that it is done.
LEMMA SelectionStep ==
  ASSUME IInv, Selection, Next
  PROVE  Recorded' /\ StartSeen' /\ EndSeen' /\ SelectionRespected'
<1> USE NStagesAssumption DEF Selection
<1>0. /\ pass \in Nat /\ retry \in Nat
      /\ \A a \in ran : a[1] \in Nat
      /\ \A p \in finished : p \in Nat
  BY OptionsAssumption DEF IInv, TypeOK, OptionType, Passes
<1>1. CASE BeginFile
  <2>1. ran' = {} /\ finished' = {}
    BY <1>1 DEF BeginFile
  <2>2. StartSeen'
    BY <1>1, Zenon DEF BeginFile, StartSeen
  <2> QED
    BY <2>1, <2>2 DEF Recorded, EndSeen, SelectionRespected
<1>2. CASE AllFilesDone \/ PassesDone \/ (\E reason : Fatal(reason))
           \/ KeepGenerated \/ CopyFinal \/ FinalizeStep \/ DispatchRepeat
  <2>1. UNCHANGED <<opts, pass, startFound, moveNext, ran, finished>>
    BY <1>2 DEF AllFilesDone, PassesDone, Fatal, KeepGenerated, CopyFinal, FinishFile,
                FinalizeStep, NothingWritten, WriteOutput, EmitPancake, WriteFails,
                DispatchRepeat, driver
  <2> QED
    BY <2>1 DEF Recorded, StartSeen, EndSeen, SelectionRespected, EndsAt
<1>3. CASE RetriesExhausted \/ SkipPass \/ SkipBeforeStart
  <2>1. /\ pass' = pass + 1
        /\ UNCHANGED <<opts, startFound, moveNext, ran, finished>>
    BY <1>3 DEF RetriesExhausted, SkipPass, SkipBeforeStart, LeavePass
  <2>2. Recorded' /\ StartSeen' /\ EndSeen'
    BY <1>0, <2>1 DEF Recorded, StartSeen, EndSeen, EndsAt
  <2> QED
    BY <2>1, <2>2 DEF SelectionRespected, EndsAt
<1>4. CASE RunStage
  <2>1. /\ ~moveNext /\ ~SkipMatches /\ StartReached /\ startFound' = TRUE
        /\ ran' = ran \cup {<<pass, retry>>}
        /\ UNCHANGED <<opts, pass, retry, moveNext, finished>>
    BY <1>4 DEF RunStage, Named, Attempting, InLoop, Attempt
  <2>2. opts.start # NoName => \E p \in 0..pass : Stages[p].name = opts.start
    BY <1>0, <2>1 DEF StartSeen, StartReached, Stage
  <2>3. Recorded' /\ StartSeen' /\ EndSeen'
    BY <1>0, <2>1, <2>2 DEF Recorded, StartSeen, EndSeen, EndsAt
  <2>4. SelectionRespected'
    <3>1. ASSUME NEW a \in ran'
          PROVE  /\ Stages[a[1]].name \notin opts.skip
                 /\ opts.start # NoName =>
                      \E p \in 0..a[1] : Stages[p].name = opts.start
      BY <2>1, <2>2, <3>1 DEF SelectionRespected, SkipMatches, Stage
    <3>2. \A p \in finished : ~EndsAt(p)
      BY <2>1 DEF EndSeen
    <3> QED
      BY <2>1, <3>1, <3>2 DEF SelectionRespected, EndsAt
  <2> QED
    BY <2>3, <2>4
<1>5. CASE DispatchNextFile \/ DispatchContinue
  <2>1. /\ pc = "dispatch" /\ pass' = pass + 1 /\ finished' = finished \cup {pass}
        /\ UNCHANGED <<opts, startFound, ran>>
        /\ moveNext' \/ ~EndsAt(pass)
    BY <1>5 DEF DispatchNextFile, DispatchContinue, Reported, LeavePass,
                MoveAfterContinue, EndMatches, EndsAt, Stage
  <2>2. \A p \in finished : ~EndsAt(p) /\ p < pass
    BY <2>1 DEF IInv, Located, EndSeen
  <2>3. Recorded' /\ StartSeen' /\ EndSeen'
    BY <1>0, <2>1, <2>2 DEF Recorded, StartSeen, EndSeen, EndsAt
  <2>4. SelectionRespected'
    BY <2>1, <2>2 DEF Recorded, SelectionRespected, EndsAt
  <2> QED
    BY <2>3, <2>4
<1>6. CASE Exited
  BY <1>6 DEF Exited, vars, driver, Recorded, StartSeen, EndSeen,
              SelectionRespected, EndsAt
<1> QED
  BY <1>1, <1>2, <1>3, <1>4, <1>5, <1>6
  DEF Next, LoopStep, DispatchStep, CopyStep, NoCompileCommand, StageUnnamed,
      ToolRunFails, ControlMissing, StageError, RepeatUnmodified, DispatchAbort,
      CopyFails

\* Nothing that is recorded changes without a step.
LEMMA SelectionStutter == Selection /\ UNCHANGED vars => Selection'
BY DEF Selection, Recorded, StartSeen, EndSeen, SelectionRespected, EndsAt,
       vars, driver

\* No stage runs that --skip names, none before the first --start names, and
\* none after one --end names has reported that it is done, for every stage
\* list, names registered twice included.  That none runs after the --end stage
\* whatever it reports is EndRespected, which the code does not keep.
THEOREM SelectionHonoured == Spec => []SelectionRespected
<1>1. Init => Selection
  BY DEF Init, Selection, Recorded, StartSeen, EndSeen, SelectionRespected
<1>2. IInv /\ Selection /\ [Next]_vars => Selection'
  <2>1. ASSUME IInv, Selection, Next PROVE Selection'
    BY <2>1, SelectionStep DEF Selection
  <2> QED
    BY <2>1, SelectionStutter
<1>3. Selection => SelectionRespected
  BY DEF Selection
<1> QED
  BY <1>1, <1>2, <1>3, Invariance, PTL DEF Spec

-----------------------------------------------------------------------------
(* The contract.                                                           *)

\* The status and the suffix, step by step.
LEMMA SuffixStep ==
  ASSUME IInv, StatusAtExit, SuffixWritten, Next
  PROVE  StatusAtExit' /\ SuffixWritten'
<1>1. CASE BeginFile \/ AllFilesDone
  BY <1>1 DEF BeginFile, AllFilesDone, driver, StatusAtExit, SuffixWritten
<1>2. CASE \E reason : Fatal(reason)
  BY <1>2 DEF Fatal, StatusAtExit, SuffixWritten
<1>3. CASE PassesDone \/ RetriesExhausted \/ SkipPass \/ SkipBeforeStart \/ RunStage
  BY <1>3 DEF PassesDone, RetriesExhausted, SkipPass, SkipBeforeStart, RunStage,
              LeavePass, Named, Attempting, driver, StatusAtExit, SuffixWritten
<1>4. CASE FinalizeStep
  BY <1>4 DEF FinalizeStep, NothingWritten, WriteOutput, EmitPancake, WriteFails,
              driver, StatusAtExit, SuffixWritten
<1>5. CASE DispatchNextFile \/ DispatchContinue \/ DispatchRepeat
  <2>1. /\ pc = "dispatch" /\ pc' = "pass" /\ UNCHANGED <<disk, file, exit>>
        /\ suffix' = suffix \/ (ctx.modified /\ suffix' = Attempt)
    BY <1>5 DEF DispatchNextFile, DispatchContinue, DispatchRepeat, Reported,
                LeavePass, AdoptedSuffix, RepeatSuffix
  <2>2. ctx.modified => Attempt = Original \/ <<file, Attempt>> \in disk
    BY <2>1 DEF IInv, NewestInAttempt, IsNewest
  <2> QED
    BY <2>1, <2>2 DEF StatusAtExit, SuffixWritten
<1>6. CASE KeepGenerated \/ CopyFinal
  BY <1>6 DEF KeepGenerated, CopyFinal, FinishFile, StatusAtExit, SuffixWritten
<1>7. CASE Exited
  BY <1>7 DEF Exited, vars, driver, StatusAtExit, SuffixWritten
<1> QED
  BY <1>1, <1>2, <1>3, <1>4, <1>5, <1>6, <1>7
  DEF Next, LoopStep, DispatchStep, CopyStep, NoCompileCommand, StageUnnamed,
      ToolRunFails, ControlMissing, StageError, RepeatUnmodified,
      DispatchAbort, CopyFails

LEMMA SuffixStutter ==
  StatusAtExit /\ SuffixWritten /\ UNCHANGED vars => StatusAtExit' /\ SuffixWritten'
BY DEF StatusAtExit, SuffixWritten, vars, driver

\* A version that is the newest is the one the contract sees: the order of the
\* versions leaves no other.
LEMMA NewestIsText ==
  ASSUME IInv, pc # "file", ctx.control # "NextFile",
         NEW v \in Int \X Int, IsNewest(v, file)
  PROVE  NewestText = v
<1>1. \A w \in Written(file) : w \in Nat \X Nat /\ NotAfter(w, v)
  BY DEF Written, IsNewest, IInv, TypeOK
<1>2. CASE Written(file) = {}
  BY <1>2 DEF NewestText, Written, IsNewest
<1>3. CASE Written(file) # {}
  <2>1. v \in Written(file)
    <3>1. PICK w \in Written(file) : TRUE
      BY <1>3
    <3>2. v # Original
      BY <1>1, <3>1 DEF Original, NotAfter, Before
    <3> QED
      BY <3>2 DEF Written, IsNewest
  <2>2. ASSUME NEW w \in Written(file), \A u \in Written(file) : NotAfter(u, w)
        PROVE  w = v
    BY <1>1, <2>1, <2>2 DEF NotAfter, Before
  <2> QED
    BY <1>1, <1>3, <2>1, <2>2 DEF NewestText
<1> QED
  BY <1>2, <1>3

\* The text between two attempts, and at the copy, is the one current_suffix
\* names.
LEMMA SuffixIsText ==
  ASSUME IInv, SuffixWritten, pc \in {"pass", "finalize", "copy"}
  PROVE  NewestText = suffix
<1>1. suffix \in Int \X Int
  BY DEF IInv, TypeOK
<1>2. CASE ctx.control # "NextFile"
  BY <1>1, <1>2, NewestIsText DEF IInv, InputIsNewest, NewestInAttempt
<1>3. CASE ctx.control = "NextFile"
  <2>1. CASE Written(file) = {}
    BY <1>3, <2>1 DEF NewestText, SuffixWritten, Written
  <2>2. CASE Written(file) # {}
    BY <1>3, <2>2 DEF NewestText
  <2> QED
    BY <2>1, <2>2
<1> QED
  BY <1>2, <1>3

LEMMA AttemptIsText ==
  /\ IInv /\ pc # "file" /\ ctx.control # "NextFile"
  /\ Attempt \in Int \X Int /\ IsNewest(Attempt, file)
  => NewestText = Attempt
BY NewestIsText

\* What no output, file or outcome disturbs leaves the text alone.
LEMMA SameText ==
  ASSUME disk' = disk, file' = file, pc # "file", pc' # "file",
         ctx'.control = ctx.control,
         ctx.control = "NextFile" => suffix' = suffix
  PROVE  NewestText' = NewestText
<1>1. Written(file)' = Written(file)
  BY DEF Written
<1> QED
  BY <1>1 DEF NewestText

\* Each step of the driver is one of the contract, or none.
LEMMA ContractStep ==
  ASSUME IInv, StatusAtExit, SuffixWritten, Next
  PROVE  [Contract!Next]_(Contract!cvars)
<1> USE NFilesAssumption
<1>0. file \in Nat /\ NFiles \in Nat /\ (file \in Files => file - 1 < NFiles)
      /\ (pc # "exit" => exit = -1)
  BY DEF IInv, TypeOK, Files, StatusAtExit
<1>1. CASE BeginFile
  <2>1. Written(file)' = {}
    BY <1>0, <1>1 DEF BeginFile, IInv, OutputsInOrder, TypeOK, Files, Written
  <2>2. NewestText = Original /\ NewestText' = Original
    BY <1>1, <2>1 DEF BeginFile, NewestText
  <2> QED
    BY <1>1, <2>2 DEF BeginFile, Contract!cvars
<1>2. CASE AllFilesDone
  <2>1. Written(file)' = {}
    BY <1>0, <1>2 DEF AllFilesDone, driver, IInv, TypeOK, Files, Written
  <2>2. NewestText = Original /\ NewestText' = Original
    BY <1>2, <2>1 DEF AllFilesDone, NewestText
  <2>3. file - 1 = NFiles
    BY <1>0, <1>2 DEF AllFilesDone, IInv, TypeOK
  <2> QED
    BY <1>0, <1>2, <2>2, <2>3
    DEF AllFilesDone, driver, Contract!Next, Contract!Succeed
<1>3. CASE (\E reason : Fatal(reason)) /\ pc \in {"pass", "dispatch", "copy"}
  <2>1. NewestText' = NewestText
    BY <1>3, SameText DEF Fatal, driver
  <2>2. file \in Files
    BY <1>3 DEF IInv, Located
  <2> QED
    BY <1>0, <1>3, <2>1, <2>2 DEF Fatal, driver, Contract!Next, Contract!Fail
<1>4. CASE \/ PassesDone \/ RetriesExhausted \/ SkipPass \/ SkipBeforeStart
           \/ NothingWritten \/ EmitPancake \/ WriteFails
           \/ DispatchNextFile \/ DispatchContinue \/ DispatchRepeat
  <2>1. /\ disk' = disk /\ file' = file /\ exit' = exit /\ final' = final
        /\ pc # "file" /\ pc' # "file"
    BY <1>4 DEF PassesDone, RetriesExhausted, SkipPass, SkipBeforeStart, LeavePass,
                NothingWritten, EmitPancake, WriteFails, DispatchNextFile,
                DispatchContinue, DispatchRepeat, Named, Attempting, Reported, driver
  <2>2. ctx'.control = ctx.control
    BY <1>4 DEF PassesDone, RetriesExhausted, SkipPass, SkipBeforeStart,
                NothingWritten, EmitPancake, WriteFails, DispatchNextFile,
                DispatchContinue, DispatchRepeat, IInv, TypeOK, CtxType
  <2>3. ctx.control = "NextFile" => suffix' = suffix
    BY <1>4 DEF PassesDone, RetriesExhausted, SkipPass, SkipBeforeStart,
                NothingWritten, EmitPancake, WriteFails, DispatchNextFile,
                DispatchContinue, DispatchRepeat, Reported, driver
  <2>4. NewestText' = NewestText
    BY <2>1, <2>2, <2>3, SameText
  <2> QED
    BY <2>1, <2>4 DEF Contract!cvars
<1>5. CASE RunStage
  <2>1. pc = "pass" /\ pc' = "finalize"
        /\ UNCHANGED <<disk, file, suffix, exit, final>>
    BY <1>5 DEF RunStage, Named, Attempting
  <2>2. NewestText = suffix
    BY <2>1, SuffixIsText
  <2>3. IInv' /\ SuffixWritten'
    BY TypeStep, NewestStep, SuffixStep DEF IInv
  <2>4. NewestText' = suffix'
    <3>1. (IInv /\ SuffixWritten /\ pc \in {"pass", "finalize", "copy"}
             => NewestText = suffix)'
      BY SuffixIsText, PTL
    <3> QED
      BY <2>1, <2>3, <3>1
  <2> QED
    BY <2>1, <2>2, <2>4 DEF Contract!cvars
<1>6. CASE WriteOutput
  <2>1. /\ pc = "finalize" /\ pc' = "dispatch"
        /\ UNCHANGED <<file, suffix, pass, retry, exit, final>>
        /\ disk' = disk \cup {<<file, Attempt>>}
        /\ ctx'.control = ctx.control /\ ctx'.modified = TRUE
    BY <1>6 DEF WriteOutput, driver, IInv, TypeOK, CtxType
  <2>2. NewestText = suffix
    BY <2>1, SuffixIsText
  <2>3. CASE ctx.control = "NextFile"
    <3>1. Attempt \in Written(file)' /\ Attempt' = Attempt
      <4>1. Attempt' = Attempt /\ file' = file
        BY <2>1 DEF Attempt
      <4> DEFINE d == <<file, Attempt>>
      <4>2. d \in disk' /\ d[1] = file /\ d[2] = Attempt
        BY <2>1
      <4> HIDE DEF d
      <4> QED
        BY <4>1, <4>2 DEF Written
    <3>2. NewestText' = suffix
      BY <2>1, <2>3, <3>1 DEF NewestText
    <3> QED
      BY <2>1, <2>2, <3>2 DEF Contract!cvars
  <2>4. CASE ctx.control # "NextFile"
    <3>1. Attempt \in Nat \X Nat /\ Attempt' = Attempt
      BY <2>1, NStagesAssumption, OptionsAssumption
      DEF IInv, TypeOK, OptionType, Attempt
    <3>2. Before(suffix, Attempt)
      BY <2>1, <3>1
      DEF IInv, SuffixWritten, FreshAttempt, Original, Before
    <3>3. IInv'
      BY TypeStep, NewestStep DEF IInv
    <3>4. IsNewest(Attempt, file)'
      BY <2>1, <3>3 DEF IInv, NewestInAttempt
    <3>5. NewestText' = Attempt
      <4>1. (/\ IInv /\ pc # "file" /\ ctx.control # "NextFile"
             /\ Attempt \in Int \X Int /\ IsNewest(Attempt, file)
             => NewestText = Attempt)'
        BY AttemptIsText, PTL
      <4> QED
        BY <2>1, <2>4, <3>1, <3>3, <3>4, <4>1
    <3>6. file \in Files
      BY <2>1 DEF IInv, Located
    <3> QED
      BY <1>0, <2>1, <2>2, <3>2, <3>5, <3>6
      DEF Contract!Next, Contract!Rewrite
  <2> QED
    BY <2>3, <2>4
<1>7. CASE KeepGenerated \/ CopyFinal
  <2>1. pc = "copy" /\ pc' = "file" /\ file' = file + 1 /\ exit' = exit
    BY <1>7 DEF KeepGenerated, CopyFinal, FinishFile
  <2>2. NewestText = suffix /\ NewestText' = Original
    BY <2>1, SuffixIsText DEF NewestText
  <2>3. PICK out \in {suffix, Generated} : final' = [final EXCEPT ![file] = out]
    BY <1>7 DEF KeepGenerated, CopyFinal, FinishFile
  <2>4. file \in Files /\ (file - 1) + 1 = file /\ file' - 1 = (file - 1) + 1
    BY <1>0, <2>1 DEF IInv, Located
  <2> QED
    BY <1>0, <2>1, <2>2, <2>3, <2>4 DEF Contract!Next, Contract!Complete
<1>8. CASE Exited
  <2>1. NewestText' = NewestText
    BY <1>8 DEF Exited, vars, driver, NewestText, Written
  <2> QED
    BY <1>8, <2>1 DEF Exited, vars, driver, Contract!cvars
<1> QED
  BY <1>1, <1>2, <1>3, <1>4, <1>5, <1>6, <1>7, <1>8
  DEF Next, LoopStep, FinalizeStep, DispatchStep, CopyStep, NoCompileCommand,
      StageUnnamed, ToolRunFails, ControlMissing, StageError, RepeatUnmodified,
      DispatchAbort, CopyFails, Named, Attempting, Reported

\* Whatever the stages do, every step of the driver is one its caller may rely
\* on: files complete in order, with the newest text or a generated file, and
\* the status tells whether all did.
THEOREM ContractKept == Spec => KeepsContract
<1>1. Init => StatusAtExit /\ SuffixWritten
  BY DEF Init, StatusAtExit, SuffixWritten
<1>2. IInv /\ StatusAtExit /\ SuffixWritten /\ [Next]_vars
        => StatusAtExit' /\ SuffixWritten'
  BY SuffixStep, SuffixStutter
<1>3. Init => Contract!Init
  <2>1. ASSUME Init PROVE NewestText = Original /\ file - 1 = 0
    BY <2>1 DEF Init, NewestText
  <2> QED
    BY <2>1 DEF Init, Contract!Init, Files
<1>4. IInv /\ StatusAtExit /\ SuffixWritten /\ [Next]_vars
        => [Contract!Next]_(Contract!cvars)
  <2>1. ASSUME UNCHANGED vars PROVE UNCHANGED (Contract!cvars)
    <3>1. NewestText' = NewestText
      BY <2>1 DEF vars, driver, NewestText, Written
    <3> QED
      BY <2>1, <3>1 DEF vars, driver, Contract!cvars
  <2> QED
    BY <2>1, ContractStep
<1> QED
  BY <1>1, <1>2, <1>3, <1>4, Invariance, PTL DEF Spec, KeepsContract

\* The driver implements PipelineContract, its caller's verdict included, if it
\* ends; that it ends is what Termination says.
THEOREM ContractImplemented == Spec /\ Termination => ImplementsContract
<1> DEFINE Ended == exit # -1
<1>1. Init => StatusAtExit /\ SuffixWritten
  BY DEF Init, StatusAtExit, SuffixWritten
<1>2. IInv /\ StatusAtExit /\ SuffixWritten /\ [Next]_vars
        => StatusAtExit' /\ SuffixWritten'
  BY SuffixStep, SuffixStutter
<1>3. StatusAtExit => (pc = "exit" => Ended)
  BY DEF StatusAtExit
<1> QED
  BY <1>1, <1>2, <1>3, ContractKept, Invariance, PTL
  DEF Spec, Termination, ImplementsContract, KeepsContract, Contract!Spec

\* The driver never goes back, so what keeps it from going on for ever are the
\* bounds of its counters, which TypeCorrect states.
THEOREM AlwaysForward == Spec => Advances
<1>1. IInv /\ [Next]_vars => [Forward]_vars
  <2> SUFFICES ASSUME IInv, Next PROVE Forward \/ UNCHANGED vars
    OBVIOUS
  <2>0. file \in Nat /\ pass \in Nat /\ retry \in Nat
    BY NFilesAssumption, NStagesAssumption, OptionsAssumption
    DEF IInv, TypeOK, OptionType
  <2> USE DEF Forward, Part, Phase
  <2>1. CASE BeginFile \/ AllFilesDone \/ PassesDone
    BY <2>1 DEF BeginFile, AllFilesDone, PassesDone, driver
  <2>2. CASE (\E reason : Fatal(reason)) /\ pc \in {"pass", "dispatch", "copy"}
    BY <2>2 DEF Fatal, driver
  <2>3. CASE RetriesExhausted \/ SkipPass \/ SkipBeforeStart
             \/ DispatchNextFile \/ DispatchContinue
    BY <2>0, <2>3 DEF RetriesExhausted, SkipPass, SkipBeforeStart, DispatchNextFile,
                      DispatchContinue, LeavePass, Named, Attempting, Reported
  <2>4. CASE RunStage \/ FinalizeStep
    BY <2>4 DEF RunStage, Named, Attempting, FinalizeStep, NothingWritten,
                WriteOutput, EmitPancake, WriteFails, driver
  <2>5. CASE DispatchRepeat
    BY <2>0, <2>5 DEF DispatchRepeat, Reported, NextRetry
  <2>6. CASE KeepGenerated \/ CopyFinal
    BY <2>0, <2>6 DEF KeepGenerated, CopyFinal, FinishFile
  <2> QED
    BY <2>1, <2>2, <2>3, <2>4, <2>5, <2>6
    DEF Next, LoopStep, DispatchStep, CopyStep, NoCompileCommand, StageUnnamed,
        ToolRunFails, ControlMissing, StageError, RepeatUnmodified, DispatchAbort,
        CopyFails, Exited, Named, Attempting, Reported
<1> QED
  BY <1>1, Invariance, PTL DEF Spec, Advances
=============================================================================
