------------------------------ MODULE Pipeline ------------------------------
(***************************************************************************)
(* The pass driver of c2pancake, Pipeline::Run (src/Pipeline.cpp), with    *)
(* the parts of Pipeline.h and Utils.h that every stage goes through: the  *)
(* fresh StageContext of an attempt, the output finalizer, the artifact    *)
(* store of an input file and the control outcome a stage reports.         *)
(*                                                                         *)
(* A step of the model is one decision of the driver: the head of the      *)
(* retry loop, the stage's HandleTranslationUnit, the finalizer, the       *)
(* dispatch on the control outcome, the final copy.  What a pass does to   *)
(* the text is abstract here (it finds rewrites, or none, or an error);    *)
(* the passes have modules of their own.                                   *)
(***************************************************************************)
EXTENDS Integers

CONSTANTS
  NFiles,     \* number of source files on the command line
  Stages,     \* the registered stages: [0..NStages-1 -> [name, kind, keys]]
  NStages,    \* factories.size()
  Options,    \* the command lines considered: see OptionType
  NoName      \* an option left empty ("")

Files    == 1..NFiles
Passes   == 0..(NStages - 1)
Names    == {Stages[p].name : p \in Passes}

\* What the stage of a factory is: "once" rewrites in one go and reports
\* Continue, "fixpoint" reports Repeat while it finds rewrites, "backend" is
\* pass_c2pancake, "custom" is a Clang stage written against the StageContext
\* interface (any outcome it allows), "file" is one added by AddFileStage.
Kinds    == {"once", "fixpoint", "backend", "custom", "file"}
Controls == {"None", "Continue", "Repeat", "NextFile", "Abort"}

OptionType == [max   : Nat,                    \* --max-pass-retries
               start : Names \cup {NoName},    \* --start
               end   : Names \cup {NoName},    \* --end
               skip  : SUBSET Names,           \* --skip
               known : SUBSET Files]           \* files with a compile command

ASSUME NFilesAssumption  == NFiles \in Nat
ASSUME NStagesAssumption == NStages \in Nat
ASSUME OptionsAssumption == Options \subseteq OptionType
ASSUME StagesAssumption  == \A p \in Passes : Stages[p].kind \in Kinds

VARIABLES
  opts,        \* the command line of this run
  file,        \* index of initial_file in the source path list
  pass,        \* pass_num
  retry,       \* pass_retry
  pc,          \* where the driver is
  startFound,  \* start_at_pass_found
  moveNext,    \* move_to_next_file
  suffix,      \* current_suffix, as the attempt that wrote the file it names
  ctx,         \* the StageContext of the current attempt
  arts,        \* keys published in run_ctx.artifacts
  gen,         \* run_ctx.generated_files is not empty
  ran,         \* attempts whose stage ran for this file (history)
  finished,    \* passes that reported Continue or NextFile for it (history)
  disk,        \* intermediate files written: <<file, attempt>>
  emitted,     \* files whose .pancake/.scaffold.c/.ffi.c were written
  final,       \* what the final output of each file was taken from
  exit,        \* exit status of the process, -1 while it runs
  why          \* which return of Run ended it

driver == <<file, pass, retry, startFound, moveNext, suffix>>
vars   == <<opts, driver, pc, ctx, arts, gen, ran, finished, disk, emitted,
            final, exit, why>>

Original  == <<-1, 0>>      \* the empty suffix: the initial file itself
NoFile    == <<-2, 0>>      \* no final output yet
Generated == <<-2, 1>>      \* a file the stages generated themselves

Attempt   == <<pass, retry>>
Stage     == Stages[pass]
InLoop    == pass < NStages /\ ~moveNext

Before(a, b)    == a[1] < b[1] \/ (a[1] = b[1] /\ a[2] < b[2])
NotAfter(a, b)  == a = b \/ Before(a, b)

NoCtx == [control |-> "None", rewrites |-> FALSE, error |-> FALSE,
          modified |-> FALSE, generated |-> FALSE]

CtxType == [control : Controls, rewrites : BOOLEAN, error : BOOLEAN,
            modified : BOOLEAN, generated : BOOLEAN]

\* What HandleTranslationUnit of a stage may leave in its context.
StageOutcomes(kind) ==
  {o \in CtxType :
     /\ ~o.modified
     /\ \/ kind = "custom"
        \/ ~o.generated /\ o.error /\ o.control = "NextFile"
        \/ /\ ~o.generated /\ ~o.error
           /\ \/ kind = "once" /\ o.control = "Continue"
              \/ kind = "fixpoint" /\ o.control = "Repeat" /\ o.rewrites
              \/ kind = "fixpoint" /\ o.control = "Continue" /\ ~o.rewrites
              \/ kind = "backend" /\ o.control = "None" /\ ~o.rewrites}

-----------------------------------------------------------------------------
Init ==
  /\ opts \in Options
  /\ file = 1 /\ pass = 0 /\ retry = 0
  /\ startFound = FALSE /\ moveNext = FALSE /\ suffix = Original
  /\ pc = "file" /\ ctx = NoCtx /\ arts = {} /\ gen = FALSE /\ ran = {}
  /\ finished = {}
  /\ disk = {} /\ emitted = {}
  /\ final = [f \in Files |-> NoFile]
  /\ exit = -1 /\ why = "none"

\* return 1 from Run, with the message that says why
Fatal(reason) ==
  /\ exit' = 1 /\ why' = reason /\ pc' = "exit"
  /\ UNCHANGED <<opts, driver, ctx, arts, gen, ran, finished, disk, emitted,
                 final>>

\* A new initial_file: a fresh PipelineRunCtx and the locals of the outer loop.
BeginFile ==
  /\ pc = "file" /\ file <= NFiles
  /\ pass' = 0 /\ retry' = 0 /\ moveNext' = FALSE /\ suffix' = Original
  /\ startFound' = (opts.start = NoName)
  /\ arts' = {} /\ gen' = FALSE /\ ran' = {} /\ finished' = {} /\ ctx' = NoCtx
  /\ pc' = "pass"
  /\ UNCHANGED <<opts, file, disk, emitted, final, exit, why>>

AllFilesDone ==
  /\ pc = "file" /\ file > NFiles
  /\ exit' = 0 /\ why' = "completed" /\ pc' = "exit"
  /\ UNCHANGED <<opts, driver, ctx, arts, gen, ran, finished, disk, emitted,
                 final>>

-----------------------------------------------------------------------------
(* The head of the retry loop: what decides whether the stage runs at all. *)

\* leave the retry loop for the next iteration of the pass loop
LeavePass ==
  /\ pass' = pass + 1 /\ retry' = 0 /\ pc' = "pass"

PassesDone ==
  /\ pc = "pass" /\ ~InLoop
  /\ pc' = "copy"
  /\ UNCHANGED <<opts, driver, ctx, arts, gen, ran, finished, disk, emitted,
                 final, exit, why>>

OffByOneBudget == retry + 1 >= opts.max      \* mutants of BudgetSpent
BudgetPassed   == retry > opts.max
BudgetSpent    == retry >= opts.max

\* pass_retry < max_pass_retries fails: the loop ends without a break
RetriesExhausted ==
  /\ pc = "pass" /\ InLoop /\ BudgetSpent
  /\ LeavePass
  /\ UNCHANGED <<opts, file, startFound, moveNext, suffix, ctx, arts, gen,
                 ran, finished, disk, emitted, final, exit, why>>

\* An attempt has begun: its context exists and the lookups follow.
Attempting == pc = "pass" /\ InLoop /\ ~BudgetSpent
HasCommand == Stage.kind = "file" \/ file \in opts.known

\* StagedCompilationDatabase strips current_suffix, so the answer is that of
\* the base database for the initial file, whatever the attempt.
NoCompileCommand ==
  /\ Attempting /\ ~HasCommand
  /\ Fatal("noCommand")

\* FileStageFactory::CreateAction returns nullptr and constructs no stage, so
\* nothing has set stage_name when Run looks at it.
StageUnnamed ==
  /\ Attempting /\ HasCommand /\ Stage.kind = "file"
  /\ Fatal("noName")

Named == Attempting /\ HasCommand /\ Stage.kind # "file"

MutSkipNever == FALSE                        \* mutant of SkipMatches
SkipMatches  == Stage.name \in opts.skip

SkipPass ==
  /\ Named /\ SkipMatches
  /\ LeavePass
  /\ UNCHANGED <<opts, file, startFound, moveNext, suffix, ctx, arts, gen,
                 ran, finished, disk, emitted, final, exit, why>>

StartReached == startFound \/ Stage.name = opts.start

SkipBeforeStart ==
  /\ Named /\ ~SkipMatches /\ ~StartReached
  /\ LeavePass
  /\ UNCHANGED <<opts, file, startFound, moveNext, suffix, ctx, arts, gen,
                 ran, finished, disk, emitted, final, exit, why>>

\* PipelineArtifacts::Set refuses a key that is already there; a stage turns
\* the refusal into its error, with control NextFile.
Published(o) ==
  IF o.error THEN arts ELSE arts \cup Stage.keys
AfterPublish(o) ==
  IF ~o.error /\ Stage.keys \cap arts # {}
  THEN [o EXCEPT !.control = "NextFile", !.error = TRUE]
  ELSE o

\* ToolInvocation::run reaches HandleTranslationUnit of the stage's consumer.
RunStage ==
  /\ Named /\ ~SkipMatches /\ StartReached
  /\ startFound' = TRUE
  /\ \E o \in StageOutcomes(Stage.kind) :
       /\ ctx' = AfterPublish(o)
       /\ arts' = Published(o)
  /\ ran' = ran \cup {Attempt}
  /\ pc' = "finalize"
  /\ UNCHANGED <<opts, file, pass, retry, moveNext, suffix, gen, disk,
                 emitted, final, exit, why, finished>>

-----------------------------------------------------------------------------
(* ClangStage::EndSourceFileAction and the finalizer of the stage.         *)

Writes == ~ctx.error /\ ctx.rewrites /\ Stage.kind # "backend"

\* Not writing output file due to error, or no replacements to apply
NothingWritten ==
  /\ pc = "finalize" /\ ~Writes
  /\ Stage.kind = "backend" => ctx.error
  /\ pc' = "dispatch"
  /\ UNCHANGED <<opts, driver, ctx, arts, gen, ran, finished, disk, emitted,
                 final, exit, why>>

\* ReplacementOutputFinalizer: apply, format, write next_file
WriteOutput ==
  /\ pc = "finalize" /\ Writes
  /\ disk' = disk \cup {<<file, Attempt>>}
  /\ ctx' = [ctx EXCEPT !.modified = TRUE]
  /\ pc' = "dispatch"
  /\ UNCHANGED <<opts, driver, arts, gen, ran, finished, emitted, final, exit,
                 why>>

\* pass_c2pancake's own Finalizer: the outputs are written before make runs
EmitPancake ==
  /\ pc = "finalize" /\ Stage.kind = "backend" /\ ~ctx.error
  /\ emitted' = emitted \cup {file}
  /\ \E failed \in BOOLEAN : ctx' = [ctx EXCEPT !.error = failed]
  /\ pc' = "dispatch"
  /\ UNCHANGED <<opts, driver, arts, gen, ran, finished, disk, final, exit,
                 why>>

\* an output that cannot be formatted or opened becomes the stage's error
WriteFails ==
  /\ pc = "finalize" /\ ~ctx.error /\ (Writes \/ Stage.kind = "backend")
  /\ ctx' = [ctx EXCEPT !.error = TRUE]
  /\ pc' = "dispatch"
  /\ UNCHANGED <<opts, driver, arts, gen, ran, finished, disk, emitted, final,
                 exit, why>>

-----------------------------------------------------------------------------
(* The dispatch on the outcome, in the order Run tests it.                 *)

\* The staged source does not compile: invocation.run() is false whatever the
\* consumer did.
ToolRunFails    == pc = "dispatch" /\ Fatal("toolFailed")
ControlMissing  == pc = "dispatch" /\ ctx.control = "None" /\ Fatal("noControl")
StageError      == /\ pc = "dispatch" /\ ctx.control # "None" /\ ctx.error
                   /\ Fatal("stageError")

Reported == pc = "dispatch" /\ ctx.control # "None" /\ ~ctx.error
EndMatches == opts.end # NoName /\ Stage.name = opts.end

DispatchNextFile ==
  /\ Reported /\ ctx.control = "NextFile"
  /\ moveNext' = TRUE
  /\ gen' = (gen \/ ctx.generated)
  /\ finished' = finished \cup {pass}
  /\ LeavePass
  /\ UNCHANGED <<opts, file, startFound, suffix, ctx, arts, ran, disk,
                 emitted, final, exit, why>>

MutAdoptAlways == Attempt                    \* mutant of AdoptedSuffix
AdoptedSuffix  == IF ctx.modified THEN Attempt ELSE suffix

MutEndNever    == moveNext                   \* mutant of MoveAfterContinue
MoveAfterContinue == EndMatches

DispatchContinue ==
  /\ Reported /\ ctx.control = "Continue"
  /\ suffix' = AdoptedSuffix
  /\ moveNext' = MoveAfterContinue
  /\ gen' = (gen \/ ctx.generated)
  /\ finished' = finished \cup {pass}
  /\ LeavePass
  /\ UNCHANGED <<opts, file, startFound, ctx, arts, ran, disk, emitted,
                 final, exit, why>>

MutSameRetry == retry                        \* mutant of NextRetry
NextRetry    == retry + 1
MutKeepInput == suffix                       \* mutant of RepeatSuffix
RepeatSuffix == Attempt

DispatchRepeat ==
  /\ Reported /\ ctx.control = "Repeat" /\ ctx.modified
  /\ suffix' = RepeatSuffix
  /\ gen' = (gen \/ ctx.generated)
  /\ retry' = NextRetry /\ pc' = "pass"
  /\ UNCHANGED <<opts, file, pass, startFound, moveNext, ctx, arts, ran,
                 finished, disk, emitted, final, exit, why>>

\* a Repeat that changed nothing would repeat for ever
RepeatUnmodified ==
  /\ Reported /\ ctx.control = "Repeat" /\ ~ctx.modified
  /\ Fatal("repeatUnmodified")

DispatchAbort == Reported /\ ctx.control = "Abort" /\ Fatal("abort")

-----------------------------------------------------------------------------
(* After the pass loop: generated files stand, or current_file is copied.  *)

FinishFile(source) ==
  /\ final' = [final EXCEPT ![file] = source]
  /\ file' = file + 1 /\ pc' = "file"
  /\ UNCHANGED <<opts, pass, retry, startFound, moveNext, suffix, ctx, arts,
                 gen, ran, finished, disk, emitted, exit, why>>

KeepGenerated == pc = "copy" /\ gen /\ FinishFile(Generated)
CopyFinal     == pc = "copy" /\ ~gen /\ FinishFile(suffix)
CopyFails     == pc = "copy" /\ ~gen /\ Fatal("copyFailed")

Exited == pc = "exit" /\ UNCHANGED vars

LoopStep     == \/ PassesDone \/ RetriesExhausted \/ NoCompileCommand
                \/ StageUnnamed \/ SkipPass \/ SkipBeforeStart \/ RunStage
FinalizeStep == NothingWritten \/ WriteOutput \/ EmitPancake \/ WriteFails
DispatchStep == \/ ToolRunFails \/ ControlMissing \/ StageError
                \/ DispatchNextFile \/ DispatchContinue \/ DispatchRepeat
                \/ RepeatUnmodified \/ DispatchAbort
CopyStep     == KeepGenerated \/ CopyFinal \/ CopyFails

Next == \/ BeginFile \/ AllFilesDone \/ LoopStep \/ FinalizeStep
        \/ DispatchStep \/ CopyStep \/ Exited

\* A single thread of control that is never blocked: every library call Run
\* makes returns, so the driver keeps taking steps until the process exits.
Spec == Init /\ [][Next]_vars /\ WF_vars(Next)

-----------------------------------------------------------------------------
(* Properties.                                                             *)

Locations == {"file", "pass", "finalize", "dispatch", "copy", "exit"}

\* Every variable has its type; the counters stay in the range their loops
\* give them and no attempt is numbered beyond --max-pass-retries.
TypeOK ==
  /\ opts \in Options
  /\ file \in 1..(NFiles + 1)
  /\ pass \in 0..NStages
  /\ retry \in 0..opts.max
  /\ pc \in Locations
  /\ startFound \in BOOLEAN /\ moveNext \in BOOLEAN /\ gen \in BOOLEAN
  /\ suffix \in Int \X Nat
  /\ ctx \in CtxType
  /\ ran \in SUBSET (Nat \X Nat) /\ finished \subseteq Passes
  /\ disk \in SUBSET (Files \X (Nat \X Nat))
  /\ emitted \in SUBSET Files
  /\ final \in [Files -> Int \X Nat]
  /\ exit \in {-1, 0, 1}

\* v is the newest text of file f: the original or a file that was written,
\* with nothing written for f after it.
IsNewest(v, f) ==
  /\ v = Original \/ <<f, v>> \in disk
  /\ \A d \in disk : d[1] = f => NotAfter(d[2], v)

\* Whenever an attempt is about to read its input, and when the final copy is
\* taken, current_suffix names a file that exists and that no later output
\* supersedes: no rewrite of a pass is lost (Pipeline.cpp:137,154).  Only a
\* stage that asks for NextFile gives its own output up.
InputIsNewest ==
  pc \in {"pass", "copy"} /\ ctx.control # "NextFile" => IsNewest(suffix, file)

\* The name <pass>-<retry> an attempt writes to is later than every name this
\* file has used: outputs are never overwritten and the temporaries, which
\* carry the same two numbers, cannot collide across attempts.
FreshAttempt ==
  pc \in {"pass", "finalize"} =>
    \A d \in disk : d[1] = file => Before(d[2], Attempt)

\* A stage that asked for another attempt is abandoned only when its budget of
\* max-pass-retries attempts is spent.
RepeatUntilBudget ==
  [][pc = "pass" /\ retry > 0 /\ pass' # pass => retry = opts.max]_vars

EndsAt(p) == opts.end # NoName /\ opts.end = Stages[p].name
\* No pass named by --skip runs, under any of its registrations; with --start
\* nothing runs before the first pass of that name; and once a pass of the name
\* --end gives has reported that it is done, nothing behind it runs.
SelectionRespected ==
  /\ \A a \in ran :
       /\ Stages[a[1]].name \notin opts.skip
       /\ opts.start # NoName => \E p \in 0..a[1] : Stages[p].name = opts.start
  /\ \A p \in finished : EndsAt(p) => \A a \in ran : a[1] <= p

\* What the help text says of --end: "End the pipeline after this pass
\* (including retries)" (main.cpp:92).  Once the pass has run, nothing behind
\* it runs, whatever the pass reported.  The code departs from it: a pass that
\* still reports Repeat at its last attempt leaves by the head of the retry
\* loop, past the test of --end (Pipeline.cpp:161,176).
EndRespected ==
  \A a, b \in ran : EndsAt(a[1]) => b[1] <= a[1]

\* Every run ends: each pass takes at most max-pass-retries attempts.
Termination == <>(pc = "exit")

\* How far the run has come: the file, the part of its processing, the pass,
\* the attempt and the part of the attempt.  All five are bounded.
Part(at) == CASE at = "file" -> 0 [] at = "copy" -> 2 [] at = "exit" -> 3 [] OTHER -> 1
Phase(at) == CASE at = "finalize" -> 1 [] at = "dispatch" -> 2 [] OTHER -> 0

\* Every step goes forward, whatever the stages report: to the next file, or
\* within the file to the next part, pass, attempt or part of the attempt.
Forward ==
  \/ file' > file
  \/ file' = file /\ Part(pc') > Part(pc)
  \/ /\ file' = file /\ pc' \in {"pass", "finalize", "dispatch"} /\ Part(pc') = Part(pc)
     /\ \/ pass' > pass
        \/ pass' = pass /\ retry' > retry
        \/ pass' = pass /\ retry' = retry /\ Phase(pc') > Phase(pc)
Advances == [][Forward]_vars

(* The inductive invariant of the driver (PipelineProofs).                 *)

\* Past the head of the loops there is a current file, and past the checks of
\* an attempt there is a current pass with budget left.
Located ==
  /\ pc \in {"pass", "finalize", "dispatch", "copy"} => file \in Files
  /\ pc \in {"finalize", "dispatch"} =>
       pass < NStages /\ retry < opts.max /\ ~moveNext
  /\ pc = "pass" /\ ctx.control = "NextFile" => moveNext

\* Outputs belong to the files taken so far, and to this file only when it has
\* begun.
OutputsInOrder ==
  \A d \in disk : d[1] <= file /\ (pc = "file" => d[1] < file)

\* While an attempt is between its start and its dispatch, its input is still
\* the newest text unless it has written its own output.
NewestInAttempt ==
  /\ pc = "finalize" => IsNewest(suffix, file) /\ ~ctx.modified
  /\ pc = "dispatch" =>
       /\ IsNewest(IF ctx.modified THEN Attempt ELSE suffix, file)
       /\ \A d \in disk : d[1] = file => NotAfter(d[2], Attempt)

\* A stage that has run once is not deselected between two of its attempts.
SelectedStays ==
  \/ pc \in {"finalize", "dispatch"}
  \/ pc = "pass" /\ retry > 0
  => ~SkipMatches /\ startFound

\* What ran belongs to the passes up to this one; a pass that is done is behind
\* this one, and the last pass if --end names it.
Recorded == \A a \in ran : a[1] <= pass
StartSeen ==
  startFound /\ opts.start # NoName => \E p \in 0..pass : Stages[p].name = opts.start
EndSeen == \A p \in finished : p < pass /\ (EndsAt(p) => moveNext)

Selection == Recorded /\ StartSeen /\ EndSeen /\ SelectionRespected

\* The program has a status when it has ended.
StatusAtExit == exit = -1 <=> pc # "exit"

\* current_suffix names the file the program was given or one it wrote.
SuffixWritten ==
  pc \in {"pass", "finalize", "dispatch", "copy"} =>
    suffix = Original \/ <<file, suffix>> \in disk

IInv == /\ TypeOK /\ Located /\ OutputsInOrder
        /\ FreshAttempt /\ NewestInAttempt /\ InputIsNewest

(***************************************************************************)
(* What the driver promises its caller, see PipelineContract.  The newest  *)
(* text of the current file is the last one written for it; text written   *)
(* by an attempt counts before the driver has looked at the outcome, that  *)
(* of a stage that asks for the next file does not count at all.           *)
(***************************************************************************)
Written(f) == {d[2] : d \in {e \in disk : e[1] = f}}
NewestText ==
  CASE pc = "file" \/ Written(file) = {} -> Original
    [] pc # "file" /\ Written(file) # {} /\ ctx.control = "NextFile" -> suffix
    [] OTHER -> CHOOSE v \in Written(file) : \A w \in Written(file) : NotAfter(w, v)

Contract == INSTANCE PipelineContract WITH
  done    <- file - 1,
  text    <- NewestText,
  outputs <- final,
  status  <- exit

\* The driver implements the contract: files complete in the order given,
\* each with its newest text or a generated file, and exit status 0 means
\* that every file did.
ImplementsContract == Contract!Spec
\* All of it but that the run ends.
KeepsContract == Contract!Init /\ [][Contract!Next]_(Contract!cvars)
=============================================================================
