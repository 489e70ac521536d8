----------------------------- MODULE ControlFlow -----------------------------
(***************************************************************************)
(* The control-flow part of the pipeline: the nine passes main.cpp         *)
(* registers from pass_normalise_while_loops to                            *)
(* pass_normalise_if_statements, each repeated the way its                 *)
(* HandleTranslationUnit asks for and Pipeline::Run allows.  The state is  *)
(* the body of one function as the last attempt left it on disk.           *)
(***************************************************************************)
EXTENDS LoopPasses, SwitchPasses, IfPass

CONSTANTS
  Programs,    \* the function bodies to start from
  Budgets,     \* the values of --max-pass-retries considered
  Values,      \* what the environment may answer to an evaluation
  InputLength, \* answers of an input; a run that needs more is cut short
  Fuel         \* loop turns of a run

ASSUME BoundsAssumption ==
  Budgets \subseteq Nat /\ InputLength \in Nat /\ Fuel \in Nat

PassNames == <<"NormaliseWhileLoops", "RewriteContinueInForLoops",
               "RewriteForToWhile", "RewriteContinueInDoWhileLoops",
               "RewriteDoWhileToWhile", "AddSwitchFallthroughs",
               "NormaliseSwitches", "RewriteSwitchesToIfStatements",
               "NormaliseIfStatements">>
PassCount == Len(PassNames)

VARIABLES
  budget,   \* max_pass_retries
  source,   \* the body the run started from
  prog,     \* the body the next attempt parses
  pass,     \* index in PassNames
  attempt,  \* pass_retry
  status    \* "running", "done", or "failed": Run returned 1

vars == <<budget, source, prog, pass, attempt, status>>

Init == /\ budget \in Budgets /\ source \in Programs /\ prog = source
        /\ pass = 1 /\ attempt = 0 /\ status = "running"

-----------------------------------------------------------------------------
(* One attempt: the tool run parses prog, the stage collects replacements, *)
(* the finalizer writes them and Run dispatches on the outcome.            *)

MutAttempting(p) ==          \* mutant of Attempting: one attempt too many
  status = "running" /\ pass = p /\ attempt <= budget
Attempting(p) == status = "running" /\ pass = p /\ attempt < budget

NextPass == pass' = pass + 1 /\ attempt' = 0

\* Repeat when there were replacements, Continue when there were none
Fixpoint(new) ==
  IF DOMAIN new = {} THEN NextPass /\ UNCHANGED <<budget, source, prog, status>>
  ELSE /\ prog' = Reparse(Edited(prog, new))
       /\ attempt' = attempt + 1
       /\ UNCHANGED <<budget, source, pass, status>>
\* Continue in any case
Once(text) ==
  prog' = Reparse(text) /\ NextPass /\ UNCHANGED <<budget, source, status>>

\* names carry the pass, the attempt and a counter
MutTempStem == <<pass>>      \* mutant of TempStem: no attempt in it
TempStem    == <<pass, attempt>>

Parses == Compiles(prog)

NormaliseWhileLoops == Attempting(1) /\ Parses /\ Fixpoint(NormaliseWhile(prog))
RewriteContinueInForLoops ==
  Attempting(2) /\ Parses /\ Once(Edited(prog, ContinueInFor(prog)))
RewriteForToWhile == Attempting(3) /\ Parses /\ Fixpoint(ForToWhile(prog))
RewriteContinueInDoWhileLoops ==
  Attempting(4) /\ Parses /\ Once(Edited(prog, ContinueInDo(prog)))
RewriteDoWhileToWhile == Attempting(5) /\ Parses /\ Fixpoint(DoToWhile(prog))
AddSwitchFallthroughs == Attempting(6) /\ Parses /\ Once(AddFallthrough(prog))
NormaliseSwitches == Attempting(7) /\ Parses /\ Fixpoint(NormaliseSwitch(prog))
RewriteSwitchesToIfStatements ==
  Attempting(8) /\ Parses /\ ~SwitchError(prog)
  /\ Fixpoint(SwitchToIf(prog, TempStem))
NormaliseIfStatements == Attempting(9) /\ Parses /\ Fixpoint(NormaliseIf(prog, TempStem))

\* the staged source does not compile, or a case body is not a block
AttemptFails ==
  /\ status = "running" /\ pass <= PassCount /\ attempt < budget
  /\ ~Parses \/ (pass = 8 /\ SwitchError(prog))
  /\ status' = "failed" /\ UNCHANGED <<budget, source, prog, pass, attempt>>

\* the budget is spent: the pipeline goes on with what there is
RetriesExhausted ==
  /\ status = "running" /\ pass <= PassCount /\ attempt >= budget
  /\ NextPass /\ UNCHANGED <<budget, source, prog, status>>

Finish == /\ status = "running" /\ pass > PassCount
          /\ status' = (IF Parses THEN "done" ELSE "failed")
          /\ UNCHANGED <<budget, source, prog, pass, attempt>>

Stopped == status # "running" /\ UNCHANGED vars

LoopPass == \/ NormaliseWhileLoops \/ RewriteContinueInForLoops
            \/ RewriteForToWhile \/ RewriteContinueInDoWhileLoops
            \/ RewriteDoWhileToWhile
SwitchPass == \/ AddSwitchFallthroughs \/ NormaliseSwitches
              \/ RewriteSwitchesToIfStatements
Next == \/ LoopPass \/ SwitchPass \/ NormaliseIfStatements
        \/ AttemptFails \/ RetriesExhausted \/ Finish \/ Stopped

Spec == Init /\ [][Next]_vars

-----------------------------------------------------------------------------
(* Properties.                                                             *)

Inputs == [1..InputLength -> Values]

TypeOK ==
  /\ budget \in Budgets
  /\ pass \in 1..(PassCount + 1) /\ attempt \in 0..budget
  /\ status \in {"running", "done", "failed"}

\* A staged file that compiles behaves like the source: the same effects and
\* the same evaluations of conditions, in the same order, on every input.
\* Only while a continue waits in a for or do for its loop to be replaced does
\* it not: the increment or the test in front of it is also the loop's own.
PendingContinue(k) ==
  \E c \in Where(prog, "cont") :
    \E p \in Enclosing(prog, c, LoopKinds) :
      At(prog, p).k = k /\ (k = "for" => At(prog, p).kids[2] # Null)
Preserves ==
  Parses =>
    \/ pass > 2 /\ PendingContinue("for")
    \/ pass > 4 /\ PendingContinue("do")
    \/ SameBehaviour(source, prog, Inputs, Fuel)

\* Every intermediate file is C: no declaration as a branch, no break outside
\* a loop, no case label outside a switch.
StagedCompiles == TypeOK /\ Compiles(prog)

\* After the pass that removes them no for or do is left, every while is
\* while (1UL), no switch and no label is left, and at the end every if tests a
\* variable and has blocks for branches: unless they were nested deeper than
\* the pass has attempts.
Depth(s, ks) ==
  Max({0} \cup {Cardinality({q \in Paths(s) : At(s, q).k \in ks /\ (q = p \/ Inside(p, q))}) :
                  p \in {q \in Paths(s) : At(s, q).k \in ks}})
WithinBudget(ks) == Depth(source, ks) <= budget
NoneLeft(k, p)   == pass > p /\ WithinBudget({k}) => Where(prog, k) = {}
\* what becomes an if
Branching(s) == {p \in Paths(s) : At(s, p).k \in LoopKinds \cup {"if", "label"}}
IfsLowered ==
  pass > 9 /\ Cardinality(Branching(source)) <= budget =>
    \A p \in Where(prog, "if") :
      /\ PureVar(At(prog, p).x)
      /\ \A i \in DOMAIN At(prog, p).kids : At(prog, p).kids[i].k = "block"
LoweredForms ==
  /\ NoneLeft("for", 3) /\ NoneLeft("do", 5) /\ NoneLeft("switch", 8)
  /\ pass > 8 /\ WithinBudget({"switch"}) => Where(prog, "label") = {}
  /\ pass > 5 /\ WithinBudget(LoopKinds) =>
       \A p \in Where(prog, "while") : At(prog, p).x = Lit
  /\ IfsLowered

\* No two declarations left by the passes have the same temporary.
TempsDistinct ==
  \A p, q \in Where(prog, "set") :
    p # q => At(prog, p).x[1] # At(prog, q).x[1]

\* An attempt of a repeated pass makes progress: the constructs it removes
\* become fewer, so the pass needs no more attempts than there are of them.
Todo(n, s) ==
  CASE n = 1 -> Cardinality({p \in Where(s, "while") : At(s, p).x # Lit})
    [] n = 3 -> Cardinality(Where(s, "for"))
    [] n = 5 -> Cardinality(Where(s, "do"))
    [] n = 7 -> Cardinality({p \in Where(s, "switch") : ~VerifySwitch(At(s, p).kids[1])})
    [] n = 8 -> Cardinality(Where(s, "switch"))
    [] n = 9 -> Cardinality({p \in Where(s, "if") : Converted(At(s, p))})
    [] OTHER -> 0
RepeatsDecrease ==
  [][pass' = pass /\ attempt' > attempt => Todo(pass, prog') < Todo(pass, prog)]_vars
=============================================================================
