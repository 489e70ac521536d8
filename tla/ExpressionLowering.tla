-------------------------- MODULE ExpressionLowering --------------------------
(***************************************************************************)
(* The expression part of the pipeline: the five passes main.cpp registers *)
(* from pass_hoist_condition_expressions to pass_simplify_double_negation, *)
(* each repeated the way its HandleTranslationUnit asks for and            *)
(* Pipeline::Run allows.  The state is the body of one function as the     *)
(* last attempt left it on disk.                                           *)
(***************************************************************************)
EXTENDS ExpressionPasses

CONSTANTS
  Bodies,    \* the function bodies to start from, statements in braces
  Budgets,   \* the values of --max-pass-retries considered
  Globals,   \* the addresses of the global variables
  Memories   \* what they may hold when the function is called

ASSUME BoundsAssumption == Budgets \subseteq Nat /\ GlobalCells \in Nat

PassNames == <<"HoistLogicalSideEffectExpressions", "RewriteArrayIndexing",
               "RewriteStructStabs", "LowerNestedExpressions", "SimplifyDoubleNegation">>
PassCount == Len(PassNames)

VARIABLES
  budget,   \* max_pass_retries
  source,   \* the body the run started from
  text,     \* the body the next attempt parses
  pass,     \* index in PassNames
  attempt,  \* pass_retry
  status    \* "running", "done", or "failed": Run returned 1

vars == <<budget, source, text, pass, attempt, status>>

Init == /\ budget \in Budgets /\ source \in Bodies /\ text = source
        /\ pass = 1 /\ attempt = 0 /\ status = "running"

-----------------------------------------------------------------------------
Parses == Compiles(<<text>>, DOMAIN Globals)
Attempting(p) == status = "running" /\ pass = p /\ attempt < budget /\ Parses
NextPass == pass' = pass + 1 /\ attempt' = 0

\* Repeat while there are matches, then Continue
Matching(found, new) ==
  /\ IF found = {} THEN NextPass /\ text' = text
     ELSE /\ text' = Joined(new)
          /\ attempt' = attempt + 1 /\ pass' = pass
  /\ UNCHANGED <<budget, source, status>>

\* the names of temporaries carry the pass and the attempt
Stem == <<pass, attempt>>

HoistConditionExpressions ==
  /\ Attempting(1) /\ Matching(ToHoist(text), HoistFrom(text, Stem))
RewriteArrayIndexing == /\ Attempting(2) /\ Matching(Where(text, "index"), RewriteIndexing(text))
RewriteStructStabs == /\ Attempting(3) /\ Matching(Where(text, "arrow"), RewriteStabs(text))

Reports == Where(Lowered(text, Stem), "error") # {}
LowerNestedExpressions ==
  /\ Attempting(4) /\ ~Reports
  /\ text' = Joined(Lowered(text, Stem))
  /\ IF CopiesStatements(text) THEN attempt' = attempt + 1 /\ pass' = pass ELSE NextPass
  /\ UNCHANGED <<budget, source, status>>
SimplifyDoubleNegation == /\ Attempting(5) /\ Matching(DoubleNot(text), SimplifyNegations(text))

\* the staged source does not compile, or an expression is not handled
AttemptFails ==
  /\ status = "running" /\ pass <= PassCount /\ attempt < budget
  /\ ~Parses \/ (pass = 4 /\ Reports)
  /\ status' = "failed" /\ UNCHANGED <<budget, source, text, pass, attempt>>

\* the budget is spent: the pipeline goes on with what there is
RetriesExhausted ==
  /\ status = "running" /\ pass <= PassCount /\ attempt >= budget
  /\ NextPass /\ UNCHANGED <<budget, source, text, status>>

Finish == /\ status = "running" /\ pass > PassCount
          /\ status' = (IF Parses THEN "done" ELSE "failed")
          /\ UNCHANGED <<budget, source, text, pass, attempt>>

Stopped == status # "running" /\ UNCHANGED vars

Next == \/ HoistConditionExpressions \/ RewriteArrayIndexing \/ RewriteStructStabs
        \/ LowerNestedExpressions \/ SimplifyDoubleNegation
        \/ AttemptFails \/ RetriesExhausted \/ Finish \/ Stopped

Spec == Init /\ [][Next]_vars

-----------------------------------------------------------------------------
(* Properties.                                                             *)

TypeOK ==
  /\ budget \in Budgets
  /\ pass \in 1..(PassCount + 1) /\ attempt \in 0..budget
  /\ status \in {"running", "done", "failed"}

\* Every staged file does what the source may do: from the same globals it
\* makes the same calls and volatile accesses in an order C allows for the
\* source, each as often, returns the same value and leaves the same globals.
Preserves ==
  Parses /\ text # source =>
    \A m \in Memories :
      Outcomes(<<text>>, Start(m, Globals)) \subseteq Outcomes(<<source>>, Start(m, Globals))

\* Every intermediate file is C: temporaries are declared above their uses and
\* once, and no declaration lands in a condition.
StagedCompiles == TypeOK /\ Compiles(<<text>>, DOMAIN Globals)

\* The attempts a pass needs: the depth to which what it matches is nested; the
\* statements of a statement expression are lowered in the attempt after.
Nesting(s, k) ==
  Max({0} \cup {Cardinality({q \in Where(s, k) : q = p \/ Inside(p, q)}) : p \in Where(s, k)})
Enough == /\ Nesting(source, "index") <= budget /\ Nesting(source, "arrow") <= budget
          /\ Nesting(source, "block") < budget

\* When the retries suffice, the text handed on has one order of evaluation,
\* whatever the order later passes and the Pancake compiler evaluate operands in.
OneOutcome ==
  status = "done" /\ Enough =>
    \A m \in Memories : Cardinality(Outcomes(<<text>>, Start(m, Globals))) = 1

\* When the retries suffice nothing the pass is to remove is left: effects are
\* statements of their own, and a call is a statement, initialises a variable,
\* is assigned or returned.
MayHold(k) == CASE k = "assign" -> {"expr"}
                [] k = "call"   -> {"expr", "decl", "ret", "assign"}
                [] OTHER        -> {}
Gone == {"land", "lor", "cond", "comma", "opassign", "inc", "block", "index", "arrow", "init",
         "assign", "call"}
LoweredForms ==
  pass > 4 /\ Enough =>
    \A p \in Paths(text) :
      At(text, p).k \in Gone => At(text, Front(p)).k \in MayHold(At(text, p).k)

\* An attempt of a repeated pass makes progress, so no pass needs more attempts
\* than there are constructs it removes.
Todo(n, s) ==
  CASE n = 1 -> Cardinality(ToHoist(s))
    [] n = 2 -> Cardinality(Where(s, "index"))
    [] n = 3 -> Cardinality(Where(s, "arrow"))
    [] n = 4 -> Cardinality(Where(s, "block"))
    [] OTHER -> Cardinality(DoubleNot(s))
RepeatsDecrease ==
  [][pass' = pass /\ attempt' > attempt => Todo(pass, text') < Todo(pass, text)]_vars
=============================================================================
