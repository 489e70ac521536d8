------------------------------ MODULE CallRuns ------------------------------
(***************************************************************************)
(* Running a text the pass has staged, and that it does what SourceRuns    *)
(* says of the source.  In the rewritten text aggregates travel through    *)
(* globals: a statement expression writes those of the callee one by one,  *)
(* each before the next argument is evaluated, and evaluates the other     *)
(* arguments when it calls; the prologue of the callee reads them.  An     *)
(* entry point and its helper count as one call.                           *)
(***************************************************************************)
EXTENDS FunctionCalling, Frames

CONSTANT Called   \* the functions of the file that are called from elsewhere

VARIABLES
  stack,     \* the frames, the running one last
  globals,   \* the hoisted parameters and results, and the input buffers
  trace,     \* the external calls so far, [of, args]
  returned   \* Pending, or <<j, w>>: function j has just returned the word w

runvars == <<stack, globals, trace, returned>>

RunInit == /\ Init /\ stack = <<>> /\ globals = [g \in {} |-> Nothing]
           /\ trace = <<>> /\ returned = Pending

-----------------------------------------------------------------------------
(* The order of evaluation.                                                *)

MutParam(n, i) == <<"param", i>>          \* mutant of Param: one name for all functions
Param(n, i) == <<n, i>>
ResultOf(n) == <<n, 0>>
Buffered(n) == {i \in DOMAIN Externals[n].params : IsAgg(Externals[n].params[i])}

\* the operands of the node at s that are written to globals
Stores(t, s) ==
  LET n == CalleeOf(t, s)
  IN  CASE t.nodes[s].k = "hoisted" -> Hoisted(t.funs[TheFun(t, n)])
        [] t.nodes[s].k = "wrapped" /\ n \in DOMAIN Externals -> Buffered(n)
        [] OTHER -> {}

\* in source order, those that are written first
OperandSooner(t, s, i, j) ==
  IF i \in Stores(t, s) THEN j \in Stores(t, s) => i < j
  ELSE j \notin Stores(t, s) /\ i < j
Sooner(t, a, b) ==
  \/ Inside(a[2], b[2])
  \/ \E n \in (DOMAIN a[2]) \cap (DOMAIN b[2]) :
       /\ \A m \in 1..(n - 1) : a[2][m] = b[2][m]
       /\ OperandSooner(t, <<a[1], SubSeq(a[2], 1, n - 1)>>, a[2][n], b[2][n])

Top == stack[Len(stack)]
Left(f) == SitesOf(text, f.fun) \ DOMAIN f.vals
First(f, s) == s \in Left(f) /\ \A r \in Left(f) \ {s} : Sooner(text, s, r)
Turn(s) == stack # <<>> /\ returned = Pending /\ First(Top, s)

-----------------------------------------------------------------------------
(* Steps of a run.                                                         *)

\* the value of s, which is also assigned if s is a stored operand
Settle(s, v) ==
  /\ stack' = [stack EXCEPT ![Len(stack)].vals = With(@, s, v), ![Len(stack)].at = NoSite]
  /\ globals' =
       IF \E r \in SitesOf(text, Top.fun) : \E i \in Stores(text, r) : s = Kid(r, i)
       THEN LET r == CHOOSE q \in SitesOf(text, Top.fun) : \E i \in Stores(text, q) : s = Kid(q, i)
            IN  With(globals, Param(CalleeOf(text, r), s[2][Len(s[2])]), v)
       ELSE globals

\* the prologue: hoisted parameters come from their globals, whatever is given
Loaded(f, gs, as) ==
  [i \in DOMAIN as |-> IF i \in Hoisted(f) THEN gs[Param(f.name, i)] ELSE as[i]]
Callee(s) == TheFun(text, CalleeOf(text, s))
IsCall(s) == text.nodes[s].k \in CallKinds
InFile(s) == Defs(text, CalleeOf(text, s)) # {}
Entered(s) == Loaded(text.funs[Callee(s)], globals, GivenAt(text, s, Top))

\* a call of function j from elsewhere, by the convention it has now
Begin(j) ==
  /\ stack = <<>> /\ returned = Pending /\ text # source
  /\ LET f  == text.funs[j]
         as == [i \in DOMAIN f.params |-> Argument(i)]
         gs == [g \in {Param(f.name, i) : i \in Hoisted(f)} |-> Argument(g[2])]
     IN  globals' = gs /\ stack' = <<Frame(j, Loaded(f, gs, as))>>
  /\ UNCHANGED <<vars, trace, returned>>

EvaluateLeaf(s) ==
  /\ Turn(s) /\ text.nodes[s].k \in Leaves
  /\ Settle(s, LeafValue(text, s, Top))
  /\ UNCHANGED <<vars, trace, returned>>

\* the wrapper hands over what is in the input buffer, and the other arguments
HandedOver(s) ==
  [i \in DOMAIN GivenAt(text, s, Top) |->
     IF i \in Stores(text, s) THEN globals[Param(CalleeOf(text, s), i)]
     ELSE GivenAt(text, s, Top)[i]]
CallOutside(s) ==
  /\ Turn(s) /\ IsCall(s) /\ ~InFile(s)
  /\ trace' = Append(trace, [of |-> CalleeOf(text, s), args |-> HandedOver(s)])
  /\ Settle(s, Answer(Len(trace) + 1))
  /\ UNCHANGED <<vars, returned>>

Enter(s) ==
  /\ Turn(s) /\ IsCall(s) /\ InFile(s) /\ Len(stack) < Depth
  /\ stack' = Append([stack EXCEPT ![Len(stack)].at = s], Frame(Callee(s), Entered(s)))
  /\ UNCHANGED <<vars, globals, trace, returned>>

EnterTooDeep(s) ==
  /\ Turn(s) /\ IsCall(s) /\ InFile(s) /\ Len(stack) >= Depth
  /\ Settle(s, CutOff(CalleeOf(text, s), Entered(s)))
  /\ UNCHANGED <<vars, trace, returned>>

\* return e;   { f_return = e; return 0UL; }   return 0UL;   or the end of the body
Stored(s) ==
  IF text.nodes[s].k = "store"
  THEN With(globals, ResultOf(text.funs[Top.fun].name), Top.vals[Kid(s, 1)]) ELSE globals
Leave(s) ==
  /\ Turn(s) /\ text.nodes[s].k \in {"return", "store", "zero", "body"}
  /\ globals' = Stored(s)
  /\ returned' = <<Top.fun, IF text.nodes[s].k = "return" /\ text.nodes[s].n = 1
                            THEN Top.vals[Kid(s, 1)] ELSE Nothing>>
  /\ stack' = SubSeq(stack, 1, Len(stack) - 1)
  /\ UNCHANGED <<vars, trace>>

\* what the caller makes of the word f has returned
Fetched(f, w) ==
  IF HoistsRet(f) THEN globals[ResultOf(f.name)] ELSE w
Receive ==
  /\ stack # <<>> /\ returned # Pending
  /\ Settle(Top.at, Fetched(text.funs[returned[1]], returned[2]))
  /\ returned' = Pending
  /\ UNCHANGED <<vars, trace>>

PassStep == /\ stack = <<>> /\ returned = Pending
            /\ Next /\ UNCHANGED runvars
RunNext ==
  \/ PassStep
  \/ \E j \in DOMAIN text.funs : text.funs[j].name \in Called /\ Begin(j)
  \/ \E s \in DOMAIN text.nodes :
       EvaluateLeaf(s) \/ CallOutside(s) \/ Enter(s) \/ EnterTooDeep(s) \/ Leave(s)
  \/ Receive
RunSpec == RunInit /\ [][RunNext]_<<vars, runvars>>

-----------------------------------------------------------------------------
(* The files whose arguments do not come back to the function they are     *)
(* for while its globals are written.                                      *)

Closed(t, ns) ==
  \A s \in Sites(t, {"call"}) : t.funs[s[1]].name \in ns => CalleeOf(t, s) \in ns
Names(t) == {t.funs[j].name : j \in DOMAIN t.funs} \cup {CalleeOf(t, s) : s \in Sites(t, {"call"})}
Aggregates(t, n) ==
  IF n \in DOMAIN Externals THEN Buffered(n)
  ELSE {i \in DOMAIN t.funs[TheFun(t, n)].params : IsAgg(t.funs[TheFun(t, n)].params[i])}
\* the call at r is evaluated when globals of the call around it are written
Amid(t, s, r) ==
  \E i \in Aggregates(t, CalleeOf(t, s)) :
    \E j \in 1..t.nodes[s].n :
      /\ r = Kid(s, j) \/ Inside(r[2], Kid(s, j)[2])
      /\ j \in Aggregates(t, CalleeOf(t, s)) => i < j
NonReentrant(t) ==
  \A s, r \in Sites(t, {"call"}) :
    Around(s, r) /\ Amid(t, s, r) /\ CalleeOf(t, r) # CalleeOf(t, s) =>
      \E ns \in SUBSET Names(t) :
        Closed(t, ns) /\ CalleeOf(t, r) \in ns /\ CalleeOf(t, s) \notin ns
ASSUME RunsAssumption == \A r \in Starts : Runnable(r.source) /\ NonReentrant(r.source)

\* Every function of the file does what it did, whatever was rewritten so far:
\* the same calls of external functions with the same arguments in the same
\* order, and the same result; no hoisted parameter or result is overwritten
\* between being written and being read.
SourceReturned ==
  IF returned = Pending THEN Pending
  ELSE <<returned[1], Fetched(text.funs[returned[1]], returned[2])>>
InC == INSTANCE SourceRuns WITH returned <- SourceReturned
Preserves == InC!RunSpec

-----------------------------------------------------------------------------
(* The inductive invariant of a run.                                       *)

\* no argument of a call through globals calls the same function
Untangled ==
  \A s, r \in Sites(source, {"call"}) :
    Around(s, r) /\ CalleeOf(source, s) = CalleeOf(source, r) =>
      text.nodes[s].k \notin {"hoisted", "wrapped"}

\* what is evaluated in a frame is the beginning of the order of evaluation
InOrder(f) ==
  /\ f.fun \in DOMAIN source.funs
  /\ f = [fun |-> f.fun, args |-> f.args, vals |-> [s \in DOMAIN f.vals |-> f.vals[s]], at |-> f.at]
  /\ DOMAIN f.vals \subseteq SitesOf(source, f.fun)
  /\ \A s \in DOMAIN f.vals :
       /\ source.nodes[s].k \notin {"return", "body"}
       /\ \A r \in SitesOf(source, f.fun) : Sooner(text, r, s) => r \in DOMAIN f.vals
\* a frame with another above it, or that a result is for, is at a call
Waits(k) == k < Len(stack) \/ returned # Pending
AtCalls ==
  \A k \in DOMAIN stack :
    IF Waits(k) THEN stack[k].at \in Sites(source, {"call"}) /\ First(stack[k], stack[k].at)
    ELSE stack[k].at = NoSite
\* the frames above a call run functions that the called one reaches
Reaching ==
  \A k, m \in DOMAIN stack : k < m =>
    \A ns \in SUBSET Names(source) :
      Closed(source, ns) /\ CalleeOf(source, stack[k].at) \in ns =>
        source.funs[stack[m].fun].name \in ns
\* what was stored for a call not begun yet is still in its global
StoredKept ==
  \A k \in DOMAIN stack :
    \A s \in Left(stack[k]) \ {stack[k].at} :
      \A i \in Stores(text, s) : Kid(s, i) \in DOMAIN stack[k].vals =>
        LET g == Param(CalleeOf(source, s), i)
        IN  g \in DOMAIN globals /\ globals[g] = stack[k].vals[Kid(s, i)]
RunInv ==
  /\ IInv /\ Runnable(source) /\ NonReentrant(source) /\ Untangled
  /\ stack \in Seq({stack[k] : k \in DOMAIN stack})
  /\ globals = [g \in DOMAIN globals |-> globals[g]]
  /\ \A k \in DOMAIN stack : InOrder(stack[k])
  /\ AtCalls /\ Reaching /\ StoredKept
=============================================================================
