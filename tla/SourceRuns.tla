----------------------------- MODULE SourceRuns -----------------------------
(***************************************************************************)
(* What C says a call of a function of the file does: statements one after *)
(* the other, the operands of a call in any order, called functions to     *)
(* their return before anything else.  What can be observed is the result, *)
(* and the calls that leave the file with their arguments, in order; what  *)
(* those return is unknown.                                                *)
(***************************************************************************)
EXTENDS Frames

VARIABLES
  source,    \* the file
  stack,     \* the frames, the running one last
  trace,     \* the external calls so far, [of, args]
  returned   \* Pending, or <<j, v>>: function j has just returned v

rvars == <<source, stack, trace, returned>>

RunInit == stack = <<>> /\ trace = <<>> /\ returned = Pending

-----------------------------------------------------------------------------
Top        == stack[Len(stack)]
OfCallee(s) == Defs(source, CalleeOf(source, s))
Given(s)   == GivenAt(source, s, Top)

\* the site s can be evaluated next
Ready(s) ==
  /\ stack # <<>> /\ returned = Pending
  /\ s \in SitesOf(source, Top.fun) \ DOMAIN Top.vals
  /\ \A i \in 1..source.nodes[s].n : Kid(s, i) \in DOMAIN Top.vals
  /\ \A r \in SitesOf(source, Top.fun) :
       r[2] # <<>> /\ s[2] # <<>> /\ r[2][1] < s[2][1] => r \in DOMAIN Top.vals
Settle(s, v) ==
  stack' = [stack EXCEPT ![Len(stack)].vals = With(@, s, v), ![Len(stack)].at = NoSite]

\* a call of function j from elsewhere
Begin(j) ==
  /\ stack = <<>> /\ returned = Pending
  /\ stack' = <<Frame(j, [i \in DOMAIN source.funs[j].params |-> Argument(i)])>>
  /\ UNCHANGED <<source, trace, returned>>

EvaluateLeaf(s) ==
  /\ Ready(s) /\ source.nodes[s].k \in Leaves
  /\ Settle(s, LeafValue(source, s, Top))
  /\ UNCHANGED <<source, trace, returned>>

CallOutside(s) ==
  /\ Ready(s) /\ source.nodes[s].k = "call" /\ OfCallee(s) = {}
  /\ trace' = Append(trace, [of |-> CalleeOf(source, s), args |-> Given(s)])
  /\ Settle(s, Answer(Len(trace) + 1))
  /\ UNCHANGED <<source, returned>>

Enter(s) ==
  /\ Ready(s) /\ source.nodes[s].k = "call" /\ OfCallee(s) # {} /\ Len(stack) < Depth
  /\ stack' = Append([stack EXCEPT ![Len(stack)].at = s],
                     Frame(TheFun(source, CalleeOf(source, s)), Given(s)))
  /\ UNCHANGED <<source, trace, returned>>

EnterTooDeep(s) ==
  /\ Ready(s) /\ source.nodes[s].k = "call" /\ OfCallee(s) # {} /\ Len(stack) >= Depth
  /\ Settle(s, CutOff(CalleeOf(source, s), Given(s)))
  /\ UNCHANGED <<source, trace, returned>>

\* at a return, or at the end of the body
Leave(s) ==
  /\ Ready(s) /\ source.nodes[s].k \in {"return", "body"}
  /\ returned' = <<Top.fun, IF source.nodes[s].k = "return" /\ source.nodes[s].n = 1
                            THEN Top.vals[Kid(s, 1)] ELSE Nothing>>
  /\ stack' = SubSeq(stack, 1, Len(stack) - 1)
  /\ UNCHANGED <<source, trace>>

Receive ==
  /\ stack # <<>> /\ returned # Pending
  /\ Settle(Top.at, returned[2])
  /\ returned' = Pending
  /\ UNCHANGED <<source, trace>>

RunNext ==
  \/ \E j \in DOMAIN source.funs : Begin(j)
  \/ \E s \in DOMAIN source.nodes :
       EvaluateLeaf(s) \/ CallOutside(s) \/ Enter(s) \/ EnterTooDeep(s) \/ Leave(s)
  \/ Receive

RunSpec == RunInit /\ [][RunNext]_rvars
=============================================================================
