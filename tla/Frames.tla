------------------------------- MODULE Frames -------------------------------
(***************************************************************************)
(* Running a text of CallText.  A frame is one activation of a function:   *)
(* fun, the arguments args, the values vals of the sites evaluated so far, *)
(* and at, the site of the call that waits for the frame above.  The sites *)
(* of a body are evaluated below before above, the body itself last.  How  *)
(* C evaluates is external to the pass.                                    *)
(***************************************************************************)
EXTENDS CallText

CONSTANT Depth       \* calls in progress: a deeper one gives a term of what it is given
ASSUME DepthAssumption == Depth \in Nat \ {0}

NoSite  == <<>>
Pending == <<>>          \* no function has returned
Nothing == <<"none">>    \* the value of a statement and of a void function

Answer(n)      == <<"answer", n>>        \* what the n-th external call returns
Argument(i)    == <<"arg", i>>
CutOff(n, as)  == <<"deeper", n, as>>

Frame(j, as)   == [fun |-> j, args |-> as, vals |-> [s \in {} |-> Nothing], at |-> NoSite]
With(f, x, v)  == [y \in DOMAIN f \cup {x} |-> IF y = x THEN v ELSE f[y]]
Kid(s, i)      == <<s[1], Append(s[2], i)>>
TheFun(t, n)   == CHOOSE j \in Defs(t, n) : TRUE
SitesOf(t, j)  == {s \in DOMAIN t.nodes : s[1] = j}
GivenAt(t, s, f) == [i \in 1..t.nodes[s].n |-> f.vals[Kid(s, i)]]

Leaves   == {"par", "struct", "int", "stmt"}
CallKinds == {"call", "void", "hoisted", "wrapped"}
LeafValue(t, s, f) ==
  CASE t.nodes[s].k = "par"  -> f.args[t.nodes[s].of]
    [] t.nodes[s].k = "stmt" -> Nothing
    [] OTHER                 -> <<t.nodes[s].k, s>>

-----------------------------------------------------------------------------
\* A file that can be run: bodies are trees, a return returns at most one
\* value, and what returns a value ends in a return.
Runnable(t) ==
  /\ \A s \in DOMAIN t.nodes :
       /\ t.nodes[s].n \in Nat /\ \A i \in 1..t.nodes[s].n : Kid(s, i) \in DOMAIN t.nodes
       /\ \A n \in DOMAIN s[2] :
            LET r == <<s[1], SubSeq(s[2], 1, n - 1)>>
            IN  r \in DOMAIN t.nodes /\ s[2][n] \in 1..t.nodes[r].n
       /\ t.nodes[s].k = "body" <=> s[2] = <<>>
       /\ t.nodes[s].k = "return" => t.nodes[s].n \in {0, 1}
  /\ \A j \in DOMAIN t.funs : t.funs[j].ret # "void" =>
       \E s \in Sites(t, {"return"}) : s[1] = j /\ Len(s[2]) = 1
=============================================================================
