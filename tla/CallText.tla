------------------------------ MODULE CallText ------------------------------
(***************************************************************************)
(* The text pass_function_calling works on: the functions of a file in     *)
(* source order, the wrappers of external ones above them, and the nodes   *)
(* of the bodies.  A node lies at a site <<j, p>>, the function and the    *)
(* path of child indices that leads to it; it is [k, of, n], its kind,     *)
(* what it names and how many children it has.  The pass changes kinds     *)
(* only.  A body is a node "body" over statements                          *)
(*   "stmt" "return"   an expression, or nothing after return              *)
(*   "store"   { __c2pnk_f_return = e; return 0UL; }                       *)
(*   "zero"    return 0UL;                                                 *)
(* and an expression is "par" (parameter number of), "struct" and "int" (a *)
(* value of no parameter) or a call of a function named of:                *)
(*   "call"    as written in C                                             *)
(*   "void"    (void)f(...), for a callee that only gained a result        *)
(*   "hoisted" ({ parameters to globals; f(...); result from its global })*)
(*   "wrapped" ({ arguments to the input buffer; wrapper(...); result })   *)
(* Types are "word", "agg" (structures) and "void".                        *)
(***************************************************************************)
EXTENDS Integers, Sequences, FiniteSets

CONSTANT Externals   \* functions of other files: [name -> [params, ret, variadic]]

IsAgg(ty) == ty = "agg"

\* proto: "none", or the signature a prototype above all functions has.  An
\* entry point that was rewritten is two functions: a helper with the body and
\* the new signature, and behind it a function of the old name and type that
\* returns what a call of the helper returns.
Fun(name, params, ret) ==
  [name |-> name, params |-> params, ret |-> ret, entry |-> FALSE,
   variadic |-> FALSE, proto |-> "none", rewritten |-> FALSE]

Sites(t, ks)   == {s \in DOMAIN t.nodes : t.nodes[s].k \in ks}
CalleeOf(t, s) == t.nodes[s].of
Defs(t, n)     == {j \in DOMAIN t.funs : t.funs[j].name = n}
Wrapped(t)     == {t.stubs[a] : a \in DOMAIN t.stubs}

Inside(p, q)  == Len(q) < Len(p) /\ q = SubSeq(p, 1, Len(q))   \* the node at p is below that at q
Earlier(p, q) ==                                \* the node at p starts before that at q
  \/ Inside(q, p)
  \/ \E i \in (DOMAIN p) \cap (DOMAIN q) :
       p[i] < q[i] /\ \A j \in 1..(i - 1) : p[j] = q[j]

\* what a rewritten function takes and returns through globals
Hoisted(f)   == {i \in DOMAIN f.params : f.rewritten /\ IsAgg(f.params[i])}
HoistsRet(f) == f.rewritten /\ IsAgg(f.ret)
\* the function that has the name takes and returns what it did
KeepsType(f) == f.entry \/ (Hoisted(f) = {} /\ ~HoistsRet(f))

\* What clang accepts: a call, a return and a prototype of the form their
\* function has.
Compiled(t) ==
  /\ \A s \in Sites(t, {"call", "void"}) : \A j \in Defs(t, CalleeOf(t, s)) : KeepsType(t.funs[j])
  /\ \A s \in Sites(t, {"hoisted"}) : \A j \in Defs(t, CalleeOf(t, s)) : t.funs[j].rewritten
  /\ \A s \in Sites(t, {"wrapped"}) : CalleeOf(t, s) \in Wrapped(t)
  /\ \A n \in Wrapped(t) : \A j \in Defs(t, n) : KeepsType(t.funs[j])
  /\ \A s \in Sites(t, {"return"}) : ~HoistsRet(t.funs[s[1]])
  /\ \A s \in Sites(t, {"store", "zero"}) : t.funs[s[1]].rewritten
  /\ \A j \in DOMAIN t.funs :
       /\ t.funs[j].proto = "old" => ~t.funs[j].rewritten \/ t.funs[j].entry
       /\ t.funs[j].entry => ~HoistsRet(t.funs[j])

-----------------------------------------------------------------------------
(* A file as it reaches the pass: no function is rewritten, no external   *)
(* one has a wrapper, names are unique, every call names something,        *)
(* returns are statements, and return something unless the function is void. *)

CFunction(f) ==
  /\ f = [Fun(f.name, f.params, f.ret) EXCEPT
            !.entry = f.entry, !.variadic = f.variadic, !.proto = f.proto]
  /\ f.entry \in BOOLEAN /\ f.variadic \in BOOLEAN /\ f.proto \in {"none", "old"}
  /\ f.name \notin DOMAIN Externals
CNode(n) ==
  /\ n = [k |-> n.k, of |-> n.of, n |-> n.n]
  /\ n.k \in {"body", "stmt", "return", "par", "struct", "int", "call"}

CFile(t) ==
  /\ t = [stubs |-> <<>>, funs |-> t.funs, nodes |-> t.nodes]
  /\ t.funs \in Seq({t.funs[j] : j \in DOMAIN t.funs})
  /\ \A j \in DOMAIN t.funs : CFunction(t.funs[j])
  /\ \A i, j \in DOMAIN t.funs : t.funs[i].name = t.funs[j].name => i = j
  /\ IsFiniteSet(DOMAIN t.nodes)
  /\ DOMAIN t.nodes \subseteq (DOMAIN t.funs) \X Seq(Nat \ {0})
  /\ t.nodes = [s \in DOMAIN t.nodes |-> t.nodes[s]]
  /\ \A s \in DOMAIN t.nodes : CNode(t.nodes[s])
  /\ \A s, r \in DOMAIN t.nodes : s[1] = r[1] /\ Inside(s[2], r[2]) => t.nodes[r].n # 0
  /\ \A s \in Sites(t, {"call"}) : CalleeOf(t, s) \in DOMAIN Externals \/ Defs(t, CalleeOf(t, s)) # {}
  /\ \A s \in Sites(t, {"call", "return"}) :
       /\ s[2] # <<>>
       /\ t.nodes[s].k = "return" =>
            /\ t.nodes[s].n = 0 <=> t.funs[s[1]].ret = "void"
            /\ \A r \in Sites(t, {"call", "return"}) : r[1] = s[1] => ~Inside(s[2], r[2])
=============================================================================
