----------------------------- MODULE PancakeRuns -----------------------------
(***************************************************************************)
(* PancakeBackend with the texts the passes write, and what a call of the  *)
(* function of a file does, in C and in Pancake.                           *)
(***************************************************************************)
EXTENDS PancakePasses, PancakeBackend

IsStatic(d)            == Len(d.x) = 3
NamesDeclared(s)       == {At(s, p).x[1] : p \in Decls(s)}
NamesStatic(s)         == {At(s, p).x[1] : p \in {q \in Decls(s) : IsStatic(At(s, q))}}
WithoutDecls(s, names) == Joined(HoistLocalsOf(s, names))

-----------------------------------------------------------------------------
(* Calls of the function: the memory and the arguments h gives.  A value   *)
(* is a number or the address of a variable plus a number.                 *)

ValueOf(v) == v.num + (IF v.to \in DOMAIN defines THEN defines[v.to].addr ELSE 0)
MemoryOf(h) ==
  LET at(n, i) == defines[n].addr + i
  IN  [b \in 0..(GlobalCells - 1) |->
         LET here == {c \in DOMAIN h.mem : at(c[1], c[2]) = b}
         IN  IF here = {} THEN 0 ELSE ValueOf(h.mem[CHOOSE c \in here : TRUE])]

Addresses == [n \in GlobalNames(unit) |-> defines[n].addr]
Bytes == UNION {defines[n].addr..(End(n) - 1) : n \in GlobalNames(unit)}
SeenOf(st) == [tr |-> st.tr, ret |-> st.ret, mem |-> [b \in Bytes |-> st.mem[b]]]

RECURSIVE WithArguments(_, _, _)
WithArguments(st, ps, as) ==
  IF ps = <<>> THEN st
  ELSE LET p == Head(ps)
       IN  WithArguments(Stored(Allocated(st, p.name, p.type), st.next, p.type, ValueOf(Head(as))),
                         Tail(ps), Tail(as))
SourceRuns(h) ==
  {SeenOf(st) : st \in ExecAll(unit.body.kids,
                         {WithArguments(Start(MemoryOf(h), Addresses), unit.params, h.args)})}
TargetRun(h) ==
  SeenOf(PExecAll(code, Start(MemoryOf(h),
                    [n \in NamesOf(params) |->
                       ValueOf(h.args[CHOOSE i \in DOMAIN params : params[i].name = n])]), defines))

(* Properties.                                                             *)

\* Nothing that needs an address is left among the locals of the function:
\* no array, no structure, no variable whose address is taken.
HoistsAll ==
  pass \notin {"rename", "hoist"} =>
    \A p \in Paths(text) :
      LET s == At(text, p) IN
      /\ s.k = "decl" => ~IsArr(s.x[2]) /\ ~IsRec(s.x[2])
      /\ s.k = "addr" /\ s.kids[1].k = "var" => s.kids[1].x[1] \in NamesOf(vars)

\* What is written is Pancake: every variable is declared above its uses and
\* calls stand where Pancake has them; and the file is gone through once.
Compiles2Pancake == FileInv /\ Accepted(code, NamesOf(params), DOMAIN defines)

\* The Pancake function does what C says the function of the source does, for
\* every memory and all arguments: the same calls and volatile accesses in the
\* same order, the same result, the same bytes in every variable.
Implements ==
  pass = "done" /\ Compiles2Pancake =>
    \A h \in unit.holds : TargetRun(h) \in SourceRuns(h)
=============================================================================
