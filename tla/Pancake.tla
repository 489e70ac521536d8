-------------------------------- MODULE Pancake --------------------------------
(***************************************************************************)
(* The part of the Pancake language pass_c2pancake writes, external to the *)
(* code: one kind of value, local variables, and memory read and written   *)
(* by explicit widths.  A program is a tree of                             *)
(*   "num" x = <<"#", n>>      "name" x = <<variable>>    "op" x = <<op>>  *)
(*   "addr" x = <<name>>       the macro x_addr, "valof" the macro x_val   *)
(*   "load" x = <<width>>      "pcall" x = <<function>>                    *)
(*   "var", "set" x = <<variable>>                       "pret"   "do"     *)
(*   "store" x = <<width, shared>>        "shload" x = <<variable, width>> *)
(*   "pif" condition, block, block        "pwhile" condition, block        *)
(*   "pjump" x = <<"break" or "continue">>                  "block"        *)
(* defs gives the addresses and sizes behind the macros.                   *)
(***************************************************************************)
EXTENDS Expressions

Number(n)     == S("num", <<"#", n>>, <<>>)
Name(v)       == S("name", <<v>>, <<>>)
Op(op, es)    == S("op", <<op>>, es)
AddrMacro(n)  == S("addr", <<n>>, <<>>)
ValMacro(n)   == S("valof", <<n>>, <<>>)
Load(w, a)    == S("load", <<w>>, <<a>>)
PCall(f, es)  == S("pcall", <<f>>, es)
DeclVar(v, e) == S("var", <<v>>, <<e>>)
Set(v, e)     == S("set", <<v>>, <<e>>)
Return(e)     == S("pret", <<>>, <<e>>)
Do(e)         == S("do", <<>>, <<e>>)
Store(w, shared, a, e) == S("store", <<w, shared>>, <<a, e>>)
SharedLoad(v, w, a)    == S("shload", <<v, w>>, <<a>>)
Block(ss)     == S("block", <<>>, ss)
PJump(kind)    == S("pjump", <<kind>>, <<>>)

-----------------------------------------------------------------------------
(* What it does.  A number is kept whole in the first of its bytes (the    *)
(* numbers are small), so a load that reaches into another object, or past *)
(* the memory, gives no number of the program.                             *)

Wide == 99
LoadedFrom(mem, a, w) ==
  IF a..(a + w - 1) \subseteq DOMAIN mem /\ \A b \in (a + 1)..(a + w - 1) : mem[b] = 0
  THEN mem[a] ELSE Wide
Placing(mem, a, w, v) == [b \in a..(a + w - 1) |-> IF b = a THEN v ELSE 0] @@ mem

PComputed(op, a, b) ==
  CASE op = "+" -> a + b
    [] op = "-" -> a - b
    [] op = "*" -> a * b
    [] op = "<" -> Truth(a < b)
    [] op = "!=" -> Truth(a # b)
    [] op = ">>" -> a \div 2^b
    [] op = "^" -> -1 - b                       \* of -1 and b
    [] op = "&&" -> Truth(a # 0 /\ b # 0)
    [] op = "||" -> Truth(a # 0 \/ b # 0)

RECURSIVE PValue(_, _, _)
PValue(e, st, defs) ==
  LET v(i) == PValue(e.kids[i], st, defs) IN
  CASE e.k = "num"   -> e.x[2]
    [] e.k = "name"  -> st.env[e.x[1]]
    [] e.k = "addr"  -> defs[e.x[1]].addr
    [] e.k = "valof" -> LoadedFrom(st.mem, defs[e.x[1]].addr, defs[e.x[1]].size)
    [] e.k = "load"  -> LoadedFrom(st.mem, v(1), e.x[1])
    [] e.k = "op" /\ Len(e.kids) = 1 -> ComputedUna(e.x[1], v(1))
    [] e.k = "op" /\ Len(e.kids) = 2 -> PComputed(e.x[1], v(1), v(2))

\* the functions called are those of Expressions
Result(e, st, defs) ==
  IF e.k = "pcall"
  THEN LET r == Called(e.x[1], [i \in DOMAIN e.kids |-> PValue(e.kids[i], st, defs)],
                       [st EXCEPT !.env = ("g" :> defs["g"].addr) @@ @])
       IN  Out(r.e.x[2], [r.st EXCEPT !.env = st.env])
  ELSE Out(PValue(e, st, defs), st)

Noted(st, shared, event) == IF shared THEN [st EXCEPT !.tr = Append(@, event)] ELSE st

RECURSIVE PExec(_, _, _)
PExecAll(ss, st, defs) == FoldLeft(LAMBDA t, s : PExec(s, t, defs), st, ss)
PExec(s, st, defs) ==
  CASE st.ret # <<>> -> st
    [] st.ret = <<>> /\ s.k \in {"var", "set"} ->
         LET r == Result(s.kids[1], st, defs)
         IN  [r.st EXCEPT !.env = (s.x[1] :> r.e) @@ @]
    [] st.ret = <<>> /\ s.k = "pret" ->
         LET r == Result(s.kids[1], st, defs) IN [r.st EXCEPT !.ret = <<r.e>>]
    [] st.ret = <<>> /\ s.k = "do" -> Result(s.kids[1], st, defs).st
    [] st.ret = <<>> /\ s.k = "store" ->
         LET a == PValue(s.kids[1], st, defs)
             v == PValue(s.kids[2], st, defs)
         IN  Noted([st EXCEPT !.mem = Placing(@, a, s.x[1], v)], s.x[2], <<"write", a, v>>)
    [] st.ret = <<>> /\ s.k = "shload" ->
         LET a == PValue(s.kids[1], st, defs)
         IN  Noted([st EXCEPT !.env = (s.x[1] :> LoadedFrom(st.mem, a, s.x[2])) @@ @],
                   TRUE, <<"read", a>>)
    [] st.ret = <<>> /\ s.k = "pif" ->
         PExec(s.kids[IF PValue(s.kids[1], st, defs) # 0 THEN 2 ELSE 3], st, defs)
    [] st.ret = <<>> /\ s.k = "pwhile" ->
         IF PValue(s.kids[1], st, defs) = 0 THEN st
         ELSE LET t == PExec(s.kids[2], st, defs)
              IN  IF GoesOn(t) THEN PExec(s, Resumed(t), defs) ELSE AfterLoop(t)
    [] st.ret = <<>> /\ s.k = "pjump" -> [st EXCEPT !.ret = JumpsBy(s.x[1])]
    [] st.ret = <<>> /\ s.k = "block" -> PExecAll(s.kids, st, defs)

-----------------------------------------------------------------------------
(* What the Pancake compiler accepts: variables are declared above their   *)
(* uses, calls are statements or give a statement its value, and a shared  *)
(* word is written by stw.                                                 *)

Pure == {"num", "name", "addr", "valof", "load", "op"}
PureIn(e, vars, names) ==
  \A p \in Paths(e) : LET n == At(e, p) IN
    /\ n.k \in Pure
    /\ n.k = "name" => n.x[1] \in vars
    /\ n.k \in {"addr", "valof"} => n.x[1] \in names

\* an operand, or a call of operands
GivesValue(e, vars, names) ==
  IF e.k = "pcall" THEN \A i \in DOMAIN e.kids : PureIn(e.kids[i], vars, names)
  ELSE PureIn(e, vars, names)

RECURSIVE Accepted(_, _, _)
Accepted(ss, vars, names) ==
  IF ss = <<>> THEN TRUE ELSE
  LET s == Head(ss)
  IN  /\ CASE s.k \in {"var", "pret"} -> GivesValue(s.kids[1], vars, names)
           [] s.k = "set"    -> s.x[1] \in vars /\ GivesValue(s.kids[1], vars, names)
           [] s.k = "do"     -> s.kids[1].k = "pcall" /\ GivesValue(s.kids[1], vars, names)
           [] s.k = "store"  -> /\ \A i \in 1..2 : PureIn(s.kids[i], vars, names)
                                /\ s.x[2] => s.x[1] # 8
           [] s.k = "shload" -> s.x[1] \in vars /\ PureIn(s.kids[1], vars, names)
           [] s.k = "pif"    -> /\ PureIn(s.kids[1], vars, names)
                                /\ \A i \in 2..3 : Accepted(s.kids[i].kids, vars, names)
           [] s.k = "pwhile" -> /\ PureIn(s.kids[1], vars, names)
                                /\ Accepted(s.kids[2].kids, vars, names)
           [] s.k = "pjump"  -> TRUE
           [] OTHER          -> FALSE
      /\ Accepted(Tail(ss), IF s.k = "var" THEN vars \cup {s.x[1]} ELSE vars, names)
=============================================================================
