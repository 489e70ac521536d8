----------------------------- MODULE PancakePasses -----------------------------
(***************************************************************************)
(* Pass_HoistArraysAndAddresses.cpp and the translation of                 *)
(* Pass_C2Pancake.cpp: what they write for the text of a function.         *)
(***************************************************************************)
EXTENDS Pancake

CONSTANT AlignInChars    \* the alignment of each type that is not an array

RECURSIVE AlignOf(_)
AlignOf(ty) == IF ty[1] \in {"arr", "vol"} THEN AlignOf(Tail(ty)) ELSE AlignInChars[ty[1]]

-----------------------------------------------------------------------------
(* pass_rename_to_be_hoisted_globals and pass_hoist_locals.  A function is *)
(* its parameters, a sequence of [name, type], and its body.               *)

Decls(s) == Where(s, "decl")
\* arrays, structures, and whatever & is applied to
MutAddressTaken(s) == {}              \* mutant of AddressTaken: only arrays and structures
AddressTaken(s) ==
  {At(s, p).kids[1].x[1] : p \in {q \in Where(s, "addr") : At(s, q).kids[1].k = "var"}}
Aggregates(s) ==
  {At(s, p).x[1] : p \in {q \in Decls(s) : LET ty == At(s, q).x[2] IN IsArr(ty) \/ IsRec(ty)}}
ToBeHoisted(s, globals) == (Aggregates(s) \cup AddressTaken(s)) \ globals

\* __c2pnk_local_..., one name for every variable of the program
LocalName(n) == "local_" \o n
RenameIn(s, names) ==
  Edited(s, [p \in {q \in Where(s, "var") : At(s, q).x[1] \in names} |->
               [At(s, p) EXCEPT !.x[1] = LocalName(@)]])
RECURSIVE RenameDecls(_, _)
RenameDecls(s, names) ==
  [s EXCEPT !.x    = IF s.k = "decl" /\ @[1] \in names THEN [@ EXCEPT ![1] = LocalName(@)] ELSE @,
            !.kids = [i \in DOMAIN s.kids |-> RenameDecls(s.kids[i], names)]]
Renamed(s, names) == RenameDecls(RenameIn(s, names), names)

\* the declarations leave the body; an initialiser stays as an assignment
Moved(s, names) == {p \in Decls(s) : At(s, p).x[1] \in names}
Prologue(s, names) ==
  LET order == SetToSortSeq(Moved(s, names), Earlier)
  IN  [i \in DOMAIN order |-> [name |-> At(s, order[i]).x[1], type |-> At(s, order[i]).x[2]]]
\* mutant of Remains: the initialiser goes with the declaration
MutRemains(d) == S("seq", <<>>, <<>>)
Remains(d) ==
  IF d.kids = <<>> THEN S("seq", <<>>, <<>>) ELSE Expr(Assign(Var(d.x[1], d.x[2]), d.kids[1]))
HoistLocalsOf(s, names) ==
  Edited(s, [p \in Moved(s, names) |-> Remains(At(s, p))])

-----------------------------------------------------------------------------
(* BuildExpr of pass_c2pancake: the statements to put in front, the text   *)
(* left, and heap_alignment, the width a store through it is made with.    *)
(* An expression is needed for its "Value", its "Place" or its "Effect".   *)
(* globals are the names in global_var_map.                                *)

NoText  == S("none", <<>>, <<>>)
Refused == S("error", <<>>, <<>>)
NoAlign == 0
Built(pre, fin, align) == [pre |-> pre, fin |-> fin, align |-> align]

Sizes == {1, 4, 8}       \* what ld8, ld32, lds 1 and st8, st32, st move
Temp(hint, p) == ToString(<<hint, p>>)

RECURSIVE IsVolatile(_)
IsVolatile(e) == Volatile(TypeOf(e)) \/ (e.k = "member" /\ IsVolatile(e.kids[1]))

RECURSIVE Build(_, _, _, _)

\* an array stands for its address
BuildRef(e, use, globals) ==
  LET n == e.x[1] IN
  IF n \in globals
  THEN Built(<<>>, IF use = "Value" /\ ~IsArr(e.x[2]) THEN ValMacro(n) ELSE AddrMacro(n),
             SizeOf(e.x[2]))
  ELSE Built(<<>>, Name(n), NoAlign)

\* memory is stored to by the statement itself, a variable is set in front
BuildAssign(e, use, globals, p) ==
  LET r == Build(e.kids[2], "Value", globals, Append(p, 2))
      l == Build(e.kids[1], "Place", globals, Append(p, 1))
  IN  CASE use = "Place" \/ (l.align # NoAlign /\ l.align \notin Sizes) -> Built(<<>>, Refused, NoAlign)
        [] use # "Place" /\ l.align \in Sizes ->
             Built(r.pre \o l.pre,
                   Store(l.align, Volatile(TypeOf(e.kids[1])), l.fin, r.fin), NoAlign)
        [] use # "Place" /\ l.align = NoAlign ->
             Built(<<Set(l.fin.x[1], r.fin)>> \o r.pre \o l.pre,
                   IF use = "Value" THEN l.fin ELSE NoText, NoAlign)

Times(e, n) == Op("*", <<e, Number(n)>>)
Pointee(e)  == Tail(Decayed(TypeOf(e)))
Pointer(e)  == IsPtr(Decayed(TypeOf(e)))

\* n elements behind q
Offset(pre, q, n, ty) == Built(pre, Op("+", <<q.fin, Times(n.fin, SizeOf(ty))>>), AlignOf(ty))
\* of e, a sum with operands l and r
SumOf(e, l, r) ==
  LET pre == r.pre \o l.pre
      ptrs == {i \in 1..2 : Pointer(e.kids[i])}
  IN  CASE ptrs = 1..2 -> Built(<<>>, Refused, NoAlign)
        [] ptrs = {1}  -> Offset(pre, l, r, Pointee(e.kids[1]))
        [] ptrs = {2}  -> Offset(pre, r, l, Pointee(e.kids[2]))
        [] ptrs = {}   -> Built(pre, Op("+", <<l.fin, r.fin>>), NoAlign)
\* p + i and i + p: the pointer is wanted as a value, the number as a place
BuildAdd(e, globals, p) ==
  LET use(other) == IF Pointer(other) THEN "Place" ELSE "Value"
  IN  SumOf(e, Build(e.kids[1], use(e.kids[2]), globals, Append(p, 1)),
              Build(e.kids[2], use(e.kids[1]), globals, Append(p, 2)))

DifferenceOf(e, l, r) ==
  LET pre   == r.pre \o l.pre
      left  == Pointer(e.kids[1])
      right == Pointer(e.kids[2])
      size  == SizeOf(Pointee(e.kids[1]))
      align == AlignOf(Pointee(e.kids[1]))
      log   == {k \in 0..size : 2^k = size}
  IN  CASE (left /\ right /\ log = {}) \/ (~left /\ right) -> Built(<<>>, Refused, NoAlign)
        [] left /\ right /\ log # {} ->
             Built(pre, Op(">>", <<Op("-", <<l.fin, r.fin>>), Number(CHOOSE k \in log : TRUE)>>), align)
        [] left /\ ~right  -> Built(pre, Op("-", <<l.fin, Times(r.fin, size)>>), align)
        [] ~left /\ ~right -> Built(pre, Op("-", <<l.fin, r.fin>>), NoAlign)
\* p - i and p - q: pointers are wanted as places
BuildSub(e, globals, p) ==
  LET left == Pointer(e.kids[1])
  IN  DifferenceOf(e,
        Build(e.kids[1], IF left THEN "Place" ELSE "Value", globals, Append(p, 1)),
        Build(e.kids[2], IF left /\ Pointer(e.kids[2]) THEN "Place" ELSE "Value", globals, Append(p, 2)))

\* the other operators Pancake has; / and % are reported
OperatorOf(e) == CASE e.k = "land" -> "&&" [] e.k = "lor" -> "||" [] e.k = "bin" -> e.x[1]
BinaryOps == {"&&", "||", "*", "<<", ">>", "<", ">", "<=", ">=", "==", "!=", "&", "^", "|"}
BuildBinary(e, use, globals, p) ==
  LET l == Build(e.kids[1], "Value", globals, Append(p, 1))
      r == Build(e.kids[2], "Value", globals, Append(p, 2))
  IN  IF use = "Place" \/ OperatorOf(e) \notin BinaryOps THEN Built(<<>>, Refused, NoAlign)
      ELSE Built(r.pre \o l.pre, Op(OperatorOf(e), <<l.fin, r.fin>>), NoAlign)

\* a load into a variable of its own, by !ld if it is volatile
MutLoadInto(t, w, a, shared) ==    \* mutant of LoadInto: a shared load does not declare
  IF shared THEN <<SharedLoad(t, w, a)>> ELSE <<DeclVar(t, Load(w, a))>>
LoadInto(t, w, a, shared) ==
  IF shared THEN <<DeclVar(t, Number(0)), SharedLoad(t, w, a)>> ELSE <<DeclVar(t, Load(w, a))>>

\* *e read: e is wanted as a place and loaded from; *e written: the value of e
BuildDeref(e, use, globals, p) ==
  LET ty  == e.x[2]
      sub == Build(e.kids[1], IF use = "Value" THEN "Place" ELSE "Value", globals, Append(p, 1))
      t   == Temp(IF IsVolatile(e) THEN "VolatileLoad" ELSE "deref_tmp", p)
  IN  CASE use = "Value" /\ IsArr(ty) -> Built(sub.pre, sub.fin, AlignOf(ty))
        [] use = "Value" /\ ~IsArr(ty) /\ SizeOf(ty) \in Sizes ->
             Built(sub.pre \o LoadInto(t, SizeOf(ty), sub.fin, IsVolatile(e)), Name(t), NoAlign)
        [] use = "Place" -> Built(sub.pre, sub.fin, AlignOf(ty))
        [] OTHER -> Built(<<>>, Refused, NoAlign)

\* Pancake has none of the arithmetic ones
Unary(op, e) ==
  CASE op = "+" -> Op("+", <<Number(0), e>>)
    [] op = "-" -> Op("-", <<Number(0), e>>)
    [] op = "~" -> Op("^", <<Number(-1), e>>)
    [] op = "!" -> Op("!", <<e>>)
    [] OTHER    -> Refused
BuildUnary(e, globals, p) ==
  LET sub == Build(e.kids[1], "Value", globals, Append(p, 1))
  IN  Built(sub.pre, Unary(e.x[1], sub.fin), NoAlign)
BuildAddrOf(e, globals, p) ==
  LET sub == Build(e.kids[1], "Place", globals, Append(p, 1)) IN Built(sub.pre, sub.fin, NoAlign)

BuildCall(e, globals, p) ==
  LET args == [i \in DOMAIN e.kids |-> Build(e.kids[i], "Value", globals, Append(p, i))]
  IN  Built(FlattenSeq(Reverse([i \in DOMAIN args |-> args[i].pre])),
            PCall(e.x[1], [i \in DOMAIN args |-> args[i].fin]), NoAlign)

\* s.f: the place s plus the offset of f; a store is as wide as s is aligned
BuildMember(e, use, globals, p) ==
  LET base == Build(e.kids[1], "Place", globals, Append(p, 1))
      ty   == TypeOf(e)
      a    == Op("+", <<base.fin, Number(FieldOf(e.x[1]).at)>>)
      t    == Temp("VolatileLoad", p)
  IN  CASE use # "Value" \/ IsArr(ty) -> Built(base.pre, a, base.align)
        [] use = "Value" /\ ~IsArr(ty) /\ SizeOf(ty) \notin Sizes -> Built(<<>>, Refused, NoAlign)
        [] use = "Value" /\ ~IsArr(ty) /\ SizeOf(ty) \in Sizes ->
             IF IsVolatile(e) THEN Built(LoadInto(t, SizeOf(ty), a, TRUE) \o base.pre, Name(t), base.align)
             ELSE Built(base.pre, Load(SizeOf(ty), a), base.align)

Build(e, use, globals, p) ==
  CASE e.k = "val"    -> Built(<<>>, Number(e.x[2]), NoAlign)
    [] e.k = "var"    -> BuildRef(e, use, globals)
    [] e.k = "assign" -> BuildAssign(e, use, globals, p)
    [] e.k = "bin" /\ e.x[1] \in {"+", "offset"} -> BuildAdd(e, globals, p)
    [] e.k = "bin" /\ e.x[1] \in {"-", "diff"} -> BuildSub(e, globals, p)
    [] \/ e.k \in {"land", "lor"}
       \/ e.k = "bin" /\ e.x[1] \notin {"+", "offset", "-", "diff"} -> BuildBinary(e, use, globals, p)
    [] e.k = "deref"  -> BuildDeref(e, use, globals, p)
    [] e.k = "una"    -> BuildUnary(e, globals, p)
    [] e.k = "addr"   -> BuildAddrOf(e, globals, p)
    [] e.k = "call"   -> BuildCall(e, globals, p)
    [] e.k = "member" -> BuildMember(e, use, globals, p)
    [] OTHER          -> Built(<<>>, Refused, NoAlign)

-----------------------------------------------------------------------------
(* BuildAstStmt: the statements for a statement.  Blocks disappear in the  *)
(* block around them.  Of a condition only the text left is kept.          *)

HasEffects(e) ==
  \E p \in Paths(e) : At(e, p).k \in {"call", "assign"} \/ Volatile(TypeOf(At(e, p)))
Statement(b) ==
  IF b.fin = NoText THEN b.pre
  ELSE Append(b.pre, IF b.fin.k = "pcall" THEN Do(b.fin) ELSE b.fin)

RECURSIVE BuildAstStmt(_, _, _)
Flat(ss, globals, p) ==
  FlattenSeq([i \in DOMAIN ss |-> BuildAstStmt(ss[i], globals, Append(p, i))])

\* if and while: the condition, then a block for each statement
BuildControl(s, globals, p) ==
  << S(IF s.k = "if" THEN "pif" ELSE "pwhile", <<>>,
       <<Build(s.kids[1], "Value", globals, Append(p, 1)).fin>> \o
       [i \in 1..(Len(s.kids) - 1) |->
          Block(BuildAstStmt(s.kids[i + 1], globals, Append(p, i + 1)))]) >>

BuildDecl(s, globals, p) ==
  LET b == Build(s.kids[1], "Value", globals, Append(p, 1))
  IN  IF s.kids = <<>> THEN <<DeclVar(s.x[1], Number(0))>> ELSE Append(b.pre, DeclVar(s.x[1], b.fin))

BuildReturn(s, globals, p) ==
  LET b == Build(s.kids[1], "Value", globals, Append(p, 1)) IN Append(b.pre, Return(b.fin))

BuildAstStmt(s, globals, p) ==
  CASE s.k \in {"braces", "seq"} -> Flat(s.kids, globals, p)
    [] s.k \in {"if", "while"} -> BuildControl(s, globals, p)
    [] s.k = "jump" -> << PJump(s.x[1]) >>
    [] s.k = "decl" -> BuildDecl(s, globals, p)
    [] s.k = "ret"  -> BuildReturn(s, globals, p)
    [] s.k = "expr" ->
         IF HasEffects(s.kids[1]) THEN Statement(Build(s.kids[1], "Effect", globals, Append(p, 1)))
         ELSE <<>>
    [] OTHER -> <<Refused>>

\* an expression the pass reports instead
RefusesAny(ss) == \E i \in DOMAIN ss : \E p \in Paths(ss[i]) : At(ss[i], p).k = "error"
=============================================================================
