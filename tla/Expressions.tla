----------------------------- MODULE Expressions -----------------------------
(***************************************************************************)
(* The part of C the expression passes see: expressions and the statements *)
(* around them as trees, their types, and every outcome C allows for them. *)
(* The passes edit C text that clang parses, so this language is external  *)
(* to the code.                                                            *)
(*                                                                         *)
(* An expression is [k, x, kids].  Its kind k is one of                    *)
(*   "val" x = <<"#", n>>  "var" x = <<name, type>>  "una" x = <<op>>      *)
(*   "bin" x = <<op, type of the left operand, or of the pointer>>        *)
(*   "opassign" x = <<op>>                                                *)
(*   "inc" x = <<"pre" or "post", op>>             "deref" x = <<"*", type>> *)
(*   "land" "lor" "cond" "comma" "assign" "addr"   "call" x = <<name>>     *)
(*   "index"           "member" "arrow" x = <<field>>                      *)
(*   "block" ({ statements; expression; })        "init" { expressions }   *)
(*   "loc" x = <<"@", type, address>>, an object found when evaluating     *)
(* and a statement is "expr", "decl" (x = <<name, type>>, with or without  *)
(* its initialiser), "ret", "if", "while", "jump" (x = <<"break">> or      *)
(* <<"continue">>), "braces" or "seq", or "broken": text that does not     *)
(* parse.  A type is a sequence: "int", "char" or "rec", and "ptr", "vol"  *)
(* and "arr" (of two) in front of another.                                 *)
(***************************************************************************)
EXTENDS Trees

CONSTANTS
  GlobalCells,   \* memory below this address holds the global variables
  SizeInChars,   \* the size of each type that is not an array
  Fields         \* of the one structure there is, in order: [f, type, at]

(* Types.  An array has two elements.                                      *)

Num       == <<"int">>
Rec       == <<"rec">>
Ptr(ty)   == <<"ptr">> \o ty
Vol(ty)   == <<"vol">> \o ty
Arr(ty)   == <<"arr">> \o ty
FieldOf(n) == CHOOSE d \in Range(Fields) : d.f = n

Volatile(ty) == ty[1] = "vol"
Unqual(ty)   == IF Volatile(ty) THEN Tail(ty) ELSE ty
IsRec(ty)    == Unqual(ty)[1] = "rec"
IsArr(ty)    == ty[1] = "arr"
IsPtr(ty)    == Unqual(ty)[1] = "ptr"
Decayed(ty)  == IF IsArr(ty) THEN Ptr(Tail(ty)) ELSE Unqual(ty)

RECURSIVE SizeOf(_)
SizeOf(ty) == CASE ty[1] = "arr" -> 2 * SizeOf(Tail(ty))
                [] ty[1] = "vol" -> SizeOf(Tail(ty))
                [] OTHER -> SizeInChars[ty[1]]

RECURSIVE TypeOf(_)
TypeOf(e) ==
  LET sub(i) == TypeOf(e.kids[i]) IN
  CASE e.k \in {"var", "loc", "deref"} -> e.x[2]
    [] e.k = "bin" -> IF e.x[1] \in {"+", "offset", "-"} THEN e.x[2] ELSE Num
    [] e.k \in {"cond", "comma"} -> Decayed(sub(2))
    [] e.k \in {"assign", "opassign", "inc"} -> Unqual(sub(1))
    [] e.k = "addr" -> Ptr(sub(1))
    [] e.k = "member" -> LET ty == FieldOf(e.x[1]).type
                         IN  IF Volatile(sub(1)) /\ ~IsArr(ty) THEN Vol(ty) ELSE ty
    [] e.k = "arrow" -> FieldOf(e.x[1]).type
    [] e.k = "index" -> Tail(Decayed(sub(1)))
    [] e.k = "block" -> Decayed(sub(Len(e.kids)))
    [] OTHER -> Num

Val(n)        == S("val", <<"#", n>>, <<>>)
Var(n, ty)    == S("var", <<n, ty>>, <<>>)
\* "offset" is i + p, "diff" p - q
Bin(op, l, r) == S("bin", <<op, Decayed(TypeOf(IF op = "offset" THEN r ELSE l))>>, <<l, r>>)
Una(op, e)    == S("una", <<op>>, <<e>>)
Not(e)        == Una("!", e)
Assign(l, r)  == S("assign", <<>>, <<l, r>>)
OpAssign(op, l, r) == S("opassign", <<op>>, <<l, r>>)
Inc(pos, op, l)    == S("inc", <<pos, op>>, <<l>>)
Deref(e)      == S("deref", <<"*", Tail(Decayed(TypeOf(e)))>>, <<e>>)
AddrOf(e)     == S("addr", <<>>, <<e>>)
Member(e, f)  == S("member", <<f>>, <<e>>)
Arrow(e, f)   == S("arrow", <<f>>, <<e>>)
Index(a, i)   == S("index", <<>>, <<a, i>>)
Call(f, es)   == S("call", <<f>>, es)
InitList(es)  == S("init", <<>>, es)

None          == S("none", <<>>, <<>>)          \* no text
Broken        == S("broken", <<>>, <<>>)
Expr(e)       == S("expr", <<>>, <<e>>)
Decl(n, ty)   == S("decl", <<n, ty>>, <<>>)
DeclAs(n, ty, e) == S("decl", <<n, ty>>, <<e>>)
Ret(e)        == S("ret", <<>>, <<e>>)
Braces(ss)    == S("braces", <<>>, ss)
If(c, ss, ts) == S("if", <<>>, <<c, Braces(ss), Braces(ts)>>)
While(c, ss)  == S("while", <<>>, <<c, Braces(ss)>>)
Jump(kind)    == S("jump", <<kind>>, <<>>)

\* what several statements in the place of one parse as
RECURSIVE Joined(_)
Joined(s) ==
  LET kids == [i \in DOMAIN s.kids |->
                 IF s.k \in {"braces", "if", "while", "seq"} THEN Joined(s.kids[i]) ELSE s.kids[i]]
      flat == FlattenSeq([i \in DOMAIN kids |->
                IF kids[i].k = "seq" THEN kids[i].kids ELSE <<kids[i]>>])
  IN  IF s.k \in {"braces", "seq"} THEN [s EXCEPT !.kids = flat] ELSE [s EXCEPT !.kids = kids]

-----------------------------------------------------------------------------
(* Evaluation, one step at a time.  Operands that C leaves unsequenced are *)
(* reduced in any interleaving of their steps; a call is one step.  st     *)
(* holds the memory, the addresses of variables, the calls and accesses of *)
(* volatile globals in order, and in ret the value returned, if any.       *)

\* A number is kept whole in the first cell of its object, the others are zero.
Junk == 7      \* what an object holds before it is written
Allocated(st, n, ty) ==
  [st EXCEPT !.env  = (n :> st.next) @@ @,
             !.mem  = @ @@ [a \in st.next..(st.next + SizeOf(ty) - 1) |-> Junk],
             !.next = @ + SizeOf(ty)]
Start(mem, env) ==
  [mem |-> mem, env |-> env, next |-> GlobalCells, tr |-> <<>>, ret |-> <<>>]

RECURSIVE Placed(_), AddressOf(_, _)
Placed(e) == \/ e.k \in {"loc", "var"}
             \/ e.k = "deref" /\ e.kids[1].k = "val"
             \/ e.k = "member" /\ Placed(e.kids[1])
AddressOf(e, st) ==
  CASE e.k = "loc"    -> e.x[3]
    [] e.k = "var"    -> st.env[e.x[1]]
    [] e.k = "deref"  -> e.kids[1].x[2]
    [] e.k = "member" -> AddressOf(e.kids[1], st) + FieldOf(e.x[1]).at

Seen(st, event, a, ty) ==
  IF Volatile(ty) /\ a < GlobalCells THEN [st EXCEPT !.tr = Append(@, event)] ELSE st
\* the value of a structure is the sequence of its cells
Contents(st, a, ty) ==
  CASE IsArr(ty) -> a
    [] IsRec(ty) -> [i \in 1..SizeOf(ty) |-> st.mem[a + i - 1]]
    [] OTHER     -> st.mem[a]
Stored(st, a, ty, v) ==
  LET cells == [b \in a..(a + SizeOf(ty) - 1) |->
                  IF IsRec(ty) THEN v[b - a + 1] ELSE IF b = a THEN v ELSE 0]
  IN  Seen([st EXCEPT !.mem = cells @@ @], <<"write", a, v>>, a, ty)

Out(e, st)   == [e |-> e, st |-> st]
ReadOf(e, st) ==
  LET a == AddressOf(e, st)
  IN  Out(Val(Contents(st, a, TypeOf(e))), Seen(st, <<"read", a>>, a, TypeOf(e)))

Truth(p)       == IF p THEN 1 ELSE 0
\* pointers move by the size of what they point to
Scaled(ty, n)  == IF IsPtr(ty) THEN n * SizeOf(Tail(ty)) ELSE n
Computed(op, ty, a, b) ==
  CASE op = "+" -> a + Scaled(ty, b)
    [] op = "offset" -> Scaled(ty, a) + b
    [] op = "-" -> a - Scaled(ty, b)
    [] op = "diff" -> (a - b) \div SizeOf(Tail(ty))
    [] op = "<" -> Truth(a < b)
    [] op = "!=" -> Truth(a # b)
ComputedUna(op, a) ==
  CASE op = "+" -> a [] op = "-" -> -a [] op = "~" -> -1 - a [] op = "!" -> Truth(a = 0)

\* Every function counts a global up and returns it: calls do not commute.
Called(f, args, st) ==
  LET n == st.mem[st.env["g"]] + 1
  IN  Out(Val(n), [st EXCEPT !.mem = (st.env["g"] :> n) @@ @,
                             !.tr  = Append(@, <<f, args>>)])

\* x op= n and x++ read and write in one step
Updated(e, st, op, n, old) ==
  LET l  == e.kids[1]
      a  == AddressOf(l, st)
      ty == TypeOf(l)
      v  == Contents(st, a, ty)
      w  == Computed(op, Decayed(ty), v, n)
  IN  Out(Val(IF old THEN v ELSE w), Stored(ReadOf(l, st).st, a, ty, w))

Wants(e, i) ==
  IF e.k \in {"addr", "member"} \/ (e.k \in {"assign", "opassign", "inc"} /\ i = 1)
  THEN "loc" ELSE IF e.k = "comma" THEN "void" ELSE "val"
Reduced(e, want) == IF want = "loc" THEN Placed(e) ELSE e.k = "val"
\* the operands evaluated first; all of them if C gives no order
Operands(e) ==
  IF e.k \in {"land", "lor", "cond", "comma", "block"} THEN {1} ELSE DOMAIN e.kids

\* what is left once the operands are known; C lets the value of an assignment
\* be read back from the object (C11 6.5.16, footnote 111)
Applied(e, want, st) ==
  LET v(i) == e.kids[i].x[2] IN
  CASE e.k \in {"loc", "var", "deref", "member"} -> {ReadOf(e, st)}
    [] e.k = "addr" -> {Out(Val(AddressOf(e.kids[1], st)), st)}
    [] e.k = "bin"  -> {Out(Val(Computed(e.x[1], e.x[2], v(1), v(2))), st)}
    [] e.k = "una"  -> {Out(Val(ComputedUna(e.x[1], v(1))), st)}
    [] e.k \in {"land", "lor"} ->
         IF (v(1) = 0) = (e.k = "land") THEN {Out(Val(Truth(v(1) # 0)), st)}
         ELSE {Out(Not(Not(e.kids[2])), st)}
    [] e.k = "cond"  -> {Out(IF v(1) # 0 THEN e.kids[2] ELSE e.kids[3], st)}
    [] e.k = "comma" -> {Out(e.kids[2], st)}
    [] e.k = "opassign" -> {Updated(e, st, e.x[1], v(2), FALSE)}
    [] e.k = "inc"   -> {Updated(e, st, e.x[2], 1, e.x[1] = "post")}
    [] e.k = "call"  -> {Called(e.x[1], [i \in DOMAIN e.kids |-> v(i)], st)}
    [] e.k = "assign" ->
         LET l == e.kids[1]
             t == Stored(st, AddressOf(l, st), TypeOf(l), v(2))
         IN  {Out(r, t) : r \in {Val(v(2))} \cup
                (IF want = "void" THEN {} ELSE {S("loc", <<"@", TypeOf(l), AddressOf(l, st)>>, <<>>)})}

\* in x op= e the old x is read among the steps of e, but no call comes between
\* that and the assignment (C11 6.5.16.2)
Calls(e) == \E p \in Paths(e) : At(e, p).k = "call"

RECURSIVE Steps(_, _, _), Reduce(_, _), Exec(_, _), ExecAll(_, _), Decided(_, _, _)
Steps(e, want, st) ==
  LET open == {i \in Operands(e) : ~Reduced(e.kids[i], Wants(e, i))}
      v(i) == e.kids[i].x[2]
  IN
  CASE e.k = "block" /\ Len(e.kids) = 1 -> {Out(e.kids[1], st)}
    [] e.k = "block" /\ Len(e.kids) > 1 ->
         {Out([e EXCEPT !.kids = Tail(@)], t) : t \in Exec(e.kids[1], st)}
    [] e.k = "index" -> {Out(Deref(Bin("+", e.kids[1], e.kids[2])), st)}
    [] e.k = "arrow" -> {Out(Member(Deref(e.kids[1]), e.x[1]), st)}
    [] e.k \notin {"block", "index", "arrow"} /\ open # {} ->
         UNION {{Out([e EXCEPT !.kids[i] = r.e], r.st) :
                   r \in Steps(e.kids[i], Wants(e, i), st)} : i \in open}
         \cup {Out(Assign(a.kids[1], Bin(a.x[1], a.kids[1], a.kids[2])), st) :
                 a \in IF e.k = "opassign" /\ open = {2} /\ ~Calls(e.kids[2]) THEN {e} ELSE {}}
    [] OTHER -> Applied(e, want, st)

Reduce(cs, want) ==
  LET open == {c \in cs : ~Reduced(c.e, want)}
  IN  IF open = {} THEN cs
      ELSE Reduce((cs \ open) \cup UNION {Steps(c.e, want, c.st) : c \in open}, want)

-----------------------------------------------------------------------------
\* Statements, up to a return or a jump out of the body of a loop, which ret
\* holds until the loop is reached.  The elements of an initialiser are evaluated
\* in any order, those not given are zero.
RECURSIVE Initialised(_, _, _, _)
Elements(e, ty) ==
  IF IsArr(ty) THEN [i \in 1..2 |-> [at |-> (i - 1) * SizeOf(Tail(ty)), type |-> Tail(ty)]]
  ELSE Fields
Initialised(e, a, ty, sts) ==
  IF e.k # "init"
  THEN {Stored(c.st, a, ty, c.e.x[2]) : c \in Reduce({Out(e, st) : st \in sts}, "val")}
  ELSE
    LET el   == Elements(e, ty)
        zero == {[st EXCEPT !.mem = [b \in a..(a + SizeOf(ty) - 1) |-> 0] @@ @] : st \in sts}
        perms == {o \in [DOMAIN e.kids -> DOMAIN e.kids] : Range(o) = DOMAIN e.kids}
    IN  UNION {FoldLeft(LAMBDA acc, i : Initialised(e.kids[i], a + el[i].at, el[i].type, acc),
                        zero, o) : o \in perms}

JumpsBy(kind)  == <<"jump", kind>>
Resumed(st)    == [st EXCEPT !.ret = <<>>]
\* the body of a loop ended in st: on with the next round, or behind the loop
GoesOn(st) == st.ret \in {<<>>, JumpsBy("continue")}
AfterLoop(st) == IF st.ret = JumpsBy("break") THEN Resumed(st) ELSE st

ExecAll(ss, sts) ==
  FoldLeft(LAMBDA acc, s : UNION {Exec(s, st) : st \in acc}, sts, ss)
\* the expression of s has the value v
Decided(s, v, st) ==
  CASE s.k = "expr" -> {st}
    [] s.k = "ret"  -> {[st EXCEPT !.ret = << v >>]}
    [] s.k = "if"   -> Exec(s.kids[IF v # 0 THEN 2 ELSE 3], st)
    [] s.k = "while" ->
         IF v = 0 THEN {st}
         ELSE UNION {IF GoesOn(t) THEN Exec(s, Resumed(t)) ELSE {AfterLoop(t)} :
                       t \in Exec(s.kids[2], st)}
Exec(s, st) ==
  CASE st.ret # <<>>  -> {st}
    [] st.ret = <<>> /\ s.k \in {"expr", "ret", "if", "while"} ->
         UNION {Decided(s, c.e.x[2], c.st) :
                  c \in Reduce({Out(s.kids[1], st)}, IF s.k = "expr" THEN "void" ELSE "val")}
    [] st.ret = <<>> /\ s.k = "decl" ->
         LET t == Allocated(st, s.x[1], s.x[2])
         IN  IF s.kids = <<>> THEN {t}
             ELSE Initialised(s.kids[1], st.next, s.x[2], {t})
    [] st.ret = <<>> /\ s.k = "jump" -> {[st EXCEPT !.ret = JumpsBy(s.x[1])]}
    [] st.ret = <<>> /\ s.k \in {"braces", "seq"} -> ExecAll(s.kids, {st})

\* What can be told from outside: calls and volatile accesses in order, the
\* value returned, the globals.
Observed(st) == [tr |-> st.tr, ret |-> st.ret,
                 globals |-> [a \in {b \in DOMAIN st.mem : b < GlobalCells} |-> st.mem[a]]]
Outcomes(ss, st) == {Observed(t) : t \in ExecAll(ss, {st})}

-----------------------------------------------------------------------------
(* What clang accepts: names are declared above their uses, once in a      *)
(* block, and everything parses.                                           *)

RECURSIVE Scoped(_, _, _)
\* ss parses where the names of known are visible and those of mine are taken
Scoped(ss, known, mine) ==
  IF ss = <<>> THEN TRUE ELSE
  LET s    == Head(ss)
      name == IF s.k = "decl" THEN {s.x[1]} ELSE {}
      RECURSIVE Ok(_)
      Ok(e) == CASE e.k = "block" -> Scoped(e.kids, known \cup name, {})
                 [] e.k = "braces" -> Scoped(e.kids, known, {})
                 [] e.k = "var" -> e.x[1] \in known \cup name
                 [] e.k = "broken" -> FALSE
                 [] OTHER -> \A i \in DOMAIN e.kids : Ok(e.kids[i])
  IN  /\ name \cap mine = {} /\ Ok(s)
      /\ Scoped(Tail(ss), known \cup name, mine \cup name)
Compiles(ss, globals) == Scoped(ss, globals, {})
=============================================================================
