--------------------------- MODULE ExpressionPasses ---------------------------
(***************************************************************************)
(* Pass_TransformLogicalExpressions.cpp: what its five passes write for    *)
(* the text they parse.  BuildExpr returns the statements to run first (in *)
(* the order they run: the code keeps the list backwards) and the text     *)
(* left for the expression, None if nothing is.                            *)
(***************************************************************************)
EXTENDS Expressions

-----------------------------------------------------------------------------
(* The passes that replace a matched node; of nested matches the outermost *)
(* is replaced, the others do not fit the edited text and wait.            *)

Replacing(s, M, New(_)) == Edited(s, [p \in Outermost(M) |-> New(At(s, p))])

\* a[i] is *(a + (i))
PointerSum(e) == Deref(Bin("+", e.kids[1], e.kids[2]))
RewriteIndexing(s) == Replacing(s, Where(s, "index"), PointerSum)

\* p->f is (*(p)).f
Unarrowed(e) == Member(Deref(e.kids[1]), e.x[1])
RewriteStabs(s) == Replacing(s, Where(s, "arrow"), Unarrowed)

\* !!e is e
IsNot(e)     == e.k = "una" /\ e.x = <<"!">>
DoubleNot(s) == {p \in Where(s, "una") : IsNot(At(s, p)) /\ IsNot(At(s, p).kids[1])}
Doubled(e)   == e.kids[1].kids[1]
SimplifyNegations(s) == Replacing(s, DoubleNot(s), Doubled)

-----------------------------------------------------------------------------
(* Conditions of ifs that do something go to a variable in front.          *)

Effects == {"call", "assign", "opassign", "inc"}
\* the conversion to a value of a volatile place counts as an effect; that of
\* the whole condition is stripped before the question is asked
VolatileRead(e) ==
  \E p \in Paths(e) \ {<<>>} :
    Volatile(TypeOf(At(e, p))) /\ Wants(At(e, Front(p)), Last(p)) # "loc"
HasSideEffects(e) == VolatileRead(e) \/ \E p \in Paths(e) : At(e, p).k \in Effects
ToHoist(s) == {p \in Where(s, "if") : HasSideEffects(At(s, p).kids[1])}
MutTempNamed(hint, p) == ToString(<<hint, SubSeq(p, 1, 2)>>)   \* mutant of TempNamed: no counter
TempNamed(hint, p) == ToString(<<hint, p>>)

RECURSIVE HoistFrom(_, _)
HoistFrom(s, p) ==
  LET t == TempNamed("If", p)
      u == [s EXCEPT !.kids = [i \in DOMAIN s.kids |->
              IF s.kids[i].k \in {"if", "braces"} THEN HoistFrom(s.kids[i], Append(p, i))
              ELSE s.kids[i]]]
  IN  IF s.k = "if" /\ HasSideEffects(s.kids[1])
      THEN S("seq", <<>>, <<DeclAs(t, Num, s.kids[1]),
                            [u EXCEPT !.kids[1] = Var(t, Num)]>>)
      ELSE u

-----------------------------------------------------------------------------
(* What an expression is needed for: its "Value", the "Place" it names, or *)
(* its "Effect".  A place can be read wherever a value is asked for, but a *)
(* volatile one is read once, at the point of the text it stands at.       *)

GetUsage(e) ==
  IF e.k \in {"opassign", "cond", "land", "lor", "assign", "comma", "bin",
              "inc", "call", "block", "init"} THEN "Value" ELSE "Place"

RECURSIVE IsVolatileAccess(_)
IsVolatileAccess(e) ==
  Volatile(TypeOf(e)) \/ (e.k \in {"member", "deref"} /\ IsVolatileAccess(e.kids[1]))

MutGetValueUsage(e) == GetUsage(e)     \* mutant of GetValueUsage: forgets volatile
GetValueUsage(e) == IF IsVolatileAccess(e) THEN "Value" ELSE GetUsage(e)

\* The context: the usage, whether a place below a dereference is copied
\* (deref_force_extract), whether a call may stand inline, and the object an
\* initialiser is for.
Context(use, inline, to) == [use |-> use, force |-> FALSE, inline |-> inline, to |-> to]
Error == S("error", <<>>, <<>>)       \* the pass reports an error instead
Built(pre, fin) == [pre |-> pre, fin |-> fin]

\* structures are assigned member by member, arrays element by element
RECURSIVE Copies(_, _, _)
Copies(l, r, ty) ==
  CASE IsArr(ty) -> FlattenSeq([i \in 1..2 |->
         LET at(e) == Deref(Bin("+", e, Val(i - 1))) IN Copies(at(l), at(r), Tail(ty))])
    [] IsRec(ty) -> FlattenSeq([i \in DOMAIN Fields |->
         Copies(Member(l, Fields[i].f), Member(r, Fields[i].f), Fields[i].type)])
    [] OTHER -> <<Expr(Assign(l, r))>>

\* - in front of text that starts with - is --
Prefixed(op, e) ==
  IF op = "-" /\ e.k = "una" /\ e.x = <<"-">> THEN Inc("pre", "-", e.kids[1]) ELSE Una(op, e)

-----------------------------------------------------------------------------
RECURSIVE BuildExpr(_, _, _), InitStmts(_, _, _, _, _)

\* operands, read and named where they stand
ValueOf(e, c, p) == BuildExpr(e, [c EXCEPT !.use = GetValueUsage(e), !.inline = FALSE], p)
PlaceOf(e, c, p) == BuildExpr(e, [c EXCEPT !.use = GetUsage(e), !.inline = FALSE], p)

\* a copy of e in a variable of type ty, read at this point
Extracted(pre, hint, ty, e, p) ==
  LET t == TempNamed(hint, p) IN Built(Append(pre, DeclAs(t, ty, e)), Var(t, ty))

BuildRef(e, c, p) ==
  IF c.use # "Place" /\ Volatile(e.x[2])
  THEN Extracted(<<>>, "Volatile", Unqual(e.x[2]), e, p) ELSE Built(<<>>, e)

\* ({ s1; ...; e; }): the statements are copied, the pass comes back for them
BuildStmtExpr(e, c, p) ==
  LET n  == Len(e.kids)
      t  == TempNamed("GNUStmtExprResult", p)
      ty == TypeOf(e.kids[n])
      b  == ValueOf(e.kids[n], c, Append(p, n))
  IN  IF c.use = "Effect"
      THEN Built(<<Braces(Append(Front(e.kids), Expr(e.kids[n])))>>, None)
      ELSE Built(<<Decl(t, ty),
                   Braces(Front(e.kids) \o b.pre \o <<Expr(Assign(Var(t, ty), b.fin))>>)>>,
                 Var(t, ty))

BuildCompoundAssign(e, c, p) ==
  LET r   == ValueOf(e.kids[2], c, Append(p, 2))
      l   == PlaceOf(e.kids[1], [c EXCEPT !.force = FALSE], Append(p, 1))
      ty  == Unqual(TypeOf(e))
      old == IF IsVolatileAccess(e.kids[1])
             THEN Extracted(<<>>, "VolatileCompoundAssign", ty, l.fin, p) ELSE Built(<<>>, l.fin)
      new == S("bin", <<e.x[1], Decayed(ty)>>, <<old.fin, r.fin>>)
      t   == TempNamed("CompoundAssignResult", p)
      pre == l.pre \o old.pre \o r.pre
  IN  CASE c.use = "Place"  -> Built(<<>>, Error)
        [] c.use = "Effect" -> Built(Append(pre, Expr(Assign(l.fin, new))), None)
        [] c.use = "Value"  -> Built(pre \o <<DeclAs(t, ty, new), Expr(Assign(l.fin, Var(t, ty)))>>,
                                     Var(t, ty))

BuildConditional(e, c, p) ==
  LET q == ValueOf(e.kids[1], c, Append(p, 1))
      l == PlaceOf(e.kids[2], [c EXCEPT !.force = FALSE], Append(p, 2))
      r == ValueOf(e.kids[3], c, Append(p, 3))
      t == Var(TempNamed("TernaryResult", p), TypeOf(e))
      b == Var(TempNamed("TernaryCond", p), Num)
      To(x) == Append(x.pre, Expr(Assign(t, x.fin)))
  IN  Built(<<Decl(t.x[1], t.x[2])>> \o q.pre \o <<DeclAs(b.x[1], Num, q.fin), If(b, To(l), To(r))>>, t)

BuildLogical(e, c, p) ==
  LET l == ValueOf(e.kids[1], [c EXCEPT !.force = FALSE], Append(p, 1))
      r == ValueOf(e.kids[2], c, Append(p, 2))
      t == Var(TempNamed(e.k, p), Num)
      second == Append(r.pre, Expr(Assign(t, Bin("!=", Val(0), r.fin))))
  IN  Built(l.pre \o <<DeclAs(t.x[1], Num, Val(0)),
              IF e.k = "land" THEN If(Not(l.fin), <<Expr(Assign(t, Val(0)))>>, second)
              ELSE If(l.fin, <<Expr(Assign(t, Val(1)))>>, second)>>, t)

\* The value of an assignment is the text of its left side, read again where
\* it is wanted.  A structure is assigned through a pointer taken before the
\* right side, member by member.
BuildAssign(e, c, p) ==
  LET r  == BuildExpr(e.kids[2], [c EXCEPT !.use = GetValueUsage(e.kids[2]), !.inline = TRUE],
                      Append(p, 2))
      l  == PlaceOf(e.kids[1], c, Append(p, 1))
      ty == TypeOf(e.kids[1])
      to == Extracted(<<>>, "RecordAssignmentTarget", Ptr(ty), AddrOf(l.fin), p)
      Left(x) == IF c.use = "Value" THEN x ELSE None
  IN  CASE c.use = "Place" -> Built(<<>>, Error)
        [] c.use # "Place" /\ IsRec(ty) ->
             Built(l.pre \o to.pre \o r.pre \o Copies(Deref(to.fin), r.fin, ty), Left(Deref(to.fin)))
        [] c.use # "Place" /\ ~IsRec(ty) ->
             Built(l.pre \o r.pre \o <<Expr(Assign(l.fin, r.fin))>>, Left(l.fin))

BuildComma(e, c, p) ==
  LET l == PlaceOf(e.kids[1], c, Append(p, 1))
      r == ValueOf(e.kids[2], c, Append(p, 2))
  IN  Built(l.pre \o r.pre, r.fin)

BuildBinary(e, c, p) ==
  LET l == ValueOf(e.kids[1], c, Append(p, 1))
      r == ValueOf(e.kids[2], c, Append(p, 2))
  IN  IF c.use = "Place" THEN Built(<<>>, Error)
      ELSE Built(l.pre \o r.pre, [e EXCEPT !.kids = <<l.fin, r.fin>>])

BuildIncrement(e, c, p) ==
  LET l    == BuildExpr(e.kids[1], [c EXCEPT !.use = "Place", !.inline = FALSE], Append(p, 1))
      ty   == TypeOf(e.kids[1])
      step == Expr(Assign(l.fin, S("bin", <<e.x[2], Decayed(ty)>>, <<l.fin, Val(1)>>)))
      t    == DeclAs(TempNamed(e.x[1], p), ty, l.fin)
  IN  CASE c.use = "Place"  -> Built(<<>>, Error)
        [] c.use = "Effect" -> Built(Append(l.pre, step), None)
        [] c.use = "Value"  ->
             Built(l.pre \o (IF e.x[1] = "post" THEN <<t, step>> ELSE <<step, t>>), Var(t.x[1], ty))

\* *e stays as it is where a place is wanted; below another dereference only
\* if it is the base of a further access
MutBuildDeref(e, c, p) ==    \* mutant of BuildDeref: always copied below a dereference
  LET b  == BuildExpr(e.kids[1], [c EXCEPT !.use = GetUsage(e.kids[1]), !.force = TRUE,
                                           !.inline = FALSE], Append(p, 1))
      de == [e EXCEPT !.kids = <<b.fin>>]
  IN  IF c.use = "Place" /\ ~c.force THEN Built(b.pre, de)
      ELSE Extracted(b.pre, "Deref", TypeOf(e), de, p)
BuildDeref(e, c, p) ==
  LET ty   == TypeOf(e)
      base == c.use = "Place" /\ (IsRec(ty) \/ IsArr(ty) \/ IsPtr(ty))
      b    == BuildExpr(e.kids[1], [c EXCEPT !.use = GetUsage(e.kids[1]), !.force = TRUE,
                                             !.inline = FALSE], Append(p, 1))
      de   == [e EXCEPT !.kids = <<b.fin>>]
  IN  IF c.use = "Place" /\ (c.force => base) THEN Built(b.pre, de)
      ELSE Extracted(b.pre, "Deref", IF IsArr(ty) THEN Decayed(ty) ELSE ty, de, p)

BuildUnary(e, c, p) ==
  LET b == PlaceOf(e.kids[1], c, Append(p, 1))
  IN  Built(b.pre, IF e.k = "addr" THEN AddrOf(b.fin) ELSE Prefixed(e.x[1], b.fin))

BuildCall(e, c, p) ==
  LET args == [i \in DOMAIN e.kids |->
                 BuildExpr(e.kids[i], [Context("Value", FALSE, <<>>) EXCEPT !.force = c.force],
                           Append(p, i))]
      pre  == FlattenSeq([i \in DOMAIN args |-> args[i].pre])
      call == [e EXCEPT !.kids = [i \in DOMAIN args |-> args[i].fin]]
  IN  IF c.use = "Value" /\ ~c.inline THEN Extracted(pre, "CallResult", Num, call, p)
      ELSE Built(pre, call)

BuildMember(e, c, p) ==
  LET b == BuildExpr(e.kids[1], [c EXCEPT !.use = "Place", !.force = FALSE, !.inline = FALSE],
                     Append(p, 1))
      m == [e EXCEPT !.kids = <<b.fin>>]
  IN  IF c.use # "Place" /\ IsVolatileAccess(e) /\ ~IsArr(TypeOf(e))
      THEN Extracted(b.pre, "Volatile", Unqual(TypeOf(e)), m, p) ELSE Built(b.pre, m)

BuildExpr(e, c, p) ==
  CASE e.k = "var"      -> BuildRef(e, c, p)
    [] e.k = "init"     -> Built(InitStmts(e, c.to[1], c.to[2], c, p), None)
    [] e.k = "block"    -> BuildStmtExpr(e, c, p)
    [] e.k = "opassign" -> BuildCompoundAssign(e, c, p)
    [] e.k = "cond"     -> BuildConditional(e, c, p)
    [] e.k \in {"land", "lor"} -> BuildLogical(e, c, p)
    [] e.k = "assign"   -> BuildAssign(e, c, p)
    [] e.k = "comma"    -> BuildComma(e, c, p)
    [] e.k = "bin"      -> BuildBinary(e, c, p)
    [] e.k = "inc"      -> BuildIncrement(e, c, p)
    [] e.k = "deref"    -> BuildDeref(e, c, p)
    [] e.k \in {"una", "addr"} -> BuildUnary(e, c, p)
    [] e.k = "call"     -> BuildCall(e, c, p)
    [] e.k = "member"   -> BuildMember(e, c, p)
    [] e.k = "arrow"    -> Built(<<>>, Error)
    [] OTHER            -> Built(<<>>, e)       \* copied

-----------------------------------------------------------------------------
(* { e1, ... } for the object to: its elements in order.  Elements without *)
(* an initialiser are not written.  Below an array or a dereference the    *)
(* array is reached through a pointer.                                     *)

ElementInit(e, to, ty, c, p) ==
  LET b == BuildExpr(e, [c EXCEPT !.use = GetValueUsage(e), !.inline = TRUE, !.to = <<to, ty>>], p)
  IN  b.pre \o (IF b.fin = None THEN <<>> ELSE <<Expr(Assign(to, b.fin))>>)
InitStmts(e, to, ty, c, p) ==
  LET ptr   == Extracted(<<>>, "InitList", Ptr(Tail(ty)), to, p)
      array == IF c.force THEN ptr.fin ELSE to
      at(i) == Deref(Bin("+", array, Val(i - 1)))
      One(i) ==
        CASE e.kids[i] = None -> <<>>
          [] e.kids[i] # None /\ IsRec(ty) ->
               ElementInit(e.kids[i], Member(to, Fields[i].f), Fields[i].type, c, Append(p, i))
          [] e.kids[i].k = "init" /\ IsArr(ty) /\ IsArr(Tail(ty)) ->
               InitStmts(e.kids[i], at(i), Tail(ty), c, Append(p, i))
          [] OTHER ->
               ElementInit(e.kids[i], at(i), Tail(ty), [c EXCEPT !.force = TRUE], Append(p, i))
  IN  (IF IsArr(ty) /\ c.force THEN ptr.pre ELSE <<>>)
      \o FlattenSeq([i \in DOMAIN e.kids |-> One(i)])

-----------------------------------------------------------------------------
(* The statements around the expressions.  The condition of an if is       *)
(* visited like an expression statement: it has no room for a declaration. *)

BuildDecl(s, p) ==
  LET n   == s.x[1]
      ty  == s.x[2]
      e   == s.kids[1]
      b   == BuildExpr(e, Context(GetValueUsage(e), TRUE, <<Var(n, ty), ty>>), p)
  IN  CASE b.fin = None -> <<Decl(n, ty)>> \o b.pre
        [] b.fin # None /\ IsRec(ty) -> <<Decl(n, ty)>> \o b.pre \o Copies(Var(n, ty), b.fin, ty)
        [] OTHER -> Append(b.pre, DeclAs(n, ty, b.fin))

RECURSIVE Lowered(_, _)
Lowered(s, p) ==
  LET effect == BuildExpr(s.kids[1], Context("Effect", FALSE, <<>>), Append(p, 1))
      return == BuildExpr(s.kids[1], Context(GetValueUsage(s.kids[1]), TRUE, <<>>), Append(p, 1))
  IN
  CASE s.k = "decl" /\ s.kids # <<>> -> S("seq", <<>>, BuildDecl(s, Append(p, 1)))
    [] s.k = "ret"  -> S("seq", <<>>, Append(return.pre, Ret(return.fin)))
    [] s.k = "expr" ->
         S("seq", <<>>, effect.pre \o (IF effect.fin = None THEN <<>> ELSE <<Expr(effect.fin)>>))
    [] s.k = "if"   ->
         [s EXCEPT !.kids = <<IF effect.pre = <<>> THEN effect.fin ELSE Broken,
                              Lowered(s.kids[2], Append(p, 2)), Lowered(s.kids[3], Append(p, 3))>>]
    [] s.k = "braces" ->
         [s EXCEPT !.kids = [i \in DOMAIN s.kids |-> Lowered(s.kids[i], Append(p, i))]]
    [] OTHER -> s

\* a statement expression was copied: the pass asks to be run again
MutForgets(s) == FALSE                          \* mutant of CopiesStatements: never asks
MutInsists(s) == Where(s, "expr") # {}          \* mutant of CopiesStatements: asks too often
CopiesStatements(s) ==
  \E p \in Where(s, "block") : Len(At(s, p).kids) > 1 \/ At(s, Front(p)).k = "expr"
=============================================================================
