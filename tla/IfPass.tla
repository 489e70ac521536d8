------------------------------- MODULE IfPass -------------------------------
(***************************************************************************)
(* Pass_NormaliseIfStatements.cpp: conditions become variables, branches   *)
(* become blocks.  The visitor is post-order, so an attempt replaces the   *)
(* innermost ifs that need it and refuses the replacements around them.    *)
(***************************************************************************)
EXTENDS MiniC

\* dyn_cast<DeclRefExpr> to a VarDecl
PureVar(c) == c[1] \in {"var", "tmp"}

HasElse(s)      == Len(s.kids) = 2
MutNeedsCondHoist(s) == TRUE  \* mutant of NeedsCondHoist: variables too
NeedsCondHoist(s) == ~PureVar(s.x)
NeedsRewrite(s) ==
  IF s.kids[1].k = "block"
  THEN HasElse(s) /\ s.kids[2].k # "block"
  ELSE ~PureVar(s.x)
Converted(s) == NeedsRewrite(s) \/ NeedsCondHoist(s)

MutPartOfElseIfChain(s, p) == FALSE   \* mutant: no braces around the hoist
PartOfElseIfChain(s, p) ==
  p # <<>> /\ At(s, Front(p)).k = "if" /\ Last(p) = 2

MutBraced(b) == b            \* mutant of Braced: the branch as it was
Braced(b) == IF b.k = "block" THEN b ELSE Block(<<b>>)

IfText(f, t) ==
  LET branches == [i \in DOMAIN f.kids |-> Braced(f.kids[i])]
  IN  IF NeedsCondHoist(f) THEN <<Set(t, f.x), If(Tmp(t), branches)>>
      ELSE <<If(f.x, branches)>>

\* ConvertIfStmt for every if visited; stem names the pass and the attempt
NormaliseIf(s, stem) ==
  LET M     == {p \in Where(s, "if") : Converted(At(s, p))}
      H     == {p \in M : NeedsCondHoist(At(s, p))}
      text(p) == IfText(At(s, p), TempName(stem, VisitedBefore(H, p)))
  IN  [p \in Innermost(M) |->
         CASE PartOfElseIfChain(s, p) -> Block(text(p))
           [] Len(text(p)) = 1        -> text(p)[1]
           [] OTHER                   -> Splice(text(p))]
=============================================================================
