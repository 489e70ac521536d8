----------------------------- MODULE LoopPasses -----------------------------
(***************************************************************************)
(* The five passes of Pass_LoopsToWhile.cpp, each as the replacements one  *)
(* attempt applies to a function body: a function from the paths of the    *)
(* replaced nodes to their new text.  A MatchFinder reports outer loops    *)
(* before the loops in them, and a replacement within a replaced range is  *)
(* a conflict that Replacements::add refuses: only the outermost matches   *)
(* are replaced by an attempt.                                             *)
(***************************************************************************)
EXTENDS MiniC

\* statements(body_bind) for a compound body, node(body_bind) otherwise
Statements(body) == IF body.k = "block" THEN body.kids ELSE <<body>>
Opt(s)           == IF s = Null THEN <<>> ELSE <<s>>

\* if (!(c)) { break; }
BreakUnless(c) == If(Not(c), <<Block(<<Brk>>)>>)

-----------------------------------------------------------------------------
\* while (c) body, unless c is the literal 1
NormalisedWhile(w) ==
  While(Lit, Block(<<BreakUnless(w.x)>> \o Statements(w.kids[1])))
MutNormaliseWhile(s) ==      \* mutant of NormaliseWhile: literals again and again
  [p \in Outermost(Where(s, "while")) |-> NormalisedWhile(At(s, p))]
NormaliseWhile(s) ==
  [p \in Outermost({q \in Where(s, "while") : At(s, q).x # Lit}) |->
     NormalisedWhile(At(s, p))]

\* for (init; c; inc) body.  The text of an expression has no semicolon: the
\* rule adds one to the increment but not to the init, so only an init that is
\* a declaration, whose text ends in one, leaves something that parses.
InitOf(i) == IF i = Null THEN <<>> ELSE IF i.k = "dcl" THEN <<i>> ELSE <<Broken>>
BreakCond(c) == IF c = NoCond THEN <<>> ELSE <<BreakUnless(c)>>
WhileOfFor(f) ==
  Block(InitOf(f.kids[1]) \o
        <<While(Lit, Block(BreakCond(f.x) \o Statements(f.kids[3])
                           \o Opt(f.kids[2])))>>)
MutForToWhile(s) ==          \* mutant of ForToWhile: the filter of ContinueInFor
  [p \in Outermost({q \in Where(s, "for") : At(s, q).kids[2] # Null}) |->
     WhileOfFor(At(s, p))]
ForToWhile(s) ==
  [p \in Outermost(Where(s, "for")) |-> WhileOfFor(At(s, p))]

\* do body while (c)
MutWhileOfDo(d) ==           \* mutant of WhileOfDo: the test after the loop
  Block(<<While(Lit, d.kids[1]), BreakUnless(d.x)>>)
WhileOfDo(d) ==
  While(Lit, Block(Statements(d.kids[1]) \o <<BreakUnless(d.x)>>))
DoToWhile(s) ==
  [p \in Outermost(Where(s, "do")) |-> WhileOfDo(At(s, p))]

-----------------------------------------------------------------------------
(* The continue passes run once.  hasDescendant binds the first continue   *)
(* below the body of the loop and no other.                                *)

FirstContinue(s, body) ==
  LET below == {q \in Where(s, "cont") : Inside(q, body)}
  IN  {q \in below : \A r \in below : r = q \/ Earlier(q, r)}

\* IsContinueDirectlyInsideFor, IsContinueDirectlyInsideDoWhile
MutOwnedBy(s, loop, c) == Inside(c, loop)   \* mutant of OwnedBy: any loop around
OwnedBy(s, loop, c) == Enclosing(s, c, LoopKinds) = {loop}

\* The replaced continues, each with the loop that owns it.
Bound(s, loops, bodyIndex) ==
  {<<c, p>> \in UNION {FirstContinue(s, Append(q, bodyIndex)) \X {q} : q \in loops} :
     OwnedBy(s, p, c)}
OwnerOf(bound, c) == (CHOOSE b \in bound : b[1] = c)[2]

\* continue;  =>  { inc; continue; }
ContinueInFor(s) ==
  LET bound == Bound(s, {p \in Where(s, "for") : At(s, p).kids[2] # Null}, 3)
  IN  [c \in {b[1] : b \in bound} |->
         Block(<<At(s, OwnerOf(bound, c)).kids[2], Cont>>)]

\* continue;  =>  if (c) { continue; }
ContinueInDo(s) ==
  LET bound == Bound(s, Where(s, "do"), 1)
  IN  [c \in {b[1] : b \in bound} |->
         If(At(s, OwnerOf(bound, c)).x, <<Block(<<Cont>>)>>)]
=============================================================================
