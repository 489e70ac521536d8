---------------------------- MODULE MCControlFlow ----------------------------
(***************************************************************************)
(* Function bodies for ControlFlow, generated by their shape.  A run takes *)
(* a family of them; the words for what a family contains are in README.   *)
(***************************************************************************)
EXTENDS ControlFlow

C == Expr("c")
D == Expr("d")

-----------------------------------------------------------------------------
(* Loops *)

Loop(kind, b, c) ==
  CASE kind = "while"  -> While(c, b)
    [] kind = "do"     -> Do(b, c)
    [] kind = "for"    -> For(Decl("init"), c, Act("inc"), b)
    [] kind = "forinc" -> For(Null, NoCond, Act("inc"), b)
    [] kind = "forc"   -> For(Null, c, Null, b)

Kinds == {"while", "do", "for", "forinc", "forc"}
Guarded(s) == If(Expr("g"), <<s>>)

PlainBodies == {Act("a"), Block(<<Act("a")>>), Block(<<Guarded(Brk), Act("a")>>)}
SimpleLoops == {Loop(k, b, C) : k \in Kinds, b \in PlainBodies}
NestedLoops == {Loop(k, b, D) : k \in Kinds,
                  b \in SimpleLoops \cup {Block(<<l, Act("b")>>) : l \in SimpleLoops}}

\* one continue, owned by the loop it is in
ContinueBodies == {Block(<<Guarded(Cont), Act("a")>>), Block(<<Act("a"), Cont>>),
                   Block(<<Switch(Expr("s"), Block(<<Label("1", Cont)>>)), Act("a")>>)}
ContinueLoops == {Loop(k, b, C) : k \in Kinds \ {"do"}, b \in ContinueBodies}
ContinueNested == {Loop(k, Block(<<l, Act("b")>>), D) : k \in Kinds, l \in ContinueLoops}

LoopPrograms == {Block(<<l, Act("z")>>) : l \in
                   SimpleLoops \cup NestedLoops \cup ContinueLoops \cup ContinueNested}

\* the test is false when the continue is reached
DoContinue   == {Block(<<Loop("do", Block(<<Guarded(Cont), Act("a")>>), C)>>)}

-----------------------------------------------------------------------------
(* Switches *)

Subs      == {Act("a"), Brk, Block(<<Act("a")>>), Block(<<Act("a"), Brk>>),
              Block(<<Act("a"), Ret>>)}
Followers == {<<>>, <<Act("b")>>, <<Act("b"), Brk>>}
LastOnes  == {<<>>, <<Act("b"), Brk>>}
Item(l, sub, more) == <<Label(l, sub)>> \o more
Items(ls, subs) == {Item(l, s, m) : l \in ls, s \in subs, m \in Followers}

\* the statements of an item do not reach the next label
Terminated(item) ==
  \E i \in DOMAIN item :
    LET s == IF item[i].k = "label" THEN item[i].kids[1] ELSE item[i]
    IN  IsTerminatingStmt(s) \/ EndsTerminating(s)
\* no item falls through into a block that ends in break, return or continue
PlainFallthrough(items) ==
  \A i \in 1..(Len(items) - 1) :
    Terminated(items[i]) \/ ~EndsTerminating(items[i + 1][1].kids[1])

SwitchOf(items) == Switch(Expr("s"), Block(FlattenSeq(items)))
InLoop(sw) == Block(<<While(Expr("w"), Block(<<sw, Act("y")>>)), Act("z")>>)

TwoItems == {i \in Items({"1"}, Subs) \X
                     {Item(l, s, m) : l \in {"2", "default"}, s \in Subs, m \in LastOnes} :
               PlainFallthrough(i)}
FallSubs == {Act("a"), Block(<<Act("a")>>), Cont}
ThreeItems == {i \in Items({"1"}, FallSubs) \X Items({"2"}, FallSubs)
                     \X Items({"default"}, {Act("e")}) : PlainFallthrough(i)}
\* case 1: case 2: .., and the mark written by hand in front of the default
Grouped == {<<<<Label("1", Label("2", s))>> \o m>> : s \in Subs, m \in Followers}
MarkedDefault == {<<<<Label("1", Ft)>>, Item("default", s, m)>> :
                    s \in Subs, m \in Followers}
\* a switch in a case of another
InCase(sw) == SwitchOf(<<Item("1", Block(<<sw>>), <<>>), Item("2", Act("b"), <<>>)>>)
Nested     == {InCase(Switch(Expr("t"), Block(Item("1", s, m)))) :
                 s \in Subs, m \in Followers}

SwitchPrograms ==
  {InLoop(SwitchOf(i)) : i \in TwoItems \cup ThreeItems \cup Grouped \cup MarkedDefault}
  \cup {InLoop(sw) : sw \in Nested}

-----------------------------------------------------------------------------
(* Ifs *)

Conds    == {Expr("c"), Var("v"), Not(Var("v"))}
Thens    == {Act("a"), Block(<<Act("a")>>)}
Branches == {If(d, <<Block(<<Act("b")>>)>>) : d \in {Expr("d"), Var("u")}}
            \cup {If(D, <<Act("b"), Act("e")>>)}
IfElse   == {If(c, <<t>> \o e) : c \in Conds, t \in Thens \cup {Block(<<b>>) : b \in Branches},
               e \in {<<>>, <<Act("n")>>} \cup {<<b>> : b \in Branches}}
\* branches that are left unbraced: the pass looks at the condition alone
VarUnbraced(f) == PureVar(f.x) /\ f.kids[1].k # "block"
IfPrograms == {Block(<<f, Act("z")>>) : f \in {g \in IfElse : ~VarUnbraced(g)}}
LoweredPrograms == LoopPrograms \cup SwitchPrograms \cup IfPrograms
=============================================================================
