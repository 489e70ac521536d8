------------------------ MODULE MCExpressionLowering ------------------------
(***************************************************************************)
(* Function bodies for ExpressionLowering.  Where C leaves operands        *)
(* unsequenced the two sides are drawn from different variables, so that   *)
(* the source has a meaning.                                               *)
(***************************************************************************)
EXTENDS ExpressionLowering

\* a cell for every number and pointer
CellSizes == [k \in {"int", "ptr", "rec"} |-> IF k = "rec" THEN 4 ELSE 1]
Members   == <<[f |-> "next", type |-> Ptr(Rec), at |-> 0],
               [f |-> "num",  type |-> Num,      at |-> 1],
               [f |-> "arr",  type |-> Arr(Num), at |-> 2]>>

\* The globals: a number g that calls count up, two numbers, two volatile
\* numbers, two structures of which p points to the first and the first to the
\* second, an array, and pointers to x and to v.
Addresses == [n \in {"g", "x", "y", "v", "w", "s", "t", "a", "p", "q", "pv"} |->
  CASE n = "g" -> 0 [] n = "x" -> 1 [] n = "y" -> 2 [] n = "v" -> 3 [] n = "w" -> 4
    [] n = "s" -> 5 [] n = "t" -> 9 [] n = "a" -> 13 [] n = "p" -> 15 [] n = "q" -> 16
    [] n = "pv" -> 17]
Cells == 18
Memory(x, y) ==
  [c \in 0..(Cells - 1) |->
     CASE c = 1 -> x [] c = 2 -> y [] c = 3 -> 1 [] c = 5 -> 9 [] c = 9 -> 5
       [] c = 13 -> 1 [] c = 15 -> 5 [] c = 16 -> 1 [] c = 17 -> 3 [] OTHER -> 0]
StartMemories == {Memory(0, 1), Memory(1, 0)}

X == Var("x", Num)
Y == Var("y", Num)
V == Var("v", Vol(Num))
W == Var("w", Vol(Num))
P == Var("p", Ptr(Rec))
Q == Var("q", Ptr(Num))
PV == Var("pv", Ptr(Vol(Num)))
A == Var("a", Arr(Num))
RecS == Var("s", Rec)
RecT == Var("t", Rec)
F == Call("f", <<>>)

\* expressions over x, v and s, and over y, w, t and a
PlacesL == {X, V, Deref(Q), Deref(PV), Arrow(P, "num"), Member(RecS, "num")}
PlacesR == {Y, W, Index(A, Y), Arrow(Arrow(P, "next"), "num")}
Changes(l) == {Inc("post", "+", l), Inc("pre", "-", l), Assign(l, Val(1)), OpAssign("+", l, Val(1))}
Logic(l, r) == {S("land", <<>>, <<l, r>>), S("lor", <<>>, <<l, r>>)}
Cond(c, l, r) == S("cond", <<>>, <<c, l, r>>)
Comma(l, r) == S("comma", <<>>, <<l, r>>)
StmtExpr(ss, e) == S("block", <<>>, Append(ss, e))

Lefts  == PlacesL \cup {Val(1), F, Una("-", X), Inc("post", "+", Deref(Q))} \cup Changes(X)
Rights == PlacesR \cup {Call("h", <<Y>>), Index(A, Inc("post", "+", Y))}
          \cup Changes(Y) \cup {Inc("post", "+", Index(A, Val(0))), OpAssign("+", Index(A, Val(0)), Val(1))}

Pairs(op(_, _)) == UNION {op(l, r) : l \in Lefts, r \in Rights}
Sum(l, r)  == {Bin("+", l, r), Call("h", <<l, r>>)}
Short(l, r) == Logic(l, r) \cup {Cond(l, r, Y)}
               \cup {Comma(e, r) : e \in {l} \ {V, Deref(PV)}}


Body(ss) == Braces(ss)
Values == {Body(<<Ret(e)>>) : e \in Pairs(Sum) \cup Pairs(Short)}

\* effects on places that take evaluation themselves
Targets == PlacesL \cup {Index(A, Inc("post", "+", X)), Index(Arrow(P, "arr"), X),
                         Deref(Inc("post", "+", Q)), Index(A, F)}
Nonvolatile(es) == {e \in es : ~IsVolatileAccess(e)}
\* a volatile left side of -= is read before a call on its right
Operations(l, r) == {Assign(l, r)} \cup {OpAssign("-", l, e) :
                       e \in {r} \ (IF IsVolatileAccess(l) THEN {Call("h", <<Y>>)} ELSE {})}
Effects1(ls) == UNION {Operations(l, r) : l \in ls, r \in Rights}
                \cup UNION {Changes(l) : l \in Nonvolatile(ls)}
Statements == {Body(<<Expr(e)>>) : e \in Effects1(Targets)}
              \cup {Body(<<Ret(e)>>) : e \in Effects1({X, V, Deref(Q), Index(A, F)})}

\* (*qq)++ below a dereference, of a pointer
QQ == Var("qq", Ptr(Ptr(Num)))
Pointers == {Body(<<DeclAs("qq", Ptr(Ptr(Num)), AddrOf(Q)),
                    Expr(Assign(Deref(Inc(pos, "+", Deref(QQ))), r))>>) :
               pos \in {"post", "pre"}, r \in Rights}

\* three levels
Deep == UNION {Logic(a, b) \cup {Bin("+", a, b), Cond(a, b, Val(0))} :
                 a \in UNION {Short(l, F) : l \in {V, Inc("post", "+", X)}},
                 b \in {Assign(W, Val(1)), Comma(F, W), Inc("post", "+", Index(A, Val(1)))}}
DeepBodies == {Body(<<DeclAs("n", Num, e), Expr(Assign(Y, Var("n", Num)))>>) : e \in Deep}

\* structures, initialisers
N == Var("n", Num)
R1 == Var("r", Rec)
B == Var("b", Arr(Num))
Records == {RecS, Deref(P), Deref(Arrow(P, "next")), Cond(Y, RecS, RecT),
            StmtExpr(<<Expr(F)>>, RecT)}
RecordBodies ==
  {Body(<<Expr(Assign(l, r)), Ret(Member(RecT, "num"))>>) :
     l \in {RecT, Deref(P)}, r \in Records \ {Deref(Arrow(P, "next"))}}
  \cup {Body(<<DeclAs("r", Rec, r), Ret(Member(R1, "num"))>>) : r \in Records}
  \cup {Body(<<Expr(Assign(RecT, Assign(RecS, Deref(Arrow(P, "next")))))>>)}
\* below a dereference or an array ++ and = write to a copy of *e
Kept == {r \in Rights : ~(r.k \in {"inc", "assign"} /\ r.kids[1].k = "index")}
InitBodies ==
  {Body(<<DeclAs("r", Rec, InitList(<<P, l, InitList(<<r, Val(1)>>)>>)),
          Ret(Bin("+", Member(R1, "num"), Index(Member(R1, "arr"), Val(0))))>>) :
      l \in {V, F, Inc("post", "+", X), Deref(Q)}, r \in Kept}
  \cup {Body(<<DeclAs("b", Arr(Num), InitList(<<l, r>>)), Ret(Bin("-", Index(B, X), Index(B, Val(1))))>>) :
      l \in {Index(A, X), Cond(X, V, F), Assign(X, Val(1))}, r \in Kept}
Lists == {<<DeclAs("c", Arr(Arr(Num)), InitList(<<InitList(<<X, Y>>), InitList(<<F, V>>)>>)),
            Ret(Index(Index(Var("c", Arr(Arr(Num))), X), Val(1)))>>,
          <<DeclAs("c", Arr(Rec), InitList(<<RecT, InitList(<<P, F, InitList(<<Y, W>>)>>)>>)),
            Ret(Member(Index(Var("c", Arr(Rec)), Val(1)), "num"))>>}

\* statement expressions and conditions
Inner(e) == StmtExpr(<<DeclAs("n", Num, e), Expr(Inc("pre", "+", N))>>, N)
Blocks == {Inner(e) : e \in Lefts}
          \cup {StmtExpr(<<Expr(Inner(F)), Expr(Assign(X, Inner(W)))>>, l) : l \in {X, V}}
          \cup {StmtExpr(<<>>, S("land", <<>>, <<X, Inner(F)>>))}
BlockBodies == {Body(<<Ret(Bin("+", b, r))>>) : b \in Blocks, r \in {Y, F, Inc("post", "-", Y)}}
               \cup {Body(<<Expr(b), Ret(X)>>) : b \in Blocks}
Branch(c) == If(c, <<Expr(Inc("post", "+", Y))>>,
                   <<If(Not(c), <<Ret(F)>>, <<Expr(Assign(W, X))>>)>>)
IfBodies == {Body(<<Branch(c), Ret(Y)>>) :
               c \in {X, Not(X), Not(Not(Bin("<", X, Y))), F, Inc("post", "-", X), Assign(X, V),
                      Not(V), Bin("<", X, W), S("land", <<>>, <<X, V>>)}}
NotBodies == {Body(<<Ret(Not(Not(Not(e))))>>) : e \in {X, F, S("lor", <<>>, <<X, V>>)}}
             \cup {Body(<<Ret(Not(Not(e)))>>) :
                    e \in UNION {Logic(l, r) : l \in {X, V, F, Inc("post", "+", X)}, r \in {Y, W, Call("h", <<Y>>)}}}

AllBodies == Values \cup Pointers \cup Statements \cup DeepBodies \cup RecordBodies \cup InitBodies
             \cup {Body(l) : l \in Lists} \cup BlockBodies \cup IfBodies \cup NotBodies
             \cup {Body(<<Ret(Member(Assign(RecS, RecT), "num"))>>)}
=============================================================================
