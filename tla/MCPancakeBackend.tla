---------------------------- MODULE MCPancakeBackend ----------------------------
(***************************************************************************)
(* Files for PancakeBackend, in the form pass_lower_nested_expressions     *)
(* leaves: effects are statements, what is read below & and in conditions  *)
(* needs no statement of its own.                                          *)
(***************************************************************************)
EXTENDS PancakeRuns

Char == <<"char">>
\* struct { int num; char tag; }
Sizes64  == [k \in {"char", "int", "ptr", "rec"} |->
               CASE k = "char" -> 1 [] k = "int" -> 4 [] OTHER -> 8]
Aligns64 == [Sizes64 EXCEPT !["rec"] = 4]
Members  == <<[f |-> "num", type |-> Num,  at |-> 0], [f |-> "tag", type |-> Char, at |-> 4]>>
Cells    == 96

D(n, ty) == [name |-> n, type |-> ty]
\* in two orders, with a variable declared again below the function
AtTopLevel == <<D("c", Char), D("g", Num), D("d", Char), D("x", Num), D("q", Ptr(Num)),
               D("a", Arr(Num)), D("e", Char), D("s", Rec), D("v", Vol(Num))>>
Orders == {[before |-> AtTopLevel, after |-> <<>>],
           [before |-> Reverse(AtTopLevel), after |-> <<D("c", Char), D("x", Num)>>]}
Arguments == <<D("i", Num), D("r", Ptr(Num)), D("rp", Ptr(Rec)), D("w", Ptr(Vol(Num))), D("rv", Ptr(Vol(Rec)))>>

To(n, k) == [to |-> n, num |-> k]
K(k) == To("", k)
Held(c, x, i, r) ==
  [mem |-> <<"c", 0>> :> K(c) @@ <<"x", 0>> :> K(x) @@ <<"q", 0>> :> To("a", 0)
           @@ <<"a", 0>> :> K(4) @@ <<"a", 4>> :> K(5) @@ <<"s", 0>> :> K(6) @@ <<"s", 4>> :> K(3)
           @@ <<"d", 0>> :> K(2) @@ <<"e", 0>> :> K(1) @@ <<"v", 0>> :> K(8),
   args |-> <<K(i), To("a", 4 * r), To("s", 0), To("v", 0), To("s", 0)>>]
Calls2 == {Held(0, 1, 1, 0), Held(1, 0, 0, 1)}

FileOf(o, ps, ss, hs) ==
  [before |-> o.before, after |-> o.after, params |-> ps, body |-> Braces(ss), holds |-> hs]
Files(bodies) == {FileOf(o, Arguments, ss, Calls2) : o \in Orders, ss \in bodies}

X == Var("x", Num)
C == Var("c", Char)
Q == Var("q", Ptr(Num))
A == Var("a", Arr(Num))
RecS == Var("s", Rec)
V == Var("v", Vol(Num))
I == Var("i", Num)
R == Var("r", Ptr(Num))
RP == Var("rp", Ptr(Rec))
W == Var("w", Ptr(Vol(Num)))
RV == Var("rv", Ptr(Vol(Rec)))
N == Var("n", Num)

\* read without a statement of its own, and with one
Inline == {Val(2), X, C, I, Member(RecS, "tag"), Member(Deref(RP), "num"), AddrOf(X),
           AddrOf(Member(RecS, "num")), AddrOf(Deref(R)), A, Bin("+", R, I), Bin("+", A, Val(1)),
           Bin("diff", R, A)}
Numbers == {e \in Inline : ~Pointer(e)}
Loads == {Deref(R), Deref(W), Deref(A), Deref(Bin("+", A, I)), Deref(Bin("+", Q, Val(1))),
          Deref(Bin("offset", I, R)), Deref(Bin("-", Bin("+", R, Val(1)), I)), Member(Deref(RV), "num"), Member(Deref(RV), "tag")}
Small == {X, I, Deref(R), Deref(Bin("+", A, I)), Member(RecS, "num")}
Computing == {Bin(op, l, r) : op \in {"+", "-", "<", "!="}, l \in Small \cup {Deref(W)}, r \in Small}
             \cup {Una(op, e) : op \in {"+", "-", "~", "!"}, e \in Small}
             \cup {S(k, <<>>, <<X, e>>) : k \in {"land", "lor"}, e \in {I, C}}
Called2 == {Call("h", <<l, r>>) : l \in Small, r \in {I, Deref(W), Deref(A)}} \cup {Call("f", <<>>)}
Readable == Numbers \cup Loads \cup Computing

Places == {X, C, Deref(A), Deref(R), Deref(Bin("+", A, I)), Deref(Bin("-", R, I)),
           Member(Deref(RP), "num"), Member(Deref(RV), "num"), V, Deref(W)}
Stores == {<<Expr(Assign(l, r))>> : l \in Places, r \in Numbers \cup Loads \cup {Una("-", Deref(R))}}
Locals == {<<DeclAs("n", Num, e), Expr(Assign(X, N)), Expr(Assign(N, I)), Ret(N)>> :
             e \in Readable \cup Called2}
Returns == {<<Ret(e)>> : e \in Inline \cup Called2}
           \cup {<<Expr(e), Expr(Assign(Deref(R), Val(3)))>> : e \in Called2}
Pointers == {<<DeclAs("lp", Ptr(Num), e), Expr(Assign(Deref(Var("lp", Ptr(Num))), Val(2))),
               Expr(Assign(Q, Var("lp", Ptr(Num)))), Ret(X)>> :
               e \in {AddrOf(X), A, AddrOf(Deref(R)), Bin("+", A, I)}}
Branches == {<<Decl("n", Num), If(c, <<Expr(Assign(N, X)), Braces(<<Expr(Assign(X, Val(3)))>>)>>,
                                     <<If(Not(C), <<Ret(I)>>, <<Expr(Call("f", <<I>>)), Expr(Assign(N, C))>>)>>),
               Ret(N)>> : c \in {X, I, Bin("<", I, X), Not(X), Member(RecS, "tag")}}

\* what is hoisted
B == Var("b", Arr(Num))
LR == Var("lr", Rec)
LP == Var("lp", Ptr(Num))
Hoisted ==
  {<<DeclAs("n", Num, e), DeclAs("lp", Ptr(Num), AddrOf(N)),
     Expr(Assign(Deref(LP), Bin("+", N, Val(1)))), Ret(N)>> : e \in {I, X, Deref(R)}}
  \cup {<<Decl("b", Arr(Num)), Expr(Assign(Deref(B), e)), Expr(Assign(Deref(Bin("+", B, Val(1))), I)),
          Expr(Assign(Deref(R), Val(0))), Ret(Deref(Bin("+", B, I)))>> : e \in {X, Deref(R)}}
  \cup {<<Decl("lr", Rec), Expr(Assign(Member(Deref(AddrOf(LR)), "num"), e)),
          DeclAs("n", Num, Member(LR, "num")), If(X, <<Decl("b", Arr(Num)),
             Expr(Assign(Deref(B), N)), Ret(Deref(B))>>, <<>>), Ret(N)>> : e \in {I, Deref(A)}}

\* loops that count a variable down: left by their test, by break or by return,
\* the rest of a round skipped by continue, one in another, and a local of the
\* body that is hoisted
Down(l) == Expr(Assign(l, Bin("-", l, Val(1))))
Loops ==
  {<<DeclAs("n", Num, Bin("+", I, Val(1))), While(c, <<Down(N)>> \o ss), Ret(N)>> :
     c  \in {N, Bin("<", Val(0), N)},
     ss \in {<<Expr(Call("f", <<>>))>>,
             <<If(X, <<Jump("continue")>>, <<>>), Expr(Call("h", <<N>>))>>,
             <<If(Bin("<", N, X), <<Ret(I)>>, <<Expr(Assign(X, N))>>)>>}}
  \cup {<<DeclAs("n", Num, Val(2)),
          While(Val(1), <<If(Not(N), <<Jump("break")>>, <<>>), Down(N),
                          While(X, <<Down(X), If(C, <<Jump("break")>>, <<>>)>>)>> \o ss),
          Ret(N)>> :
          ss \in {<<Expr(Assign(Deref(W), N))>>,
                  <<DeclAs("m", Num, N), DeclAs("lp", Ptr(Num), AddrOf(Var("m", Num))),
                    Expr(Assign(Deref(R), Deref(LP))), Expr(Assign(Deref(LP), Val(7)))>>}}

\* what the passes report
Reported ==
  {<<S("decl", <<"n", Num, "static">>, <<>>), Ret(Val(0))>>,
   <<Decl("b", Arr(Ptr(Num))), Ret(Val(0))>>,
   <<Expr(Assign(X, Val(1))), Expr(Deref(W))>>}
  \cup {<<Expr(Assign(X, e))>> : e \in {Bin("/", X, I), Bin("%", X, I), Bin("+", R, A)}}

AllUnits == Files(Stores \cup Locals \cup Returns \cup Pointers \cup Branches \cup Hoisted \cup Loops
                  \cup Reported)

\* a global pointer is followed
FollowedUnits == Files({<<DeclAs("n", Num, Deref(Q)), Ret(N)>>})

FileVariables ==
  Range(AtTopLevel) \cup {D(LocalName(d.name), d.type) :
          d \in {D("n", Num), D("m", Num), D("b", Arr(Num)), D("lr", Rec), D("b", Arr(Ptr(Num)))}}
AllDeclarations ==
  {[name |-> d.name, size |-> SizeOf(d.type), align |-> AlignOf(d.type)] : d \in FileVariables}
=============================================================================
