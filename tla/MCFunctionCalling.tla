------------------------- MODULE MCFunctionCalling -------------------------
(***************************************************************************)
(* Instances of FunctionCalling for TLC: files of three functions, of      *)
(* which the later ones call the earlier ones and external functions, with *)
(* every well-typed nesting of two calls.                                  *)
(***************************************************************************)
EXTENDS CallRuns, TLC

\* A body, or a part of one, is a function from paths to nodes.
Tree(k, of, kids) ==
  [p \in {<<>>} \cup UNION {{<<i>> \o q : q \in DOMAIN kids[i]} : i \in DOMAIN kids} |->
     IF p = <<>> THEN [k |-> k, of |-> of, n |-> Len(kids)] ELSE kids[p[1]][Tail(p)]]
Const(ty)     == Tree(IF IsAgg(ty) THEN "struct" ELSE "int", "", <<>>)
Par(i)        == Tree("par", i, <<>>)
Call(f, args) == Tree("call", f, args)
Stmt(e)       == Tree("stmt", "", <<e>>)
Return(e)     == Tree("return", "", <<e>>)
ReturnVoid    == Tree("return", "", <<>>)
Body(ss)      == Tree("body", "", ss)
Def(f, body)  == [fun |-> f, body |-> body]
File(defs) ==
  [stubs |-> <<>>, funs |-> [j \in DOMAIN defs |-> defs[j].fun],
   nodes |-> [s \in UNION {{<<j, p>> : p \in DOMAIN defs[j].body} : j \in DOMAIN defs} |->
                defs[s[1]].body[s[2]]]]

Sig(params, ret) == [params |-> params, ret |-> ret, variadic |-> FALSE]
X == Sig(<<"word">>, "word")
Y == Sig(<<"agg", "word">>, "word")
Z == [X EXCEPT !.variadic = TRUE]
TheExternals == [x |-> X, y |-> Y, z |-> Z]

\* the pairs, or tuples of one, whose i-th member is in of[tys[i]]
Tuples(tys, of) ==
  IF Len(tys) = 1 THEN {<<a>> : a \in of[tys[1]]}
  ELSE {<<a, b>> : a \in of[tys[1]], b \in of[tys[2]]}

\* The expressions of type ty with at most depth calls around each other, of
\* the functions with the signatures sigs.
RECURSIVE Exprs(_, _, _, _)
Exprs(params, ty, sigs, depth) ==
  {Par(i) : i \in {j \in DOMAIN params : params[j] = ty}}
  \cup (IF IsAgg(ty) THEN {Const(ty)} ELSE {})
  \cup (IF depth = 0 THEN {}
        ELSE LET inner == [t \in {"agg", "word"} |-> Exprs(params, t, sigs, depth - 1)]
             IN  UNION {{Call(n, args) : args \in Tuples(sigs[n].params, inner)} :
                          n \in {m \in DOMAIN sigs : sigs[m].ret = ty}})
\* one statement that calls and the return
Bodies(params, ret, sigs, depth) ==
  IF ret = "void"
  THEN {Body(<<Stmt(e)>> \o end) :
          e \in Exprs(params, "void", sigs, depth) \cup Exprs(params, "word", sigs, depth),
          end \in {<<>>, <<ReturnVoid>>}}
  ELSE {Body(<<Return(e)>>) : e \in Exprs(params, ret, sigs, depth)}
Funs(name, sig, sigs, depth) ==
  {Def(Fun(name, sig.params, sig.ret), b) : b \in Bodies(sig.params, sig.ret, sigs, depth)}

AsEntry(f) == [f EXCEPT !.entry = TRUE]
Declared(f) == [f EXCEPT !.proto = "old"]
Files(g, f, m, depth) ==
  LET low  == [x |-> X, y |-> Y]
      self == low @@ [g |-> g] @@ [f |-> f]
  IN  {File(<<a, b, c>>) : a \in Funs("g", g, low, 1), b \in Funs("f", f, self, 1),
                           c \in Funs("m", m, self, depth)}

Struct  == Sig(<<"agg">>, "agg")
Mixed   == Sig(<<"agg", "word">>, "word")
Both    == Sig(<<"agg", "word">>, "agg")
Effect  == Sig(<<"word">>, "void")
Word    == Sig(<<"word">>, "word")
Shallow == UNION {Files(Mixed, Both, m, 1) : m \in {Word, Effect}} \cup Files(Struct, Effect, Effect, 1)
Deep    == Files(Struct, Both, Both, 2) \cup Files(Mixed, Both, Word, 2) \cup Files(Mixed, Effect, Word, 2)

\* the last function an entry point or not, the middle one declared above
Variant(t, entry, declared) ==
  [t EXCEPT !.funs[3] = IF entry THEN AsEntry(@) ELSE @,
            !.funs[2] = IF declared THEN Declared(@) ELSE @]
Checked(ts, o) ==
  {t \in {Variant(u, entry, declared) :
            u \in {v \in ts : NonReentrant(v)}, entry \in BOOLEAN, declared \in BOOLEAN} :
     Supported(t, o)}

\* files with an error of another kind than recursion, and one with external
\* calls only
M(params, ret, e) == Def(Fun("m", params, ret), Body(<<Return(e)>>))
Odd == {File(<<M(<<"word">>, "word", Call("z", <<Par(1)>>))>>),
        File(<<[M(<<"agg">>, "agg", Par(1)) EXCEPT !.fun.entry = TRUE]>>),
        File(<<[M(<<"word">>, "word", Par(1)) EXCEPT !.fun.variadic = TRUE]>>),
        File(<<M(<<"word">>, "word", Call("x", <<Call("y", <<Const("agg"), Par(1)>>)>>))>>)}

Start(t, n, o) == [source |-> t, budget |-> n, option |-> o]
CheckedStarts ==
  {Start(t, 6, FALSE) : t \in Checked(Deep, FALSE)}
  \cup {Start(t, n, FALSE) : t \in Checked(Shallow, FALSE), n \in {1, 2}}
  \cup {Start(t, 6, TRUE) : t \in Checked(Shallow, TRUE)}
  \cup {Start(t, 6, FALSE) : t \in Odd}
=============================================================================
