-------------------------------- MODULE MiniC --------------------------------
(***************************************************************************)
(* The part of C the control-flow passes see: statements as trees, where   *)
(* their nodes are, and what executing one does.  The program passes edit  *)
(* C text that clang parses, so this language is external to the code; the *)
(* passes themselves are in LoopPasses, SwitchPasses and IfPass.           *)
(*                                                                         *)
(* A statement is [k, x, kids].  Its kind k is one of                      *)
(*   "act"    an expression statement with an effect, x = <<its name>>     *)
(*   "dcl"    a declaration whose initialiser has one, x = <<its name>>    *)
(*   "brk" "cont" "ret" "null"                                             *)
(*   "ft"     the statement [[fallthrough]];                               *)
(*   "block"  a compound statement                                         *)
(*   "if"     x the condition, kids = <<then>> or <<then, else>>           *)
(*   "while" "do"  x the condition, kids = <<body>>                        *)
(*   "for"    x the condition, kids = <<init, inc, body>>, "null" if absent *)
(*   "switch" x the condition, kids = <<body>>                             *)
(*   "label"  x = <<value>> or <<"default">>, kids = <<statement>>         *)
(*   "set"    declares the temporary x[1] with the condition Tail(x)       *)
(*   "splice" the statements a replacement put where one stood             *)
(*   "broken" text that does not parse                                     *)
(* A condition is a sequence of words: <<"expr", c>> and <<"var", v>> ask  *)
(* the environment for a value, <<"tmp", t>> reads a temporary,            *)
(* <<"in", t, v1, v2...>> tests it against labels, <<"lit">> is 1UL,       *)
(* <<"none">> is absent and <<"not">> \o c negates c.                      *)
(***************************************************************************)
EXTENDS Trees

Null       == S("null", <<>>, <<>>)
Brk        == S("brk", <<>>, <<>>)
Cont       == S("cont", <<>>, <<>>)
Ret        == S("ret", <<>>, <<>>)
Ft         == S("ft", <<>>, <<>>)
Broken     == S("broken", <<>>, <<>>)
Act(n)     == S("act", <<n>>, <<>>)
Decl(n)    == S("dcl", <<n>>, <<>>)
Block(ss)  == S("block", <<>>, ss)
Splice(ss) == S("splice", <<>>, ss)
If(c, ss)  == S("if", c, ss)
While(c, b) == S("while", c, <<b>>)
Do(b, c)   == S("do", c, <<b>>)
For(i, c, n, b) == S("for", c, <<i, n, b>>)
Switch(c, b)    == S("switch", c, <<b>>)
Label(l, s)     == S("label", <<l>>, <<s>>)
Set(t, c)       == S("set", <<t>> \o c, <<>>)

Lit      == <<"lit">>
NoCond   == <<"none">>
Not(c)   == <<"not">> \o c
Expr(c)  == <<"expr", c>>
Var(v)   == <<"var", v>>
Tmp(t)   == <<"tmp", t>>
In(t, vs) == <<"in", t>> \o vs

-----------------------------------------------------------------------------
\* the temporary with number i of an attempt
TempName(stem, i) == ToString(Append(stem, i))

LoopKinds == {"while", "do", "for"}

\* Parsing what the replacements left: several statements where one stood are
\* part of the surrounding block, or follow the label they stand under; as the
\* branch of an if or the body of a loop they do not parse (they start with a
\* declaration).
RECURSIVE Reparse(_)
Spliced(s) ==
  CASE s.k = "splice" -> s.kids
    [] s.k = "label" /\ s.kids[1].k = "splice" ->
         <<[s EXCEPT !.kids = <<Head(s.kids[1].kids)>>]>> \o Tail(s.kids[1].kids)
    [] OTHER -> <<s>>
Reparse(s) ==
  LET kids == [i \in DOMAIN s.kids |-> Reparse(s.kids[i])]
  IN  IF s.k \in {"block", "splice"}
      THEN [s EXCEPT !.kids = FlattenSeq([i \in DOMAIN kids |-> Spliced(kids[i])])]
      ELSE [s EXCEPT !.kids =
              [i \in DOMAIN kids |-> IF kids[i].k = "splice" /\ s.k # "label"
                                     THEN Broken ELSE kids[i]]]

\* What clang accepts: break, continue and labels where they may stand.
Compiles(s) ==
  /\ Where(s, "broken") = {}
  /\ \A p \in Where(s, "brk")   : Enclosing(s, p, LoopKinds \cup {"switch"}) # {}
  /\ \A p \in Where(s, "cont")  : Enclosing(s, p, LoopKinds) # {}
  /\ \A p \in Where(s, "label") : Enclosing(s, p, {"switch"}) # {}

-----------------------------------------------------------------------------
(* Execution.  The environment answers each evaluation of a condition with *)
(* the next value of in; st is how the statement ended: "run" normally,    *)
(* "brk", "cont", "ret", or "cut" when the answers or the fuel run out.    *)

Start(in, fuel) ==
  [in |-> in, tr |-> <<>>, st |-> "run", val |-> "0", tmp |-> <<>>, fuel |-> fuel]

Bool(b) == IF b THEN "1" ELSE "0"
True(e) == e.val # "0"

RECURSIVE Eval(_, _)
Eval(c, e) ==
  CASE c[1] \in {"lit", "none"} -> [e EXCEPT !.val = "1"]
    [] c[1] = "tmp" -> [e EXCEPT !.val = e.tmp[c[2]]]
    [] c[1] = "in"  -> [e EXCEPT !.val =
                          Bool(\E i \in 3..Len(c) : c[i] = e.tmp[c[2]])]
    [] c[1] = "not" -> LET r == Eval(Tail(c), e)
                       IN  [r EXCEPT !.val = Bool(~True(r))]
    [] OTHER -> IF e.in = <<>> THEN [e EXCEPT !.st = "cut"]
                ELSE [e EXCEPT !.tr = Append(@, c[2]), !.in = Tail(@),
                               !.val = Head(e.in)]

\* the body of a switch as one list, the labels in it entered directly
RECURSIVE Unblocked(_)
Unblocked(s) ==
  CASE s.k \in {"block", "splice"} ->
         FlattenSeq([i \in DOMAIN s.kids |-> Unblocked(s.kids[i])])
    [] s.k = "label" -> <<[s EXCEPT !.kids = <<>>]>> \o Unblocked(s.kids[1])
    [] OTHER -> <<s>>

LabelAt(ss, l) == {i \in DOMAIN ss : ss[i].k = "label" /\ ss[i].x = <<l>>}
EntryOf(ss, v) ==
  LET hits == IF LabelAt(ss, v) # {} THEN LabelAt(ss, v) ELSE LabelAt(ss, "default")
  IN  IF hits = {} THEN Len(ss) + 1 ELSE CHOOSE i \in hits : \A j \in hits : i <= j

\* Only a "run" state executes; a loop turn costs fuel.
RECURSIVE Exec(_, _), ExecSeq(_, _), Turn(_, _)
ExecSeq(ss, e) == IF ss = <<>> THEN e ELSE ExecSeq(Tail(ss), Exec(Head(ss), e))

\* one turn of a loop from the test of its condition on
Turn(s, e) ==
  LET body == s.kids[Len(s.kids)]
      inc  == IF s.k = "for" THEN s.kids[2] ELSE Null
      t    == Eval(s.x, e)
      b    == Exec(body, t)
      next == Exec(inc, [b EXCEPT !.st = "run", !.fuel = @ - 1])
  IN  CASE e.fuel = 0              -> [e EXCEPT !.st = "cut"]
        [] e.fuel > 0 /\ (t.st = "cut" \/ ~True(t)) -> t
        [] OTHER -> CASE b.st = "brk"            -> [b EXCEPT !.st = "run"]
                      [] b.st \in {"ret", "cut"} -> b
                      [] OTHER                   -> Turn(s, next)

Exec(s, e) ==
  IF e.st # "run" THEN e ELSE
  CASE s.k \in {"act", "dcl"} -> [e EXCEPT !.tr = Append(@, s.x[1])]
    [] s.k \in {"brk", "cont", "ret"} -> [e EXCEPT !.st = s.k]
    [] s.k \in {"block", "splice"} -> ExecSeq(s.kids, e)
    [] s.k = "label" -> ExecSeq(s.kids, e)
    [] s.k = "set"   -> LET r == Eval(Tail(s.x), e)
                        IN  [r EXCEPT !.tmp = (s.x[1] :> r.val) @@ @]
    [] s.k = "if"    -> LET r == Eval(s.x, e)
                        IN  IF True(r) THEN Exec(s.kids[1], r)
                            ELSE IF Len(s.kids) = 2 THEN Exec(s.kids[2], r) ELSE r
    [] s.k = "while" -> Turn(s, e)
    [] s.k = "for"   -> Turn(s, Exec(s.kids[1], e))
    [] s.k = "do"    -> LET b == Exec(s.kids[1], e)
                        IN  CASE b.st = "brk" -> [b EXCEPT !.st = "run"]
                              [] b.st \in {"ret", "cut"} -> b
                              [] OTHER -> Turn(s, [b EXCEPT !.st = "run", !.fuel = @ - 1])
    [] s.k = "switch" ->
         LET r  == Eval(s.x, e)
             ss == Unblocked(s.kids[1])
             b  == ExecSeq(SubSeq(ss, EntryOf(ss, r.val), Len(ss)), r)
         IN  IF b.st = "brk" THEN [b EXCEPT !.st = "run"] ELSE b
    [] OTHER -> e

Behaviour(s, in, fuel) ==
  LET e == Exec(s, Start(in, fuel)) IN [tr |-> e.tr, st |-> e.st]

\* Two programs behave alike on an input: same effects and evaluations in the
\* same order and the same end, as far as the shorter of two cut runs goes.
Alike(a, b) ==
  \/ a = b
  \/ a.st = "cut" /\ IsPrefix(a.tr, b.tr)
  \/ b.st = "cut" /\ IsPrefix(b.tr, a.tr)
SameBehaviour(s, t, inputs, fuel) ==
  s # t => \A in \in inputs : Alike(Behaviour(s, in, fuel), Behaviour(t, in, fuel))
=============================================================================
