---------------------------- MODULE SwitchPasses ----------------------------
(***************************************************************************)
(* The three passes of Pass_SwitchToIf.cpp.  AddFallthrough marks adjacent *)
(* case labels, NormaliseSwitch rebuilds the body of a switch so that each *)
(* group of labels heads one block that ends in a terminating statement,   *)
(* and SwitchToIf turns such a switch into a chain of ifs on a temporary.  *)
(* Both visitors traverse in post-order: the inner switches are replaced   *)
(* first and the replacement of an outer one is refused as a conflict.     *)
(***************************************************************************)
EXTENDS MiniC

IsCase(s)   == s.k = "label" /\ s.x # <<"default">>
IsTerminatingStmt(s) == s.k \in {"brk", "ret", "cont"}
EndsTerminating(s) ==
  s.k = "block" /\ s.kids # <<>> /\ IsTerminatingStmt(Last(s.kids))

\* caseStmt(hasParent(caseStmt())): [[fallthrough]]; goes in front of it
RECURSIVE AddFallthrough(_)
AddFallthrough(s) ==
  LET kids == [i \in DOMAIN s.kids |-> AddFallthrough(s.kids[i])]
  IN  [s EXCEPT !.kids = IF IsCase(s) /\ IsCase(s.kids[1])
                         THEN <<Splice(<<Ft, kids[1]>>)>> ELSE kids]

\* VerifySwitchStmt: nothing to rebuild
VerifySwitch(body) ==
  \A i \in DOMAIN body.kids :
    /\ body.kids[i].k = "label"
    /\ \/ body.kids[i].kids[1] = Ft
       \/ EndsTerminating(body.kids[i].kids[1])

-----------------------------------------------------------------------------
(* RebuildSwitchStmt walks the statements of the body backwards.  infos    *)
(* are the CaseInfos so far, cur the current one (labels and body in       *)
(* reverse order), just whether a label was processed just before.         *)

NoInfo  == [labels |-> <<>>, body |-> <<>>]
WalkStart == [infos |-> <<>>, cur |-> NoInfo, just |-> FALSE]

LastBody(infos) == IF infos = <<>> THEN <<>> ELSE Last(infos).body
Headed(info, l, b) ==
  [labels |-> Append(info.labels, l), body |-> Append(info.body, b)]
WithBody(info, more) == [info EXCEPT !.body = @ \o more]

\* the label joins the group after it, whose body it falls through to
JoinsNext(w, l) ==
  IF l = "default"
  THEN [w EXCEPT !.cur.labels = Append(@, l), !.just = TRUE]
  ELSE [w EXCEPT !.infos = IF @ = <<>> THEN @
                           ELSE [@ EXCEPT ![Len(@)].labels = Append(@, l)],
                 !.just = TRUE]

\* what the block headed by a label starts from, given what follows it
MutInherited(w, sub) ==      \* mutant of Inherited: the body after it forgotten
  IF IsTerminatingStmt(sub) \/ EndsTerminating(sub) THEN NoInfo ELSE w.cur
Inherited(w, sub) ==
  LET terminates == IsTerminatingStmt(sub) \/ EndsTerminating(sub)
  IN  CASE terminates /\ w.just  -> w.cur
        [] terminates /\ ~w.just -> NoInfo
        [] ~terminates /\ w.just -> WithBody(w.cur, LastBody(w.infos))
        [] OTHER                 -> w.cur

WalkLabel(w, l, sub) ==
  IF sub = Ft THEN JoinsNext(w, l)
  ELSE [infos |-> Append(w.infos, Headed(Inherited(w, sub), l, sub)),
        cur |-> NoInfo, just |-> TRUE]

WalkOther(w, s) ==
  CASE w.just -> [w EXCEPT !.cur = WithBody(@, LastBody(w.infos) \o <<s>>),
                           !.just = FALSE]
    [] ~w.just /\ IsTerminatingStmt(s) ->
         [w EXCEPT !.infos = Append(@, w.cur), !.cur = WithBody(NoInfo, <<s>>)]
    [] OTHER -> [w EXCEPT !.cur = WithBody(@, <<s>>)]

WalkStep(s, w) ==
  IF s.k = "label" THEN WalkLabel(w, s.x[1], s.kids[1]) ELSE WalkOther(w, s)

\* the groups in source order
CaseInfos(body) ==
  LET w == FoldRight(WalkStep, body.kids, WalkStart)
  IN  Reverse(SelectSeq(Append(w.infos, w.cur), LAMBDA info : info.labels # <<>>))

UpToTerminating(ss) ==
  LET ends == {i \in DOMAIN ss : IsTerminatingStmt(ss[i])}
  IN  IF ends = {} THEN Append(ss, Brk)
      ELSE SubSeq(ss, 1, CHOOSE i \in ends : \A j \in ends : i <= j)

CaseBody(body) ==
  IF Len(body) = 1 /\ body[1].k = "block"
  THEN IF body[1].kids # <<>> /\ ~EndsTerminating(body[1])
       THEN Block(<<body[1], Brk>>) ELSE body[1]
  ELSE Block(UpToTerminating(Reverse(body)))

Emitted(info) ==
  LET n == Len(info.labels)
  IN  [i \in 1..n |->
         Label(info.labels[n + 1 - i],
               IF i < n \/ info.body = <<>> THEN Ft ELSE CaseBody(info.body))]

RebuiltSwitch(sw) ==
  LET infos == CaseInfos(sw.kids[1])
  IN  Switch(sw.x, Block(FlattenSeq([i \in DOMAIN infos |-> Emitted(infos[i])])))

NormaliseSwitch(s) ==
  [p \in Innermost({q \in Where(s, "switch") : ~VerifySwitch(At(s, q).kids[1])}) |->
     RebuiltSwitch(At(s, p))]

-----------------------------------------------------------------------------
(* ConvertSwitchStmt groups the labels again, backwards, and ignores what  *)
(* is not labelled.                                                        *)

GroupStep(s, infos) ==
  CASE s.k # "label"      -> infos
    [] s.kids[1] # Ft     -> Append(infos, Headed(NoInfo, s.x[1], s.kids[1]))
    [] infos = <<>>       -> infos
    [] OTHER -> [infos EXCEPT ![Len(infos)].labels = Append(@, s.x[1])]
Groups(body) == Reverse(FoldRight(GroupStep, body.kids, <<>>))

HasDefault(info) == \E i \in DOMAIN info.labels : info.labels[i] = "default"

\* The groups the chain is made of: it ends at the first one with a default.
Kept(infos) ==
  LET ends == {i \in DOMAIN infos : HasDefault(infos[i])}
  IN  IF ends = {} THEN infos
      ELSE SubSeq(infos, 1, CHOOSE i \in ends : \A j \in ends : i <= j)

\* BuildIfBody: the block without its last break
IfBody(block) ==
  IF block.kids # <<>> /\ Last(block.kids) = Brk
  THEN [block EXCEPT !.kids = Front(@)] ELSE block

\* if .. else if .. else, built from the last group backwards
Chain(t, infos) ==
  FoldRight(LAMBDA info, rest :
              IF HasDefault(info) THEN <<IfBody(info.body[1])>>
              ELSE <<If(In(t, Reverse(info.labels)), <<IfBody(info.body[1])>> \o rest)>>,
            infos, <<>>)

Convertible(sw) ==
  \A i \in DOMAIN Kept(Groups(sw.kids[1])) :
    Kept(Groups(sw.kids[1]))[i].body[1].k = "block"

IfsOfSwitch(sw, t) ==
  Splice(<<Set(t, sw.x)>> \o Chain(t, Kept(Groups(sw.kids[1]))))

MutSwitchNodes(s) ==         \* mutant of SwitchNodes: only those with a default
  {p \in Where(s, "switch") :
     \E i \in DOMAIN At(s, p).kids[1].kids :
       At(s, p).kids[1].kids[i].x = <<"default">>}
SwitchNodes(s) == {p \in Where(s, "switch") : At(s, p).kids[1].k = "block"}

\* __c2pnk_switch_cond_tmp_var_<pass>_<attempt>_<index of the visit>
SwitchToIf(s, stem) ==
  LET M == SwitchNodes(s)
  IN  [p \in Innermost(M) |-> IfsOfSwitch(At(s, p), TempName(stem, VisitedBefore(M, p)))]
SwitchError(s) == \E p \in SwitchNodes(s) : ~Convertible(At(s, p))
=============================================================================
