------------------------------- MODULE Trees -------------------------------
(***************************************************************************)
(* Syntax trees, the way the passes see what clang parsed: a node is       *)
(* [k, x, kids], its kind, what it names and its children, and is itself   *)
(* named by the path of child indices that leads to it.  Replacing text is *)
(* replacing nodes.                                                        *)
(***************************************************************************)
EXTENDS Integers, Sequences, SequencesExt, FiniteSets, TLC

S(k, x, kids) == [k |-> k, x |-> x, kids |-> kids]

RECURSIVE Paths(_)
Paths(s) ==
  {<<>>} \cup UNION {{<<i>> \o p : p \in Paths(s.kids[i])} : i \in DOMAIN s.kids}

RECURSIVE At(_, _)
At(s, p) == IF p = <<>> THEN s ELSE At(s.kids[p[1]], Tail(p))

\* s with the node at each path p of DOMAIN new replaced by new[p]
RECURSIVE ReplaceFrom(_, _, _)
ReplaceFrom(s, p, new) ==
  IF p \in DOMAIN new THEN new[p]
  ELSE [s EXCEPT !.kids =
          [i \in DOMAIN s.kids |-> ReplaceFrom(s.kids[i], Append(p, i), new)]]
Edited(s, new) == ReplaceFrom(s, <<>>, new)

Inside(p, q) == IsStrictPrefix(q, p)          \* the node at p is below that at q
Where(s, k)  == {p \in Paths(s) : At(s, p).k = k}

\* the order in which the nodes appear in the text
Earlier(p, q) ==
  \/ IsStrictPrefix(p, q)
  \/ \E i \in (DOMAIN p) \cap (DOMAIN q) :
       p[i] < q[i] /\ \A j \in 1..(i - 1) : p[j] = q[j]

\* the position of p in the post-order visit of the nodes M
VisitedBefore(M, p) ==
  Cardinality({q \in M : q # p /\ (Inside(q, p) \/ (Earlier(q, p) /\ ~Inside(p, q)))})

\* Of the nodes at the paths of M, those around, or within, no other of them.
Outermost(M) == {p \in M : \A q \in M : ~Inside(p, q)}
Innermost(M) == {p \in M : \A q \in M : ~Inside(q, p)}

\* The nearest node around p whose kind is one of ks, as the set of its path.
Enclosing(s, p, ks) ==
  {q \in Paths(s) :
     /\ Inside(p, q) /\ At(s, q).k \in ks
     /\ \A r \in Paths(s) : Inside(p, r) /\ Inside(r, q) => At(s, r).k \notin ks}
=============================================================================
