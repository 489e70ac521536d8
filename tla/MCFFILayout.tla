---------------------------- MODULE MCFFILayout ----------------------------
(***************************************************************************)
(* Instances of FFILayout for TLC: the prototypes of external functions a  *)
(* run considers.                                                          *)
(***************************************************************************)
EXTENDS FFILayout

Scalar(n)    == [scalar |-> TRUE, size |-> n, align |-> n]
Struct(n, a) == [scalar |-> FALSE, size |-> n, align |-> a]

Prototypes(types, most) ==
  [void : BOOLEAN, params : UNION {[1..n -> types] : n \in 0..most}]

\* scalars of one byte and of a word, an odd structure and two aligned ones;
\* five parameters are one more than there are slots
WordTypes     == {Scalar(1), Scalar(8), Struct(3, 1), Struct(6, 2), Struct(16, 8)}
WordFunctions == Prototypes(WordTypes, 5)
=============================================================================
