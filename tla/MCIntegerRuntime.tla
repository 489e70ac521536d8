-------------------------- MODULE MCIntegerRuntime --------------------------
(***************************************************************************)
(* IntegerRuntime for TLC: a word of six bits, int of four, char of two,   *)
(* every value.                                                            *)
(***************************************************************************)
EXTENDS IntegerRuntime, Bitwise

Powers == [n \in 0..WordBits |-> 2^n]
Ands == [a \in Word |-> [b \in Word |-> a & b]]
Ors  == [a \in Word |-> [b \in Word |-> a | b]]
Xors == [a \in Word |-> [b \in Word |-> a ^^ b]]
Type(signed, bits) == [signed |-> signed, bits |-> bits]
CharBits == 2
IntBits == 4
TheInt == Type(TRUE, IntBits)
\* char is never an operand; unsigned int is the type that goes wrong
SoundTypes == {TheInt} \cup {Type(s, n) : s \in BOOLEAN, n \in {CharBits, WordBits}}
AllTypes   == SoundTypes \cup {Type(FALSE, IntBits)}
=============================================================================
