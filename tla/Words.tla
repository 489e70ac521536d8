-------------------------------- MODULE Words --------------------------------
(***************************************************************************)
(* Machine words of the target as numbers, and the operations on them that *)
(* the helper functions of pass_integer_conversion are written with.  The  *)
(* powers of two are a parameter, so that facts about them are assumptions *)
(* a proof can use.                                                        *)
(***************************************************************************)
EXTENDS Integers

CONSTANTS
  WordBits,   \* 64 or 32
  Pow         \* Pow[n] is two to the n

ASSUME WordBitsAssumption == WordBits \in Nat /\ WordBits >= 2
ASSUME PowAssumption ==
  /\ Pow \in [0..WordBits -> Nat \ {0}]
  /\ Pow[0] = 1
  /\ \A n \in 0..(WordBits - 1) : Pow[n + 1] = 2 * Pow[n]
\* a bit number is a word, and none is the largest word
ASSUME IndexAssumption == WordBits < Pow[WordBits]

Modulus == Pow[WordBits]
Word    == 0..(Modulus - 1)
Wrap(x) == x % Modulus

Bit(x, n)    == (x \div Pow[n]) % 2
\* x | (1 << n)
SetBit(x, n) == IF Bit(x, n) = 1 THEN x ELSE x + Pow[n]
=============================================================================
