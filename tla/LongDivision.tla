---------------------------- MODULE LongDivision ----------------------------
(***************************************************************************)
(* __c2pnk_u64_div and __c2pnk_u64_rem (Pass_IntegerConversion.cpp), the   *)
(* division Pancake lacks: one bit of the dividend an iteration, from the  *)
(* top, with an unsigned counter that ends the loop by wrapping around.    *)
(* The two helpers run the same loop; here it keeps both results.          *)
(***************************************************************************)
EXTENDS Words

VARIABLES
  dividend, divisor,      \* the arguments
  quotient, remainder,
  i,                      \* the bit to bring down next
  pc                      \* "loop", "done"

vars == <<dividend, divisor, quotient, remainder, i, pc>>

MutFirstIndex == WordBits - 2
FirstIndex    == WordBits - 1
EndIndex      == Modulus - 1       \* UINT64_MAX

Init ==
  /\ dividend \in Word /\ divisor \in Word
  /\ quotient = 0 /\ remainder = 0
  /\ i = FirstIndex /\ pc = "loop"

\* if (divisor == 0UL) return 0UL;
ZeroDivisor ==
  /\ pc = "loop" /\ divisor = 0
  /\ pc' = "done"
  /\ UNCHANGED <<dividend, divisor, quotient, remainder, i>>

\* (remainder << 1) | ((dividend >> i) & 1)
BroughtDown == Wrap(2 * remainder) + Bit(dividend, i)
MutFits == BroughtDown > divisor
Fits    == BroughtDown >= divisor
Reduced == IF Fits THEN BroughtDown - divisor ELSE BroughtDown
MutNextIndex == i
NextIndex == Wrap(i - 1)

Iterate ==
  /\ pc = "loop" /\ divisor # 0 /\ i # EndIndex
  /\ remainder' = Reduced
  /\ quotient' = IF Fits THEN SetBit(quotient, i) ELSE quotient
  /\ i' = NextIndex
  /\ UNCHANGED <<dividend, divisor, pc>>

Return ==
  /\ pc = "loop" /\ divisor # 0 /\ i = EndIndex
  /\ pc' = "done"
  /\ UNCHANGED <<dividend, divisor, quotient, remainder, i>>

Next == ZeroDivisor \/ Iterate \/ Return
Spec == Init /\ [][Next]_vars

-----------------------------------------------------------------------------
(* Properties.                                                             *)

\* the bits of the dividend still to be brought down
Left == IF i = EndIndex THEN 0 ELSE i + 1

TypeOK ==
  /\ dividend \in Word /\ divisor \in Word /\ quotient \in Nat /\ remainder \in Nat
  /\ i \in 0..(WordBits - 1) \cup {EndIndex}
  /\ pc \in {"loop", "done"}

\* What the bits brought down so far stand for: the part of the dividend above
\* the bits left is quotient times divisor plus remainder, the quotient ends
\* in as many zeros as bits are left, and the remainder is smaller than the
\* divisor.
Partial ==
  /\ dividend \div Pow[Left] = (quotient \div Pow[Left]) * divisor + remainder
  /\ quotient = (quotient \div Pow[Left]) * Pow[Left]
  /\ remainder < divisor

IInv ==
  /\ TypeOK
  /\ divisor # 0 => Partial
  /\ divisor = 0 => quotient = 0 /\ remainder = 0
  /\ pc = "done" /\ divisor # 0 => i = EndIndex

\* The shift of the remainder never pushes a bit out of the word, although the
\* divisor, and so the remainder, may be larger than half of what fits.
NoBitLost == pc = "loop" /\ i # EndIndex => 2 * remainder + 1 < Modulus

\* The helpers compute the quotient and the remainder of unsigned words, and
\* zero for the divisor zero.
Correct ==
  pc = "done" =>
    IF divisor = 0 THEN quotient = 0 /\ remainder = 0
    ELSE quotient = dividend \div divisor /\ remainder = dividend % divisor

\* The counter is unsigned and the loop still ends.
Termination == (pc = "loop") ~> (pc = "done")
=============================================================================
