--------------------------- MODULE IntegerHelpers ---------------------------
(***************************************************************************)
(* The helper functions pass_integer_conversion puts at the top of a file  *)
(* (signed_i64_helpers, signed_i32_helpers): conversions, comparisons and  *)
(* signed division of integers of every width, on words.  Pancake ignores  *)
(* the C types of their parameters.                                        *)
(***************************************************************************)
EXTENDS Words

\* the law of powers, which doubling gives
ASSUME PowerSumAssumption ==
  \A m \in 0..WordBits : \A n \in 0..(WordBits - m) : Pow[m + n] = Pow[m] * Pow[n]

\* a type is [signed |-> .., bits |-> ..]
Least(t)    == IF t.signed THEN -Pow[t.bits - 1] ELSE 0
Greatest(t) == IF t.signed THEN Pow[t.bits - 1] - 1 ELSE Pow[t.bits] - 1
ValuesOf(t) == Least(t)..Greatest(t)

XorBit(x, n) == IF Bit(x, n) = 1 THEN x - Pow[n] ELSE x + Pow[n]

\* __c2pnk_i8_to_u64 and its like
MutSignExtend(y, bits) == y
SignExtend(y, bits) == Wrap(XorBit(y, bits - 1) - Pow[bits - 1])

\* __c2pnk_trunc_u64_to_i8 and its like
Trunc(t, x) ==
  LET low == x % Pow[t.bits]
  IN  IF t.bits = WordBits THEN x
      ELSE IF t.signed THEN SignExtend(low, t.bits) ELSE low

Negative(a) == Bit(a, WordBits - 1) = 1

\* __c2pnk_i64_lt, _lte, _gt, _gte
Lt(a, b)  == IF Negative(a) # Negative(b) THEN Negative(a) ELSE a < b
Lte(a, b) == IF Negative(a) # Negative(b) THEN Negative(a) ELSE a <= b
Gt(a, b)  == IF Negative(a) # Negative(b) THEN Negative(b) ELSE a > b
Gte(a, b) == IF Negative(a) # Negative(b) THEN Negative(b) ELSE a >= b

\* __c2pnk_u64_div and _rem: what the loop computes, by DividesCorrectly
UDiv(a, b) == IF b = 0 THEN 0 ELSE a \div b
URem(a, b) == IF b = 0 THEN 0 ELSE a % b

IntMin(bits) == Wrap(-Pow[bits - 1])
MinusOne     == Modulus - 1
Abs(a)       == IF Negative(a) THEN Wrap(-a) ELSE a

\* __c2pnk_i64_div and _rem
WithSign(negative, w) == IF negative THEN Wrap(-w) ELSE w
MutQuotientSign(a, b) == Negative(a)       \* mutant of QuotientSign: that of %
QuotientSign(a, b) == Negative(a) # Negative(b)
IDiv(a, b, bits) ==
  IF b = 0 THEN 0
  ELSE IF a = IntMin(bits) /\ b = MinusOne THEN IntMin(bits)
  ELSE WithSign(QuotientSign(a, b), UDiv(Abs(a), Abs(b)))
IRem(a, b, bits) ==
  IF b = 0 \/ (a = IntMin(bits) /\ b = MinusOne) THEN 0
  ELSE WithSign(Negative(a), URem(Abs(a), Abs(b)))
=============================================================================
