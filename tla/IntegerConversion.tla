-------------------------- MODULE IntegerConversion --------------------------
(***************************************************************************)
(* The code pass_integer_conversion emits for integer expressions (its     *)
(* BuildExpr), run on words: an operator of C on the left, what stands for *)
(* it on the right.  Every value is kept twice, as the integer C computes  *)
(* and as the word the emitted code computes.  By the time of the pass     *)
(* every conversion is a cast in the text; operands have one type.         *)
(***************************************************************************)
EXTENDS IntegerHelpers

CONSTANTS
  Types,         \* the integer types considered
  IntType,       \* int, the type of comparisons
  ShiftCounts,   \* the shift counts considered
  BitAnd, BitOr, BitXor   \* & | ^ of the machine, on two words

\* wider types are an error
VerifyTypeWidth(t) == t.bits \in 1..WordBits
ASSUME TypesAssumption ==
  /\ Types \subseteq [signed : BOOLEAN, bits : Nat]
  /\ \A t \in Types : VerifyTypeWidth(t)
  /\ IntType \in Types /\ IntType.signed /\ IntType.bits >= 2
ASSUME ShiftCountsAssumption == ShiftCounts \subseteq Nat

Ones(k) == Pow[k] - 1
\* f works bit by bit: what it gives above a bit comes from what the operands
\* have above it, and operands of k equal bits give k equal bits, by table.
BitByBit(f, table) ==
  /\ f \in [Word -> [Word -> Word]]
  /\ \A k \in 0..WordBits : \A a, b \in Word :
       f[a][b] \div Pow[k] = f[a \div Pow[k]][b \div Pow[k]]
  /\ \A k \in 0..WordBits : \A p, q \in {0, 1} :
       f[p * Ones(k)][q * Ones(k)] = table[p + q] * Ones(k)
ASSUME BitwiseAssumption ==
  /\ BitByBit(BitAnd, [n \in 0..2 |-> IF n = 2 THEN 1 ELSE 0])
  /\ BitByBit(BitOr,  [n \in 0..2 |-> IF n = 0 THEN 0 ELSE 1])
  /\ BitByBit(BitXor, [n \in 0..2 |-> n % 2])
\* without a common bit | is a sum
ASSUME OrAssumption ==
  \A k \in 0..WordBits : \A a \in 0..Ones(k) : \A b \in Word :
    b % Pow[k] = 0 => BitOr[a][b] = a + b

VARIABLES x, y    \* the operands: [type, c, word]

vars == <<x, y>>

Value(t, c, w) == [type |-> t, c |-> c, word |-> w]
\* Unsigned values are zero extended, signed ones sign extended.
Represent(t, c) == Value(t, c, Wrap(c))

Init == /\ \E t \in Types : \E c \in ValuesOf(t) : x = Represent(t, c)
        /\ \E t \in Types : \E c \in ValuesOf(t) : y = Represent(t, c)

\* operators apply after the integer promotions, to one type
Promoted(v) == v.type.bits >= IntType.bits
Operands    == Promoted(x) /\ Promoted(y) /\ x.type = y.type
Becomes(t, c, w) == x' = Value(t, c, w) /\ UNCHANGED y

\* the value C gives a result r of type t; none if a signed r is too large
InC(t, r)      == IF t.signed THEN r ELSE r % Pow[t.bits]
Defined(t, r)  == t.signed => r \in ValuesOf(t)
Truth(p)       == IF p THEN 1 ELSE 0
\* the value of type t with the low bits of a word
OfBits(t, w)   == LET low == w % Pow[t.bits]
                  IN  IF t.signed /\ low > Greatest(t) THEN low - Pow[t.bits] ELSE low

\* a variable, parameter or literal is used as a value
Read ==
  /\ x' = [x EXCEPT !.word = IF x.type.signed THEN Trunc(x.type, SignExtend(@, x.type.bits))
                             ELSE @]
  /\ UNCHANGED y

\* a value goes through a member, which keeps as many bits as its type has
ThroughMember ==
  LET raw == x.word % Pow[x.type.bits]
  IN  /\ x' = [x EXCEPT !.word = IF x.type.signed THEN SignExtend(raw, x.type.bits) ELSE raw]
      /\ UNCHANGED y

Cast ==
  \E t \in Types :
    /\ x' = Value(t, OfBits(t, Wrap(x.c)), IF t.bits = WordBits THEN x.word ELSE Trunc(t, x.word))
    /\ UNCHANGED y

\* C's division, towards zero
Size(n) == IF n < 0 THEN -n ELSE n
Quotient(a, b) ==
  IF (a < 0) # (b < 0) THEN -(Size(a) \div Size(b)) ELSE Size(a) \div Size(b)

Divide ==
  /\ Operands /\ y.c # 0
  /\ LET t == x.type
         q == Quotient(x.c, y.c)
     IN  /\ Defined(t, q)
         /\ \/ Becomes(t, q, IF t.signed THEN IDiv(x.word, y.word, t.bits)
                             ELSE UDiv(x.word, y.word))
            \/ Becomes(t, x.c - q * y.c, IF t.signed THEN IRem(x.word, y.word, t.bits)
                                         ELSE URem(x.word, y.word))

Compare ==
  /\ Operands
  /\ LET a      == x.word
         b      == y.word
         signed == x.type.signed
         Is(p, w) == Becomes(IntType, Truth(p), Truth(w))
     IN  \/ Is(x.c < y.c,  IF signed THEN Lt(a, b)  ELSE a < b)
         \/ Is(x.c <= y.c, IF signed THEN Lte(a, b) ELSE a <= b)
         \/ Is(x.c > y.c,  IF signed THEN Gt(a, b)  ELSE a > b)
         \/ Is(x.c >= y.c, IF signed THEN Gte(a, b) ELSE a >= b)
         \/ Is(x.c = y.c, a = b)
         \/ Is(x.c # y.c, a # b)
         \/ Is(x.c = 0, a = 0)

\* + - * stay as they are in C
Arithmetic ==
  /\ Operands
  /\ \E r \in {<<x.c + y.c, x.word + y.word>>, <<x.c - y.c, x.word - y.word>>,
               <<x.c * y.c, x.word * y.word>>} :
       Defined(x.type, r[1]) /\ Becomes(x.type, InC(x.type, r[1]), Wrap(r[2]))

\* so do & | ^ ~
BitwiseOp ==
  /\ Operands
  /\ LET t == x.type
         a == Wrap(x.c)
         b == Wrap(y.c)
         Is(f) == Becomes(t, OfBits(t, f[a][b]), f[x.word][y.word])
     IN  \/ Is(BitAnd) \/ Is(BitOr) \/ Is(BitXor)
         \/ Becomes(t, OfBits(t, MinusOne - a), MinusOne - x.word)

Minus ==
  /\ Promoted(x) /\ Defined(x.type, -x.c)
  /\ Becomes(x.type, InC(x.type, -x.c), Trunc(x.type, Wrap(-x.word)))

Count == Promoted(x) /\ Promoted(y) /\ y.c \in ShiftCounts /\ y.c < x.type.bits

ShiftLeft ==
  /\ Count
  /\ x.type.signed => x.c >= 0
  /\ Defined(x.type, x.c * Pow[y.c])
  /\ Becomes(x.type, InC(x.type, x.c * Pow[y.c]), Wrap(x.word * Pow[y.word]))

\* a shift by the width of the word is undefined: it gives zero, or leaves the
\* value alone where the machine takes the count modulo the width
Shifted(v, n) == IF n < WordBits THEN {Wrap(v * Pow[n])} ELSE {0, v}
\* __c2pnk_i64_sar
Sar(a, n) ==
  LET mask == IF Negative(a) THEN MinusOne ELSE 0
  IN  {BitOr[a \div Pow[n]][fill] : fill \in Shifted(mask, WordBits - n)}

ShiftRight ==
  /\ Count
  /\ \E w \in IF x.type.signed THEN Sar(x.word, y.word) ELSE {x.word \div Pow[y.word]} :
       Becomes(x.type, x.c \div Pow[y.c], w)

Next == \/ Read \/ ThroughMember \/ Cast
        \/ Divide \/ Compare \/ Arithmetic \/ BitwiseOp \/ Minus \/ ShiftLeft \/ ShiftRight
Spec == Init /\ [][Next]_vars

-----------------------------------------------------------------------------
(* Properties.                                                             *)

\* Every value the emitted code computes is the one C computes, in its
\* canonical form: an unsigned value zero extended, a signed one sign extended.
Canonical ==
  \A v \in {x, y} : v.c \in ValuesOf(v.type) /\ v = Represent(v.type, v.c)

\* the inductive invariant: Canonical, of values of the types considered
IInv == x.type \in Types /\ y.type \in Types /\ Canonical

\* What Canonical needs of a program: no unsigned type as wide as int and
\* narrower than the word, and no shift by zero (IntegerConversionProofs).
UnsignedFillWords ==
  \A t \in Types : ~t.signed /\ t.bits >= IntType.bits => t.bits = WordBits
ShiftsShift == 0 \notin ShiftCounts
=============================================================================
