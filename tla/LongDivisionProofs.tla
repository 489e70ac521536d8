------------------------- MODULE LongDivisionProofs -------------------------
(***************************************************************************)
(* The division loop of the helpers is right for every width of the words: *)
(* Partial is inductive, the shift of the remainder loses no bit, and what *)
(* the loop ends with is the quotient and the remainder.                   *)
(***************************************************************************)
EXTENDS LongDivision, WordsProofs

-----------------------------------------------------------------------------
(* Bits.                                                                   *)

\* The part of a number above bit n is the part above bit n+1 with bit n
\* brought down.
LEMMA BringDown ==
  ASSUME NEW x \in Nat, NEW n \in 0..(WordBits - 1)
  PROVE  /\ Bit(x, n) \in {0, 1}
         /\ x \div Pow[n] = 2 * (x \div Pow[n + 1]) + Bit(x, n)
         /\ x \div Pow[n] \in Nat /\ x \div Pow[n + 1] \in Nat
<1>1. Pow[n] \in Nat \ {0} /\ Pow[n + 1] \in Nat \ {0} /\ Pow[n + 1] = 2 * Pow[n]
  BY Doubles
<1>2. x \div Pow[n] \in Nat /\ x \div Pow[n + 1] \in Nat
  BY <1>1, Cut
<1>3. Bit(x, n) \in {0, 1}
  BY <1>2 DEF Bit
<1>4. x \div Pow[n] = 2 * (x \div Pow[n + 1]) + Bit(x, n)
  BY <1>1, Halves DEF Bit
<1> QED BY <1>2, <1>3, <1>4

\* Setting a bit in a number that ends in zeros up to it.
LEMMA SetsBit ==
  ASSUME NEW h \in Nat, NEW n \in 0..(WordBits - 1)
  PROVE  SetBit(h * Pow[n + 1], n) = (2 * h + 1) * Pow[n]
<1>1. PICK p \in Nat \ {0} : Pow[n] = p /\ Pow[n + 1] = 2 * p
  BY Doubles
<1>2. h * (2 * p) = (2 * h) * p + 0 /\ h * (2 * p) \in Nat /\ 2 * h \in Int
  OBVIOUS
<1>3. (h * (2 * p)) \div p = 2 * h
  <2>1. 0 \in 0..(p - 1)
    OBVIOUS
  <2> QED BY <1>2, <2>1, CutUnique
<1>4. Bit(h * Pow[n + 1], n) = 0
  BY <1>1, <1>3 DEF Bit
<1>5. SetBit(h * Pow[n + 1], n) = h * (2 * p) + p
  BY <1>1, <1>4 DEF SetBit
<1>6. h * (2 * p) + p = (2 * h + 1) * p
  OBVIOUS
<1> QED BY <1>1, <1>5, <1>6

-----------------------------------------------------------------------------
(* The loop.                                                               *)

\* The counter below the top of its range names the bit to bring down; the
\* last one makes it wrap around.
LEMMA Counter ==
  ASSUME TypeOK, i # EndIndex
  PROVE  /\ i \in 0..(WordBits - 1) /\ Left = i + 1
         /\ NextIndex \in 0..(WordBits - 1) \cup {EndIndex}
         /\ (IF NextIndex = EndIndex THEN 0 ELSE NextIndex + 1) = i
<1>1. i \in 0..(WordBits - 1) /\ Left = i + 1
  BY DEF TypeOK, Left
<1>2. PICK m \in Nat \ {0} : Modulus = m /\ WordBits < m
  BY ModulusIsPositive
<1>3. CASE i = 0
  <2>1. -1 = (-1) * m + (m - 1) /\ m - 1 \in 0..(m - 1)
    OBVIOUS
  <2>2. (-1) % m = m - 1
    BY <2>1, CutUnique
  <2> QED BY <1>1, <1>2, <1>3, <2>2 DEF NextIndex, Wrap, EndIndex
<1>4. CASE i # 0
  <2>1. i - 1 = 0 * m + (i - 1) /\ i - 1 \in 0..(m - 1)
    BY <1>1, <1>2, <1>4, WordBitsAssumption
  <2>2. (i - 1) % m = i - 1
    BY <2>1, CutUnique
  <2> QED BY <1>1, <1>2, <1>4, <2>2, WordBitsAssumption DEF NextIndex, Wrap, EndIndex
<1> QED BY <1>1, <1>3, <1>4

LEMMA ShiftFits == IInv => NoBitLost
<1> SUFFICES ASSUME IInv, pc = "loop", i # EndIndex
             PROVE  2 * remainder + 1 < Modulus
  BY DEF NoBitLost
<1>1. i \in 0..(WordBits - 1) /\ Left = i + 1 /\ remainder \in Nat /\ divisor \in Nat
  BY Counter, ModulusIsPositive DEF IInv, TypeOK, Word
<1>2. PICK k \in Nat \ {0} : Modulus = 2 * k
  <2>1. WordBits - 1 \in 0..(WordBits - 1) /\ (WordBits - 1) + 1 = WordBits
    BY WordBitsAssumption
  <2> QED BY <2>1, Doubles DEF Modulus
<1>3. CASE divisor = 0
  BY <1>2, <1>3 DEF IInv
<1>4. CASE divisor # 0
  <2>1. PICK p \in Nat \ {0} : Pow[i + 1] = 2 * p
    BY <1>1, Doubles
  <2>2. dividend \in Nat /\ dividend < 2 * k
    BY <1>2 DEF IInv, TypeOK, Word
  <2>3. PICK a \in Nat, r \in 0..(2 * p - 1) :
          dividend \div (2 * p) = a /\ dividend = a * (2 * p) + r
    <3>1. 2 * p \in Nat \ {0}
      OBVIOUS
    <3> QED BY <2>2, <3>1, Cut
  <2>4. PICK q \in Nat : a = q * divisor + remainder
    <3>1. quotient \div (2 * p) \in Nat
      <4>1. 2 * p \in Nat \ {0}
        OBVIOUS
      <4> QED BY <4>1, Cut DEF IInv, TypeOK
    <3> QED BY <1>1, <1>4, <2>1, <2>3, <3>1 DEF IInv, Partial
  <2>5. remainder <= a
    <3>1. q * divisor >= 0
      BY <1>1
    <3> QED BY <1>1, <2>4, <3>1
  <2>6. 2 * a <= a * (2 * p)
    <3>1. 0 <= a * (p - 1)
      OBVIOUS
    <3> QED BY <3>1
  <2>7. 2 * a <= dividend
    BY <2>3, <2>6
  <2> QED BY <1>1, <1>2, <2>2, <2>5, <2>7
<1> QED BY <1>1, <1>3, <1>4

LEMMA InitEstablishes == Init => IInv
<1> SUFFICES ASSUME Init PROVE IInv
  OBVIOUS
<1>1. TypeOK
  BY WordBitsAssumption DEF Init, TypeOK, FirstIndex
<1>2. ASSUME divisor # 0 PROVE Partial
  <2>1. FirstIndex # EndIndex
    BY ModulusIsPositive, WordBitsAssumption DEF FirstIndex, EndIndex
  <2>2. Left = WordBits
    BY <2>1, WordBitsAssumption DEF Init, Left, FirstIndex
  <2>3. PICK m \in Nat \ {0} : Pow[WordBits] = m /\ Modulus = m
    BY ModulusIsPositive DEF Modulus
  <2>4. dividend \div m = 0 /\ 0 \div m = 0
    <3>1. dividend \in 0..(m - 1)
      BY <2>3 DEF Init, Word
    <3>2. dividend = 0 * m + dividend /\ 0 = 0 * m + 0 /\ 0 \in 0..(m - 1)
      BY <3>1
    <3> QED BY <3>1, <3>2, CutUnique
  <2>5. divisor \in Nat
    BY <2>3 DEF Init, Word
  <2> QED BY <1>2, <2>2, <2>3, <2>4, <2>5 DEF Init, Partial
<1> QED BY <1>1, <1>2 DEF Init, IInv

\* One bit brought down: the quotient gains the bit the comparison gives and
\* the remainder stays below the divisor.
LEMMA IterateKeeps == IInv /\ Iterate => IInv'
<1> SUFFICES ASSUME IInv, Iterate PROVE IInv'
  OBVIOUS
<1>1. /\ i \in 0..(WordBits - 1) /\ Left = i + 1 /\ Left' = i
      /\ i' \in 0..(WordBits - 1) \cup {EndIndex}
  BY Counter DEF IInv, Iterate, Left, EndIndex, Modulus
<1>2. PICK p \in Nat \ {0} : Pow[i] = p /\ Pow[i + 1] = 2 * p
  BY <1>1, Doubles
<1>3. dividend \in Nat /\ divisor \in Nat \ {0} /\ remainder \in Nat /\ remainder < divisor
  BY ModulusIsPositive DEF IInv, TypeOK, Iterate, Partial, Word
<1>4. PICK q \in Nat : /\ quotient = q * (2 * p)
                       /\ dividend \div (2 * p) = q * divisor + remainder
  <2>1. quotient \div (2 * p) \in Nat
    <3>1. 2 * p \in Nat \ {0}
      OBVIOUS
    <3> QED BY <3>1, Cut DEF IInv, TypeOK
  <2> QED BY <1>1, <1>2, <1>3, <2>1 DEF IInv, Partial
<1>5. PICK b \in {0, 1} : /\ Bit(dividend, i) = b
                          /\ dividend \div p = 2 * (q * divisor + remainder) + b
  <2>1. /\ Bit(dividend, i) \in {0, 1}
        /\ dividend \div Pow[i] = 2 * (dividend \div Pow[i + 1]) + Bit(dividend, i)
    BY <1>1, <1>3, BringDown
  <2> QED BY <1>2, <1>4, <2>1
<1>6. BroughtDown = 2 * remainder + b
  <2>1. 2 * remainder + 1 < Modulus
    BY ShiftFits DEF Iterate, NoBitLost
  <2>2. PICK m \in Nat \ {0} : Modulus = m
    BY ModulusIsPositive
  <2>3. 2 * remainder = 0 * m + 2 * remainder /\ 2 * remainder \in 0..(m - 1)
    BY <1>3, <2>1, <2>2
  <2>4. (2 * remainder) % m = 2 * remainder
    BY <2>3, CutUnique
  <2> QED BY <1>3, <1>5, <2>2, <2>4 DEF BroughtDown, Wrap
<1>7. CASE Fits
  <2>1. remainder' = 2 * remainder + b - divisor /\ quotient' = SetBit(quotient, i)
    BY <1>3, <1>6, <1>7 DEF Iterate, Reduced
  <2>2. 2 * remainder + b >= divisor
    BY <1>6, <1>7 DEF Fits
  <2>3. quotient' = (2 * q + 1) * p
    BY <1>1, <1>2, <1>4, <2>1, SetsBit
  <2>4. quotient' \div p = 2 * q + 1
    <3>1. (2 * q + 1) * p = (2 * q + 1) * p + 0 /\ 0 \in 0..(p - 1)
      OBVIOUS
    <3> QED BY <2>3, <3>1, CutUnique
  <2>5. dividend \div p = (2 * q + 1) * divisor + (2 * remainder + b - divisor)
    <3>1. 2 * (q * divisor + remainder) + b
            = (2 * q + 1) * divisor + (2 * remainder + b - divisor)
      BY <1>3
    <3> QED BY <1>5, <3>1
  <2>6. remainder' \in Nat /\ remainder' < divisor
    BY <1>3, <2>1, <2>2
  <2>7. quotient' \in Nat
    BY <2>3
  <2>8. Partial'
    BY <1>1, <1>2, <2>1, <2>3, <2>4, <2>5, <2>6 DEF Partial, Iterate
  <2> QED BY <1>1, <2>6, <2>7, <2>8 DEF IInv, TypeOK, Iterate, Word, EndIndex, Modulus
<1>8. CASE ~Fits
  <2>1. remainder' = 2 * remainder + b /\ quotient' = quotient
    BY <1>6, <1>8 DEF Iterate, Reduced
  <2>2. 2 * remainder + b < divisor
    BY <1>3, <1>6, <1>8 DEF Fits
  <2>3. quotient' = (2 * q) * p
    BY <1>4, <2>1
  <2>4. quotient' \div p = 2 * q
    <3>1. (2 * q) * p = (2 * q) * p + 0 /\ 0 \in 0..(p - 1)
      OBVIOUS
    <3> QED BY <2>3, <3>1, CutUnique
  <2>5. dividend \div p = (2 * q) * divisor + (2 * remainder + b)
    <3>1. 2 * (q * divisor + remainder) + b = (2 * q) * divisor + (2 * remainder + b)
      BY <1>3
    <3> QED BY <1>5, <3>1
  <2>6. remainder' \in Nat /\ remainder' < divisor
    BY <1>3, <2>1, <2>2
  <2>7. quotient' \in Nat
    BY <2>3
  <2>8. Partial'
    BY <1>1, <1>2, <2>1, <2>3, <2>4, <2>5, <2>6 DEF Partial, Iterate
  <2> QED BY <1>1, <2>6, <2>7, <2>8 DEF IInv, TypeOK, Iterate, Word, EndIndex, Modulus
<1> QED BY <1>7, <1>8

LEMMA StepKeeps == IInv /\ [Next]_vars => IInv'
<1> SUFFICES ASSUME IInv, [Next]_vars PROVE IInv'
  OBVIOUS
<1>1. CASE ZeroDivisor
  BY <1>1 DEF IInv, TypeOK, Partial, Left, ZeroDivisor, Word, EndIndex, Modulus
<1>2. CASE Iterate
  BY <1>2, IterateKeeps
<1>3. CASE Return
  BY <1>3 DEF IInv, TypeOK, Partial, Left, Return, Word, EndIndex, Modulus
<1>4. CASE UNCHANGED vars
  BY <1>4 DEF IInv, TypeOK, Partial, Left, vars, Word, EndIndex, Modulus
<1> QED BY <1>1, <1>2, <1>3, <1>4 DEF Next

\* The bits brought down, the quotient and the remainder stay in step, for
\* every width, dividend and divisor.
THEOREM Loop == Spec => []IInv
BY InitEstablishes, StepKeeps, PTL DEF Spec

\* remainder << 1 in the helpers loses no bit, also when the divisor uses the
\* top bit of the word.
THEOREM ShiftLosesNoBit == Spec => []NoBitLost
BY Loop, ShiftFits, PTL

LEMMA Result == IInv => Correct
<1> SUFFICES ASSUME IInv, pc = "done", divisor # 0
             PROVE  quotient = dividend \div divisor /\ remainder = dividend % divisor
  BY DEF Correct, IInv
<1>1. Left = 0 /\ Pow[0] = 1
  BY PowAssumption DEF IInv, Left
<1>2. /\ dividend \in Nat /\ quotient \in Nat /\ divisor \in Nat \ {0}
      /\ remainder \in 0..(divisor - 1)
  BY ModulusIsPositive DEF IInv, TypeOK, Partial, Word
<1>3. dividend = quotient * divisor + remainder
  <2>1. dividend \div 1 = dividend /\ quotient \div 1 = quotient
    BY <1>2
  <2> QED BY <1>1, <1>2, <2>1 DEF IInv, Partial
<1> QED BY <1>2, <1>3, CutUnique

\* __c2pnk_u64_div and __c2pnk_u64_rem return what C's operators do.
THEOREM DividesCorrectly == Spec => []Correct
BY Loop, Result, PTL
=============================================================================
