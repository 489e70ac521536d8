----------------------------- MODULE WordsProofs -----------------------------
(***************************************************************************)
(* Facts about division, powers of two and words of every width that the   *)
(* proofs about the injected helpers share.                                *)
(***************************************************************************)
EXTENDS Words, TLAPS

-----------------------------------------------------------------------------
(* Division by what is not a literal.                                      *)

\* A number is cut by a divisor in one way.
LEMMA CutUnique ==
  ASSUME NEW x \in Int, NEW d \in Nat \ {0}, NEW h \in Int, NEW r \in 0..(d - 1),
         x = h * d + r
  PROVE  x \div d = h /\ x % d = r
<1>1. x \div d \in Int /\ x % d \in 0..(d - 1) /\ x = (x \div d) * d + (x % d)
  OBVIOUS
<1>2. x \div d = h
  <2>1. CASE x \div d > h
    <3>1. PICK e \in Nat \ {0} : x \div d = h + e
      <4>1. (x \div d) - h \in Nat \ {0} /\ x \div d = h + ((x \div d) - h)
        BY <1>1, <2>1
      <4> QED BY <4>1
    <3>2. (h + e) * d >= h * d + d
      <4>1. (e - 1) * d >= 0  BY <3>1
      <4> QED BY <4>1, <3>1
    <3> QED BY <1>1, <3>1, <3>2
  <2>2. CASE x \div d < h
    <3>1. PICK e \in Nat \ {0} : h = (x \div d) + e
      <4>1. h - (x \div d) \in Nat \ {0} /\ h = (x \div d) + (h - (x \div d))
        BY <1>1, <2>2
      <4> QED BY <4>1
    <3>2. ((x \div d) + e) * d >= (x \div d) * d + d
      <4>1. (e - 1) * d >= 0  BY <3>1
      <4> QED BY <4>1, <3>1, <1>1
    <3> QED BY <1>1, <3>1, <3>2
  <2> QED BY <1>1, <2>1, <2>2
<1> QED BY <1>1, <1>2

LEMMA Cut ==
  ASSUME NEW x \in Nat, NEW d \in Nat \ {0}
  PROVE  x \div d \in Nat /\ x % d \in 0..(d - 1) /\ x = (x \div d) * d + (x % d)
<1>1. x \div d \in Int /\ x % d \in 0..(d - 1) /\ x = (x \div d) * d + (x % d)
  OBVIOUS
<1>2. ASSUME x \div d < 0 PROVE FALSE
  <2>1. PICK e \in Nat : x \div d = -1 - e
    <3>1. -1 - (x \div d) \in Nat /\ x \div d = -1 - (-1 - (x \div d))
      BY <1>1, <1>2
    <3> QED BY <3>1
  <2>2. e * d >= 0
    OBVIOUS
  <2>3. (-1 - e) * d = -d - e * d
    OBVIOUS
  <2> QED BY <1>1, <2>1, <2>2, <2>3
<1> QED BY <1>1, <1>2

\* Cutting by twice a number halves what cutting by the number leaves.
LEMMA Halves ==
  ASSUME NEW x \in Nat, NEW d \in Nat \ {0}
  PROVE  x \div d = 2 * (x \div (2 * d)) + ((x \div d) % 2)
<1>1. PICK q \in Nat, r \in 0..(d - 1) : x \div d = q /\ x = q * d + r
  BY Cut
<1>2. PICK h \in Nat, b \in {0, 1} : q = 2 * h + b /\ q % 2 = b
  OBVIOUS
<1>3. b * d + r \in 0..(2 * d - 1)
  <2>1. CASE b = 0  BY <2>1
  <2>2. CASE b = 1  BY <2>2
  <2> QED BY <2>1, <2>2
<1>4. x = h * (2 * d) + (b * d + r)
  BY <1>1, <1>2
<1>5. 2 * d \in Nat \ {0}
  OBVIOUS
<1>6. x \div (2 * d) = h
  BY <1>3, <1>4, <1>5, CutUnique
<1> QED BY <1>1, <1>2, <1>6

-----------------------------------------------------------------------------
(* Powers and bits.                                                        *)

LEMMA Powers ==
  ASSUME NEW n \in 0..WordBits
  PROVE  Pow[n] \in Nat \ {0}
BY PowAssumption

LEMMA Doubles ==
  ASSUME NEW n \in 0..(WordBits - 1)
  PROVE  /\ Pow[n + 1] = 2 * Pow[n]
         /\ Pow[n] \in Nat \ {0} /\ Pow[n + 1] \in Nat \ {0}
<1>1. n \in 0..WordBits /\ n + 1 \in 0..WordBits
  BY WordBitsAssumption
<1> QED BY <1>1, PowAssumption

LEMMA ModulusIsPositive == Modulus \in Nat \ {0} /\ WordBits < Modulus
<1>1. WordBits \in 0..WordBits
  BY WordBitsAssumption
<1> QED BY <1>1, Powers, IndexAssumption DEF Modulus

LEMMA CutInt ==
  ASSUME NEW x \in Int, NEW d \in Nat \ {0}
  PROVE  x \div d \in Int /\ x % d \in 0..(d - 1) /\ x = (x \div d) * d + (x % d)
OBVIOUS

\* A number and a multiple of the divisor more leave the same remainder.
LEMMA SameRemainder ==
  ASSUME NEW x \in Int, NEW d \in Nat \ {0}, NEW k \in Int
  PROVE  (x + k * d) % d = x % d
<1>1. PICK q \in Int, r \in 0..(d - 1) : x = q * d + r /\ x % d = r
  <2>1. x \div d \in Int /\ x % d \in 0..(d - 1) /\ x = (x \div d) * d + (x % d)
    OBVIOUS
  <2> QED BY <2>1
<1>2. x + k * d = (q + k) * d + r /\ x + k * d \in Int /\ q + k \in Int
  BY <1>1
<1> QED BY <1>1, <1>2, CutUnique

\* Wrapping takes a multiple of the modulus away.
LEMMA Wraps ==
  ASSUME NEW z \in Int
  PROVE  Wrap(z) \in Word /\ \E k \in Int : z = k * Modulus + Wrap(z)
<1>1. PICK m \in Nat \ {0} : Modulus = m
  BY ModulusIsPositive
<1>2. z \div m \in Int /\ z % m \in 0..(m - 1) /\ z = (z \div m) * m + (z % m)
  OBVIOUS
<1> QED BY <1>1, <1>2 DEF Wrap, Word

LEMMA WrapAdds ==
  ASSUME NEW z \in Int
  PROVE  Wrap(z) \in Int /\ \E k \in Int : Wrap(z) = z + k * Modulus
<1>1. PICK m \in Nat \ {0} : Modulus = m
  BY ModulusIsPositive
<1>2. PICK q \in Int, r \in 0..(m - 1) : z % m = r /\ z = q * m + r
  BY CutInt
<1>3. r = z + (-q) * m /\ -q \in Int /\ r \in Int
  BY <1>2
<1>4. Wrap(z) = r
  BY <1>1, <1>2 DEF Wrap
<1> QED BY <1>1, <1>3, <1>4

LEMMA WrapUnique ==
  ASSUME NEW w \in Word, NEW k \in Int
  PROVE  Wrap(k * Modulus + w) = w
<1>1. PICK m \in Nat \ {0} : Modulus = m
  BY ModulusIsPositive
<1>2. w \in 0..(m - 1) /\ k * m + w \in Int
  BY <1>1 DEF Word
<1>3. (k * m + w) % m = w
  BY <1>2, CutUnique
<1> QED BY <1>1, <1>3 DEF Wrap

LEMMA SameWrap ==
  ASSUME NEW z \in Int, NEW k \in Int
  PROVE  Wrap(z + k * Modulus) = Wrap(z)
BY ModulusIsPositive, SameRemainder DEF Wrap

\* A word is its own wrapping.
LEMMA WrapOfWord ==
  ASSUME NEW w \in Word
  PROVE  Wrap(w) = w /\ Wrap(w - Modulus) = w
<1>1. Modulus \in Nat \ {0} /\ w \in Int
  BY ModulusIsPositive DEF Word
<1>2. Wrap(0 * Modulus + w) = w /\ Wrap((-1) * Modulus + w) = w
  BY WrapUnique
<1>3. 0 * Modulus + w = w /\ (-1) * Modulus + w = w - Modulus
  BY <1>1
<1> QED BY <1>2, <1>3
=============================================================================
