----------------------- MODULE IntegerConversionProofs -----------------------
(***************************************************************************)
(* The emitted integer operations keep values canonical and compute what C *)
(* computes, for every width of the words, of int and of the other types,  *)
(* when no unsigned type as wide as int is narrower than the word and no   *)
(* shift is by zero.  An operation is followed modulo the modulus of the   *)
(* words, which every power of two of a type divides.                      *)
(***************************************************************************)
EXTENDS IntegerConversion, WordsProofs

-----------------------------------------------------------------------------
(* Types.                                                                  *)

\* The powers of two of a type: the modulus is a multiple of them.
LEMMA TypePowers ==
  ASSUME NEW t \in Types
  PROVE  /\ t.signed \in BOOLEAN /\ t.bits \in 1..WordBits
         /\ \E h \in Nat \ {0} : \E k \in Nat \ {0} :
              /\ Pow[t.bits - 1] = h /\ Pow[t.bits] = 2 * h
              /\ Pow[WordBits - t.bits] = k /\ Modulus = k * (2 * h)
<1>1. t.signed \in BOOLEAN /\ t.bits \in 1..WordBits
  BY TypesAssumption DEF VerifyTypeWidth
<1>2. t.bits - 1 \in 0..(WordBits - 1) /\ WordBits - t.bits \in 0..WordBits
  BY <1>1, WordBitsAssumption
<1>3. PICK h \in Nat \ {0} : Pow[t.bits - 1] = h /\ Pow[t.bits] = 2 * h
  <2>1. Pow[(t.bits - 1) + 1] = 2 * Pow[t.bits - 1] /\ Pow[t.bits - 1] \in Nat \ {0}
    BY <1>2, Doubles
  <2>2. (t.bits - 1) + 1 = t.bits
    BY <1>1
  <2> QED BY <2>1, <2>2
<1>4. PICK k \in Nat \ {0} : Pow[WordBits - t.bits] = k
  BY <1>2, Powers
<1>5. Modulus = k * (2 * h)
  <2>1. WordBits - t.bits \in 0..WordBits /\ t.bits \in 0..(WordBits - (WordBits - t.bits))
    BY <1>1, <1>2, WordBitsAssumption
  <2>2. Pow[(WordBits - t.bits) + t.bits] = Pow[WordBits - t.bits] * Pow[t.bits]
    BY <2>1, PowerSumAssumption
  <2>3. (WordBits - t.bits) + t.bits = WordBits
    BY <1>1, WordBitsAssumption
  <2> QED BY <1>3, <1>4, <2>2, <2>3 DEF Modulus
<1> QED BY <1>1, <1>3, <1>4, <1>5

\* A number agrees modulo the power of a type with one value of the type.
LEMMA OfBitsUnique ==
  ASSUME NEW t \in Types, NEW c \in ValuesOf(t), NEW k \in Int
  PROVE  OfBits(t, c + k * Pow[t.bits]) = c
<1>1. PICK h \in Nat \ {0} : Pow[t.bits - 1] = h /\ Pow[t.bits] = 2 * h
  BY TypePowers
<1>2. t.signed \in BOOLEAN
  BY TypePowers
<1> DEFINE z == c + k * (2 * h)
<1>3. CASE c >= 0
  <2>1. c \in 0..(2 * h - 1)
    BY <1>1, <1>2, <1>3 DEF ValuesOf, Least, Greatest
  <2>2. z = k * (2 * h) + c /\ z \in Int
    BY <2>1
  <2>3. z % (2 * h) = c
    <3>1. 2 * h \in Nat \ {0}
      OBVIOUS
    <3> QED BY <2>1, <2>2, <3>1, CutUnique
  <2>4. t.signed => ~(c > Greatest(t))
    BY <1>1, <2>1 DEF ValuesOf, Least, Greatest
  <2> QED BY <1>1, <2>3, <2>4 DEF OfBits
<1>4. CASE c < 0
  <2>1. t.signed /\ c \in (-h)..-1
    BY <1>1, <1>2, <1>4 DEF ValuesOf, Least, Greatest
  <2>2. z = (k - 1) * (2 * h) + (c + 2 * h) /\ c + 2 * h \in 0..(2 * h - 1) /\ z \in Int
    BY <2>1
  <2>3. z % (2 * h) = c + 2 * h
    <3>1. k - 1 \in Int /\ 2 * h \in Nat \ {0}
      OBVIOUS
    <3> QED BY <2>2, <3>1, CutUnique
  <2>4. c + 2 * h > Greatest(t)
    BY <1>1, <2>1 DEF Greatest
  <2>5. c + 2 * h - 2 * h = c
    BY <2>1
  <2> QED BY <1>1, <2>1, <2>3, <2>4, <2>5 DEF OfBits
<1>5. c \in Int
  BY <1>1, <1>2 DEF ValuesOf, Least, Greatest
<1> QED BY <1>3, <1>4, <1>5

\* The low bits of a number are a value of the type and agree with the number.
LEMMA OfBitsAgrees ==
  ASSUME NEW t \in Types, NEW z \in Int
  PROVE  /\ OfBits(t, z) \in ValuesOf(t)
         /\ \E k \in Int : z = OfBits(t, z) + k * Pow[t.bits]
<1>1. PICK h \in Nat \ {0} : Pow[t.bits - 1] = h /\ Pow[t.bits] = 2 * h
  BY TypePowers
<1>2. t.signed \in BOOLEAN
  BY TypePowers
<1>3. PICK q \in Int, low \in 0..(2 * h - 1) : z % (2 * h) = low /\ z = q * (2 * h) + low
  <2>1. /\ z \div (2 * h) \in Int /\ z % (2 * h) \in 0..(2 * h - 1)
        /\ z = (z \div (2 * h)) * (2 * h) + (z % (2 * h))
    <3>1. 2 * h \in Nat \ {0}
      OBVIOUS
    <3> QED BY <3>1, CutInt
  <2> QED BY <2>1
<1>4. CASE t.signed /\ low > Greatest(t)
  <2>1. OfBits(t, z) = low - 2 * h
    BY <1>1, <1>3, <1>4 DEF OfBits
  <2>2. low - 2 * h \in ValuesOf(t)
    BY <1>1, <1>4 DEF ValuesOf, Least, Greatest
  <2>3. z = (low - 2 * h) + (q + 1) * (2 * h) /\ q + 1 \in Int
    BY <1>3
  <2> QED BY <1>1, <2>1, <2>2, <2>3
<1>5. CASE ~(t.signed /\ low > Greatest(t))
  <2>1. OfBits(t, z) = low
    BY <1>1, <1>3, <1>5 DEF OfBits
  <2>2. low \in ValuesOf(t)
    BY <1>1, <1>2, <1>5 DEF ValuesOf, Least, Greatest
  <2>3. z = low + q * (2 * h)
    BY <1>3
  <2> QED BY <1>1, <2>1, <2>2, <2>3
<1> QED BY <1>4, <1>5

\* Wrapping keeps the low bits of every type.
LEMMA OfBitsOfWrap ==
  ASSUME NEW t \in Types, NEW z \in Int
  PROVE  OfBits(t, Wrap(z)) = OfBits(t, z)
<1>1. PICK h \in Nat \ {0}, k \in Nat \ {0} : Pow[t.bits] = 2 * h /\ Modulus = k * (2 * h)
  BY TypePowers
<1>2. PICK q \in Int : z = q * Modulus + Wrap(z) /\ Wrap(z) \in Int
  <2>1. Wrap(z) \in Word /\ \E j \in Int : z = j * Modulus + Wrap(z)
    BY Wraps
  <2>2. \A w \in Word : w \in Int
    BY ModulusIsPositive DEF Word
  <2> QED BY <2>1, <2>2
<1>3. PICK e \in Int : /\ z = OfBits(t, z) + e * (2 * h)
                       /\ OfBits(t, z) \in ValuesOf(t) /\ OfBits(t, z) \in Int
  <2>1. \A c \in ValuesOf(t) : c \in Int
    BY TypePowers DEF ValuesOf, Least, Greatest
  <2> QED BY <1>1, <2>1, OfBitsAgrees
<1>4. Wrap(z) = OfBits(t, z) + (e - q * k) * (2 * h)
  <2>1. q * (k * (2 * h)) = (q * k) * (2 * h)
    OBVIOUS
  <2>2. (e - q * k) * (2 * h) = e * (2 * h) - (q * k) * (2 * h)
    OBVIOUS
  <2> QED BY <1>1, <1>2, <1>3, <2>1, <2>2
<1>5. e - q * k \in Int
  OBVIOUS
<1>6. OfBits(t, OfBits(t, z) + (e - q * k) * Pow[t.bits]) = OfBits(t, z)
  BY <1>3, <1>5, OfBitsUnique
<1> QED BY <1>1, <1>4, <1>6

-----------------------------------------------------------------------------
(* Words.                                                                  *)

LEMMA WordIsNat == /\ \A w \in Word : w \in Nat /\ w < Modulus
                   /\ \A z \in Int : Wrap(z) \in Word
<1>1. \A w \in Word : w \in Nat /\ w < Modulus
  BY ModulusIsPositive DEF Word
<1> QED BY <1>1, Wraps

LEMMA ValueIsInt ==
  ASSUME NEW t \in Types, NEW c \in ValuesOf(t)
  PROVE  c \in Int
BY TypePowers DEF ValuesOf, Least, Greatest

\* A bit of a number below twice its weight tells which half it is in.
LEMMA TopBit ==
  ASSUME NEW h \in Nat \ {0}, NEW w \in 0..(2 * h - 1)
  PROVE  (w \div h) % 2 = IF w >= h THEN 1 ELSE 0
<1>1. CASE w >= h
  <2>1. w = 1 * h + (w - h) /\ w - h \in 0..(h - 1) /\ w \in Int
    BY <1>1
  <2>2. w \div h = 1
    BY <2>1, CutUnique
  <2> QED BY <1>1, <2>2
<1>2. CASE w < h
  <2>1. w = 0 * h + w /\ w \in 0..(h - 1) /\ w \in Int
    BY <1>2
  <2>2. w \div h = 0
    BY <2>1, CutUnique
  <2> QED BY <1>2, <2>2
<1> QED BY <1>1, <1>2

\* The sign the helpers see is the top bit of the word.
LEMMA NegativeIs ==
  ASSUME NEW w \in Word
  PROVE  Negative(w) <=> 2 * w >= Modulus
<1>1. PICK h \in Nat \ {0} : Pow[WordBits - 1] = h /\ Modulus = 2 * h
  <2>1. WordBits - 1 \in 0..(WordBits - 1) /\ (WordBits - 1) + 1 = WordBits
    BY WordBitsAssumption
  <2> QED BY <2>1, Doubles DEF Modulus
<1>2. w \in 0..(2 * h - 1)
  BY <1>1 DEF Word
<1>3. (w \div h) % 2 = IF w >= h THEN 1 ELSE 0
  BY <1>2, TopBit
<1> QED BY <1>1, <1>2, <1>3 DEF Negative, Bit

\* A value of a type in its canonical form.
LEMMA CanonicalWord ==
  ASSUME NEW t \in Types, NEW c \in ValuesOf(t)
  PROVE  /\ c \in Int /\ Wrap(c) \in Word
         /\ c >= 0 => Wrap(c) = c
         /\ c < 0 => t.signed /\ Wrap(c) = c + Modulus
         /\ c < Modulus /\ -c < Modulus
         /\ t.signed => 2 * c < Modulus /\ -(2 * c) <= Modulus
         /\ t.signed => (Negative(Wrap(c)) <=> c < 0)
<1>1. PICK h \in Nat \ {0}, k \in Nat \ {0} :
        Pow[t.bits - 1] = h /\ Pow[t.bits] = 2 * h /\ Modulus = k * (2 * h)
  BY TypePowers
<1>2. t.signed \in BOOLEAN /\ c \in Int
  BY TypePowers, ValueIsInt
<1>3. Modulus >= 2 * h /\ Modulus \in Nat \ {0}
  <2>1. k * (2 * h) = 2 * h + (k - 1) * (2 * h) /\ (k - 1) * (2 * h) >= 0
    OBVIOUS
  <2> QED BY <1>1, <2>1, ModulusIsPositive
<1>4. c < Modulus /\ -c < Modulus
  BY <1>1, <1>2, <1>3 DEF ValuesOf, Least, Greatest
<1>5. t.signed => 2 * c < Modulus /\ -(2 * c) <= Modulus
  BY <1>1, <1>2, <1>3 DEF ValuesOf, Least, Greatest
<1>6. c >= 0 => Wrap(c) = c
  <2>1. c >= 0 => c \in Word
    BY <1>2, <1>3, <1>4 DEF Word
  <2> QED BY <2>1, WrapOfWord
<1>7. c < 0 => t.signed /\ Wrap(c) = c + Modulus
  <2>1. c < 0 => c + Modulus \in Word /\ (c + Modulus) - Modulus = c
    BY <1>2, <1>3, <1>4 DEF Word
  <2>2. c < 0 => t.signed
    BY <1>2 DEF ValuesOf, Least
  <2> QED BY <2>1, <2>2, WrapOfWord
<1>8. Wrap(c) \in Word
  BY <1>2, WordIsNat
<1>9. t.signed => (Negative(Wrap(c)) <=> c < 0)
  <2>1. Negative(Wrap(c)) <=> 2 * Wrap(c) >= Modulus
    BY <1>8, NegativeIs
  <2> QED BY <1>2, <1>3, <1>5, <1>6, <1>7, <2>1
<1> QED BY <1>2, <1>4, <1>5, <1>6, <1>7, <1>8, <1>9

\* Flipping the top bit of a type and taking its weight away extends the sign.
LEMMA SignExtendIs ==
  ASSUME NEW t \in Types, t.signed, NEW low \in 0..(Pow[t.bits] - 1)
  PROVE  SignExtend(low, t.bits) = Wrap(OfBits(t, low))
<1>1. PICK h \in Nat \ {0} : Pow[t.bits - 1] = h /\ Pow[t.bits] = 2 * h
  BY TypePowers
<1>2. low \in 0..(2 * h - 1)
  BY <1>1
<1>3. (low \div h) % 2 = IF low >= h THEN 1 ELSE 0
  BY <1>2, TopBit
<1>4. XorBit(low, t.bits - 1) - h = IF low >= h THEN low - 2 * h ELSE low
  BY <1>1, <1>2, <1>3 DEF XorBit, Bit
<1>5. low % (2 * h) = low
  <2>1. low = 0 * (2 * h) + low /\ low \in Int /\ 2 * h \in Nat \ {0}
    BY <1>2
  <2> QED BY <1>2, <2>1, CutUnique
<1>6. OfBits(t, low) = IF low >= h THEN low - 2 * h ELSE low
  BY <1>1, <1>2, <1>5 DEF OfBits, Greatest
<1> QED BY <1>1, <1>4, <1>6 DEF SignExtend

\* Sign extension of any word changes nothing below the width of the type.
LEMMA SignExtendAgrees ==
  ASSUME NEW t \in Types, NEW w \in Word
  PROVE  \E e \in Int : SignExtend(w, t.bits) = Wrap(w + e * Pow[t.bits])
<1>1. PICK h \in Nat \ {0} : Pow[t.bits - 1] = h /\ Pow[t.bits] = 2 * h
  BY TypePowers
<1>2. w \in Int
  BY WordIsNat
<1>3. \/ XorBit(w, t.bits - 1) - h = w + (-1) * (2 * h)
      \/ XorBit(w, t.bits - 1) - h = w + 0 * (2 * h)
  BY <1>1, <1>2 DEF XorBit
<1> QED BY <1>1, <1>3 DEF SignExtend

\* Truncation keeps the value of the low bits.
LEMMA TruncIs ==
  ASSUME NEW t \in Types, NEW w \in Word
  PROVE  Trunc(t, w) = Wrap(OfBits(t, w))
<1>1. PICK h \in Nat \ {0}, k \in Nat \ {0} :
        Pow[t.bits - 1] = h /\ Pow[t.bits] = 2 * h /\ Modulus = k * (2 * h)
  BY TypePowers
<1>2. t.signed \in BOOLEAN /\ w \in Nat /\ w < Modulus
  BY TypePowers, WordIsNat
<1>3. w % (2 * h) \in 0..(2 * h - 1)
  <2>1. 2 * h \in Nat \ {0} /\ w \in Int
    BY <1>2
  <2> QED BY <2>1, CutInt
<1>4. CASE t.bits = WordBits
  <2>1. Modulus = 2 * h
    BY <1>1, <1>4 DEF Modulus
  <2>2. w % (2 * h) = w
    <3>1. w = 0 * (2 * h) + w /\ w \in 0..(2 * h - 1) /\ w \in Int /\ 2 * h \in Nat \ {0}
      BY <1>2, <2>1
    <3> QED BY <3>1, CutUnique
  <2>3. OfBits(t, w) = w \/ OfBits(t, w) = w - Modulus
    BY <1>1, <2>1, <2>2 DEF OfBits
  <2> QED BY <1>4, <2>3, WrapOfWord DEF Trunc
<1>5. CASE t.bits # WordBits /\ t.signed
  <2>1. Trunc(t, w) = SignExtend(w % Pow[t.bits], t.bits)
    BY <1>5 DEF Trunc
  <2>2. w % Pow[t.bits] \in 0..(Pow[t.bits] - 1)
    BY <1>1, <1>3
  <2>3. Trunc(t, w) = Wrap(OfBits(t, w % Pow[t.bits]))
    BY <1>5, <2>1, <2>2, SignExtendIs
  <2>4. (w % (2 * h)) % (2 * h) = w % (2 * h)
    <3>1. PICK low \in 0..(2 * h - 1) : w % (2 * h) = low
      BY <1>3
    <3>2. low = 0 * (2 * h) + low /\ low \in Int /\ 2 * h \in Nat \ {0}
      BY <1>2
    <3>3. low % (2 * h) = low
      BY <3>2, CutUnique
    <3> QED BY <3>1, <3>3
  <2> QED BY <1>1, <2>3, <2>4 DEF OfBits
<1>6. CASE t.bits # WordBits /\ ~t.signed
  <2>1. Trunc(t, w) = w % (2 * h) /\ OfBits(t, w) = w % (2 * h)
    BY <1>1, <1>6 DEF Trunc, OfBits
  <2>2. Wrap(w % (2 * h)) = w % (2 * h)
    <3>1. k * (2 * h) = 2 * h + (k - 1) * (2 * h) /\ (k - 1) * (2 * h) >= 0
      OBVIOUS
    <3>2. w % (2 * h) \in Word
      BY <1>1, <1>3, <3>1 DEF Word
    <3> QED BY <3>2, WrapOfWord
  <2> QED BY <2>1, <2>2
<1> QED BY <1>2, <1>4, <1>5, <1>6

\* Truncation finds the value a word agrees with.
LEMMA TruncOfWrap ==
  ASSUME NEW t \in Types, NEW c \in ValuesOf(t), NEW k \in Int
  PROVE  Trunc(t, Wrap(c + k * Pow[t.bits])) = Wrap(c)
<1>1. c + k * Pow[t.bits] \in Int
  BY TypePowers, ValueIsInt
<1>2. Wrap(c + k * Pow[t.bits]) \in Word
  BY <1>1, WordIsNat
<1>3. OfBits(t, Wrap(c + k * Pow[t.bits])) = c
  BY <1>1, OfBitsOfWrap, OfBitsUnique
<1> QED BY <1>2, <1>3, TruncIs

\* Arithmetic on wrapped numbers is arithmetic on the numbers, wrapped.
LEMMA WrapArithmetic ==
  ASSUME NEW a \in Int, NEW b \in Int
  PROVE  /\ Wrap(Wrap(a) + b) = Wrap(a + b)
         /\ Wrap(Wrap(a) + Wrap(b)) = Wrap(a + b)
         /\ Wrap(Wrap(a) - Wrap(b)) = Wrap(a - b)
         /\ Wrap(Wrap(a) * b) = Wrap(a * b)
         /\ Wrap(Wrap(a) * Wrap(b)) = Wrap(a * b)
         /\ Wrap(-Wrap(a)) = Wrap(-a)
<1>1. PICK m \in Nat \ {0} : Modulus = m
  BY ModulusIsPositive
<1>2. PICK i \in Int, u \in Int : Wrap(a) = u /\ u = a + i * m
  BY <1>1, WrapAdds
<1>3. PICK k \in Int, v \in Int : Wrap(b) = v /\ v = b + k * m
  BY <1>1, WrapAdds
<1>4. \A z \in Int : \A j \in Int : Wrap(z + j * m) = Wrap(z)
  BY <1>1, SameWrap
<1>5. Wrap(u + b) = Wrap(a + b)
  <2>1. u + b = (a + b) + i * m /\ a + b \in Int
    BY <1>2
  <2> QED BY <1>4, <2>1
<1>6. Wrap(u + v) = Wrap(a + b)
  <2>1. u + v = (a + b) + (i + k) * m /\ a + b \in Int /\ i + k \in Int
    BY <1>2, <1>3
  <2> QED BY <1>4, <2>1
<1>7. Wrap(u - v) = Wrap(a - b)
  <2>1. u - v = (a - b) + (i - k) * m /\ a - b \in Int /\ i - k \in Int
    BY <1>2, <1>3
  <2> QED BY <1>4, <2>1
<1>8. Wrap(u * b) = Wrap(a * b)
  <2>1. u * b = a * b + (i * b) * m /\ a * b \in Int /\ i * b \in Int
    BY <1>2
  <2> QED BY <1>4, <2>1
<1>9. Wrap(u * v) = Wrap(a * b)
  <2>1. u * v = u * b + (u * k) * m /\ u * b \in Int /\ u * k \in Int
    BY <1>3
  <2>2. Wrap(u * b + (u * k) * m) = Wrap(u * b)
    BY <1>4, <2>1
  <2> QED BY <1>8, <2>1, <2>2
<1>10. Wrap(-u) = Wrap(-a)
  <2>1. -u = -a + (-i) * m /\ -a \in Int /\ -i \in Int
    BY <1>2
  <2> QED BY <1>4, <2>1
<1> QED BY <1>2, <1>3, <1>5, <1>6, <1>7, <1>8, <1>9, <1>10

\* A value of a type is what its word says in the low bits.
LEMMA OfBitsOfValue ==
  ASSUME NEW t \in Types, NEW c \in ValuesOf(t)
  PROVE  OfBits(t, c) = c /\ OfBits(t, Wrap(c)) = c
<1>1. c \in Int /\ c + 0 * Pow[t.bits] = c
  BY TypePowers, ValueIsInt
<1>2. OfBits(t, c + 0 * Pow[t.bits]) = c
  BY OfBitsUnique
<1> QED BY <1>1, <1>2, OfBitsOfWrap

\* Two values of a type are the same word only if they are the same.
LEMMA WrapIsInjective ==
  ASSUME NEW t \in Types, NEW a \in ValuesOf(t), NEW b \in ValuesOf(t)
  PROVE  Wrap(a) = Wrap(b) <=> a = b
BY OfBitsOfValue

-----------------------------------------------------------------------------
(* Operators.                                                              *)

\* The result of an operation on promoted values is a value of the type.
LEMMA InCIs ==
  ASSUME UnsignedFillWords, NEW t \in Types, t.bits >= IntType.bits, NEW r \in Int,
         Defined(t, r)
  PROVE  InC(t, r) \in ValuesOf(t) /\ Wrap(InC(t, r)) = Wrap(r)
<1>1. CASE t.signed
  BY <1>1 DEF InC, Defined
<1>2. CASE ~t.signed
  <2>1. t.bits = WordBits
    BY <1>2 DEF UnsignedFillWords
  <2>2. InC(t, r) = Wrap(r) /\ ValuesOf(t) = Word
    BY <1>2, <2>1 DEF InC, Wrap, ValuesOf, Word, Least, Greatest, Modulus
  <2>3. Wrap(r) \in Word
    BY WordIsNat
  <2> QED BY <2>2, <2>3, WrapOfWord
<1> QED BY <1>1, <1>2

\* A value is sign extended and truncated when it is read.
LEMMA ReadIs ==
  ASSUME NEW t \in Types, NEW c \in ValuesOf(t)
  PROVE  Trunc(t, SignExtend(Wrap(c), t.bits)) = Wrap(c)
<1>1. c \in Int /\ Wrap(c) \in Word /\ Pow[t.bits] \in Int
  BY CanonicalWord, TypePowers
<1>2. PICK e \in Int : SignExtend(Wrap(c), t.bits) = Wrap(Wrap(c) + e * Pow[t.bits])
  BY <1>1, SignExtendAgrees
<1>3. e * Pow[t.bits] \in Int
  BY <1>1
<1>4. SignExtend(Wrap(c), t.bits) = Wrap(c + e * Pow[t.bits])
  BY <1>1, <1>2, <1>3, WrapArithmetic
<1> QED BY <1>4, TruncOfWrap

LEMMA MemberIs ==
  ASSUME NEW t \in Types, NEW c \in ValuesOf(t)
  PROVE  IF t.signed THEN SignExtend(Wrap(c) % Pow[t.bits], t.bits) = Wrap(c)
                     ELSE Wrap(c) % Pow[t.bits] = Wrap(c)
<1>1. PICK n \in Nat \ {0} : Pow[t.bits] = n
  BY TypePowers
<1>2. c \in Int /\ Wrap(c) \in Word /\ Wrap(c) \in Int /\ t.signed \in BOOLEAN
  BY CanonicalWord, WordIsNat, TypePowers
<1>3. OfBits(t, Wrap(c)) = c
  BY OfBitsOfValue
<1>4. PICK low \in 0..(n - 1) : Wrap(c) % n = low
  BY <1>2, CutInt
<1>5. low % n = low
  <2>1. low = 0 * n + low /\ low \in Int
    OBVIOUS
  <2> QED BY <2>1, CutUnique
<1>6. CASE t.signed
  <2>1. SignExtend(low, t.bits) = Wrap(OfBits(t, low))
    BY <1>1, <1>6, SignExtendIs
  <2>2. OfBits(t, low) = OfBits(t, Wrap(c))
    BY <1>1, <1>4, <1>5 DEF OfBits
  <2> QED BY <1>1, <1>3, <1>4, <1>6, <2>1, <2>2
<1>7. CASE ~t.signed
  <2>1. c = low
    BY <1>1, <1>3, <1>4, <1>7 DEF OfBits
  <2>2. Wrap(c) = c
    BY <1>4, <2>1, CanonicalWord
  <2> QED BY <1>1, <1>4, <1>7, <2>1, <2>2
<1> QED BY <1>2, <1>6, <1>7

LEMMA CastIs ==
  ASSUME NEW t \in Types, NEW w \in Word
  PROVE  /\ OfBits(t, w) \in ValuesOf(t)
         /\ (IF t.bits = WordBits THEN w ELSE Trunc(t, w)) = Wrap(OfBits(t, w))
<1>1. w \in Int
  BY WordIsNat
<1>2. Trunc(t, w) = Wrap(OfBits(t, w)) /\ OfBits(t, w) \in ValuesOf(t)
  BY <1>1, TruncIs, OfBitsAgrees
<1>3. t.bits = WordBits => Trunc(t, w) = w
  BY DEF Trunc
<1> QED BY <1>2, <1>3

\* Signed words compare by their signs first and then as numbers.
LEMMA SignedOrder ==
  ASSUME NEW t \in Types, t.signed, NEW a \in ValuesOf(t), NEW b \in ValuesOf(t)
  PROVE  /\ Lt(Wrap(a), Wrap(b)) <=> a < b
         /\ Lte(Wrap(a), Wrap(b)) <=> a <= b
         /\ Gt(Wrap(a), Wrap(b)) <=> a > b
         /\ Gte(Wrap(a), Wrap(b)) <=> a >= b
<1>1. /\ a \in Int /\ Wrap(a) = (IF a < 0 THEN a + Modulus ELSE a)
      /\ Negative(Wrap(a)) <=> a < 0
  BY CanonicalWord
<1>2. /\ b \in Int /\ Wrap(b) = (IF b < 0 THEN b + Modulus ELSE b)
      /\ Negative(Wrap(b)) <=> b < 0
  BY CanonicalWord
<1>3. Modulus \in Int
  BY ModulusIsPositive
<1>4. Negative(Wrap(a)) \in BOOLEAN /\ Negative(Wrap(b)) \in BOOLEAN
  BY DEF Negative
<1>5. CASE a < 0 /\ b < 0
  <2>1. Negative(Wrap(a)) = Negative(Wrap(b))
    BY <1>1, <1>2, <1>4, <1>5
  <2> QED BY <1>1, <1>2, <1>3, <1>5, <2>1 DEF Lt, Lte, Gt, Gte
<1>6. CASE a >= 0 /\ b >= 0
  <2>1. Negative(Wrap(a)) = Negative(Wrap(b))
    BY <1>1, <1>2, <1>4, <1>6
  <2> QED BY <1>1, <1>2, <1>3, <1>6, <2>1 DEF Lt, Lte, Gt, Gte
<1>7. CASE a < 0 /\ b >= 0
  <2>1. Negative(Wrap(a)) # Negative(Wrap(b)) /\ Negative(Wrap(a)) /\ ~Negative(Wrap(b))
    BY <1>1, <1>2, <1>4, <1>7
  <2> QED BY <1>1, <1>2, <1>7, <2>1 DEF Lt, Lte, Gt, Gte
<1>8. CASE a >= 0 /\ b < 0
  <2>1. Negative(Wrap(a)) # Negative(Wrap(b)) /\ ~Negative(Wrap(a)) /\ Negative(Wrap(b))
    BY <1>1, <1>2, <1>4, <1>8
  <2> QED BY <1>1, <1>2, <1>8, <2>1 DEF Lt, Lte, Gt, Gte
<1> QED BY <1>1, <1>2, <1>5, <1>6, <1>7, <1>8

\* Unsigned values are their own words.
LEMMA UnsignedWord ==
  ASSUME NEW t \in Types, ~t.signed, NEW c \in ValuesOf(t)
  PROVE  c \in Nat /\ Wrap(c) = c /\ c \in Word
BY CanonicalWord

\* What a comparison gives is a value of int and its own word.
LEMMA TruthIs ==
  ASSUME NEW p \in BOOLEAN
  PROVE  Truth(p) \in ValuesOf(IntType) /\ Wrap(Truth(p)) = Truth(p)
<1>1. PICK n \in 0..(WordBits - 1) : IntType.bits = n + 1 /\ n >= 1
  <2>1. IntType.bits \in 1..WordBits /\ IntType.bits >= 2
    BY TypesAssumption, TypePowers
  <2>2. IntType.bits - 1 \in 0..(WordBits - 1) /\ IntType.bits = (IntType.bits - 1) + 1
    BY <2>1, WordBitsAssumption
  <2> QED BY <2>1, <2>2
<1>2. Pow[n] >= 2 /\ Pow[n] \in Nat
  <2>1. n - 1 \in 0..(WordBits - 1) /\ (n - 1) + 1 = n
    BY <1>1, WordBitsAssumption
  <2> QED BY <2>1, Doubles
<1>3. Truth(p) \in ValuesOf(IntType)
  BY <1>1, <1>2, TypesAssumption DEF Truth, ValuesOf, Least, Greatest
<1> QED BY <1>3, TypesAssumption, CanonicalWord DEF Truth

\* What C's division and remainder are made of.
LEMMA QuotientParts ==
  ASSUME NEW a \in Int, NEW b \in Int, b # 0
  PROVE  \E m \in Nat : \E n \in Nat \ {0} : \E d \in Nat : \E r \in Nat :
           /\ Size(a) = m /\ Size(b) = n
           /\ m \div n = d /\ m % n = r /\ r <= m
           /\ Quotient(a, b) = IF (a < 0) # (b < 0) THEN -d ELSE d
           /\ a - Quotient(a, b) * b = IF a < 0 THEN -r ELSE r
<1>1. PICK m \in Nat, n \in Nat \ {0} :
        /\ Size(a) = m /\ a = (IF a < 0 THEN -m ELSE m)
        /\ Size(b) = n /\ b = (IF b < 0 THEN -n ELSE n)
  <2>1. Size(a) \in Nat /\ Size(b) \in Nat \ {0}
    BY DEF Size
  <2> QED BY <2>1 DEF Size
<1>2. PICK d \in Nat, r \in Nat : m \div n = d /\ m % n = r /\ m = d * n + r
  <2>1. m \div n \in Nat /\ m % n \in 0..(n - 1) /\ m = (m \div n) * n + (m % n)
    BY Cut
  <2> QED BY <2>1
<1>3. r <= m
  <2>1. d * n >= 0
    OBVIOUS
  <2> QED BY <1>2, <2>1
<1>4. Quotient(a, b) = IF (a < 0) # (b < 0) THEN -d ELSE d
  BY <1>1, <1>2 DEF Quotient
<1>5. a - Quotient(a, b) * b = IF a < 0 THEN -r ELSE r
  <2>1. (-d) * (-n) = d * n /\ d * (-n) = -(d * n) /\ (-d) * n = -(d * n)
    OBVIOUS
  <2>2. CASE a < 0 /\ b < 0
    <3>1. Quotient(a, b) = d /\ a = -m /\ b = -n
      BY <1>1, <1>4, <2>2
    <3> QED BY <1>2, <2>1, <2>2, <3>1
  <2>3. CASE a < 0 /\ ~(b < 0)
    <3>1. Quotient(a, b) = -d /\ a = -m /\ b = n
      BY <1>1, <1>4, <2>3
    <3> QED BY <1>2, <2>1, <2>3, <3>1
  <2>4. CASE ~(a < 0) /\ b < 0
    <3>1. Quotient(a, b) = -d /\ a = m /\ b = -n
      BY <1>1, <1>4, <2>4
    <3> QED BY <1>2, <2>1, <2>4, <3>1
  <2>5. CASE ~(a < 0) /\ ~(b < 0)
    <3>1. Quotient(a, b) = d /\ a = m /\ b = n
      BY <1>1, <1>4, <2>5
    <3> QED BY <1>2, <2>1, <2>5, <3>1
  <2> QED BY <2>2, <2>3, <2>4, <2>5
<1> QED BY <1>1, <1>2, <1>3, <1>4, <1>5

\* The absolute value of a canonical word.
LEMMA AbsIs ==
  ASSUME NEW t \in Types, t.signed, NEW c \in ValuesOf(t)
  PROVE  Abs(Wrap(c)) = Size(c) /\ Size(c) \in Word
<1>1. /\ c \in Int /\ c < Modulus /\ -c < Modulus
      /\ c >= 0 => Wrap(c) = c
      /\ Negative(Wrap(c)) <=> c < 0
  BY CanonicalWord
<1>2. Size(c) \in Word
  BY <1>1, ModulusIsPositive DEF Size, Word
<1>3. CASE c < 0
  <2>1. Wrap(-Wrap(c)) = Wrap(-c) /\ Size(c) = -c
    BY <1>1, <1>3, WrapArithmetic DEF Size
  <2> QED BY <1>1, <1>2, <1>3, <2>1, WrapOfWord DEF Abs
<1>4. CASE c >= 0
  BY <1>1, <1>2, <1>4 DEF Abs, Size
<1> QED BY <1>1, <1>2, <1>3, <1>4

\* The signed helpers divide towards zero, and the quotient that overflows is
\* the one C leaves undefined.
LEMMA SignedDivision ==
  ASSUME NEW t \in Types, t.signed, NEW a \in ValuesOf(t), NEW b \in ValuesOf(t),
         b # 0, Quotient(a, b) \in ValuesOf(t)
  PROVE  /\ IDiv(Wrap(a), Wrap(b), t.bits) = Wrap(Quotient(a, b))
         /\ IRem(Wrap(a), Wrap(b), t.bits) = Wrap(a - Quotient(a, b) * b)
         /\ a - Quotient(a, b) * b \in ValuesOf(t)
<1>1. a \in Int /\ b \in Int
  BY ValueIsInt
<1>2. PICK m \in Nat, n \in Nat \ {0}, d \in Nat, r \in Nat :
        /\ Size(a) = m /\ Size(b) = n
        /\ m \div n = d /\ m % n = r /\ r <= m
        /\ Quotient(a, b) = IF (a < 0) # (b < 0) THEN -d ELSE d
        /\ a - Quotient(a, b) * b = IF a < 0 THEN -r ELSE r
  BY <1>1, QuotientParts
<1>3. PICK h \in Nat \ {0} : /\ Pow[t.bits - 1] = h
                            /\ \A c \in Int : c \in ValuesOf(t) <=> c \in (-h)..(h - 1)
  BY TypePowers DEF ValuesOf, Least, Greatest
<1>4. Abs(Wrap(a)) = m /\ Abs(Wrap(b)) = n
  BY <1>2, AbsIs
<1>5. UDiv(m, n) = d /\ URem(m, n) = r
  BY <1>2 DEF UDiv, URem
<1>6. /\ Negative(Wrap(a)) <=> a < 0
      /\ Negative(Wrap(b)) <=> b < 0
      /\ Negative(Wrap(a)) \in BOOLEAN /\ Negative(Wrap(b)) \in BOOLEAN
  BY CanonicalWord DEF Negative
<1>7. Wrap(b) # 0
  <2>1. 0 \in ValuesOf(t) /\ Wrap(0) = 0
    BY <1>3, CanonicalWord
  <2> QED BY <2>1, WrapIsInjective
<1>8. ~(Wrap(a) = IntMin(t.bits) /\ Wrap(b) = MinusOne)
  <2>1. -h \in ValuesOf(t) /\ -1 \in ValuesOf(t)
    BY <1>3
  <2>2. IntMin(t.bits) = Wrap(-h) /\ MinusOne = Wrap(-1)
    <3>1. Wrap(-1) = -1 + Modulus /\ Modulus \in Int
      BY <2>1, CanonicalWord, ModulusIsPositive
    <3> QED BY <1>3, <3>1 DEF IntMin, MinusOne
  <2>3. SUFFICES ASSUME a = -h, b = -1 PROVE FALSE
    BY <2>1, <2>2, WrapIsInjective
  <2>4. m = h /\ n = 1
    BY <1>2, <2>3 DEF Size
  <2>5. d = h
    BY <1>2, <2>4
  <2>6. Quotient(a, b) = h
    BY <1>2, <2>3, <2>5
  <2> QED BY <1>3, <2>6
<1>9. a - Quotient(a, b) * b \in ValuesOf(t)
  <2>1. CASE a < 0
    <3>1. -r \in (-h)..(h - 1)
      BY <1>1, <1>2, <1>3, <2>1 DEF Size
    <3> QED BY <1>2, <1>3, <2>1, <3>1
  <2>2. CASE a >= 0
    <3>1. r \in (-h)..(h - 1)
      BY <1>1, <1>2, <1>3, <2>2 DEF Size
    <3> QED BY <1>1, <1>2, <1>3, <2>2, <3>1
  <2> QED BY <1>1, <2>1, <2>2
<1>10. IDiv(Wrap(a), Wrap(b), t.bits) = Wrap(Quotient(a, b))
  <2>1. CASE Negative(Wrap(a)) # Negative(Wrap(b))
    <3>1. IDiv(Wrap(a), Wrap(b), t.bits) = Wrap(-d)
      BY <1>4, <1>5, <1>7, <1>8, <2>1 DEF IDiv, QuotientSign, WithSign
    <3>2. (a < 0) # (b < 0)
      BY <1>6, <2>1
    <3>3. Quotient(a, b) = -d
      BY <1>2, <3>2
    <3> QED BY <3>1, <3>3
  <2>2. CASE Negative(Wrap(a)) = Negative(Wrap(b))
    <3>1. IDiv(Wrap(a), Wrap(b), t.bits) = d
      BY <1>4, <1>5, <1>7, <1>8, <2>2 DEF IDiv, QuotientSign, WithSign
    <3>2. ~((a < 0) # (b < 0))
      BY <1>6, <2>2
    <3>3. Quotient(a, b) = d
      BY <1>2, <3>2
    <3>4. Wrap(Quotient(a, b)) = Quotient(a, b)
      BY <3>3, CanonicalWord
    <3> QED BY <3>1, <3>3, <3>4
  <2> QED BY <2>1, <2>2
<1>11. IRem(Wrap(a), Wrap(b), t.bits) = Wrap(a - Quotient(a, b) * b)
  <2>1. CASE a < 0
    <3>1. IRem(Wrap(a), Wrap(b), t.bits) = Wrap(-r)
      BY <1>4, <1>5, <1>6, <1>7, <1>8, <2>1 DEF IRem, WithSign
    <3> QED BY <1>2, <2>1, <3>1
  <2>2. CASE ~(a < 0)
    <3>1. IRem(Wrap(a), Wrap(b), t.bits) = r
      BY <1>4, <1>5, <1>6, <1>7, <1>8, <2>2 DEF IRem, WithSign
    <3>2. a - Quotient(a, b) * b = r
      BY <1>2, <2>2
    <3>3. Wrap(r) = r
      BY <1>9, <3>2, CanonicalWord
    <3> QED BY <3>1, <3>2, <3>3
  <2> QED BY <2>1, <2>2
<1> QED BY <1>9, <1>10, <1>11

LEMMA UnsignedDivision ==
  ASSUME NEW t \in Types, ~t.signed, NEW a \in ValuesOf(t), NEW b \in ValuesOf(t), b # 0
  PROVE  /\ Quotient(a, b) \in ValuesOf(t) /\ a - Quotient(a, b) * b \in ValuesOf(t)
         /\ UDiv(Wrap(a), Wrap(b)) = Wrap(Quotient(a, b))
         /\ URem(Wrap(a), Wrap(b)) = Wrap(a - Quotient(a, b) * b)
<1>1. a \in Nat /\ Wrap(a) = a /\ b \in Nat \ {0} /\ Wrap(b) = b
  BY UnsignedWord
<1>2. PICK d \in Nat, r \in Nat :
        /\ a \div b = d /\ a % b = r /\ r <= a
        /\ Quotient(a, b) = d /\ a - Quotient(a, b) * b = r
  <2>1. Size(a) = a /\ Size(b) = b /\ ~(a < 0) /\ ~(b < 0)
    BY <1>1 DEF Size
  <2>2. PICK m \in Nat, n \in Nat \ {0}, d \in Nat, r \in Nat :
          /\ Size(a) = m /\ Size(b) = n
          /\ m \div n = d /\ m % n = r /\ r <= m
          /\ Quotient(a, b) = IF (a < 0) # (b < 0) THEN -d ELSE d
          /\ a - Quotient(a, b) * b = IF a < 0 THEN -r ELSE r
    <3>1. a \in Int /\ b \in Int /\ b # 0
      BY <1>1
    <3> QED BY <3>1, QuotientParts
  <2>3. (a < 0) = (b < 0)
    BY <2>1
  <2>4. Quotient(a, b) = d /\ a - Quotient(a, b) * b = r
    BY <2>1, <2>2, <2>3
  <2> QED BY <2>1, <2>2, <2>4
<1>3. d <= a
  <2>1. a = d * b + r
    BY <1>1, <1>2, Cut
  <2>2. d * b = d + d * (b - 1) /\ d * (b - 1) >= 0
    BY <1>1
  <2> QED BY <1>1, <2>1, <2>2
<1>4. d \in ValuesOf(t) /\ r \in ValuesOf(t)
  BY <1>1, <1>2, <1>3, TypePowers DEF ValuesOf, Least, Greatest
<1>5. Wrap(d) = d /\ Wrap(r) = r
  BY <1>4, UnsignedWord
<1> QED BY <1>1, <1>2, <1>4, <1>5 DEF UDiv, URem

\* Above its sign bit a canonical word of a signed type has equal bits.
LEMMA EqualBits ==
  ASSUME NEW t \in Types, t.signed, NEW c \in ValuesOf(t)
  PROVE  \E p \in {0, 1} :
           Wrap(c) \div Pow[t.bits - 1] = p * Ones(WordBits - (t.bits - 1))
<1>1. PICK h \in Nat \ {0}, k \in Nat \ {0} :
        /\ Pow[t.bits - 1] = h /\ Pow[WordBits - t.bits] = k /\ Modulus = k * (2 * h)
  BY TypePowers
<1>2. Ones(WordBits - (t.bits - 1)) = 2 * k - 1
  <2>1. t.bits \in 1..WordBits
    BY TypePowers
  <2>2. WordBits - t.bits \in 0..(WordBits - 1)
    BY <2>1, WordBitsAssumption
  <2>3. (WordBits - t.bits) + 1 = WordBits - (t.bits - 1)
    BY <2>1, WordBitsAssumption
  <2>4. Pow[(WordBits - t.bits) + 1] = 2 * Pow[WordBits - t.bits]
    BY <2>2, Doubles
  <2> QED BY <1>1, <2>3, <2>4 DEF Ones
<1>3. c \in Int /\ c \in (-h)..(h - 1)
  BY <1>1 DEF ValuesOf, Least, Greatest
<1>4. CASE c >= 0
  <2>1. Wrap(c) = 0 * h + c /\ c \in 0..(h - 1) /\ Wrap(c) \in Int
    BY <1>3, <1>4, CanonicalWord
  <2>2. Wrap(c) \div h = 0
    BY <2>1, CutUnique
  <2>3. 0 = 0 * (2 * k - 1)
    OBVIOUS
  <2> QED BY <1>1, <1>2, <2>2, <2>3
<1>5. CASE c < 0
  <2>1. Wrap(c) = (2 * k - 1) * h + (c + h)
    <3>1. (2 * k - 1) * h + h = k * (2 * h)
      OBVIOUS
    <3> QED BY <1>1, <1>3, <1>5, <3>1, CanonicalWord
  <2>2. c + h \in 0..(h - 1) /\ Wrap(c) \in Int /\ 2 * k - 1 \in Int
    BY <1>3, <1>5, <2>1
  <2>3. Wrap(c) \div h = 2 * k - 1
    <3>1. PICK w \in Int, m \in Int, r \in 0..(h - 1) :
            w = Wrap(c) /\ m = 2 * k - 1 /\ r = c + h /\ w = m * h + r
      BY <2>1, <2>2
    <3>2. w \div h = m
      BY <3>1, CutUnique
    <3> QED BY <3>1, <3>2
  <2>4. 2 * k - 1 = 1 * (2 * k - 1)
    OBVIOUS
  <2> QED BY <1>1, <1>2, <2>3, <2>4
<1> QED BY <1>3, <1>4, <1>5

\* and a word with equal bits there is canonical.
LEMMA EqualBitsAreCanonical ==
  ASSUME NEW t \in Types, t.signed, NEW w \in Word, NEW p \in {0, 1},
         w \div Pow[t.bits - 1] = p * Ones(WordBits - (t.bits - 1))
  PROVE  Wrap(OfBits(t, w)) = w
<1>1. PICK h \in Nat \ {0}, k \in Nat \ {0} :
        /\ Pow[t.bits - 1] = h /\ Pow[t.bits] = 2 * h
        /\ Pow[WordBits - t.bits] = k /\ Modulus = k * (2 * h)
  BY TypePowers
<1>2. Ones(WordBits - (t.bits - 1)) = 2 * k - 1
  <2>1. t.bits \in 1..WordBits
    BY TypePowers
  <2>2. WordBits - t.bits \in 0..(WordBits - 1)
    BY <2>1, WordBitsAssumption
  <2>3. (WordBits - t.bits) + 1 = WordBits - (t.bits - 1)
    BY <2>1, WordBitsAssumption
  <2>4. Pow[(WordBits - t.bits) + 1] = 2 * Pow[WordBits - t.bits]
    BY <2>2, Doubles
  <2> QED BY <1>1, <2>3, <2>4 DEF Ones
<1>3. w \in Nat /\ w \in Int
  BY WordIsNat
<1>4. PICK r \in 0..(h - 1) : w = (w \div h) * h + r
  BY <1>3, CutInt
<1>5. CASE p = 0
  <2>1. w = r
    <3>1. w \div h = 0
      BY <1>1, <1>2, <1>5
    <3> QED BY <1>4, <3>1
  <2>2. w \in ValuesOf(t)
    BY <1>1, <1>4, <2>1 DEF ValuesOf, Least, Greatest
  <2> QED BY <2>2, OfBitsOfValue, WrapOfWord
<1>6. CASE p = 1
  <2>1. w = (2 * k - 1) * h + r
    <3>1. w \div h = 2 * k - 1
      BY <1>1, <1>2, <1>6
    <3> QED BY <1>4, <3>1
  <2>2. w = (r - h) + k * (2 * h) /\ r - h \in (-h)..(h - 1)
    <3>1. (2 * k - 1) * h = k * (2 * h) - h
      OBVIOUS
    <3> QED BY <1>4, <2>1, <3>1
  <2>3. r - h \in ValuesOf(t)
    BY <1>1, <2>2 DEF ValuesOf, Least, Greatest
  <2>4. OfBits(t, w) = r - h
    BY <1>1, <2>2, <2>3, OfBitsUnique
  <2>5. r - h = w - Modulus
    BY <1>1, <1>3, <2>2, ModulusIsPositive
  <2> QED BY <2>4, <2>5, WrapOfWord
<1> QED BY <1>5, <1>6

\* An operation that works bit by bit keeps equal bits equal.
LEMMA BitwiseIs ==
  ASSUME UnsignedFillWords, NEW t \in Types, t.bits >= IntType.bits,
         NEW f, NEW table \in [0..2 -> {0, 1}], BitByBit(f, table),
         NEW a \in ValuesOf(t), NEW b \in ValuesOf(t)
  PROVE  /\ OfBits(t, f[Wrap(a)][Wrap(b)]) \in ValuesOf(t)
         /\ Wrap(OfBits(t, f[Wrap(a)][Wrap(b)])) = f[Wrap(a)][Wrap(b)]
<1>1. Wrap(a) \in Word /\ Wrap(b) \in Word
  BY CanonicalWord
<1>2. PICK z \in Word : f[Wrap(a)][Wrap(b)] = z
  BY <1>1 DEF BitByBit
<1>3. OfBits(t, z) \in ValuesOf(t)
  BY WordIsNat, OfBitsAgrees
<1>4. CASE t.signed
  <2>1. PICK p \in {0, 1} : Wrap(a) \div Pow[t.bits - 1] = p * Ones(WordBits - (t.bits - 1))
    BY <1>4, EqualBits
  <2>2. PICK q \in {0, 1} : Wrap(b) \div Pow[t.bits - 1] = q * Ones(WordBits - (t.bits - 1))
    BY <1>4, EqualBits
  <2>3. t.bits - 1 \in 0..WordBits /\ WordBits - (t.bits - 1) \in 0..WordBits
    BY TypePowers, WordBitsAssumption
  <2>4. z \div Pow[t.bits - 1] =
          f[Wrap(a) \div Pow[t.bits - 1]][Wrap(b) \div Pow[t.bits - 1]]
    BY <1>1, <1>2, <2>3 DEF BitByBit
  <2>5. f[p * Ones(WordBits - (t.bits - 1))][q * Ones(WordBits - (t.bits - 1))]
          = table[p + q] * Ones(WordBits - (t.bits - 1))
    BY <2>3 DEF BitByBit
  <2>6. table[p + q] \in {0, 1}
    BY <2>1, <2>2
  <2>7. z \div Pow[t.bits - 1] = table[p + q] * Ones(WordBits - (t.bits - 1))
    BY <2>1, <2>2, <2>4, <2>5
  <2>8. Wrap(OfBits(t, z)) = z
    BY <1>4, <2>6, <2>7, EqualBitsAreCanonical
  <2> QED BY <1>2, <1>3, <2>8
<1>5. CASE ~t.signed
  <2>1. t.bits = WordBits
    BY <1>5 DEF UnsignedFillWords
  <2>2. OfBits(t, z) = Wrap(z)
    BY <1>5, <2>1 DEF OfBits, Wrap, Modulus
  <2> QED BY <1>2, <1>3, <2>2, WrapOfWord
<1> QED BY <1>4, <1>5

\* ~ takes the word from the largest one.
LEMMA ComplementIs ==
  ASSUME UnsignedFillWords, NEW t \in Types, t.bits >= IntType.bits,
         NEW c \in ValuesOf(t)
  PROVE  /\ OfBits(t, MinusOne - Wrap(c)) \in ValuesOf(t)
         /\ Wrap(OfBits(t, MinusOne - Wrap(c))) = MinusOne - Wrap(c)
<1>1. PICK m \in Nat \ {0} : Modulus = m
  BY ModulusIsPositive
<1>2. PICK w \in 0..(m - 1) : Wrap(c) = w
  BY <1>1, CanonicalWord DEF Word
<1>3. PICK z \in Word : MinusOne - Wrap(c) = z /\ z \in Int /\ z = m - 1 - w
  BY <1>1, <1>2 DEF MinusOne, Word
<1>4. OfBits(t, z) \in ValuesOf(t)
  BY <1>3, OfBitsAgrees
<1>5. CASE t.signed
  <2>1. -1 - c \in ValuesOf(t)
    BY <1>5, TypePowers DEF ValuesOf, Least, Greatest
  <2>2. z = IF c < 0 THEN -1 - c ELSE (-1 - c) + Modulus
    BY <1>1, <1>2, <1>3, CanonicalWord
  <2>3. Wrap(-1 - c) = z
    BY <1>1, <2>1, <2>2, CanonicalWord
  <2>4. OfBits(t, z) = -1 - c
    BY <2>1, <2>3, OfBitsOfValue
  <2> QED BY <1>3, <2>1, <2>3, <2>4
<1>6. CASE ~t.signed
  <2>1. t.bits = WordBits
    BY <1>6 DEF UnsignedFillWords
  <2>2. OfBits(t, z) = Wrap(z)
    BY <1>6, <2>1 DEF OfBits, Wrap, Modulus
  <2> QED BY <1>3, <1>4, <2>2, WrapOfWord
<1> QED BY <1>5, <1>6

\* Shifting a value right leaves a value of the type, of the same sign.
LEMMA ShiftedValue ==
  ASSUME NEW t \in Types, NEW c \in ValuesOf(t), NEW p \in Nat \ {0}
  PROVE  \E q \in Int : \E r \in 0..(p - 1) :
           /\ c \div p = q /\ c = q * p + r /\ q \in ValuesOf(t)
           /\ q >= 0 <=> c >= 0
<1>1. c \in Int
  BY ValueIsInt
<1>2. PICK q \in Int, r \in 0..(p - 1) : c \div p = q /\ c = q * p + r
  BY <1>1, CutInt
<1>3. CASE c >= 0
  <2>1. q >= 0
    <3>1. CASE q < 0
      <4>1. q * p = -p + (q + 1) * p /\ (q + 1) * p <= 0
        BY <3>1
      <4> QED BY <1>2, <1>3, <4>1
    <3> QED BY <3>1
  <2>2. q <= c
    <3>1. q * p = q + q * (p - 1) /\ q * (p - 1) >= 0
      BY <2>1
    <3> QED BY <1>2, <3>1
  <2>3. q \in ValuesOf(t)
    BY <1>2, <1>3, <2>1, <2>2, TypePowers DEF ValuesOf, Least, Greatest
  <2> QED BY <1>2, <1>3, <2>1, <2>3
<1>4. CASE c < 0
  <2>1. q < 0
    <3>1. q >= 0 => q * p >= 0
      OBVIOUS
    <3> QED BY <1>1, <1>2, <1>4, <3>1
  <2>2. q >= c
    <3>1. q < c => (c - 1 - q) * p >= 0
      BY <1>1
    <3>2. (c - 1 - q) * p = c * p - p - q * p
      BY <1>1
    <3>3. c * p = c + c * (p - 1) /\ c * (p - 1) <= 0
      BY <1>1, <1>4
    <3> QED BY <1>1, <1>2, <3>1, <3>2, <3>3
  <2>3. q \in ValuesOf(t)
    BY <1>1, <1>2, <1>4, <2>1, <2>2, TypePowers DEF ValuesOf, Least, Greatest
  <2> QED BY <1>2, <1>4, <2>1, <2>3
<1> QED BY <1>1, <1>3, <1>4

\* The arithmetic shift fills the word from above with the sign, when it is
\* a shift at all.
LEMMA SarIs ==
  ASSUME NEW t \in Types, t.signed, NEW c \in ValuesOf(t),
         NEW n \in 1..(WordBits - 1), NEW w \in Sar(Wrap(c), n)
  PROVE  c \div Pow[n] \in ValuesOf(t) /\ w = Wrap(c \div Pow[n])
<1>1. n \in 0..WordBits /\ WordBits - n \in 0..WordBits /\ WordBits - n < WordBits
      /\ n \in 0..(WordBits - 0)
  BY WordBitsAssumption
<1>2. PICK p \in Nat \ {0}, k \in Nat \ {0} :
        Pow[n] = p /\ Pow[WordBits - n] = k /\ Modulus = p * k
  <2>1. WordBits - n \in 0..(WordBits - n) /\ n + (WordBits - n) = WordBits
    BY WordBitsAssumption
  <2>2. Pow[n + (WordBits - n)] = Pow[n] * Pow[WordBits - n]
    BY <1>1, <2>1, PowerSumAssumption
  <2> QED BY <1>1, <2>1, <2>2, Powers DEF Modulus
<1>3. PICK q \in Int, r \in 0..(p - 1) :
        /\ c \div p = q /\ c = q * p + r /\ q \in ValuesOf(t)
        /\ q >= 0 <=> c >= 0
  BY ShiftedValue
<1>4. \A a \in 0..(k - 1) : \A b \in Word : b % k = 0 => BitOr[a][b] = a + b
  BY <1>1, <1>2, OrAssumption DEF Ones
<1>5. c \in Int /\ Modulus \in Nat \ {0} /\ Wrap(c) \in Word
      /\ (Negative(Wrap(c)) <=> c < 0)
  BY CanonicalWord, ModulusIsPositive
<1>6. CASE c >= 0
  <2>1. Wrap(c) = c /\ c < Modulus
    BY <1>6, CanonicalWord
  <2>2. w = BitOr[c \div p][Wrap(0 * k)]
    BY <1>1, <1>2, <1>5, <1>6, <2>1 DEF Sar, Shifted
  <2>3. Wrap(0 * k) = 0 /\ 0 \in Word
    <3>1. 0 \in Word /\ 0 * k = 0
      BY <1>5 DEF Word
    <3> QED BY <3>1, WrapOfWord
  <2>4. q \in 0..(k - 1)
    <3>1. q >= k => (q - k) * p >= 0
      OBVIOUS
    <3>2. (q - k) * p = q * p - p * k
      OBVIOUS
    <3> QED BY <1>2, <1>3, <1>6, <2>1, <3>1, <3>2
  <2>5. 0 % k = 0
    <3>1. 0 = 0 * k + 0 /\ 0 \in 0..(k - 1) /\ 0 \in Int
      OBVIOUS
    <3> QED BY <3>1, CutUnique
  <2>6. w = q
    BY <1>3, <1>4, <2>2, <2>3, <2>4, <2>5
  <2>7. Wrap(q) = q
    BY <1>3, <1>6, CanonicalWord
  <2> QED BY <1>2, <1>3, <2>6, <2>7
<1>7. CASE c < 0
  <2>1. Wrap(c) = c + Modulus /\ Wrap(c) \in Nat
    BY <1>5, <1>7, CanonicalWord, WordIsNat
  <2>2. w = BitOr[Wrap(c) \div p][Wrap((Modulus - 1) * k)]
    BY <1>1, <1>2, <1>5, <1>7 DEF Sar, Shifted, MinusOne
  <2>3. Wrap(c) \div p = q + k /\ q + k \in 0..(k - 1)
    <3>1. Wrap(c) = (q + k) * p + r
      <4>1. (q + k) * p = q * p + p * k
        OBVIOUS
      <4> QED BY <1>2, <1>3, <2>1, <4>1
    <3>2. Wrap(c) \div p = q + k
      <4>1. q + k \in Int /\ Wrap(c) \in Int
        BY <2>1
      <4> QED BY <3>1, <4>1, CutUnique
    <3>3. q + k >= 0
      BY <2>1, <3>2, Cut
    <3> QED BY <1>3, <1>7, <3>2, <3>3
  <2>4. Modulus - k = (p - 1) * k + 0 /\ Modulus - k \in Word
    <3>1. (p - 1) * k = p * k - k /\ (p - 1) * k >= 0
      OBVIOUS
    <3> QED BY <1>2, <1>5, <3>1 DEF Word
  <2>5. Wrap((Modulus - 1) * k) = Modulus - k
    <3>1. (Modulus - 1) * k = (k - 1) * Modulus + (Modulus - k)
      BY <1>5
    <3>2. Wrap((k - 1) * Modulus + (Modulus - k)) = Modulus - k
      <4>1. k - 1 \in Int
        OBVIOUS
      <4> QED BY <2>4, <4>1, WrapUnique
    <3> QED BY <3>1, <3>2
  <2>6. (Modulus - k) % k = 0
    <3>1. p - 1 \in Int /\ 0 \in 0..(k - 1) /\ Modulus - k \in Int
      BY <1>5
    <3> QED BY <2>4, <3>1, CutUnique
  <2>7. w = (q + k) + (Modulus - k)
    BY <1>4, <2>2, <2>3, <2>4, <2>5, <2>6
  <2>8. Wrap(q) = q + Modulus
    BY <1>3, <1>7, CanonicalWord
  <2> QED BY <1>2, <1>3, <1>5, <2>7, <2>8
<1> QED BY <1>5, <1>6, <1>7

\* An unsigned value is its own word, and so is what a right shift makes of it.
LEMMA UnsignedShift ==
  ASSUME NEW t \in Types, ~t.signed, NEW c \in ValuesOf(t), NEW n \in 0..WordBits
  PROVE  /\ c \div Pow[n] \in ValuesOf(t)
         /\ Wrap(c) \div Pow[n] = Wrap(c \div Pow[n])
<1>1. PICK p \in Nat \ {0} : Pow[n] = p
  BY Powers
<1>2. c \div p \in ValuesOf(t)
  BY ShiftedValue
<1>3. Wrap(c) = c /\ Wrap(c \div p) = c \div p
  BY <1>2, UnsignedWord
<1> QED BY <1>1, <1>2, <1>3

-----------------------------------------------------------------------------
(* The emitted code.                                                       *)

LEMMA InitCanonical == Init => IInv
BY DEF Init, IInv, Canonical, Represent, Value

\* A step that gives x a value in its canonical form keeps the invariant.
LEMMA Becoming ==
  ASSUME IInv, NEW t \in Types, NEW c \in ValuesOf(t), Becomes(t, c, Wrap(c))
  PROVE  IInv'
BY DEF IInv, Canonical, Becomes, Represent, Value

\* What the invariant says of the operands.
LEMMA OperandsAre ==
  ASSUME IInv
  PROVE  /\ x.type \in Types /\ x.c \in ValuesOf(x.type) /\ x.word = Wrap(x.c)
         /\ y.type \in Types /\ y.c \in ValuesOf(y.type) /\ y.word = Wrap(y.c)
         /\ x = Value(x.type, x.c, Wrap(x.c))
BY DEF IInv, Canonical, Represent, Value

LEMMA ReadKeeps == IInv /\ Read => IInv'
<1> SUFFICES ASSUME IInv, Read PROVE IInv'
  OBVIOUS
<1>1. Trunc(x.type, SignExtend(x.word, x.type.bits)) = Wrap(x.c)
  BY OperandsAre, ReadIs
<1>2. Becomes(x.type, x.c, Wrap(x.c))
  BY <1>1, OperandsAre DEF Read, Becomes, Value
<1> QED BY <1>2, OperandsAre, Becoming

LEMMA MemberKeeps == IInv /\ ThroughMember => IInv'
<1> SUFFICES ASSUME IInv, ThroughMember PROVE IInv'
  OBVIOUS
<1>1. IF x.type.signed
        THEN SignExtend(x.word % Pow[x.type.bits], x.type.bits) = Wrap(x.c)
        ELSE x.word % Pow[x.type.bits] = Wrap(x.c)
  BY OperandsAre, MemberIs
<1>2. Becomes(x.type, x.c, Wrap(x.c))
  BY <1>1, OperandsAre DEF ThroughMember, Becomes, Value
<1> QED BY <1>2, OperandsAre, Becoming

LEMMA CastKeeps == IInv /\ Cast => IInv'
<1> SUFFICES ASSUME IInv, Cast PROVE IInv'
  OBVIOUS
<1>1. PICK t \in Types :
        Becomes(t, OfBits(t, Wrap(x.c)),
                IF t.bits = WordBits THEN x.word ELSE Trunc(t, x.word))
  BY DEF Cast, Becomes
<1>2. Wrap(x.c) \in Word /\ x.word = Wrap(x.c)
  BY OperandsAre, CanonicalWord
<1>3. /\ OfBits(t, Wrap(x.c)) \in ValuesOf(t)
      /\ Becomes(t, OfBits(t, Wrap(x.c)), Wrap(OfBits(t, Wrap(x.c))))
  BY <1>1, <1>2, CastIs
<1> QED BY <1>3, Becoming

LEMMA DivideKeeps == IInv /\ Divide => IInv'
<1> SUFFICES ASSUME IInv, Divide PROVE IInv'
  OBVIOUS
<1> DEFINE t == x.type
           q == Quotient(x.c, y.c)
           r == x.c - q * y.c
<1>1. /\ t \in Types /\ x.c \in ValuesOf(t) /\ y.c \in ValuesOf(t) /\ y.c # 0
      /\ x.word = Wrap(x.c) /\ y.word = Wrap(y.c) /\ t.signed \in BOOLEAN
      /\ Defined(t, q)
  BY OperandsAre, TypePowers DEF Divide, Operands
<1>2. CASE t.signed
  <2>1. /\ q \in ValuesOf(t) /\ r \in ValuesOf(t)
        /\ IDiv(x.word, y.word, t.bits) = Wrap(q) /\ IRem(x.word, y.word, t.bits) = Wrap(r)
    <3>1. Quotient(x.c, y.c) \in ValuesOf(t)
      BY <1>1, <1>2 DEF Defined
    <3> QED BY <1>1, <1>2, <3>1, SignedDivision
  <2>2. Becomes(t, q, Wrap(q)) \/ Becomes(t, r, Wrap(r))
    BY <1>2, <2>1 DEF Divide
  <2> QED BY <1>1, <2>1, <2>2, Becoming
<1>3. CASE ~t.signed
  <2>1. /\ q \in ValuesOf(t) /\ r \in ValuesOf(t)
        /\ UDiv(x.word, y.word) = Wrap(q) /\ URem(x.word, y.word) = Wrap(r)
    BY <1>1, <1>3, UnsignedDivision
  <2>2. Becomes(t, q, Wrap(q)) \/ Becomes(t, r, Wrap(r))
    BY <1>3, <2>1 DEF Divide
  <2> QED BY <1>1, <2>1, <2>2, Becoming
<1> QED BY <1>1, <1>2, <1>3

LEMMA CompareKeeps == IInv /\ Compare => IInv'
<1> SUFFICES ASSUME IInv, Compare PROVE IInv'
  OBVIOUS
<1> DEFINE t == x.type
           a == x.c
           b == y.c
<1>1. /\ t \in Types /\ a \in ValuesOf(t) /\ b \in ValuesOf(t)
      /\ x.word = Wrap(a) /\ y.word = Wrap(b) /\ t.signed \in BOOLEAN
      /\ a \in Int /\ b \in Int
  BY OperandsAre, TypePowers, ValueIsInt DEF Compare, Operands
<1>2. /\ a < b  <=> IF t.signed THEN Lt(x.word, y.word)  ELSE x.word < y.word
      /\ a <= b <=> IF t.signed THEN Lte(x.word, y.word) ELSE x.word <= y.word
      /\ a > b  <=> IF t.signed THEN Gt(x.word, y.word)  ELSE x.word > y.word
      /\ a >= b <=> IF t.signed THEN Gte(x.word, y.word) ELSE x.word >= y.word
  <2>1. CASE t.signed
    BY <1>1, <2>1, SignedOrder
  <2>2. CASE ~t.signed
    <3>1. Wrap(a) = a /\ Wrap(b) = b
      BY <1>1, <2>2, UnsignedWord
    <3> QED BY <1>1, <2>2, <3>1
  <2> QED BY <1>1, <2>1, <2>2
<1>3. /\ a = b <=> x.word = y.word
      /\ a = 0 <=> x.word = 0
  <2>1. a = b <=> x.word = y.word
    BY <1>1, WrapIsInjective
  <2>2. 0 \in ValuesOf(t) /\ Wrap(0) = 0
    <3>1. 0 \in ValuesOf(t)
      BY <1>1, TypePowers DEF ValuesOf, Least, Greatest
    <3> QED BY <1>1, <3>1, CanonicalWord
  <2>3. a = 0 <=> x.word = 0
    BY <1>1, <2>2, WrapIsInjective
  <2> QED BY <2>1, <2>3
<1>4. \E p \in BOOLEAN : Becomes(IntType, Truth(p), Truth(p))
  <2>1. ASSUME NEW p, NEW w, Becomes(IntType, Truth(p), Truth(w)), p <=> w
        PROVE  Becomes(IntType, Truth(p), Truth(p))
    BY <2>1 DEF Truth
  <2> QED BY <1>2, <1>3, <2>1 DEF Compare, Truth
<1>5. PICK p \in BOOLEAN : Becomes(IntType, Truth(p), Truth(p))
  BY <1>4
<1> QED BY <1>5, TruthIs, TypesAssumption, Becoming

LEMMA ArithmeticKeeps == UnsignedFillWords /\ IInv /\ Arithmetic => IInv'
<1> SUFFICES ASSUME UnsignedFillWords, IInv, Arithmetic PROVE IInv'
  OBVIOUS
<1> DEFINE t == x.type
<1>1. /\ t \in Types /\ t.bits >= IntType.bits /\ x.c \in Int /\ y.c \in Int
      /\ x.word = Wrap(x.c) /\ y.word = Wrap(y.c)
  BY OperandsAre, ValueIsInt DEF Arithmetic, Operands, Promoted
<1>2. PICK r \in Int, w \in Int :
        Wrap(w) = Wrap(r) /\ Defined(t, r) /\ Becomes(t, InC(t, r), Wrap(w))
  <2>1. PICK r \in {<<x.c + y.c, x.word + y.word>>, <<x.c - y.c, x.word - y.word>>,
                    <<x.c * y.c, x.word * y.word>>} :
          Defined(t, r[1]) /\ Becomes(t, InC(t, r[1]), Wrap(r[2]))
    BY DEF Arithmetic
  <2>2. x.word \in Int /\ y.word \in Int
    BY <1>1, WordIsNat
  <2>3. r[1] \in Int /\ r[2] \in Int
    BY <1>1, <2>2
  <2>4. Wrap(r[2]) = Wrap(r[1])
    <3>1. /\ Wrap(Wrap(x.c) + Wrap(y.c)) = Wrap(x.c + y.c)
          /\ Wrap(Wrap(x.c) - Wrap(y.c)) = Wrap(x.c - y.c)
          /\ Wrap(Wrap(x.c) * Wrap(y.c)) = Wrap(x.c * y.c)
      BY <1>1, WrapArithmetic, Zenon
    <3> QED BY <1>1, <2>1, <3>1
  <2> QED BY <2>1, <2>3, <2>4
<1>3. InC(t, r) \in ValuesOf(t) /\ Wrap(InC(t, r)) = Wrap(r)
  BY <1>1, <1>2, InCIs
<1> QED BY <1>1, <1>2, <1>3, Becoming

LEMMA BitwiseKeeps == UnsignedFillWords /\ IInv /\ BitwiseOp => IInv'
<1> SUFFICES ASSUME UnsignedFillWords, IInv, BitwiseOp PROVE IInv'
  OBVIOUS
<1> DEFINE t == x.type
           a == Wrap(x.c)
           b == Wrap(y.c)
<1>1. /\ t \in Types /\ t.bits >= IntType.bits
      /\ x.c \in ValuesOf(t) /\ y.c \in ValuesOf(t)
      /\ x.word = a /\ y.word = b
  BY OperandsAre DEF BitwiseOp, Operands, Promoted
<1>2. ASSUME NEW f, NEW table \in [0..2 -> {0, 1}], BitByBit(f, table),
             Becomes(t, OfBits(t, f[a][b]), f[x.word][y.word])
      PROVE  IInv'
  <2>1. OfBits(t, f[a][b]) \in ValuesOf(t) /\ Wrap(OfBits(t, f[a][b])) = f[a][b]
    BY <1>1, <1>2, BitwiseIs
  <2> QED BY <1>1, <1>2, <2>1, Becoming
<1>3. CASE Becomes(t, OfBits(t, BitAnd[a][b]), BitAnd[x.word][y.word])
  <2>1. [n \in 0..2 |-> IF n = 2 THEN 1 ELSE 0] \in [0..2 -> {0, 1}]
    OBVIOUS
  <2> QED BY <1>2, <1>3, <2>1, BitwiseAssumption
<1>4. CASE Becomes(t, OfBits(t, BitOr[a][b]), BitOr[x.word][y.word])
  <2>1. [n \in 0..2 |-> IF n = 0 THEN 0 ELSE 1] \in [0..2 -> {0, 1}]
    OBVIOUS
  <2> QED BY <1>2, <1>4, <2>1, BitwiseAssumption
<1>5. CASE Becomes(t, OfBits(t, BitXor[a][b]), BitXor[x.word][y.word])
  <2>1. [n \in 0..2 |-> n % 2] \in [0..2 -> {0, 1}]
    OBVIOUS
  <2> QED BY <1>2, <1>5, <2>1, BitwiseAssumption
<1>6. CASE Becomes(t, OfBits(t, MinusOne - a), MinusOne - x.word)
  <2>1. /\ OfBits(t, MinusOne - a) \in ValuesOf(t)
        /\ Wrap(OfBits(t, MinusOne - a)) = MinusOne - a
    BY <1>1, ComplementIs
  <2> QED BY <1>1, <1>6, <2>1, Becoming
<1> QED BY <1>3, <1>4, <1>5, <1>6 DEF BitwiseOp

LEMMA MinusKeeps == UnsignedFillWords /\ IInv /\ Minus => IInv'
<1> SUFFICES ASSUME UnsignedFillWords, IInv, Minus PROVE IInv'
  OBVIOUS
<1> DEFINE t == x.type
           r == -x.c
<1>1. /\ t \in Types /\ t.bits >= IntType.bits /\ x.c \in Int /\ r \in Int
      /\ Defined(t, r) /\ x.word = Wrap(x.c)
  BY OperandsAre, ValueIsInt DEF Minus, Promoted
<1>2. InC(t, r) \in ValuesOf(t) /\ Wrap(InC(t, r)) = Wrap(r)
  BY <1>1, InCIs
<1>3. Wrap(-x.word) = Wrap(InC(t, r))
  BY <1>1, <1>2, WrapArithmetic
<1>4. Trunc(t, Wrap(InC(t, r))) = Wrap(InC(t, r))
  <2>1. OfBits(t, Wrap(InC(t, r))) = InC(t, r) /\ Wrap(InC(t, r)) \in Word
    BY <1>1, <1>2, OfBitsOfValue, CanonicalWord
  <2> QED BY <1>1, <2>1, TruncIs
<1>5. Becomes(t, InC(t, r), Wrap(InC(t, r)))
  BY <1>3, <1>4 DEF Minus
<1> QED BY <1>1, <1>2, <1>5, Becoming

\* A shift count is its own word.
LEMMA CountIs ==
  ASSUME IInv, Count
  PROVE  /\ x.type.bits >= IntType.bits /\ x.type.bits \in 1..WordBits
         /\ y.c \in Nat /\ y.c < x.type.bits /\ y.word = y.c
<1>1. y.c \in Nat /\ y.c < x.type.bits /\ x.type.bits >= IntType.bits
  BY ShiftCountsAssumption DEF Count, Promoted
<1>2. x.type.bits \in 1..WordBits
  BY OperandsAre, TypePowers
<1>3. y.word = y.c
  <2>1. y.c >= 0 => Wrap(y.c) = y.c
    BY OperandsAre, CanonicalWord
  <2> QED BY <1>1, <2>1, OperandsAre
<1> QED BY <1>1, <1>2, <1>3

LEMMA ShiftLeftKeeps == UnsignedFillWords /\ IInv /\ ShiftLeft => IInv'
<1> SUFFICES ASSUME UnsignedFillWords, IInv, ShiftLeft PROVE IInv'
  OBVIOUS
<1>1. /\ x.type.bits >= IntType.bits /\ x.type.bits \in 1..WordBits
      /\ y.c \in Nat /\ y.c < x.type.bits /\ y.word = y.c
  BY CountIs DEF ShiftLeft
<1>2. PICK p \in Nat \ {0} : Pow[y.c] = p
  <2>1. y.c \in 0..WordBits
    BY <1>1, WordBitsAssumption
  <2> QED BY <2>1, Powers
<1> DEFINE t == x.type
           r == x.c * p
<1>3. t \in Types /\ x.c \in Int /\ r \in Int /\ x.word = Wrap(x.c) /\ Defined(t, r)
  BY <1>2, OperandsAre, ValueIsInt DEF ShiftLeft
<1>4. InC(t, r) \in ValuesOf(t) /\ Wrap(InC(t, r)) = Wrap(r)
  BY <1>1, <1>3, InCIs
<1>5. Wrap(x.word * p) = Wrap(r)
  <2>1. p \in Int
    OBVIOUS
  <2>2. Wrap(Wrap(x.c) * p) = Wrap(x.c * p)
    BY <1>3, <2>1, WrapArithmetic, Zenon
  <2> QED BY <1>3, <2>2
<1>6. Becomes(t, InC(t, r), Wrap(InC(t, r)))
  BY <1>1, <1>2, <1>4, <1>5 DEF ShiftLeft
<1> QED BY <1>3, <1>4, <1>6, Becoming

LEMMA ShiftRightKeeps == ShiftsShift /\ IInv /\ ShiftRight => IInv'
<1> SUFFICES ASSUME ShiftsShift, IInv, ShiftRight PROVE IInv'
  OBVIOUS
<1> DEFINE t == x.type
           n == y.c
<1>1. /\ t.bits \in 1..WordBits /\ n \in Nat /\ n < t.bits /\ y.word = n /\ n # 0
  BY CountIs DEF ShiftRight, Count, ShiftsShift
<1>2. /\ t \in Types /\ t.signed \in BOOLEAN
      /\ x.c \in ValuesOf(t) /\ x.word = Wrap(x.c)
  BY OperandsAre, TypePowers
<1>3. n \in 1..(WordBits - 1) /\ n \in 0..WordBits
  BY <1>1, WordBitsAssumption
<1>4. PICK w \in IF t.signed THEN Sar(x.word, n) ELSE {x.word \div Pow[n]} :
        Becomes(t, x.c \div Pow[n], w)
  BY <1>1 DEF ShiftRight
<1>5. x.c \div Pow[n] \in ValuesOf(t) /\ w = Wrap(x.c \div Pow[n])
  <2>1. CASE t.signed
    BY <1>2, <1>3, <1>4, <2>1, SarIs
  <2>2. CASE ~t.signed
    BY <1>2, <1>3, <1>4, <2>2, UnsignedShift
  <2> QED BY <1>2, <2>1, <2>2
<1> QED BY <1>2, <1>4, <1>5, Becoming

LEMMA StepCanonical == UnsignedFillWords /\ ShiftsShift /\ IInv /\ [Next]_vars => IInv'
<1> SUFFICES ASSUME UnsignedFillWords, ShiftsShift, IInv, [Next]_vars PROVE IInv'
  OBVIOUS
<1>1. CASE UNCHANGED vars
  BY <1>1 DEF IInv, Canonical, vars
<1>2. CASE Next
  BY <1>2, ReadKeeps, MemberKeeps, CastKeeps, DivideKeeps, CompareKeeps, ArithmeticKeeps,
     BitwiseKeeps, MinusKeeps, ShiftLeftKeeps, ShiftRightKeeps DEF Next
<1> QED BY <1>1, <1>2

\* Chains of emitted operations of any length compute what C computes, in the
\* canonical form of src/src/Pass_IntegerConversion.cpp:134, for every width of
\* the words, of int and of the other types, when every unsigned type that is
\* operated on is as wide as the word (the unsigned int of a 64-bit target is
\* not, and goes wrong) and no right shift is by zero.
THEOREM OperationsStayCanonical ==
  UnsignedFillWords /\ ShiftsShift /\ Spec => []Canonical
<1>1. IInv => Canonical
  BY DEF IInv
<1>2. UnsignedFillWords /\ ShiftsShift => (IInv /\ [Next]_vars => IInv')
  BY StepCanonical
<1>3. CASE UnsignedFillWords /\ ShiftsShift
  <2>1. IInv /\ [Next]_vars => IInv'
    BY <1>2, <1>3
  <2> QED BY <1>1, <2>1, InitCanonical, PTL DEF Spec
<1> QED BY <1>3
=============================================================================
