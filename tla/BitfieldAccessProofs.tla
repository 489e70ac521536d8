------------------------ MODULE BitfieldAccessProofs ------------------------
(***************************************************************************)
(* A store to a bit-field gives the field the value assigned and leaves    *)
(* the rest of the structure alone, and a read gives a value the field     *)
(* held, for every layout, every width of bytes and words and every        *)
(* interleaving with a device.                                             *)
(***************************************************************************)
EXTENDS BitfieldAccess, TLAPS

\* (value ^ sign) - sign extends a field of s bits from its top bit.
LEMMA SignExtends ==
  ASSUME NEW n \in Nat, NEW s \in 1..n, NEW w,
         \A k \in 0..(n - 1) : w[k] \in Bit,
         \A k \in s..(n - 1) : w[k] = 0
  PROVE  SignExtended(w, s, n)
           = [k \in 0..(n - 1) |-> IF k < s THEN w[k] ELSE w[s - 1]]
<1> DEFINE sign == SignBit(s, n)
           x    == [k \in 0..(n - 1) |-> Xor(w[k], sign[k])]
<1>1. \A k \in 0..(n - 1) : sign[k] = IF k = s - 1 THEN 1 ELSE 0
  BY DEF SignBit
<1>2. \A k \in 0..(n - 1) : x[k] = IF k = s - 1 THEN 1 - w[k] ELSE w[k]
  BY <1>1 DEF Xor, Bit
<1>3. SignExtended(w, s, n) = Minus(x, sign, n)
  BY DEF SignExtended
<1> HIDE DEF sign, x
<1>4. ASSUME NEW k \in 0..(n - 1), k < s
      PROVE  ~Borrow(x, sign, k)
  <2>1. \A j \in 0..(k - 1) : sign[j] = 0
    BY <1>1, <1>4
  <2>. QED  BY <2>1 DEF Borrow
<1>5. ASSUME NEW k \in 0..(n - 1), k >= s
      PROVE  Borrow(x, sign, k) <=> w[s - 1] = 1
  <2>1. \A l \in s..(k - 1) : x[l] = 0 /\ sign[l] = 0
    BY <1>1, <1>2, <1>5
  <2>2. /\ s - 1 \in 0..(k - 1) /\ s - 1 \in 0..(n - 1)
        /\ sign[s - 1] = 1 /\ x[s - 1] = 1 - w[s - 1] /\ w[s - 1] \in {0, 1}
    BY <1>1, <1>2, <1>5 DEF Bit
  <2>3. ASSUME w[s - 1] = 1 PROVE Borrow(x, sign, k)
    <3>1. \A l \in ((s - 1) + 1)..(k - 1) : x[l] = sign[l]
      BY <2>1
    <3>. QED  BY <2>2, <2>3, <3>1 DEF Borrow
  <2>4. ASSUME Borrow(x, sign, k) PROVE w[s - 1] = 1
    <3>1. PICK j \in 0..(k - 1) : sign[j] = 1 /\ x[j] = 0
      BY <2>4 DEF Borrow
    <3>2. j = s - 1
      BY <1>1, <3>1
    <3>. QED  BY <2>2, <3>1, <3>2
  <2>. QED  BY <2>3, <2>4
<1>6. ASSUME NEW k \in 0..(n - 1)
      PROVE  Minus(x, sign, n)[k] = IF k < s THEN w[k] ELSE w[s - 1]
  <2>1. Minus(x, sign, n)[k]
          = Xor(Xor(x[k], sign[k]), IF Borrow(x, sign, k) THEN 1 ELSE 0)
    BY DEF Minus
  <2>2. w[k] \in {0, 1} /\ s - 1 \in 0..(n - 1) /\ w[s - 1] \in {0, 1}
    BY DEF Bit
  <2>3. CASE k < s
    <3>1. Xor(x[k], sign[k]) = w[k]
      BY <1>1, <1>2, <2>2, <2>3 DEF Xor
    <3>. QED  BY <1>4, <2>1, <2>2, <2>3, <3>1 DEF Xor
  <2>4. CASE k >= s
    <3>1. Xor(x[k], sign[k]) = 0
      BY <1>1, <1>2, <2>4 DEF Xor
    <3>. QED  BY <1>5, <2>1, <2>2, <2>4, <3>1 DEF Xor
  <2>. QED  BY <2>3, <2>4
<1>. QED  BY <1>3, <1>6 DEF Minus

LEMMA SignExtendedType ==
  ASSUME NEW n \in Nat, NEW s, NEW w
  PROVE  SignExtended(w, s, n) \in [0..(n - 1) -> Bit]
BY DEF SignExtended, Minus, Xor, Bit

\* A cell lies in its byte.
LEMMA InByte ==
  ASSUME NEW b \in Cells
  PROVE  /\ ByteOf(b) \in Int
         /\ b - ByteOf(b) * ByteBits \in 0..(ByteBits - 1)
         /\ \A k \in 0..(ByteBits - 1) : ByteOf(b) * ByteBits + k \in Cells
<1>1. ByteBits \in Nat \ {0} /\ b \in Int
  BY SizesAssumption DEF Cells
<1>2. /\ b \div ByteBits \in Int
      /\ b % ByteBits \in 0..(ByteBits - 1)
      /\ b = ByteBits * (b \div ByteBits) + (b % ByteBits)
  BY <1>1
<1>3. ByteBits * (b \div ByteBits) = (b \div ByteBits) * ByteBits
  BY <1>1, <1>2
<1> DEFINE q == b \div ByteBits
<1>4. q >= 0
  <2> SUFFICES ASSUME q < 0 PROVE FALSE
    BY <1>2
  <2>1. (-1 - q) \in Nat /\ (-1 - q) * ByteBits >= 0
    BY <1>1, <1>2
  <2>2. (-1 - q) * ByteBits = -ByteBits - q * ByteBits
    BY <1>1, <1>2
  <2>3. b = q * ByteBits + (b % ByteBits) /\ b >= 0
    BY <1>2, <1>3 DEF Cells
  <2>. QED  BY <1>1, <1>2, <2>1, <2>2, <2>3
<1>5. q * ByteBits + ByteBits <= ObjectBytes * ByteBits /\ q * ByteBits >= 0
  <2>1. q * ByteBits < ObjectBytes * ByteBits /\ ObjectBytes \in Nat
    BY <1>1, <1>2, <1>3, SizesAssumption DEF Cells
  <2>2. CASE q < ObjectBytes
    <3>1. (ObjectBytes - 1 - q) * ByteBits >= 0
      BY <1>1, <1>2, <2>1, <2>2
    <3>2. (ObjectBytes - 1 - q) * ByteBits
            = ObjectBytes * ByteBits - ByteBits - q * ByteBits
      BY <1>1, <1>2, <2>1
    <3>. QED  BY <1>1, <1>2, <1>4, <2>1, <3>1, <3>2
  <2>3. CASE q >= ObjectBytes
    <3>1. (q - ObjectBytes) * ByteBits >= 0
      BY <1>1, <1>2, <2>1, <2>3
    <3>2. (q - ObjectBytes) * ByteBits = q * ByteBits - ObjectBytes * ByteBits
      BY <1>1, <1>2, <2>1
    <3>. QED  BY <1>1, <1>2, <2>1, <3>1, <3>2
  <2>. QED  BY <1>2, <2>1, <2>2, <2>3
<1>6. \A k \in 0..(ByteBits - 1) : q * ByteBits + k \in Cells
  <2> DEFINE low == q * ByteBits
             all == ObjectBytes * ByteBits
  <2>1. low \in Int /\ all \in Int /\ low + ByteBits <= all /\ low >= 0
    BY <1>1, <1>2, <1>5, SizesAssumption
  <2>2. Cells = 0..(all - 1)
    BY DEF Cells
  <2> HIDE DEF low, all
  <2>3. \A k \in 0..(ByteBits - 1) : low + k \in Cells
    BY <1>1, <2>1, <2>2
  <2>. QED  BY <2>3 DEF low
<1>. QED  BY <1>1, <1>2, <1>3, <1>6 DEF ByteOf

\* where a field and its unit lie
LEMMA Layout ==
  ASSUME access \in Accesses
  PROVE  /\ field \in FieldType /\ value \in Word
         /\ access.op \in {"set", "get"} /\ access.aapcs \in BOOLEAN
         /\ field.size \in 1..PointerWidth
         /\ Start(field) \in Nat /\ UnitStart \in Nat
         /\ UnitOffset \in Nat /\ UnitSize \in Nat
         /\ \A j \in 0..(field.size - 1) : Start(field) + j \in Cells
         /\ UnitStart + UnitOffset = Start(field)
         /\ UnitOffset + field.size <= UnitSize
         /\ \A k \in UnitBits : UnitStart + k \in Cells
<1>1. access \in AccessType /\ Placed(field) /\ field.size <= PointerWidth
  BY AccessAssumption DEF field
<1>2. field \in FieldType /\ value \in Word /\ access.op \in {"set", "get"}
      /\ access.aapcs \in BOOLEAN
  BY <1>1 DEF AccessType, field, value
<1> DEFINE all == ObjectBytes * ByteBits
           at  == field.storageOffset * ByteBits
           vat == field.volatileStorageOffset * ByteBits
<1>3. /\ field.size \in Nat \ {0} /\ field.offset \in Nat
      /\ field.storageSize \in Nat /\ field.storageOffset \in Nat
      /\ field.volatileOffset \in Nat /\ field.volatileStorageSize \in Nat
      /\ field.volatileStorageOffset \in Nat
      /\ PointerWidth \in Nat /\ ByteBits \in Nat /\ ObjectBytes \in Nat
  BY <1>2, SizesAssumption DEF FieldType
<1>4. all \in Nat /\ at \in Nat /\ vat \in Nat
  BY <1>3
<1>5. /\ Start(field) = at + field.offset
      /\ field.offset + field.size <= field.storageSize
      /\ at + field.storageSize <= all
      /\ field.volatileStorageSize # 0 =>
           /\ field.volatileOffset + field.size <= field.volatileStorageSize
           /\ vat + field.volatileStorageSize <= all
           /\ vat + field.volatileOffset = Start(field)
  BY <1>1 DEF Placed, Start
<1>6. UnitStart = IF UseVolatile THEN vat ELSE at
  BY DEF UnitStart
<1>7. Cells = 0..(all - 1)
  BY DEF Cells
<1> HIDE DEF all, at, vat
<1>8. /\ Start(field) \in Nat /\ UnitStart \in Nat
      /\ UnitOffset \in Nat /\ UnitSize \in Nat
      /\ UnitStart + UnitOffset = Start(field)
      /\ UnitOffset + field.size <= UnitSize
      /\ UnitStart + UnitSize <= all
  BY <1>3, <1>4, <1>5, <1>6 DEF UnitOffset, UnitSize, UseVolatile
<1>9. /\ field.size \in 1..PointerWidth
      /\ \A j \in 0..(field.size - 1) : Start(field) + j \in Cells
      /\ \A k \in UnitBits : UnitStart + k \in Cells
  <2>1. field.size \in 1..PointerWidth
    BY <1>1, <1>3
  <2>2. Start(field) + field.size <= all
    BY <1>3, <1>4, <1>8
  <2>3. ASSUME NEW j \in 0..(field.size - 1)
        PROVE  Start(field) + j \in Cells
    <3>1. field.size \in Nat /\ Start(field) \in Nat /\ all \in Nat
      BY <1>3, <1>4, <1>8
    <3>2. j \in Nat /\ j < field.size
      BY <2>3, <3>1
    <3>3. Start(field) + j \in 0..(all - 1)
      BY <2>2, <3>1, <3>2
    <3>. QED  BY <1>7, <3>3
  <2>4. ASSUME NEW k \in UnitBits
        PROVE  UnitStart + k \in Cells
    BY <1>4, <1>7, <1>8 DEF UnitBits
  <2>. QED  BY <2>1, <2>3, <2>4
<1>. QED  BY <1>2, <1>8, <1>9

\* what depends on the access only
LEMMA SameAccess ==
  ASSUME access' = access
  PROVE  /\ field' = field /\ value' = value
         /\ ByUnit' = ByUnit /\ UnitBits' = UnitBits
         /\ UnitOffset' = UnitOffset /\ UnitSize' = UnitSize /\ UnitStart' = UnitStart
         /\ \A b : InField(b)' = InField(b) /\ Assigned(b)' = Assigned(b)
         /\ \A b : Touched(b)' = Touched(b)
BY DEF field, value, ByUnit, UnitBits, UnitOffset, UnitSize, UnitStart,
       UseVolatile, InField, Assigned, Touched

\* Where boolean fields get zero or one, assigning keeps the low bits.
LEMMA AssignedBits ==
  ASSUME BoolsConverted, access \in Accesses, access.op = "set",
         NEW j \in 0..(field.size - 1)
  PROVE  Assigned(j) = value[j]
<1>1. /\ field.size \in 1..PointerWidth /\ PointerWidth \in Nat /\ value \in Word
  BY Layout, SizesAssumption
<1>2. j \in Bits /\ 0 \in Bits /\ value[j] \in {0, 1} /\ value[0] \in {0, 1}
  BY <1>1 DEF Bits, Word, Bit
<1>3. CASE field.kind = "bool"
  <2>1. field.size = 1 /\ \A k \in Bits \ {0} : value[k] = 0
    BY <1>3 DEF BoolsConverted, field, value
  <2>2. j = 0
    BY <2>1
  <2>. QED  BY <1>2, <1>3, <2>1, <2>2 DEF Assigned
<1>. QED  BY <1>3 DEF Assigned

-----------------------------------------------------------------------------
LEMMA InitIInv == Init => IInv
<1> SUFFICES ASSUME Init PROVE IInv
  OBVIOUS
<1> USE DEF Init
<1>1. /\ field \in FieldType /\ field.size \in Nat
      /\ Start(field) \in Nat
      /\ \A j \in 0..(field.size - 1) : Start(field) + j \in Cells
  BY Layout, SizesAssumption
<1>2. TypeOK
  BY <1>1, SizesAssumption DEF TypeOK, Zero, Word, Bit
<1>3. Phases /\ Loaded /\ Current
  BY DEF Phases, Loaded, Current
<1>4. SoFar
  BY <1>1 DEF SoFar, Written, InField, Done
<1>5. OutsideKept /\ ReadsHeld
  BY DEF OutsideKept, ReadsHeld, Done
<1>6. InHeld
  BY DEF InHeld
<1>. QED  BY <1>2, <1>3, <1>4, <1>5, <1>6 DEF IInv

\* Choosing the text, and returning from a store, touch neither memory nor the
\* value read.
LEMMA ControlStep ==
  ASSUME IInv, LowerToHelper \/ LowerToUnit \/ LoadTooWide \/ StoreTooWide \/ ReturnSet
  PROVE  IInv'
<1> USE DEF IInv, ghost
<1>1. access' = access /\ memory' = memory /\ i' = i /\ byte' = byte /\ result' = result
      /\ world' = world /\ dirty' = dirty /\ held' = held /\ changes' = changes
  BY DEF LowerToHelper, LowerToUnit, TooWide, LoadTooWide, StoreTooWide, ReturnSet
<1>2. /\ field' = field /\ value' = value
      /\ ByUnit' = ByUnit /\ UnitBits' = UnitBits
      /\ UnitOffset' = UnitOffset /\ UnitSize' = UnitSize /\ UnitStart' = UnitStart
      /\ \A b : InField(b)' = InField(b) /\ Assigned(b)' = Assigned(b)
      /\ \A b : Touched(b)' = Touched(b)
  BY <1>1, SameAccess
<1>3. access.op \in {"set", "get"} /\ field.size \in Nat \ {0} /\ Start(field) \in Nat
      /\ UnitOffset \in Nat /\ UnitSize \in Nat
  BY Layout DEF TypeOK, FieldType
<1>4. TypeOK' /\ Loaded'
  BY <1>1, <1>2, <1>3 DEF TypeOK, Loaded, LowerToHelper, LowerToUnit, TooWide, LoadTooWide, StoreTooWide, ReturnSet
<1>5. Phases'
  BY <1>1, <1>2, <1>3 DEF Phases, LowerToHelper, LowerToUnit, TooWide, LoadTooWide, StoreTooWide, ReturnSet, Loaded
<1>6. SoFar'
  <2>1. CASE ReturnSet
    <3>1. \A b \in Cells : InField(b) => Written(b) /\ Written(b)'
      BY <1>1, <1>2, <1>3, <2>1 DEF ReturnSet, Written, InField, Phases, Cells, Done
    <3>. QED  BY <1>1, <1>2, <3>1 DEF SoFar
  <2>2. CASE LowerToHelper \/ LowerToUnit \/ LoadTooWide \/ StoreTooWide
    <3>1. ~Done /\ ~Done'
      BY <1>1, <1>3, <2>2 DEF LowerToHelper, LowerToUnit, TooWide, LoadTooWide, StoreTooWide, Done
    <3>2. \A b \in Cells : Written(b)' = Written(b)
      BY <1>1, <1>2, <3>1 DEF Written
    <3>. QED  BY <1>1, <1>2, <3>2 DEF SoFar
  <2>. QED  BY <2>1, <2>2
<1>7. OutsideKept'
  BY <1>1, <1>2 DEF OutsideKept
<1>8. Current'
  BY <1>1, <1>2, <1>3
     DEF Current, LowerToHelper, LowerToUnit, TooWide, LoadTooWide, StoreTooWide, ReturnSet
<1>9. InHeld'
  <2>1. Contents(field, memory)' = Contents(field, memory)
    BY <1>1, <1>2 DEF Contents, Start
  <2>2. CASE pc' = "get"
    <3>1. pc = "lower" /\ result = Zero /\ i = 0
      BY <1>3, <2>2 DEF Phases, LowerToHelper, LowerToUnit, TooWide, LoadTooWide, StoreTooWide, ReturnSet
    <3>. QED  BY <1>1, <1>2, <2>1, <2>2, <3>1 DEF InHeld, Zero, Bits
  <2>3. CASE pc' # "get"
    <3>1. pc' # "extract"
      BY <1>3 DEF LowerToHelper, LowerToUnit, TooWide, LoadTooWide, StoreTooWide, ReturnSet
    <3>. QED  BY <1>1, <1>2, <2>1, <2>3, <3>1 DEF InHeld
  <2>. QED  BY <2>2, <2>3
<1>10. ReadsHeld'
  BY <1>1, <1>3 DEF ReadsHeld, Done, LowerToHelper, LowerToUnit, TooWide, LoadTooWide, StoreTooWide,
                    ReturnSet, Phases
<1>. QED  BY <1>4, <1>5, <1>6, <1>7, <1>8, <1>9, <1>10

-----------------------------------------------------------------------------
(* The helpers.                                                            *)

LEMMA LoadByteStep ==
  ASSUME IInv, LoadByte
  PROVE  IInv'
<1> USE DEF IInv, LoadByte, ghost
<1>1. /\ field' = field /\ value' = value
      /\ ByUnit' = ByUnit /\ UnitBits' = UnitBits
      /\ UnitOffset' = UnitOffset /\ UnitSize' = UnitSize /\ UnitStart' = UnitStart
      /\ \A b : InField(b)' = InField(b) /\ Assigned(b)' = Assigned(b)
      /\ \A b : Touched(b)' = Touched(b)
  BY SameAccess
<1>2. /\ field.size \in Nat /\ i \in Nat /\ Start(field) \in Nat
      /\ BitIndex \in Cells /\ BitIndex' = BitIndex
      /\ access.op = "set" /\ ~ByUnit
  BY <1>1, Layout, SizesAssumption DEF TypeOK, BitIndex, Phases, Start
<1>3. ByteBits \in Nat \ {0} /\ ByteOf(BitIndex) \in Int
  BY <1>2, InByte, SizesAssumption
<1>4. ASSUME NEW b \in Cells, ByteOf(b) = ByteOf(BitIndex)
      PROVE  byte'[b - ByteOf(b) * ByteBits] = memory[b]
  <2> DEFINE q == ByteOf(BitIndex) * ByteBits
  <2>1. q \in Int /\ b - q \in 0..(ByteBits - 1) /\ b \in Int
    BY <1>3, <1>4, InByte DEF Cells
  <2>2. byte' = [k \in 0..(ByteBits - 1) |-> memory[q + k]]
    OBVIOUS
  <2> HIDE DEF q
  <2>3. q + (b - q) = b
    BY <2>1
  <2>4. byte'[b - q] = memory[b]
    BY <2>1, <2>2, <2>3
  <2>. QED  BY <1>4, <2>4 DEF q
<1>5. TypeOK' /\ Phases'
  BY <1>1, <1>2 DEF TypeOK, Phases
<1>6. Loaded'
  <2>1. \A k \in 0..(ByteBits - 1) : memory[ByteOf(BitIndex) * ByteBits + k] \in Bit
    BY <1>2, InByte DEF TypeOK
  <2>. QED  BY <2>1 DEF Loaded
<1>7. SoFar' /\ OutsideKept'
  BY <1>1 DEF SoFar, Written, Done, OutsideKept
<1>8. Current'
  <2>1. \A b \in Cells : byte'[b - ByteOf(b) * ByteBits] = memory[b] \/ ByteOf(b) # ByteOf(BitIndex)
    BY <1>4
  <2>2. \A b : ByteOf(b)' = ByteOf(b)
    BY DEF ByteOf
  <2>. QED  BY <1>2, <2>1, <2>2 DEF Current
<1>9. InHeld' /\ ReadsHeld'
  BY <1>1, <1>2 DEF InHeld, ReadsHeld, Done
<1>. QED  BY <1>5, <1>6, <1>7, <1>8, <1>9

LEMMA StoreByteStep ==
  ASSUME IInv, BoolsConverted, StoreByte
  PROVE  IInv'
<1> USE DEF IInv, StoreByte, ghost
<1>1. /\ field' = field /\ value' = value
      /\ ByUnit' = ByUnit /\ UnitBits' = UnitBits
      /\ UnitOffset' = UnitOffset /\ UnitSize' = UnitSize /\ UnitStart' = UnitStart
      /\ \A b : InField(b)' = InField(b) /\ Assigned(b)' = Assigned(b)
      /\ \A b : Touched(b)' = Touched(b)
  BY SameAccess
<1>2. /\ field.size \in 1..PointerWidth /\ i \in 0..(field.size - 1)
      /\ Start(field) \in Nat /\ BitIndex = Start(field) + i
      /\ BitIndex \in Cells /\ access.op = "set" /\ ~ByUnit
      /\ PointerWidth \in Nat /\ value[i] \in Bit
  BY Layout, SizesAssumption DEF TypeOK, BitIndex, Phases, Word, Bits
<1>3. \A b \in Cells : WithBit(b, value[i]) \in Bit \/ ByteOf(b) # ByteOf(BitIndex)
  BY <1>2, InByte DEF WithBit, Loaded
<1>4. TypeOK'
  BY <1>1, <1>2, <1>3 DEF TypeOK
<1>5. Phases' /\ Loaded'
  BY <1>1, <1>2 DEF Phases, Loaded
\* besides the bit stored, the byte has what memory has
<1>6. ASSUME NEW b \in Cells \ dirty, b # BitIndex
      PROVE  memory'[b] = memory[b]
  BY <1>6 DEF WithBit, Current
<1>7. memory'[BitIndex] = value[i]
  BY <1>2 DEF WithBit
<1>8. SoFar'
  <2> SUFFICES ASSUME NEW b \in Cells \ dirty
               PROVE  memory'[b] = IF InField(b) /\ Written(b)'
                                   THEN Assigned(b - Start(field)) ELSE world[b]
    BY <1>1 DEF SoFar, Start
  <2>1. CASE b = BitIndex
    <3>1. b - Start(field) = i /\ InField(b) /\ Written(b)'
      BY <1>1, <1>2, <2>1 DEF InField, Written, Cells, Start
    <3>2. Assigned(i) = value[i]
      BY <1>2, AssignedBits DEF TypeOK
    <3>. QED  BY <1>7, <2>1, <3>1, <3>2
  <2>2. CASE b # BitIndex
    <3>1. InField(b) => (Written(b)' <=> Written(b))
      BY <1>1, <1>2, <2>2 DEF InField, Written, Cells, Done, Start
    <3>. QED  BY <1>6, <2>2, <3>1 DEF SoFar
  <2>. QED  BY <2>1, <2>2
<1>9. OutsideKept'
  <2>1. ASSUME NEW b \in Cells, ByteOf(b) = ByteOf(BitIndex) PROVE Touched(b)
    <3>1. InField(BitIndex)
      BY <1>2 DEF InField
    <3>. QED  BY <1>2, <2>1, <3>1 DEF Touched, ByUnit
  <2>2. \A b \in Cells : ~Touched(b) => memory'[b] = memory[b]
    BY <2>1
  <2>. QED  BY <1>1, <2>2 DEF OutsideKept
<1>10. Current' /\ InHeld' /\ ReadsHeld'
  BY <1>1, <1>2 DEF Current, InHeld, ReadsHeld, Done
<1>. QED  BY <1>4, <1>5, <1>8, <1>9, <1>10

LEMMA GetBitStep ==
  ASSUME IInv, GetBit
  PROVE  IInv'
<1> USE DEF IInv, GetBit, ghost
<1>1. /\ field' = field /\ value' = value
      /\ ByUnit' = ByUnit /\ UnitBits' = UnitBits
      /\ UnitOffset' = UnitOffset /\ UnitSize' = UnitSize /\ UnitStart' = UnitStart
      /\ \A b : InField(b)' = InField(b) /\ Assigned(b)' = Assigned(b)
      /\ \A b : Touched(b)' = Touched(b)
  BY SameAccess
<1>2. /\ field.size \in 1..PointerWidth /\ i \in 0..(field.size - 1)
      /\ BitIndex = Start(field) + i /\ BitIndex \in Cells
      /\ PointerWidth \in Nat /\ i \in Bits
      /\ access.op = "get" /\ ~ByUnit
      /\ memory[BitIndex] \in {0, 1} /\ result \in Word
  BY Layout, SizesAssumption DEF TypeOK, BitIndex, Phases, Bits, Bit
<1>3. TypeOK' /\ Phases' /\ Loaded'
  BY <1>1, <1>2 DEF TypeOK, Phases, Loaded, Word, Bit
<1>4. SoFar' /\ OutsideKept' /\ Current' /\ ReadsHeld'
  BY <1>1, <1>2 DEF SoFar, Written, Done, OutsideKept, Current, ReadsHeld
<1>5. InHeld'
  <2>1. Contents(field, memory)' = Contents(field, memory) /\ Start(field)' = Start(field)
    BY <1>1 DEF Contents, Start
  <2>2. ASSUME ~field.volatile, NEW k \in Bits
        PROVE  result'[k] = IF k < i' THEN memory[Start(field) + k] ELSE 0
    <3>1. result[k] = IF k < i THEN memory[Start(field) + k] ELSE 0
      BY <2>2 DEF InHeld
    <3>2. result[i] = 0
      BY <1>2, <2>2 DEF InHeld
    <3>3. result' = [result EXCEPT ![i] = memory[BitIndex]]
      BY <1>2, <3>2 DEF Word
    <3>4. CASE k = i
      BY <1>2, <3>3, <3>4 DEF Word
    <3>5. CASE k # i
      BY <1>2, <3>1, <3>3, <3>5 DEF Word, Bits
    <3>. QED  BY <3>4, <3>5
  <2>. QED  BY <1>1, <2>1, <2>2 DEF InHeld
<1>. QED  BY <1>3, <1>4, <1>5

LEMMA ReturnGetStep ==
  ASSUME IInv, ReturnGet
  PROVE  IInv'
<1> USE DEF IInv, ReturnGet, ghost
<1>1. /\ field' = field /\ value' = value
      /\ ByUnit' = ByUnit /\ UnitBits' = UnitBits
      /\ UnitOffset' = UnitOffset /\ UnitSize' = UnitSize /\ UnitStart' = UnitStart
      /\ \A b : InField(b)' = InField(b) /\ Assigned(b)' = Assigned(b)
      /\ \A b : Touched(b)' = Touched(b)
  BY SameAccess
<1>2. /\ field.size \in 1..PointerWidth /\ i = field.size
      /\ Start(field) \in Nat /\ PointerWidth \in Nat
      /\ access.op = "get" /\ ~ByUnit /\ result \in Word
      /\ \A j \in 0..(field.size - 1) : Start(field) + j \in Cells
  BY Layout, SizesAssumption DEF TypeOK, Phases
<1>3. TypeOK' /\ Phases' /\ Loaded'
  <2>1. result' \in Word
    BY <1>2, SignExtendedType DEF Word, Bits
  <2>. QED  BY <1>1, <1>2, <2>1 DEF TypeOK, Phases, Loaded
<1>4. SoFar' /\ OutsideKept' /\ Current' /\ InHeld'
  BY <1>1, <1>2 DEF SoFar, Written, OutsideKept, Current, InHeld, Contents, Start
<1>5. ASSUME ~field.volatile
      PROVE  result' = Value(field, Contents(field, memory))
  <2> DEFINE c == Contents(field, memory)
  <2> SUFFICES result' = Value(field, c)
    OBVIOUS
  <2>1. \A k \in Bits : result[k] = IF k < field.size THEN memory[Start(field) + k] ELSE 0
    BY <1>2, <1>5 DEF InHeld
  <2>2. \A k \in 0..(field.size - 1) : c[k] = memory[Start(field) + k]
    BY DEF Contents
  <2>3. field.size - 1 \in 0..(field.size - 1) /\ field.size - 1 \in Bits
    BY <1>2 DEF Bits
  <2> HIDE DEF c
  <2>4. \A k \in Bits : result[k] = IF k < field.size THEN c[k] ELSE 0
    BY <2>1, <2>2, <1>2 DEF Bits
  <2>5. CASE field.kind = "signed" /\ field.size < PointerWidth
    <3>1. result' = [k \in Bits |-> IF k < field.size THEN result[k]
                                    ELSE result[field.size - 1]]
      <4>1. \A k \in 0..(PointerWidth - 1) : result[k] \in Bit
        BY <1>2 DEF Word, Bits
      <4>2. \A k \in (field.size)..(PointerWidth - 1) : result[k] = 0
        BY <1>2, <2>4 DEF Bits
      <4>. QED  BY <1>2, <2>5, <4>1, <4>2, SignExtends DEF Bits
    <3>. QED  BY <1>2, <2>3, <2>4, <2>5, <3>1 DEF Value
  <2>6. CASE ~(field.kind = "signed" /\ field.size < PointerWidth)
    <3>1. result' = result
      BY <2>6
    <3>2. \A k \in Bits : field.kind = "signed" => k < field.size
      BY <1>2, <2>6 DEF Bits
    <3>3. result' = [k \in Bits |-> result[k]]
      BY <1>2, <3>1 DEF Word
    <3>. QED  BY <2>4, <3>2, <3>3 DEF Value
  <2>. QED  BY <2>5, <2>6
<1>6. ReadsHeld'
  <2>1. CASE field.volatile
    BY <1>1, <1>2, <2>1 DEF ReadsHeld, ByUnit
  <2>2. CASE ~field.volatile
    BY <1>1, <1>2, <1>5, <2>2 DEF ReadsHeld, FromHeld, InHeld
  <2>. QED  BY <2>1, <2>2
<1>. QED  BY <1>3, <1>4, <1>6

-----------------------------------------------------------------------------
(* The storage unit.                                                       *)

LEMMA LoadUnitStep ==
  ASSUME IInv, LoadUnit
  PROVE  IInv'
<1> USE DEF IInv, LoadUnit, ghost
<1>1. /\ field' = field /\ value' = value
      /\ ByUnit' = ByUnit /\ UnitBits' = UnitBits
      /\ UnitOffset' = UnitOffset /\ UnitSize' = UnitSize /\ UnitStart' = UnitStart
      /\ \A b : InField(b)' = InField(b) /\ Assigned(b)' = Assigned(b)
      /\ \A b : Touched(b)' = Touched(b)
  BY SameAccess
<1>2. /\ field.size \in 1..PointerWidth /\ PointerWidth \in Nat
      /\ Start(field) \in Nat /\ UnitStart \in Nat
      /\ UnitOffset \in Nat /\ UnitSize \in Nat
      /\ UnitStart + UnitOffset = Start(field)
      /\ UnitOffset + field.size <= UnitSize /\ UnitSize <= PointerWidth
      /\ \A k \in UnitBits : UnitStart + k \in Cells
      /\ access.op \in {"set", "get"} /\ ByUnit
  BY Layout, SizesAssumption DEF TypeOK, Phases
<1>3. TypeOK' /\ Phases'
  BY <1>1, <1>2 DEF TypeOK, Phases
<1>4. Loaded'
  BY <1>1, <1>2 DEF Loaded, TypeOK
<1>5. SoFar' /\ OutsideKept' /\ ReadsHeld'
  BY <1>1, <1>2 DEF SoFar, Written, Done, OutsideKept, ReadsHeld
<1>6. Current'
  <2>1. ASSUME NEW b \in Cells, b - UnitStart \in UnitBits
        PROVE  byte'[b - UnitStart] = memory[b]
    <3>1. UnitStart + (b - UnitStart) = b
      BY <1>2 DEF Cells
    <3>. QED  BY <2>1, <3>1
  <2>. QED  BY <1>1, <1>2, <2>1 DEF Current
<1>7. InHeld'
  <2>1. Contents(field, memory)' = Contents(field, memory)
    BY <1>1 DEF Contents, Start
  <2>2. [j \in 0..(field.size - 1) |-> byte'[UnitOffset + j]] = Contents(field, memory)
    <3>1. ASSUME NEW j \in 0..(field.size - 1)
          PROVE  byte'[UnitOffset + j] = memory[Start(field) + j]
      <4>1. UnitOffset + j \in UnitBits /\ UnitStart + (UnitOffset + j) = Start(field) + j
        BY <1>2 DEF UnitBits
      <4>. QED  BY <4>1
    <3>. QED  BY <3>1 DEF Contents
  <2>3. [j \in 0..(field'.size - 1) |-> byte'[UnitOffset' + j]] = Contents(field, memory)
    BY <1>1, <2>2
  <2>4. pc' # "get" /\ (pc' = "extract" => access.op = "get")
    BY <1>2
  <2>5. access.op = "get" => Contents(field, memory) \in held
    BY DEF InHeld
  <2>. QED  BY <1>1, <2>1, <2>3, <2>4, <2>5 DEF InHeld
<1>. QED  BY <1>3, <1>4, <1>5, <1>6, <1>7

LEMMA ExtractFieldStep ==
  ASSUME IInv, ExtractField
  PROVE  IInv'
<1> USE DEF IInv, ExtractField, ghost
<1>1. /\ field' = field /\ value' = value
      /\ ByUnit' = ByUnit /\ UnitBits' = UnitBits
      /\ UnitOffset' = UnitOffset /\ UnitSize' = UnitSize /\ UnitStart' = UnitStart
      /\ \A b : InField(b)' = InField(b) /\ Assigned(b)' = Assigned(b)
      /\ \A b : Touched(b)' = Touched(b)
  BY SameAccess
<1>2. /\ field.size \in 1..PointerWidth /\ PointerWidth \in Nat
      /\ Start(field) \in Nat /\ UnitStart \in Nat
      /\ UnitOffset \in Nat /\ UnitSize \in Nat
      /\ UnitStart + UnitOffset = Start(field)
      /\ UnitOffset + field.size <= UnitSize /\ UnitSize <= PointerWidth
      /\ \A k \in UnitBits : UnitStart + k \in Cells
      /\ access.op \in {"set", "get"} /\ ByUnit
  BY Layout, SizesAssumption DEF TypeOK, Phases
<1> DEFINE c == [j \in 0..(field.size - 1) |-> byte[UnitOffset + j]]
\* what the shift and the mask leave
<1>3. /\ \A k \in UnitBits : Masked[k] \in Bit
      /\ \A k \in 0..(field.size - 1) : Masked[k] = c[k]
      /\ \A k \in (field.size)..(UnitSize - 1) : Masked[k] = 0
  <2>1. byte \in [UnitBits -> Bit]
    BY DEF Loaded
  <2>2. \A k \in UnitBits :
          Shifted[k] = IF k + UnitOffset < UnitSize THEN byte[k + UnitOffset] ELSE 0
    BY DEF Shifted
  <2>3. \A k \in UnitBits : k + UnitOffset < UnitSize => k + UnitOffset \in UnitBits
    BY <1>2 DEF UnitBits
  <2>4. \A k \in UnitBits :
          Masked[k] = IF UnitOffset + field.size < UnitSize /\ k >= field.size
                      THEN 0 ELSE Shifted[k]
    BY <1>2 DEF Masked, UnitBits
  <2>5. \A k \in 0..(field.size - 1) : k \in UnitBits /\ k + UnitOffset < UnitSize
                                       /\ c[k] = byte[k + UnitOffset]
    BY <1>2 DEF UnitBits
  <2>6. \A k \in (field.size)..(UnitSize - 1) : k \in UnitBits
    BY <1>2 DEF UnitBits
  <2> HIDE DEF c
  <2>7. \A k \in UnitBits : Masked[k] \in Bit
    BY <2>1, <2>2, <2>3, <2>4 DEF Bit
  <2>8. \A k \in 0..(field.size - 1) : Masked[k] = c[k]
    BY <1>2, <2>2, <2>4, <2>5
  <2>9. \A k \in (field.size)..(UnitSize - 1) : Masked[k] = 0
    BY <1>2, <2>2, <2>4, <2>6
  <2>. QED  BY <2>7, <2>8, <2>9
<1> HIDE DEF c
<1>4. field.size - 1 \in 0..(field.size - 1) /\ UnitSize - 1 \in UnitBits
  BY <1>2 DEF UnitBits
<1>5. result' = Value(field, c)
  <2>1. CASE field.kind = "signed"
    <3> DEFINE e == SignExtended(Masked, field.size, UnitSize)
    <3>1. e = [k \in 0..(UnitSize - 1) |-> IF k < field.size THEN Masked[k]
                                           ELSE Masked[field.size - 1]]
      <4>1. /\ \A k \in 0..(UnitSize - 1) : Masked[k] \in Bit
            /\ field.size \in 1..UnitSize
        BY <1>2, <1>3 DEF UnitBits
      <4>. QED  BY <1>2, <1>3, <4>1, SignExtends
    <3>2. result' = Widened(e, TRUE)
      BY <2>1
    <3> HIDE DEF e
    <3>3. e[UnitSize - 1] = c[field.size - 1]
      BY <1>2, <1>3, <1>4, <3>1 DEF UnitBits
    <3>4. \A k \in UnitBits : e[k] = IF k < field.size THEN c[k] ELSE c[field.size - 1]
      BY <1>2, <1>3, <1>4, <3>1 DEF UnitBits
    <3>5. ASSUME NEW k \in Bits
          PROVE  (IF k < UnitSize THEN e[k] ELSE IF TRUE THEN e[UnitSize - 1] ELSE 0)
                   = (IF k < field.size THEN c[k] ELSE c[field.size - 1])
      BY <1>2, <3>3, <3>4 DEF Bits, UnitBits
    <3>. QED  BY <2>1, <3>2, <3>5 DEF Value, Widened
  <2>2. CASE field.kind # "signed"
    <3>1. result' = Widened(Masked, FALSE)
      BY <2>2
    <3>2. ASSUME NEW k \in Bits
          PROVE  (IF k < UnitSize THEN Masked[k] ELSE 0)
                   = (IF k < field.size THEN c[k] ELSE 0)
      BY <1>2, <1>3 DEF Bits
    <3>. QED  BY <2>2, <3>1, <3>2 DEF Value, Widened
  <2>. QED  BY <2>1, <2>2
<1>6. ReadsHeld'
  BY <1>1, <1>5 DEF ReadsHeld, FromHeld, InHeld, c
<1>7. result' \in Word
  <2>1. \A k \in 0..(field.size - 1) : c[k] \in Bit
    BY <1>2, <1>3 DEF UnitBits
  <2>2. Value(field, c) \in Word
    BY <1>2, <1>4, <2>1 DEF Value, Word, Bits, Bit
  <2>. QED  BY <1>5, <2>2
<1>8. TypeOK' /\ Phases' /\ Loaded'
  BY <1>1, <1>2, <1>7 DEF TypeOK, Phases, Loaded
<1>9. SoFar' /\ OutsideKept' /\ Current' /\ InHeld'
  BY <1>1, <1>2 DEF SoFar, Written, OutsideKept, Current, InHeld, Contents, Start, Phases
<1>. QED  BY <1>6, <1>8, <1>9

LEMMA StoreUnitStep ==
  ASSUME IInv, BoolsConverted, StoreUnit
  PROVE  IInv'
<1> USE DEF IInv, StoreUnit, ghost
<1>1. /\ field' = field /\ value' = value
      /\ ByUnit' = ByUnit /\ UnitBits' = UnitBits
      /\ UnitOffset' = UnitOffset /\ UnitSize' = UnitSize /\ UnitStart' = UnitStart
      /\ \A b : InField(b)' = InField(b) /\ Assigned(b)' = Assigned(b)
      /\ \A b : Touched(b)' = Touched(b)
  BY SameAccess
<1>2. /\ field.size \in 1..PointerWidth /\ PointerWidth \in Nat
      /\ Start(field) \in Nat /\ UnitStart \in Nat
      /\ UnitOffset \in Nat /\ UnitSize \in Nat
      /\ UnitStart + UnitOffset = Start(field)
      /\ UnitOffset + field.size <= UnitSize /\ UnitSize <= PointerWidth
      /\ \A k \in UnitBits : UnitStart + k \in Cells
      /\ access.op \in {"set", "get"} /\ ByUnit
  BY Layout, SizesAssumption DEF TypeOK, Phases
<1>3. access.op = "set" /\ i = 0 /\ value \in Word
  BY <1>2, Layout DEF Phases, TypeOK
<1>4. \A k \in UnitBits : k \in Bits /\ value[k] \in Bit
  BY <1>2, <1>3 DEF UnitBits, Bits, Word
<1>5. ASSUME NEW k \in UnitBits
      PROVE  Source[k] = IF field.kind # "bool" /\ UnitSize # field.size /\ k >= field.size
                         THEN 0 ELSE value[k]
  BY DEF Source
\* the part of the unit that is not the field is stored as it was loaded, and
\* no bit of the value lies outside the field
<1>6. ASSUME NEW k \in UnitBits
      PROVE  Merged(k) = IF k \in FieldBits THEN value[k - UnitOffset] ELSE byte[k]
  <2>1. CASE UnitSize = field.size
    <3>1. UnitOffset = 0 /\ k \in FieldBits
      BY <1>2, <2>1 DEF UnitBits, FieldBits
    <3>. QED  BY <1>2, <1>5, <2>1, <3>1 DEF Merged, UnitBits
  <2>2. CASE UnitSize # field.size
    <3>1. Moved[k] = IF k >= UnitOffset THEN Source[k - UnitOffset] ELSE 0
      BY DEF Moved
    <3>2. CASE k \in FieldBits
      <4>1. k - UnitOffset \in UnitBits /\ k >= UnitOffset /\ k - UnitOffset < field.size
        BY <1>2, <3>2 DEF UnitBits, FieldBits
      <4>2. Moved[k] = value[k - UnitOffset] /\ value[k - UnitOffset] \in {0, 1}
        BY <1>2, <1>4, <1>5, <3>1, <4>1 DEF Bit, UnitBits
      <4>. QED  BY <2>2, <3>2, <4>2 DEF Merged, Cleared
    <3>3. CASE k \notin FieldBits
      <4>1. Moved[k] = 0
        <5>1. CASE k >= UnitOffset
          <6> DEFINE l == k - UnitOffset
          <6>1. l \in UnitBits /\ l >= field.size
            BY <1>2, <3>3, <5>1 DEF UnitBits, FieldBits
          <6>2. CASE field.kind = "bool"
            <7>1. field.size = 1 /\ \A m \in Bits \ {0} : value[m] = 0
              BY <1>3, <6>2 DEF BoolsConverted, TypeOK, field, value
            <7>2. l \in Bits \ {0}
              BY <1>4, <6>1, <7>1
            <7>. QED  BY <1>5, <3>1, <5>1, <6>1, <6>2, <7>1, <7>2
          <6>3. CASE field.kind # "bool"
            BY <1>5, <2>2, <3>1, <5>1, <6>1, <6>3
          <6>. QED  BY <6>2, <6>3
        <5>2. CASE ~(k >= UnitOffset)
          BY <3>1, <5>2
        <5>. QED  BY <5>1, <5>2
      <4>. QED  BY <2>2, <3>3, <4>1 DEF Merged, Cleared
    <3>. QED  BY <3>2, <3>3
  <2>. QED  BY <2>1, <2>2
<1>7. ASSUME NEW b \in Cells
      PROVE  /\ InField(b) => memory'[b] = value[b - Start(field)]
             /\ b - UnitStart \notin UnitBits => memory'[b] = memory[b] /\ ~InField(b)
             /\ ~InField(b) /\ b \notin dirty => memory'[b] = memory[b]
             /\ memory'[b] \in Bit
  <2>1. /\ b \in Int
        /\ InField(b) <=> b - UnitStart \in FieldBits
        /\ b - UnitStart \in FieldBits => b - UnitStart \in UnitBits
        /\ (b - UnitStart) - UnitOffset = b - Start(field)
    BY <1>2 DEF Cells, InField, FieldBits, UnitBits
  <2>2. CASE b - UnitStart \notin UnitBits
    BY <2>1, <2>2 DEF TypeOK
  <2>3. CASE b - UnitStart \in FieldBits
    <3>1. memory'[b] = value[b - Start(field)]
      BY <1>6, <2>1, <2>3
    <3>2. b - Start(field) \in UnitBits
      BY <1>2, <2>1, <2>3 DEF UnitBits, FieldBits
    <3>. QED  BY <1>4, <2>1, <2>3, <3>1, <3>2
  <2>4. CASE b - UnitStart \in UnitBits /\ b - UnitStart \notin FieldBits
    <3>1. memory'[b] = byte[b - UnitStart]
      BY <1>6, <2>4
    <3>2. UnitSize # field.size
      BY <1>2, <2>4 DEF UnitBits, FieldBits
    <3>. QED  BY <2>1, <2>4, <3>1, <3>2 DEF Current, Loaded
  <2>. QED  BY <2>2, <2>3, <2>4
<1>8. TypeOK' /\ Phases' /\ Loaded'
  BY <1>1, <1>2, <1>3, <1>7 DEF TypeOK, Phases, Loaded
<1>9. SoFar'
  <2> SUFFICES ASSUME NEW b \in Cells \ dirty
               PROVE  memory'[b] = IF InField(b) /\ Written(b)'
                                   THEN Assigned(b - Start(field)) ELSE world[b]
    BY <1>1 DEF SoFar, Start
  <2>1. Written(b)'
    BY <1>3 DEF Written, Done
  <2>2. CASE InField(b)
    <3>1. b - Start(field) \in 0..(field.size - 1)
      BY <1>2, <2>2 DEF InField
    <3>2. Assigned(b - Start(field)) = value[b - Start(field)]
      BY <1>3, <3>1, AssignedBits DEF TypeOK
    <3>. QED  BY <1>7, <2>1, <2>2, <3>2
  <2>3. CASE ~InField(b)
    BY <1>7, <2>3 DEF SoFar
  <2>. QED  BY <2>2, <2>3
<1>10. OutsideKept'
  <2>1. ASSUME NEW b \in Cells, b - UnitStart \in UnitBits PROVE Touched(b)
    BY <1>2, <2>1 DEF Touched, ByUnit, UnitBits, UnitStart, UnitSize, UseVolatile
  <2>2. \A b \in Cells : ~Touched(b) => memory'[b] = memory[b]
    BY <1>7, <2>1
  <2>. QED  BY <1>1, <2>2 DEF OutsideKept
<1>11. Current' /\ InHeld' /\ ReadsHeld'
  BY <1>1, <1>3 DEF Current, InHeld, ReadsHeld
<1>. QED  BY <1>8, <1>9, <1>10, <1>11

-----------------------------------------------------------------------------
LEMMA DeviceStep ==
  ASSUME IInv, Device
  PROVE  IInv'
<1> USE DEF IInv, Device
<1>1. /\ field' = field /\ value' = value
      /\ ByUnit' = ByUnit /\ UnitBits' = UnitBits
      /\ UnitOffset' = UnitOffset /\ UnitSize' = UnitSize /\ UnitStart' = UnitStart
      /\ \A b : InField(b)' = InField(b) /\ Assigned(b)' = Assigned(b)
      /\ \A b : Touched(b)' = Touched(b)
  BY SameAccess
<1>2. PICK b \in Cells, v \in Bit :
        /\ memory' = [memory EXCEPT ![b] = v]
        /\ world'  = [world EXCEPT ![b] = v]
        /\ dirty'  = dirty \cup {b}
        /\ held'   = held \cup {Contents(field, memory')}
  OBVIOUS
<1>3. TypeOK' /\ Phases' /\ Loaded'
  BY <1>1, <1>2, SizesAssumption DEF TypeOK, Phases, Loaded
<1>4. \A d \in Cells : d # b => memory'[d] = memory[d] /\ world'[d] = world[d]
  BY <1>2 DEF TypeOK
<1>5. memory'[b] = v /\ world'[b] = v
  BY <1>2 DEF TypeOK
<1>6. SoFar'
  BY <1>1, <1>2, <1>4 DEF SoFar, Written, Done, Start
<1>7. OutsideKept'
  BY <1>1, <1>4, <1>5 DEF OutsideKept
<1>8. Current'
  BY <1>1, <1>2, <1>4 DEF Current, BitIndex, ByteOf, Start
<1>9. InHeld' /\ ReadsHeld'
  BY <1>1, <1>2 DEF InHeld, ReadsHeld, Done, Contents, Start
<1>. QED  BY <1>3, <1>6, <1>7, <1>8, <1>9

LEMMA StepIInv ==
  ASSUME IInv, BoolsConverted, [Next]_vars
  PROVE  IInv'
<1>1. CASE UNCHANGED vars
  <2>1. access' = access /\ pc' = pc /\ memory' = memory /\ i' = i /\ byte' = byte
        /\ result' = result /\ world' = world /\ dirty' = dirty /\ held' = held
        /\ changes' = changes
    BY <1>1 DEF vars
  <2>. QED
    BY <2>1 DEF IInv, TypeOK, Phases, Loaded, SoFar, Current, OutsideKept, InHeld,
       ReadsHeld, FromHeld, Done, Written, InField, Assigned, Touched, field, value,
       ByUnit, UnitBits, UnitSize, UnitStart, UnitOffset, UseVolatile, BitIndex,
       Contents, Start, Value
<1>2. CASE Next
  BY <1>2, ControlStep, LoadByteStep, StoreByteStep, GetBitStep, ReturnGetStep,
     LoadUnitStep, ExtractFieldStep, StoreUnitStep, DeviceStep DEF Next
<1>. QED  BY <1>1, <1>2

-----------------------------------------------------------------------------
\* The bookkeeping of both kinds of access agrees with memory all along, for
\* every layout clang may choose (Pass_LowerBitfieldOps.cpp:240-524 and the
\* helpers of lines 59-146), provided booleans are assigned zero or one.
THEOREM Access == ASSUME BoolsConverted PROVE Spec => []IInv
<1>1. IInv /\ [Next]_vars => IInv'
  BY StepIInv
<1>. QED  BY <1>1, InitIInv, PTL DEF Spec

LEMMA StoredAtEnd == IInv => Stored
<1> SUFFICES ASSUME IInv, Done, access.op = "set" PROVE Stored
  BY DEF Stored
<1>. QED  BY DEF IInv, SoFar, Stored, Written

\* A store gives the field the value C assigns, and leaves every bit the
\* device did not write as it was.
THEOREM StoresField == ASSUME BoolsConverted PROVE Spec => []Stored
BY Access, StoredAtEnd, PTL

\* What a device writes outside the bytes of the field or its container is
\* never undone.
THEOREM KeepsOutside == ASSUME BoolsConverted PROVE Spec => []OutsideKept
<1>1. IInv => OutsideKept
  BY DEF IInv
<1>. QED  BY <1>1, Access, PTL

\* A read is of one moment, unless the field is volatile and the target has
\* not the AAPCS.
THEOREM ReadsOneMoment == ASSUME BoolsConverted PROVE Spec => []ReadsHeld
<1>1. IInv => ReadsHeld
  BY DEF IInv
<1>. QED  BY <1>1, Access, PTL
=============================================================================
