-------------------------- MODULE MCBitfieldAccess --------------------------
(***************************************************************************)
(* Instances of BitfieldAccess for TLC: bytes of two bits, words of two    *)
(* bytes and a structure of three, so that fields start at every bit of a  *)
(* byte, cross a byte, fill a unit or lie in one that no word holds.       *)
(***************************************************************************)
EXTENDS BitfieldAccess

ObjectBits == ObjectBytes * ByteBits
RoundUp(n) == ((n + ByteBits - 1) \div ByteBits) * ByteBits

\* A field of a type of t bits, its access unit the bytes it lies in or the
\* whole structure; clang's container is the aligned place of its type, when
\* the field and the structure have room for it and it is not the unit.
Unit(start, size) ==
  {[at |-> ByteOf(start), bits |-> RoundUp((start % ByteBits) + size)],
   [at |-> 0, bits |-> ObjectBits]}
Container(start, size, u, t) ==
  IF \/ (start % t) + size > t \/ start - (start % t) + t > ObjectBits
     \/ u.bits = t
  THEN [at |-> 0, bits |-> 0]
  ELSE [at |-> ByteOf(start - (start % t)), bits |-> t]
Field(kind, volatile, start, size, u, t) ==
  LET c == Container(start, size, u, t)
  IN  [kind |-> kind, volatile |-> volatile, size |-> size,
       offset |-> start - u.at * ByteBits,
       storageSize |-> u.bits, storageOffset |-> u.at,
       volatileOffset |-> start - c.at * ByteBits,
       volatileStorageSize |-> c.bits, volatileStorageOffset |-> c.at]
FieldsOf(kinds, volatile, starts, sizes) ==
  {f \in UNION {UNION {{Field(k, volatile, start, size, u, t) :
                          u \in Unit(start, size)} :
                  k \in kinds, t \in {n \in {2, 4} : n >= size}} :
                start \in starts, size \in sizes} : Placed(f)}

ToWord(s) == [k \in Bits |-> s[k + 1]]
SomeWords == {ToWord(<<1, 0, 1, 0>>), ToWord(<<0, 1, 1, 1>>)}
One       == ToWord(<<1, 0, 0, 0>>)

Sets(fields, values, targets) ==
  [op : {"set"}, field : fields, value : values, aapcs : targets]
Gets(fields, targets) ==
  [op : {"get"}, field : fields, value : {Zero}, aapcs : targets]

Plain      == FieldsOf({"unsigned", "signed"}, FALSE, {0, 1, 3}, 1..4)
Volatile   == FieldsOf({"signed"}, TRUE, {0, 1}, {2})
                \cup FieldsOf({"unsigned"}, TRUE, {0}, {4})
BoolFields == FieldsOf({"bool"}, TRUE, {1}, {1})
AllAccesses ==
  Sets(Plain, SomeWords, {TRUE}) \cup Gets(Plain, {TRUE})
    \cup Sets(Volatile, {CHOOSE w \in SomeWords : TRUE}, BOOLEAN)
    \cup Gets(Volatile, BOOLEAN)
    \cup Sets(BoolFields, {Zero, One}, BOOLEAN) \cup Gets(BoolFields, {TRUE})
=============================================================================
