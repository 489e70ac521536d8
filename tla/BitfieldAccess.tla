--------------------------- MODULE BitfieldAccess ---------------------------
(***************************************************************************)
(* One read of a bit-field, or one store to one, in the text that          *)
(* pass_lower_bitfield_ops leaves (Pass_LowerBitfieldOps.cpp).  A volatile *)
(* field of an AAPCS target is accessed through its storage unit, the way  *)
(* clang's code generator does it; every other field through a helper that *)
(* reads or rewrites one byte for every bit.                               *)
(*                                                                         *)
(* Memory is the object the field lies in, bit by bit, in little endian    *)
(* order.  A volatile object is shared with a device, which may write any  *)
(* bit of it between two accesses of the program.  A word of the target is *)
(* the function of its bits.                                               *)
(***************************************************************************)
EXTENDS Integers

CONSTANTS
  Accesses,      \* what the program does: see AccessType
  ObjectBytes,   \* sizeof the structure
  ByteBits,      \* bits of a byte
  PointerWidth,  \* GetPointerWidth
  MaxChanges     \* bits the device writes during one access, a bound

Bits       == 0..(PointerWidth - 1)
Bit        == {0, 1}
Word       == [Bits -> Bit]
Cells      == 0..(ObjectBytes * ByteBits - 1)

\* clang's CGBitFieldInfo, with what the field's type says
FieldType  == [kind : {"unsigned", "signed", "bool"}, volatile : BOOLEAN,
               size : Nat \ {0},
               offset : Nat, storageSize : Nat, storageOffset : Nat,
               volatileOffset : Nat, volatileStorageSize : Nat,
               volatileStorageOffset : Nat]
AccessType == [op : {"set", "get"}, field : FieldType, value : Word,
               aapcs : BOOLEAN]

\* start_bit
Start(f) == f.storageOffset * ByteBits + f.offset
\* A unit holds its field and lies in the object; where there is a container
\* for volatile accesses it holds the same bits.
Placed(f) ==
  /\ f.offset + f.size <= f.storageSize
  /\ f.storageOffset * ByteBits + f.storageSize <= ObjectBytes * ByteBits
  /\ f.volatileStorageSize # 0 =>
       /\ f.volatileOffset + f.size <= f.volatileStorageSize
       /\ f.volatileStorageOffset * ByteBits + f.volatileStorageSize
            <= ObjectBytes * ByteBits
       /\ f.volatileStorageOffset * ByteBits + f.volatileOffset = Start(f)

ASSUME SizesAssumption  == /\ ObjectBytes \in Nat /\ ByteBits \in Nat \ {0}
                           /\ PointerWidth \in Nat \ {0} /\ MaxChanges \in Nat
ASSUME AccessAssumption ==
  /\ Accesses \subseteq AccessType
  /\ \A a \in Accesses : Placed(a.field) /\ a.field.size <= PointerWidth

VARIABLES
  access,    \* the access made
  pc,        \* "lower", the steps of the text, "done", "error" or "undefined"
  memory,    \* the object
  i,         \* counter of the helpers' loops
  byte,      \* the byte or the unit read last
  result,    \* what a read gives
  world,     \* the object as the device alone would have left it
  dirty,     \* the bits the device wrote
  held,      \* the contents the field had since the access began
  changes    \* writes of the device

vars  == <<access, pc, memory, i, byte, result, world, dirty, held, changes>>
ghost == <<world, dirty, held, changes>>

field == access.field
value == access.value

\* what a field holds in object m
Contents(f, m) == [j \in 0..(f.size - 1) |-> m[Start(f) + j]]
Zero           == [j \in Bits |-> 0]

Init ==
  /\ access \in Accesses /\ pc = "lower"
  /\ memory \in [Cells -> Bit]
  /\ i = 0 /\ byte = <<>> /\ result = Zero
  /\ world = memory /\ dirty = {}
  /\ held = {Contents(field, memory)} /\ changes = 0

-----------------------------------------------------------------------------
(* What the pass writes.                                                   *)

ByUnit == field.volatile /\ access.aapcs
\* use_volatile of the two Build functions: the first fields of a structure
\* have no container apart from their storage unit
UseVolatile == ByUnit /\ field.volatileStorageSize # 0
UnitOffset  == IF UseVolatile THEN field.volatileOffset ELSE field.offset
UnitSize    == IF UseVolatile THEN field.volatileStorageSize ELSE field.storageSize
UnitStart   == (IF UseVolatile THEN field.volatileStorageOffset
                ELSE field.storageOffset) * ByteBits

LowerToHelper ==
  /\ pc = "lower" /\ ~ByUnit
  /\ pc' = access.op
  /\ UNCHANGED <<access, memory, i, byte, result, ghost>>

LowerToUnit ==
  /\ pc = "lower" /\ ByUnit /\ UnitSize <= PointerWidth
  /\ pc' = IF access.op = "set" /\ UnitSize = field.size THEN "store" ELSE "load"
  /\ UNCHANGED <<access, memory, i, byte, result, ghost>>

TooWide == pc = "lower" /\ ByUnit /\ UnitSize > PointerWidth

\* Bitfield storage size exceeds pointer width
LoadTooWide ==
  /\ TooWide /\ access.op = "get"
  /\ pc' = "error"
  /\ UNCHANGED <<access, memory, i, byte, result, ghost>>

\* The same error of a store is used as if it were the text: LLVM's assertion
\* stops the tool or, without assertions, anything is written.
StoreTooWide ==
  /\ TooWide /\ access.op = "set"
  /\ pc' = "undefined"
  /\ UNCHANGED <<access, memory, i, byte, result, ghost>>

-----------------------------------------------------------------------------
(* The helpers.                                                            *)

MutBitIndex == field.offset + i
BitIndex  == Start(field) + i
ByteOf(b) == b \div ByteBits

\* The loop of __c2pnk_set_bitfield_uN: __c2pnk_set_bit and __c2pnk_clear_bit
\* read the byte of the bit and write it back.
LoadByte ==
  /\ pc = "set" /\ i < field.size
  /\ byte' = [k \in 0..(ByteBits - 1) |-> memory[ByteOf(BitIndex) * ByteBits + k]]
  /\ pc' = "put"
  /\ UNCHANGED <<access, memory, i, result, ghost>>

WithBit(b, on) == IF b = BitIndex THEN on ELSE byte[b - ByteOf(b) * ByteBits]
StoreByte ==
  /\ pc = "put"
  /\ memory' = [b \in Cells |-> IF ByteOf(b) = ByteOf(BitIndex)
                                THEN WithBit(b, value[i]) ELSE memory[b]]
  /\ i' = i + 1
  /\ pc' = "set"
  /\ UNCHANGED <<access, byte, result, ghost>>

ReturnSet ==
  /\ pc = "set" /\ i = field.size
  /\ pc' = "done"
  /\ UNCHANGED <<access, memory, i, byte, result, ghost>>

\* the loop of __c2pnk_get_bitfield_uN
GetBit ==
  /\ pc = "get" /\ i < field.size
  /\ result' = IF memory[BitIndex] = 1 THEN [result EXCEPT ![i] = 1] ELSE result
  /\ i' = i + 1
  /\ UNCHANGED <<access, pc, memory, byte, ghost>>

Xor(x, y) == IF x = y THEN 0 ELSE 1
\* a - b on words of n bits: bit k borrows when b is larger below it
Borrow(a, b, k) ==
  \E j \in 0..(k - 1) : /\ b[j] = 1 /\ a[j] = 0
                        /\ \A l \in (j + 1)..(k - 1) : a[l] = b[l]
Minus(a, b, n)  ==
  [k \in 0..(n - 1) |->
     Xor(Xor(a[k], b[k]), IF Borrow(a, b, k) THEN 1 ELSE 0)]
\* (value ^ sign) - sign, the sign being the top bit of a field of s bits
SignBit(s, n) == [k \in 0..(n - 1) |-> IF k = s - 1 THEN 1 ELSE 0]
MutSignExtended(w, s, n) == w
SignExtended(w, s, n) ==
  LET sign == SignBit(s, n)
  IN  Minus([k \in 0..(n - 1) |-> Xor(w[k], sign[k])], sign, n)

ReturnGet ==
  /\ pc = "get" /\ i = field.size
  /\ result' = IF field.kind = "signed" /\ field.size < PointerWidth
               THEN SignExtended(result, field.size, PointerWidth) ELSE result
  /\ pc' = "done"
  /\ UNCHANGED <<access, memory, i, byte, ghost>>

-----------------------------------------------------------------------------
(* The storage unit.                                                       *)

UnitBits == 0..(UnitSize - 1)

\* *((uintN_t *)((uint8_t *)base + offset)), in a read and in a store to a
\* field that is smaller than its unit
LoadUnit ==
  /\ pc = "load"
  /\ byte' = [k \in UnitBits |-> memory[UnitStart + k]]
  /\ pc' = IF access.op = "set" THEN "store" ELSE "extract"
  /\ UNCHANGED <<access, memory, i, result, ghost>>

\* bf_lshr, bf_mask or bf_clear
Shifted == [k \in UnitBits |->
              IF k + UnitOffset < UnitSize THEN byte[k + UnitOffset] ELSE 0]
Masked  == IF UnitOffset + field.size < UnitSize
           THEN [k \in UnitBits |-> IF k < field.size THEN Shifted[k] ELSE 0]
           ELSE Shifted
\* the conversion of a unit, signed or not, to a word
Widened(u, signed) ==
  [k \in Bits |-> IF k < UnitSize THEN u[k]
                  ELSE IF signed THEN u[UnitSize - 1] ELSE 0]
ExtractField ==
  /\ pc = "extract"
  /\ result' = IF field.kind = "signed"
               THEN Widened(SignExtended(Masked, field.size, UnitSize), TRUE)
               ELSE Widened(Masked, FALSE)
  /\ pc' = "done"
  /\ UNCHANGED <<access, memory, i, byte, ghost>>

\* bf_srccast, bf_value, bf_shl; there is no mask when the field fills its
\* unit or is boolean
MutSource == [k \in UnitBits |-> value[k]]
Source == [k \in UnitBits |->
             IF field.kind # "bool" /\ UnitSize # field.size /\ k >= field.size
             THEN 0 ELSE value[k]]
Moved  == [k \in UnitBits |-> IF k >= UnitOffset THEN Source[k - UnitOffset] ELSE 0]
FieldBits == UnitOffset..(UnitOffset + field.size - 1)
\* bf_clear, bf_set
Cleared(k) == IF k \in FieldBits THEN 0 ELSE byte[k]
Merged(k)  == IF UnitSize = field.size THEN Source[k]
              ELSE IF Moved[k] = 1 THEN 1 ELSE Cleared(k)
StoreUnit ==
  /\ pc = "store"
  /\ memory' = [b \in Cells |-> IF b - UnitStart \in UnitBits
                                THEN Merged(b - UnitStart) ELSE memory[b]]
  /\ pc' = "done"
  /\ UNCHANGED <<access, i, byte, result, ghost>>

-----------------------------------------------------------------------------
\* The device writes a bit of a volatile object.
Device ==
  /\ pc \notin {"done", "error", "undefined"} /\ field.volatile /\ changes < MaxChanges
  /\ \E b \in Cells, v \in Bit :
       /\ memory' = [memory EXCEPT ![b] = v]
       /\ world'  = [world EXCEPT ![b] = v]
       /\ dirty'  = dirty \cup {b}
       /\ held'   = held \cup {Contents(field, memory')}
  /\ changes' = changes + 1
  /\ UNCHANGED <<access, pc, i, byte, result>>

Next ==
  \/ LowerToHelper \/ LowerToUnit \/ LoadTooWide \/ StoreTooWide
  \/ LoadByte \/ StoreByte \/ ReturnSet \/ GetBit \/ ReturnGet
  \/ LoadUnit \/ ExtractField \/ StoreUnit
  \/ Device

Spec == Init /\ [][Next]_vars

-----------------------------------------------------------------------------
(* Properties.                                                             *)

Done == pc = "done"

TypeOK ==
  /\ access \in Accesses
  /\ pc \in {"lower", "set", "put", "get", "load", "store", "extract", "done",
             "error", "undefined"}
  /\ memory \in [Cells -> Bit] /\ world \in [Cells -> Bit]
  /\ i \in 0..field.size
  /\ result \in Word
  /\ dirty \subseteq Cells
  /\ changes \in 0..MaxChanges

\* bit j of the field once value is assigned to it in C: the low bits of the
\* value, or for a boolean field whether the value is zero
Assigned(j) ==
  IF field.kind # "bool" THEN value[j]
  ELSE IF j = 0 /\ \E k \in Bits : value[k] = 1 THEN 1 ELSE 0
InField(b)  == b \in Start(field)..(Start(field) + field.size - 1)
\* where the device stayed away, a store gives the field the value assigned
\* and leaves every other bit of the object alone
Stored ==
  Done /\ access.op = "set" =>
    \A b \in Cells \ dirty :
      memory[b] = IF InField(b) THEN Assigned(b - Start(field)) ELSE world[b]

\* the bytes an access may touch: of the field, or for a volatile field of an
\* AAPCS target its container, of the storage unit where it has none
Touched(b) ==
  IF field.volatile /\ access.aapcs
  THEN IF field.volatileStorageSize # 0
       THEN b - field.volatileStorageOffset * ByteBits
              \in 0..(field.volatileStorageSize - 1)
       ELSE b - field.storageOffset * ByteBits \in 0..(field.storageSize - 1)
  ELSE \E c \in Cells : InField(c) /\ ByteOf(c) = ByteOf(b)
\* Whenever the device writes next to the bytes an access touches, what it
\* wrote stays.
OutsideKept == \A b \in Cells : ~Touched(b) => memory[b] = world[b]

\* the value of contents c of a field, as a word
Value(f, c) ==
  [k \in Bits |-> IF k < f.size THEN c[k]
                  ELSE IF f.kind = "signed" THEN c[f.size - 1] ELSE 0]
FromHeld == result \in {Value(field, c) : c \in held}
\* A read gives a value the field held at one moment of the access, extended
\* from its sign, also when the device rewrites a volatile field meanwhile.
\* On targets with the AAPCS that takes a single access.
ReadsHeld == Done /\ access.op = "get" /\ (field.volatile => access.aapcs) => FromHeld

-----------------------------------------------------------------------------
(* The inductive invariant.                                                *)

Phases ==
  /\ pc \in {"set", "put"} => access.op = "set" /\ ~ByUnit
  /\ pc = "get" => access.op = "get" /\ ~ByUnit
  /\ pc \in {"load", "extract", "store"} => ByUnit /\ UnitSize <= PointerWidth
  /\ pc = "extract" => access.op = "get"
  /\ pc = "store" => access.op = "set"
  /\ pc = "load" /\ access.op = "set" => UnitSize # field.size
  /\ pc = "put" => i < field.size
  /\ pc = "lower" => result = Zero
  /\ ByUnit \/ pc = "lower" => i = 0
\* the register holds a byte or a unit as the steps after a load expect it
Loaded ==
  /\ pc = "put" => byte \in [0..(ByteBits - 1) -> Bit]
  /\ pc = "extract" \/ (pc = "store" /\ UnitSize # field.size) =>
       byte \in [UnitBits -> Bit]

\* the bits a store has written so far
Written(b) == access.op = "set" /\ (Done \/ b - Start(field) < i)
SoFar ==
  \A b \in Cells \ dirty :
    memory[b] = IF InField(b) /\ Written(b) THEN Assigned(b - Start(field))
                                           ELSE world[b]
\* what was loaded to be stored again is still what memory holds
Current ==
  \A b \in Cells \ dirty :
    /\ pc = "put" /\ ByteOf(b) = ByteOf(BitIndex) =>
         byte[b - ByteOf(b) * ByteBits] = memory[b]
    /\ pc = "store" /\ UnitSize # field.size /\ b - UnitStart \in UnitBits =>
         byte[b - UnitStart] = memory[b]
\* a read in progress has values the field held
InHeld ==
  /\ access.op = "get" => Contents(field, memory) \in held
  /\ access.op = "get" /\ ~field.volatile => held = {Contents(field, memory)}
  /\ pc = "get" /\ ~field.volatile =>
       \A k \in Bits :
         result[k] = IF k < i THEN memory[Start(field) + k] ELSE 0
  /\ pc = "extract" =>
       [j \in 0..(field.size - 1) |-> byte[UnitOffset + j]] \in held

IInv == /\ TypeOK /\ Phases /\ Loaded /\ SoFar /\ Current /\ OutsideKept
        /\ InHeld /\ ReadsHeld

\* A boolean field has one bit, and a program that assigns it zero or one
\* only is not affected by the missing conversion.
BoolsConverted ==
  \A a \in Accesses :
    a.op = "set" /\ a.field.kind = "bool" =>
      a.field.size = 1 /\ \A k \in Bits \ {0} : a.value[k] = 0
=============================================================================
