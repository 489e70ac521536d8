SPECIFICATION Spec
CONSTANTS
  ObjectBytes = 3
  ByteBits = 2
  PointerWidth = 4
  MaxChanges = 2
  Accesses <- AllAccesses
INVARIANTS Stored OutsideKept ReadsHeld
CHECK_DEADLOCK FALSE
