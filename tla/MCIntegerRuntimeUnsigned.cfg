SPECIFICATION RunSpec
CONSTANTS
  WordBits = 6
  Pow <- Powers
  BitAnd <- Ands
  BitOr <- Ors
  BitXor <- Xors
  Types <- AllTypes
  IntType <- TheInt
  ShiftCounts = {1}
INVARIANTS Canonical
