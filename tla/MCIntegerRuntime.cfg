SPECIFICATION RunSpec
CONSTANTS
  WordBits = 6
  Pow <- Powers
  BitAnd <- Ands
  BitOr <- Ors
  BitXor <- Xors
  Types <- SoundTypes
  IntType <- TheInt
  ShiftCounts = {1, 2, 3, 4, 5}
INVARIANTS Canonical NoBitLost Correct
PROPERTIES Termination
