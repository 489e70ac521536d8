SPECIFICATION Spec
CONSTANTS
  PointerWidth = 64
  Functions <- WordFunctions
INVARIANTS BufferSlotKept Disjoint Aligned ArgumentsArrive
CHECK_DEADLOCK FALSE
