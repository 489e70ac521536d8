SPECIFICATION Spec
CONSTANTS
  GlobalCells <- Cells
  SizeInChars <- CellSizes
  Fields <- Members
  Bodies <- AllBodies
  Budgets = {1, 3}
  Globals <- Addresses
  Memories <- StartMemories
INVARIANTS Preserves StagedCompiles OneOutcome LoweredForms
PROPERTIES RepeatsDecrease
