SPECIFICATION Spec
CONSTANTS
  Programs <- LoweredPrograms
  Budgets = {1, 4}
  Values = {"0", "1", "2"}
  InputLength = 3
  Fuel = 8
INVARIANTS Preserves StagedCompiles LoweredForms TempsDistinct
PROPERTIES RepeatsDecrease
