SPECIFICATION Spec
CONSTANTS
  Programs <- DoContinue
  Budgets = {3}
  Values = {"0", "1", "2"}
  InputLength = 5
  Fuel = 8
INVARIANTS Preserves
