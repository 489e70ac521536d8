SPECIFICATION Spec
CONSTANTS
  NFiles = 2
  NStages = 6
  Stages <- AllStages
  Options <- AllOptions
  NoName = NoName
INVARIANTS InputIsNewest SelectionRespected FreshAttempt
PROPERTIES Termination ImplementsContract RepeatUntilBudget
