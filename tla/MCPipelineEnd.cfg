SPECIFICATION Spec
CONSTANTS
  NFiles = 1
  NStages = 6
  Stages <- AllStages
  Options <- EndOptions
  NoName = NoName
INVARIANTS EndRespected
