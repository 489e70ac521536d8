SPECIFICATION Spec
CONSTANTS
  GlobalCells <- Cells
  SizeInChars <- Sizes64
  AlignInChars <- Aligns64
  Fields <- Members
  Declarations <- AllDeclarations
  NotSet = NotSet
  Variables <- FileVariables
  TypeSize <- SizeOf
  TypeAlign <- AlignOf
  DeclaredIn <- NamesDeclared
  StaticIn <- NamesStatic
  Hoistable <- ToBeHoisted
  LocalOf <- LocalName
  RenamedText <- Renamed
  HoistedText <- WithoutDecls
  HoistedVars <- Prologue
  Translation <- BuildAstStmt
  IsRefused <- RefusesAny
  Units <- FollowedUnits
INVARIANTS Implements
CHECK_DEADLOCK FALSE
