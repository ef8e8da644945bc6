SPECIFICATION Spec
CONSTANTS
  Names = {"a"}
  MaxFiles = 1
  MaxText = 5
  MaxTexts = 2
  Constructs = {"shadow"}
  Inputs <- CommandLines
INVARIANTS
  OutputsRight
CHECK_DEADLOCK FALSE
