SPECIFICATION Spec
CONSTANTS
  Names = {"a", "b"}
  MaxFiles = 2
  MaxText = 1
  MaxTexts = 1
  Constructs = {}
  Inputs <- CommandLines
INVARIANTS
  OutputsRight
CHECK_DEADLOCK FALSE
