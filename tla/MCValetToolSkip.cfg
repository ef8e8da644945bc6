SPECIFICATION Spec
CONSTANTS
  Names = {"a", "b"}
  MaxFiles = 1
  MaxText = 2
  MaxTexts = 2
  Constructs = {}
  Inputs <- CommandLines
PROPERTIES
  EveryFileWritten
CHECK_DEADLOCK FALSE
