SPECIFICATION RSpec
CONSTANTS
  Names = {"a", "b"}
  MaxFiles = 1
  MaxText = 6
  MaxTexts = 2
  Constructs = {}
  Inputs <- OneOutput
  Val = {0, 1}
  Junk = 2
INVARIANTS
  TypeOK
  OutputsRight
  ExitHonest
  RTypeOK
  Indistinguishable
CHECK_DEADLOCK FALSE
