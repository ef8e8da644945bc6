SPECIFICATION Spec
CONSTANTS
  Struct <- MCStruct
  Units <- MCUnits
  G = "g"
  Garbage = {0, 6, 65535}
INVARIANTS
  VTypeOK
  Walked
  CompilesWhatItCan
  Patched
  ContinuesFromSaved
PROPERTIES
  Finishes
CHECK_DEADLOCK FALSE
