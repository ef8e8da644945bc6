SPECIFICATION Spec
CONSTANTS
  Slot = {a, b, c, d}
  Frame = {f, g, h}
  Null = Null
  StartOwners = TRUE
INVARIANTS
  TypeOK
  OneOwner
PROPERTIES
  NoLeak
SYMMETRY Symmetry
