SPECIFICATION Spec
CONSTANTS
  M = 3
  Addr = {1}
  Proc = {p1, p2}
  N = 2
  Val <- Ints
  Default = 0
  Result <- Results
  ResultOf <- fResultOf
  Live <- fLive
  Body <- f
  NoRes = NoRes
  Junk = Junk
  Awaiter = Awaiter
  MaxRets = 2
  MaxWire = 2
  SuppliedAt = {"start", "continue_from"}
  SerializeFresh = FALSE
  LateDeserialize = FALSE
  LateAwRet = TRUE
INVARIANTS
  TypeOK
  SavedIsCurrent
  WireFaithful
PROPERTIES
  ImplementsCoro
SYMMETRY Symmetry
