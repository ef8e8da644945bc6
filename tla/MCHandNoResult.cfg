SPECIFICATION Spec
CONSTANTS
  M = 2
  Addr = {1}
  Proc = {p1}
  N = 2
  Val <- Ints
  Default = 0
  Result <- Results
  ResultOf <- kResultOf
  Live <- kLive
  Body <- k
  NoRes = NoRes
  Junk = Junk
  Awaiter = Awaiter
  MaxRets = 1
  MaxWire = 2
  SuppliedAt = {"continue_from"}
  SerializeFresh = FALSE
  LateDeserialize = FALSE
  LateAwRet = FALSE
INVARIANTS
  SavedIsCurrent
