SPECIFICATION Spec
CONSTANTS
  M = 2
  Addr = {1}
  Proc = {p1}
  N = 2
  Val <- Ints
  Default = 0
  Result <- Results
  ResultOf <- kResultOf
  Live <- kLive
  Body <- k
  NoRes = NoRes
  Junk = Junk
  Awaiter = Awaiter
  MaxRets = 2
  MaxWire = 2
  SuppliedAt = {"start", "continue_from"}
  SerializeFresh = FALSE
  LateDeserialize = FALSE
  LateAwRet = TRUE
PROPERTIES
  SetAwRetCounts
