SPECIFICATION PSpec
CONSTANTS
  M = 3
  Addr = {1}
  Saver = s
  Reader = r
  Proc <- Procs
  N = 2
  Val <- Ints
  Default = 0
  Result <- Results
  ResultOf <- kResultOf
  Live <- kLive
  Body <- k
  NoRes = NoRes
  Junk = Junk
  Awaiter = Awaiter
  Rets <- Ints
  MaxRets = 1
  MaxWire = 1
  SuppliedAt = {"start", "continue_from"}
  SerializeFresh = FALSE
  LateDeserialize = FALSE
  LateAwRet = FALSE
INVARIANTS
  PTypeOK
  NothingRunsTwice
  HandedOver
PROPERTIES
  ReaderFinishes
CHECK_DEADLOCK FALSE
