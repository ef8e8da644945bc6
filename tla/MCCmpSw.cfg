SPECIFICATION Spec
CONSTANTS
  MaxInt = 7
  MaxDepth = 5
INVARIANTS
  TypeOK
  SameCounts
  StackBounded
  ResumesSuspended
PROPERTIES
  Alternates
  Terminates
CHECK_DEADLOCK FALSE
