SPECIFICATION Spec
CONSTANTS
  Callers = {a, b}
  Calls <- CallsOfTwo
  Prints <- Output
  Size = 1
  MayHang = {1}
  MayRaise = {1}
  MayLeave = {1}
  MaxRuns = 2
  a = a
  b = b
INVARIANTS
  TypeOK
  OwnLines
PROPERTY CallsReturn
CHECK_DEADLOCK FALSE
