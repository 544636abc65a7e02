SPECIFICATION Spec
CONSTANTS
  Callers = {a, b}
  Calls <- CallsOfTwo
  Prints <- LineAndTail
  Size = 1
  MayHang = {}
  MayRaise = {}
  MayLeave = {}
  MaxRuns = 2
  a = a
  b = b
INVARIANT TailShown
CHECK_DEADLOCK FALSE
