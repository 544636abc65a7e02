\* Two writers and a follower on one path.
SPECIFICATION Spec
CONSTANTS
  Writers = {v, w}
  Modes = {"file", "memory", "session"}
  MaxRows = 4
  MaxCuts = 2
INVARIANTS
  TypeOK
  AckedAreStored
  FollowerInOrder
PROPERTY ImplementsDurableLog
CHECK_DEADLOCK FALSE
