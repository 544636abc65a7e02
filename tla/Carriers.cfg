SPECIFICATION Spec
CONSTANTS
  Strategies <- TailAndCap
  Sizes = {1}
  FreshIds = TRUE
  Carriers = TRUE
  MaxEvents = 6
INVARIANTS
  CallsFolded

CHECK_DEADLOCK FALSE
