SPECIFICATION Spec
CONSTANTS
  Strategies <- AllFour
  Sizes = {1, 3}
  FreshIds = TRUE
  Carriers = FALSE
  MaxEvents = 6
INVARIANTS
  TypeOK
  PairsWhole
  InFlightShown
  EveryEventAccounted
  PassSettles
  RequestsPaired
PROPERTY ImplementsWindow
CHECK_DEADLOCK FALSE
