SPECIFICATION Spec
CONSTANTS
  MaxTurns = 2
  MaxAttempts = 1
  HasRunner = TRUE
  Names = {"read", "deploy"}
  Registered = {"read", "deploy"}
  Holdlist = {"deploy"}
  PostEffects = {"none"}
  Policy <- AllowPolicy
  FreshIds = TRUE
  SameLoop = FALSE
  MaxBatch = 2
  MaxUses = 2
  MaxEntries = 3
  MaxInterrupts = 0
INVARIANT CallsArePaired
CHECK_DEADLOCK FALSE
