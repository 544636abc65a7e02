SPECIFICATION Spec
CONSTANTS
  MaxTurns = 2
  MaxAttempts = 2
  HasRunner = TRUE
  Names = {"read", "gone"}
  Registered = {"read"}
  Holdlist = {}
  PostEffects = {"none", "fatal", "fail"}
  Policy <- GuardPolicy
  FreshIds = TRUE
  SameLoop = FALSE
  MaxBatch = 2
  MaxUses = 2
  MaxEntries = 3
  MaxInterrupts = 0
INVARIANTS
  CallsArePaired
  AnsweredByOwnResult
  RetryLadder
  OutcomeTruthful
PROPERTIES TerminalStopsProvider RunTerminates
CHECK_DEADLOCK FALSE
