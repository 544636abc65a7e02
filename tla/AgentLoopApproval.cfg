SPECIFICATION Spec
CONSTANTS
  MaxTurns = 2
  MaxAttempts = 1
  HasRunner = TRUE
  Names = {"read", "deploy"}
  Registered = {"read", "deploy"}
  Holdlist = {"deploy"}
  PostEffects = {"none"}
  Policy <- ApprovalPolicy
  FreshIds = TRUE
  SameLoop = TRUE
  MaxBatch = 2
  MaxUses = 2
  MaxEntries = 2
  MaxInterrupts = 2
INVARIANTS
  TypeOK
  ResultAtMostOnce
  RunsAccounted
  HeldRunsOnlyApproved
  PauseIsAtomic
PROPERTY ImplementsLedger
CHECK_DEADLOCK FALSE
