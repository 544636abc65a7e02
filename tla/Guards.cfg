SPECIFICATION Spec
CONSTANTS
  PerMinute = 2
  Minute = 1
  Attempts = 2
  MaxTime = 2
  Contents = {a, b}
  MaxTokens = 2
  Costs = {1}
  Deadline = 2
  MaxFailures = 3
  MaxIdentical = 3
  MaxRejections = 2
  MaxViolations = 3
  Turns = 2
  MaxBatch = 2
  MaxRuns = 2
  Driven <- RunSources
  Manifests <- MCManifests
  ToolHandlers = {"read", "write"}
  StrategyHandlers = {"ask"}
  HookHandlers = {"audit"}
  Providers = {"gemini"}
  StreamProviders = {"openai"}
  ApiKeys = {"anthropic", "openai"}
SYMMETRY Symmetric
INVARIANTS
  TypeOK
  MinuteKept
  NothingWrittenOver
  NeverCalledPastALimit
CHECK_DEADLOCK FALSE
