SPECIFICATION Spec
CONSTANTS
  Providers = {"anthropic", "openai", "gemini"}
  Indexes = {0, 1}
  Ids = {1, 2}
  MaxAttempts = 2
  MaxFrames <- FramesOf
  MaxChunks = 2
INVARIANTS
  TypeOK
  AnswerAsShown
PROPERTY ImplementsFeed
CHECK_DEADLOCK FALSE
