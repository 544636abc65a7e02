\* Two threads that use the client, and a server that also writes lines that
\* are no response.
SPECIFICATION Spec
CONSTANTS
  Callers = {a, b}
  Lines = {"malformed", "garbled"}
  PipeSize = 1
  MaxRequests = 2
INVARIANTS
  TypeOK
  OwnAnswer
  NobodyForgotten
  OnlyUnsentLinger
  ReaderNeverBlocks
  CloseTearsDown
PROPERTY EverybodyReturns
CHECK_DEADLOCK FALSE
