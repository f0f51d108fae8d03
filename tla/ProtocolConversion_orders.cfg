SPECIFICATION ExchangeSpec
CONSTANTS
  Ids <- MCIds
  MaxToolCalls = 3
  MaxItems = 6
  MaxChunks = 6
CHECK_DEADLOCK FALSE
INVARIANT RequestsSafe
INVARIANT BlocksWellFormed
INVARIANT StreamEqualsResponse
INVARIANT ItemsAddedThenDone
