SPECIFICATION Spec
CONSTANTS
  Procs = {c1, c2}
  None = None
  Apps = {"chatgpt", "dsh", "workbuddy"}
  Systems = {"macos", "windows"}
  Pieces = 2
  Window = 1
  MaxCalls = 2
CHECK_DEADLOCK FALSE
 
INVARIANT TransfersSound
INVARIANT OnlyVerifiedIsUsed
PROPERTY AbandonedStaysClosed
PROPERTY EveryCallEnds
