SPECIFICATION Spec
CONSTANTS
  Callers = {c1, c2}
  Ports = {p1, p2}
  DefaultPort = p1
  Targets = {t1, t2}
  None = None
  MaxCalls = 2
  MaxEvents = 1
SYMMETRY Symmetry
CHECK_DEADLOCK FALSE
INVARIANT AdapterSafe
INVARIANT ServesWhatIsSaved
PROPERTY FailureUndone
