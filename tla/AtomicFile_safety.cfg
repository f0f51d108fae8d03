SPECIFICATION Spec
CONSTANTS
  Absent = Absent
  None = None
  MaxVersion = 3
  MaxClock = 5
  Settings = {0, 1, 2}
  OldHashed <- MCHashed
  OldBeside <- MCBeside
INVARIANT HistorySafe
INVARIANT LatestVersionsKept
PROPERTY AtomicSpec
