SPECIFICATION Spec
CONSTANTS
  Providers = {p1, p2}
  Profiles = {q1, q2}
  Skills = {s}
  Default = q1
  Bases = {b1, b2}
  Hashes = {h1, h2}
  b2 = b2
  h1 = h1
  h2 = h2
  None = None
  Foreign <- MCForeign
  MaxCalls = 2
CHECK_DEADLOCK FALSE
INVARIANT StoresSafe
INVARIANT ImportAllOrNothing
PROPERTY KeysKept
