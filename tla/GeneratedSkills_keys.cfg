SPECIFICATION Spec
CONSTANTS
  Native = {n}
  Plain = {f}
  Guide = Guide
  Providers = {p, q}
  Skills = {s}
  Endpoints = {e1, e2}
  None = None
  Edited = {p}
  MaxKey = 2
  MaxSaves = 2
  MaxEdits = 1
  Misses = 1
SYMMETRY Symmetry
CHECK_DEADLOCK FALSE
INVARIANT SkillsSafe
 
INVARIANT KeysFollow
 
