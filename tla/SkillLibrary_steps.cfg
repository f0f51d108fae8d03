SPECIFICATION SkillSpec
CONSTANTS
  Agents = {a, b}
  Hashes = {h1, h2}
  Nothing = Nothing
  Retention = 1
  MaxCalls = 2
  MaxEdits = 1
SYMMETRY Symmetry
CHECK_DEADLOCK FALSE
 
PROPERTY UninstallKeeps
PROPERTY EntryGoesLast
