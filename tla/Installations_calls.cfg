SPECIFICATION Spec
CONSTANTS
  global = global
  sysdir = sysdir
  custom = custom
  box = box
  sys = sys
  Procs = {c1, c2}
  None = None
  Npms = {sys}
  Own = Own
  Prefixes = {global, sysdir, custom, box}
  PrefixOf <- MCPrefixOf
  GuessOf <- MCGuessOf
  UserPath = {custom, box}
  Odd = {box}
  MaxCalls = 3
SYMMETRY Symmetry
CHECK_DEADLOCK FALSE
 
PROPERTY OnlyChosenGoes
PROPERTY DataGoesLast
PROPERTY ReplacedNotLost
