SPECIFICATION FairSpec
CONSTANTS
  Calls = {c1, c2}
  Agents = {1, 2}
  LastAgent = 2
  Runtimes = {node}
  Desktops = {zcode}
  Manager <- MCManager
  MaxRounds = 2
  Free = Free
  Absent = Absent
 
INVARIANT NoCircularWait
 
PROPERTY EveryCallReturns
