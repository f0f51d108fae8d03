CONSTANTS
  McpAgents = {plain, flat}
  Flattening = {flat}
  Ids = {x, y}
  Missing = Missing
  MaxCalls = 2
  MaxEvents = 2
SYMMETRY Symmetry
SPECIFICATION Sync
CHECK_DEADLOCK FALSE
INVARIANT RegistrySafe
INVARIANT RegistryAgrees
 
