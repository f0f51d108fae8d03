SPECIFICATION Spec
CONSTANTS
  Providers = {p, q}
  BuiltIn = {p}
  Profiles = {r}
  Cli = {codex}
  Desktops = {zcode}
  DepthAgents = {codex}
  Names = {n}
  CatalogName = n
  Models = {m}
  Depths = {none}
  NoDepth = none
  Versions = {1}
  Typed = Typed
  NoKey = NoKey
  None = None
INVARIANT RoutesSafe
INVARIANT BindingRecordsConfig
INVARIANT EndpointIsCurrent
 
