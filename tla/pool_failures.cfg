SPECIFICATION Spec
CONSTANTS
  PoolSize = 2
  Rels = {r1}
  Hosts = {h1}
  SmallerHosts = {h1}
  WldHosts = {h1}
  NoRel = NoRel
  NoHost = NoHost
  ConnectResults = {"inprogress", "error", "ok"}
  AllocFails = TRUE
  EarlyCloses = {"trailing", "decline", "manage"}
  MaxCalls = 1
  MaxTransports = 1
  MaxTimers = 0
  r1 = r1
  r2 = r2
  h1 = h1
  h2 = h2
INVARIANTS
  NoDoubleFree
  ResolverOwner
CHECK_DEADLOCK FALSE
