SPECIFICATION Spec
CONSTANTS
  PoolSize = 2
  Rels = {r1}
  Hosts = {h1, h2}
  SmallerHosts = {h1}
  WldHosts = {}
  NoRel = NoRel
  NoHost = NoHost
  ConnectResults = {"inprogress"}
  AllocFails = FALSE
  EarlyCloses = {}
  MaxCalls = 3
  MaxTransports = 1
  MaxTimers = 1
  r1 = r1
  r2 = r2
  h1 = h1
  h2 = h2
INVARIANTS
  TypeOK
  PoolInv
  
  NeverHalts
  NoLeak
  OnlyContacts
PROPERTY
  ParallelCheckKeepsOne
