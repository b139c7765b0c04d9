SPECIFICATION Spec
CONSTANTS
  NUM_APP_CONNECTIONS = 2
  WISH_MAX_SERVICES = 2
  w1 = w1
  w2 = w2
  Wsids = {w1, w2}
  NoWsid = NoWsid
  Protocols = {"p", "q"}
  protocolOf <- MCProtocolOf
  DuplicateLogins = FALSE
  Conns = {1, 2}
  h1 = h1
  h2 = h2
  Hosts = {h1, h2}
  NoHost = NoHost
  userOf <- MCOwnHosts
  s1 = s1
  s2 = s2
  Services = {s1, s2}
  servicesAt <- MCServicesAt
  protocolAt <- MCProtocolAt
  Parallel = FALSE
  MaxWire = 2
INVARIANTS
  PeersTypeOK
  RequestsHaveApps
  LocalPeersExact
  OnlineIsConnected
  NothingMissed
  NoGhostPeers
CHECK_DEADLOCK FALSE
