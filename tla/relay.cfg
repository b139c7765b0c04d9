SPECIFICATION ServedSpec
CONSTANTS
  RELAY_SERVER_TIMEOUT = 5
  RELAY_CLIENT_RECONNECT_TIMEOUT = 2
  RELAY_CLIENT_CONNECT_TIMEOUT = 4
  RELAY_SESSION_ID_LEN = 2
  AgeCap = 6
  ConnectResults = {"inprogress", "error", "nosocket"}
  DnsOutcomes = {"address", "empty", "error", "nomem"}
  MaxResolvers = 2
  CreateStates = {"ABSENT", "INITIAL", "WAIT_RECONNECT"}
INVARIANTS
  RelayTypeOK
  RelayInv
  RelayFaultFree
  NothingToCleanUp
PROPERTIES
  DisconnectWaits
  RelayRecovers
