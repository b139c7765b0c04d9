SPECIFICATION FairSpec
CONSTANTS
  alice = alice
  bob = bob
  id1 = id1
  id2 = id2
  Cores = {alice, bob}
  NoCore = NoCore
  WISH_CONTEXT_POOL_SZ = 2
  Ids = {id1, id2}
  NoId = NoId
  Asks <- MCBothAsk
  MaxCalls = 2
PROPERTIES
  AgreedIsConfirmed
CHECK_DEADLOCK FALSE
