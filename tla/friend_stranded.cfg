SPECIFICATION Spec
CONSTANTS
  alice = alice
  bob = bob
  id1 = id1
  id2 = id2
  Cores = {alice, bob}
  NoCore = NoCore
  WISH_CONTEXT_POOL_SZ = 2
  Ids = {id1, id2}
  NoId = NoId
  Asks <- MCBothAsk
  MaxCalls = 3
INVARIANTS
  WaitingIsAsked
SYMMETRY MCSymmetry
CHECK_DEADLOCK FALSE
