SPECIFICATION Spec
SYMMETRY Symmetry
CONSTANTS
  Uid = {u1, u2, u3}
  peek_len = 2
  SaveLens = {1, 2}
  UpdateLens = {1, 2, 3}
  WISH_PORT_MAX_UIDS = 2
  MaxCells = 6
  MaxCrashes = 2
INVARIANTS
  IdTypeOK
  UniqueUids
PROPERTIES
  ImplementsMap
  RewriteKeepsOthers
