SPECIFICATION Spec
CONSTANTS
  max_len = 4
  Byte <- MCByte
  Chunks <- MCChunks
  Wants <- MCWants
INVARIANT
  RingTypeOK
PROPERTY
  ImplementsFifo
