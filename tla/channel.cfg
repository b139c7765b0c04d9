SPECIFICATION Spec
CONSTANTS
  Sizes = {1, 2, 6}
  OsBuffer = 8
  RxLen = 4
  Limb = 2
  StrayLengths = {0, 1, 2, 7}
  MaxMsgs = 4
INVARIANTS
  ChannelTypeOK
  DeliveredInOrder
  NonceNeverReused
PROPERTIES
  OnlyTruncationIsRejected
  EventuallyDeliveredOrClosed
CHECK_DEADLOCK FALSE
