SPECIFICATION Spec
CONSTANTS
  RBUF_SIZE = 4
  FifoSize = 2
  max_len = 3
  BannerLen = 4
  MaxTyped = 4
  MaxTests = 2
INVARIANTS
  TypeOK
  WakeupPending
  NoInputStolen
PROPERTIES
  ReceiveIsChannel
  TransmitIsChannel
  CommandEnds
CHECK_DEADLOCK FALSE
