SPECIFICATION FairSpec
CONSTANTS
  RingSize = 2
  QueueSize = 1
  Batch = 1
  MaxMsgs = 3
INVARIANTS
  GpioBufferReady
  FreshRing
  InOrder
PROPERTIES
  StopReturns
CHECK_DEADLOCK FALSE
