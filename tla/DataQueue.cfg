SPECIFICATION FairSpec
CONSTANTS
  QueueSize = 6
  Sizes = {1, 2}
  Kinds <- MCKinds
  MaxEntries = 6
INVARIANTS
  TypeOK
  InOrder
  RingBounds
PROPERTIES
  Deliveries
CHECK_DEADLOCK FALSE
