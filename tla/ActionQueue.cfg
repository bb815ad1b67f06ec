SPECIFICATION FairSpec
CONSTANTS
  Threads = {t1, t2}
  Loop = loop
  Free = free
  CancelBlock = cancelBlock
  MaxAsync = 2
  MaxSync = 1
INVARIANTS
  TypeOK
  SerialRun
PROPERTIES
  ImplementsSerialQueue
CHECK_DEADLOCK FALSE
