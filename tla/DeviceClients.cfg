SPECIFICATION FairSpec
CONSTANTS
  a = a  b = b
  Clients = {a, b}
  Nobody = Nobody
  QueueArray <- MCQueueArray
  Options <- MCOptions
  Leavers = {b}
  MaxReports = 3
  Cookie <- MCCookie
  Cap = 1
  MaxOpens <- MCMaxOpens
INVARIANTS
  TypeOK
  DeliveredInOrder
  SeizeAgrees
PROPERTIES
  NobodyStranded
CHECK_DEADLOCK FALSE
