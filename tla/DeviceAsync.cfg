SPECIFICATION FairSpec
CONSTANTS
  a = a  b = b  c = c
  Nil = nil
  Requests = {a, b, c}
  Timeout <- MCTimeout
  Reissue <- AsksAgain
  MaxTime = 3
INVARIANTS
  TypeOK
  CallsAccounted
  TerminationWaits
PROPERTIES
  RefinesTransactions
  CallsEnd
CHECK_DEADLOCK FALSE
