SPECIFICATION FairSpec
CONSTANTS
  a = a  b = b
  Requests = {a, b}
  Reports <- MCReports
INVARIANTS
  TypeOK
  Completions
  SuccessMeansAll
PROPERTIES
  EveryRequestEnds
CHECK_DEADLOCK FALSE
