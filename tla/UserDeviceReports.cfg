SPECIFICATION Spec
CONSTANTS
  sg = sg  ag = ag  an = an  ao = ao
  Reqs = {sg, ag, ao}
  Async = {ag, ao}
  Gets = {sg, ag}
  Oversized = {ao}
  Reissuers = {ag}
  Timeout <- MCTimeout
  QueueSize = 2
  MaxTime = 2
INVARIANTS
  TypeOK
  RequestsAccounted
  SuccessIsEarned
  MemoryKept
PROPERTIES
  QuietAfterStop
  RefinesTransactions
CHECK_DEADLOCK FALSE
