SPECIFICATION FairSpec
CONSTANTS
  sg = sg  ag = ag  an = an  ao = ao
  Reqs = {sg, an}
  Async = {an}
  Gets = {sg, an}
  Oversized = {}
  Reissuers = {}
  Timeout <- MCTimeout
  QueueSize = 1
  MaxTime = 2
PROPERTIES
  RequestsEnd
CHECK_DEADLOCK FALSE
