SPECIFICATION Spec
CONSTANTS
  sg = sg  ag = ag  an = an  ao = ao
  Reqs = {ag, an}
  Async = {ag, an}
  Gets = {ag, an}
  Oversized = {}
  Reissuers = {ag}
  Timeout <- MCTimeout
  QueueSize = 2
  MaxTime = 3
INVARIANTS
  CompletedAtMostOnce
CHECK_DEADLOCK FALSE
