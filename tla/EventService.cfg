SPECIFICATION Spec
CONSTANTS
    c1 = c1
    c2 = c2
    Clients = {c1, c2}
    Threads = {t1, t2}
    MaxEvents = 1
    MaxOpens <- MCMaxOpens
INVARIANTS
  NoneMissed
  NoneOutlived
PROPERTIES
  EveryClientGoes
CHECK_DEADLOCK FALSE
