CONSTANTS
  Callers = {c1, c2}
  Devices = {own, d}
  Own = own
  Addresses = {a, b}
  Null = null
SPECIFICATION FairSpecConfig
INVARIANTS
  TypeOKConfig
  RequestIsCovered
  LookupServes
  StatusIsFromBus
PROPERTY CallsComplete
CHECK_DEADLOCK FALSE
