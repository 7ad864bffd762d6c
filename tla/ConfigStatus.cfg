CONSTANTS
  Callers = {c1, c2}
  Devices = {own, d}
  Own = own
  Addresses = {a, b}
  Null = null
SPECIFICATION SpecConfig
INVARIANT SuccessMeansMoved
CHECK_DEADLOCK FALSE
