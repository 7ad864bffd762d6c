CONSTANTS
  Handles = {h1, h2}
  Pvus = {a, b}
  MaxCount = 3
SYMMETRY MemorySymmetry
SPECIFICATION SpecMemory
INVARIANT PvuIsForUnmap
CHECK_DEADLOCK FALSE
