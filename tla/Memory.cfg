CONSTANTS
  Handles = {h1, h2}
  Pvus = {a, b}
  MaxCount = 3
SYMMETRY MemorySymmetry
SPECIFICATION SpecMemory
INVARIANTS
  TypeOKMemory
  TokenNamesItsMemory
  NeverCrashes
  LiveIsAccountedFor
  BuffersHaveAdapter
CHECK_DEADLOCK FALSE
