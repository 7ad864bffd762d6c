CONSTANTS
  c1 = c1
  c2 = c2
  Vectors = {0, 1}
  IoVector = 1
  Cpus = {c1}
  Buffers = {b1, b2}
  AdminDepth = 2
  IoDepth = 2
  Setups <- QueueLife
SYMMETRY BufferSymmetry
SPECIFICATION Spec
INVARIANTS
  TypeOK
  NoDmaIntoFreedBuffer
  PhaseTellsPosted
  IoQueueReady
PROPERTY ImplementsSyncCommand
CHECK_DEADLOCK FALSE
