CONSTANTS
  c1 = c1
  c2 = c2
  Vectors = {0, 1}
  IoVector = 1
  Cpus = {c1, c2}
  Buffers = {b1}
  AdminDepth = 2
  IoDepth = 2
  Setups <- ReadsOrAdmin
SPECIFICATION FairSpec
PROPERTIES
  HangsOnlyByMissedPulse
  CallsReturn
CHECK_DEADLOCK FALSE
