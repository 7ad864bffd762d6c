CONSTANTS
  Vectors = {0, 1}
  Cpus = {c1, c2}
SPECIFICATION FairSpecHistory
INVARIANTS
  TypeOKHistory
  LastInterruptServed
PROPERTY InterruptPulsed
