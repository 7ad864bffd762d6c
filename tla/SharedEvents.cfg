CONSTANTS
  Clients = {u1, u2, u3}
  MaxOutstanding = 1
  Creation = creation
SPECIFICATION FairSpecShared
INVARIANTS
  TypeOKShared
  NoStaleWake
PROPERTIES
  SleepsOnlyIfRobbed
