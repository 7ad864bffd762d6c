CONSTANTS
  Users = {u1}
  Messages = 2
  MaxVectors = 2
  Faults = {"create_fails", "dma_fails", "kill"}
SPECIFICATION SpecLife
INVARIANTS
  TypeOKLife
  ChannelIsDrivers
  DpcFindsEvent
  CreateFindsInterrupt
  NothingLeft
  LostOnlyAfterTrouble
  HeldIsNotFreed
PROPERTY InitReturns
CHECK_DEADLOCK FALSE
