CONSTANTS
  Memory = {m1, m2, m3, m4}
  CapTo = 4
SPECIFICATION SpecHandshake
INVARIANTS TypeOKInit ReadyMeansOurs TimeoutIsJustified
PROPERTIES TouchedWhenSettled PunctualIsTakenOver InitCtrlEnds
