CONSTANTS
  Devices = {d1, d2, d3}
  MaxDevices = 3
  ScanLimit = 2
SPECIFICATION SpecNumbers
INVARIANT ReachableByBdf
