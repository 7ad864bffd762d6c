CONSTANTS
  Devices = {d1, d2, d3}
  MaxDevices = 3
  ScanLimit = 3
SYMMETRY DeviceSymmetry
SPECIFICATION SpecNumbers
INVARIANTS
  TypeOKNumbers
  LinkLeadsToDevice
  FreeNumberIsUnused
