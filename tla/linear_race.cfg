CONSTANTS
  Submitter = {p1, p2}
  dev_size <- Small
  MaxSectors = 1
  UintRange = 8192
  Address = 9
SPECIFICATION Spec
INVARIANTS
  SelectsDevice
CHECK_DEADLOCK FALSE
