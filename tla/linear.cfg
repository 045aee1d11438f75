CONSTANTS
  Submitter = {p1, p2}
  dev_size <- Small
  MaxSectors = 3
  UintRange = 8192
  Address = 9
SPECIFICATION Spec
SYMMETRY Contexts
INVARIANTS
  TypeOK
  RightSector
  SelectsAlone
CHECK_DEADLOCK FALSE
