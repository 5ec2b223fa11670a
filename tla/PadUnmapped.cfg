SPECIFICATION Spec
CONSTANTS
  Requests <- MCFaults
  PageSectors = 2
  InodeBlk = 2
  DIO_PAGES = 2
  NrVecs = 2
  MaxSectors = 4
  ReapLimit = 1
  SectorBytes = 32
CHECK_DEADLOCK FALSE
INVARIANTS PadsNewBlocksOnly
