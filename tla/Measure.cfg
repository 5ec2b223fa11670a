SPECIFICATION Spec
CONSTANTS
  Disks <- MCDisks
  Starts = {0, 777}
  Tr = 8
  HitTime = 1
  MissTimes = {6, 8}
  DEF_MAX_SIZE = 7
  NUMBER = 7
  MAX_WRITE = 16
  Sizes = {2, 3, 4, 5}
  Tracks = {1, 2}
  cyl_num = 3
  Seek = 3
  Refused = 1
  Infinite = 1000
  Unset <- MCUnset
  UINT = 64
CHECK_DEADLOCK FALSE
INVARIANTS SizesFound BlocksFound PolicyFound BestBracketed NearShortest
