SPECIFICATION Spec
CONSTANTS
  ReadRq = {r1, r2}
  WriteRq = {w1}
  NULL = NULL
  fifo_expire <- MCFifoExpire
  ReadExpire = 0
  WriteExpire = 0
  fifo_batch = 2
  writes_starved = 1
  front_merges = TRUE
  UINT = 4
  ULONG = 3
  Bio = {b1, b2, b3}
  Files = {f1, f2}
  Priorities = {10}
  MaxSector = 2
  max_sectors = 3
  Aliases = TRUE
  Barriers = {FALSE}
  Specials = FALSE
  Requeues = FALSE
  Kills = FALSE
  RePrioritise = FALSE
  MaxEpoch = 0
  MaxOverdue = 0
SYMMETRY Symmetry
PROPERTIES HigherPriorityFirst
