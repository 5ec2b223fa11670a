SPECIFICATION Spec
CONSTANTS
  ReadRq = {r1, r2}
  WriteRq = {w1}
  NULL = NULL
  fifo_expire <- MCFifoExpire
  ReadExpire = 0
  WriteExpire = 0
  fifo_batch = 1
  writes_starved = 1
  front_merges = TRUE
  UINT = 4
  ULONG = 3
  Bio = {b1, b2}
  Files = {f1}
  Priorities = {15}
  MaxSector = 1
  max_sectors = 2
  Aliases = TRUE
  Barriers = {FALSE, TRUE}
  Specials = TRUE
  Requeues = TRUE
  Kills = FALSE
  RePrioritise = TRUE
  MaxEpoch = 1
  MaxOverdue = 0
SYMMETRY Symmetry
INVARIANTS OneOwner QosQueueSound
PROPERTIES StartedOnlyShrinks
