SPECIFICATION LiveSpec
CONSTANTS
  ReadRq = {r1, r2}
  WriteRq = {w1}
  NULL = NULL
  fifo_expire <- MCFifoExpire
  ReadExpire = 0
  WriteExpire = 0
  fifo_batch = 1
  writes_starved = 1
  front_merges = TRUE
  UINT = 3
  ULONG = 3
  Bio = {b1, b2}
  Files = {}
  Priorities = {}
  MaxSector = 2
  max_sectors = 2
  Aliases = FALSE
  Barriers = {FALSE, TRUE}
  Specials = FALSE
  Requeues = FALSE
  Kills = FALSE
  RePrioritise = FALSE
  MaxEpoch = 1
  MaxOverdue = 1
PROPERTIES EveryBioServed
