SPECIFICATION Spec
CONSTANTS
  ReadRq = {r1, r2, r3}
  WriteRq = {w1}
  NULL = NULL
  fifo_expire <- MCFifoExpire
  ReadExpire = 0
  WriteExpire = 0
  fifo_batch = 2
  writes_starved = 1
  front_merges = TRUE
  UINT = 4
  ULONG = 2
  Bio = {b1, b2, b3}
  Files = {}
  Priorities = {}
  MaxSector = 3
  max_sectors = 3
  Aliases = TRUE
  Barriers = {FALSE, TRUE}
  Specials = FALSE
  Requeues = FALSE
  Kills = TRUE
  RePrioritise = FALSE
  MaxEpoch = 1
  MaxOverdue = 1
SYMMETRY Symmetry
INVARIANTS TypeOK BarrierOrder ListsAgree NoDangling BioChains StarvedBound
