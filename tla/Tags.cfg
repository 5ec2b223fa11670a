SPECIFICATION TSpec
CONSTANTS
  ReadRq = {r1, r2}
  WriteRq = {w1}
  NULL = NULL
  fifo_expire <- MCFifoExpire
  ReadExpire = 0
  WriteExpire = 0
  fifo_batch = 1
  writes_starved = 1
  front_merges = TRUE
  UINT = 3
  ULONG = 3
  Bio = {b1, b2}
  Files = {}
  Priorities = {}
  MaxSector = 1
  max_sectors = 2
  Aliases = TRUE
  Barriers = {FALSE, TRUE}
  Specials = TRUE
  Requeues = TRUE
  Kills = FALSE
  RePrioritise = FALSE
  MaxEpoch = 1
  MaxOverdue = 0
  Depths = {1, 9}
  queue_nr_requests = 2
  BLK_TAGS_PER_LONG = 2
SYMMETRY Symmetry
INVARIANTS TagsAgree AnswersMatched
PROPERTIES ResetRestarts
