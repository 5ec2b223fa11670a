SPECIFICATION LiveSpec
CONSTANTS
  Bios <- MCBios
  Proc = {p1, p2}
  Rw = {"WRITE"}
  Special = {FALSE, TRUE}
  queue_nr_requests = 16
  unplug_thresh = 4
  Depth = 1
  MaxBios = 18
  Endless = FALSE
INVARIANTS TypeOK NoRequestLeak NoLostWakeup CongestionTracksCount QueueNotForgotten
PROPERTIES OnlyDriverRunsStopped Quiesces
