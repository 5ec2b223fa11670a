SPECIFICATION Spec
CONSTANTS
  Traces <- MCTraces
  Pages <- MCPages
  MAX = 4
  SCSI_OFF = 36
  SG_DEF_RESERVED_SIZE = 2560
  MaxFaults = 3
CHECK_DEADLOCK FALSE
INVARIANTS TraceReplayed RepliesMatch CachesAsAsked
PROPERTIES EveryTraceEnds
