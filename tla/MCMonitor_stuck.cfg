\* Fair scheduling, and nobody makes another traced call.
CONSTANTS
  Pid <- MCPid
  Child = 2
  Type <- MCType
  Cpu <- MCCpu
  Affinity <- MCMigrating
  Probes = 1
  RingCap = 1
  MaxHits = 2
  SeqLimit = 16
  BadComm <- MCNone
  Threshold = 2
  FlushInterval = 1
  GnnInterval = 1
  HttpTimeout = 1
  Whole = 2
  GnnThreshold = 2
  MaxClock = 0
SPECIFICATION FairSpec
PROPERTY ExitNoticed
CHECK_DEADLOCK FALSE
