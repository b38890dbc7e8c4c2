\* Processes that move between two CPUs, and a frozen clock.
CONSTANTS
  Pid <- MCPid
  Child = 2
  Type <- MCType
  Cpu <- MCCpu
  Affinity <- MCMigrating
  Probes = 1
  RingCap = 2
  MaxHits = 2
  SeqLimit = 16
  BadComm <- MCNone
  Threshold = 2
  FlushInterval = 1
  GnnInterval = 1
  HttpTimeout = 1
  Whole = 2
  GnnThreshold = 2
  MaxClock = 0
SPECIFICATION Spec
INVARIANT SequencesInTimeOrder
CHECK_DEADLOCK FALSE
