\* Calls of the container process on one CPU, three hits, two seconds, lines that Loki refuses.
CONSTANTS
  Pid <- MCPid
  Child = 2
  Type <- MCType
  Cpu <- MCOneCpu
  Affinity <- MCOnlyChild
  Probes = 1
  RingCap = 2
  MaxHits = 3
  SeqLimit = 16
  BadComm <- MCChild
  Threshold = 2
  FlushInterval = 1
  GnnInterval = 1
  HttpTimeout = 1
  Whole = 2
  GnnThreshold = 2
  MaxClock = 2
SPECIFICATION FairSpec
INVARIANTS TypeOK ExitDescribesRun NothingOverdue ChecksSpaced
PROPERTIES ShipperSpec DrainedExit
CHECK_DEADLOCK FALSE
