\* Three processes on two CPUs, rings of two events, up to three probe hits.
CONSTANTS
  Pid <- MCPid
  Child = 2
  Type <- MCType
  Cpu <- MCCpu
  Affinity <- MCAffinity
  Probes = 1
  RingCap = 2
  MaxHits = 3
SPECIFICATION Spec
INVARIANTS TypeOK EveryHitInOnePlace CpuOrderKept
CHECK_DEADLOCK FALSE
