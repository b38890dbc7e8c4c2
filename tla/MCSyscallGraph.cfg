\* Three processes, up to four events, sequence numbers that wrap.
CONSTANTS
  Pid <- MCPid
  Type <- MCType
  SeqLimit = 3
  MaxEvents = 4
  TopCount = 2
SPECIFICATION Spec
INVARIANTS TypeOK EdgesJoinNodes SequencesExact SpawnsExact
INVARIANTS ReadersAgree RowsDescribeNodes SummaryAddsUp
PROPERTY GraphOnlyGrows
CHECK_DEADLOCK FALSE
