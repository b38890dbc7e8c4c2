\* The loop's thread and two detached checks; bodies of up to two chunks.
CONSTANTS
  loop = loop
  check1 = check1
  check2 = check2
  Thread <- MCThread
  MaxChunks = 2
SPECIFICATION FairSpec
INVARIANTS TypeOK UpWhileUsed NothingLeaks WholeOrNothing
PROPERTY EveryCallEnds
