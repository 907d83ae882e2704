\* Three processes with a page each, two frames and two TLB entries for them.
SPECIFICATION FairSpec
CONSTANTS
  UPROCMAX = 3
  NULL = NULL
  MAXPAGES = 1
  POOLSIZE = 2
  TLBSIZE = 2
  FRAMEPOOLSTART = 3
  DataPage = {0}
  MaxWrites = 1
INVARIANTS TypeOK OwnSupport OutlivesItsProcesses OneInPager TranslationsAgree MemoryKept
PROPERTIES FaultServed
