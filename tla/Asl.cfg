\* Two descriptors for three processes and three addresses: an insertion can
\* be refused.  One address lies above the upper sentinel.
SPECIFICATION Spec
CONSTANTS
  Pcb = {p1, p2, p3}
  NULL = NULL
  Descriptors = 2
  MAXADD = 5
  Address = {2, 4, 8}
INVARIANTS TypeOK AscendingToSentinel NoDescriptorLost BlockedWhereItSays
PROPERTY KeepsBlockedQueues
