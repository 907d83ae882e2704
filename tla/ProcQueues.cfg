\* Four blocks and two queues: a queue can have a head, a middle and a tail
\* while another list is not empty.
SPECIFICATION Spec
CONSTANTS
  MAXPROC = 4
  Pcb = {0, 1, 2, 3}
  Queue = {readyQueue, s_procQ}
  NULL = NULL
INVARIANTS TypeOK RingsReadBothWays EveryBlockInOnePlace
PROPERTY KeepsFifoOrder
