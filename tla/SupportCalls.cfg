\* Every program of two instructions; a string over two pages.
SPECIFICATION FairSpec
CONSTANTS
  MaxTime = 2
  Timeslice = 1
  Op = {"load0", "load1", "GETTIME", "printer", "transmitter", "receiver", "GET_TOD", "TERMINATE", "tooLong"}
  Length = 2
  LEN = 2
  Split = 1
INVARIANTS TypeOK EntireString EachInstructionOnce CpuTimeExact
PROPERTY CallReturns
