\* Processes that do anything: a command and its IOWAIT apart, both directions
\* of a terminal at once.
SPECIFICATION Spec
CONSTANTS
  Pcb = {p1, p2, p3}
  NULL = NULL
  UserSem = {s1}
  Unit <- TerminalOnly
  DevSemInit = 0
  MaskedIO = FALSE
  OneWay = FALSE
  MaxVal = 1
  MaxSoft = 2
SYMMETRY Symmetry
INVARIANTS TypeOK WaitsWhereItSays InOnePlaceAtMost NoProcessLost ValuesCountWaiters
           CountsProcesses
PROPERTY ClockCallWaits
