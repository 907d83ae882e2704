\* Processes that keep to the discipline of the support level.
SPECIFICATION FairSpec
CONSTANTS
  Pcb = {p1, p2, p3}
  NULL = NULL
  UserSem = {s1}
  Unit <- TerminalOnly
  DevSemInit = 1
  MaskedIO = TRUE
  OneWay = TRUE
  MaxVal = 1
  MaxSoft = 2
INVARIANTS NoOrphansUnlessSevered CountExactUnlessSevered SoftBlockedCoversEvents PanicIsDeadlock
           NoCompletionLost
PROPERTIES ReleasedByItsOwnDevice ReadyProcessRuns DeviceWaitEnds ClockWaitEnds
