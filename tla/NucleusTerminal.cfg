SPECIFICATION Spec
CONSTANTS
  Pcb = {p1, p2, p3}
  NULL = NULL
  UserSem = {s1}
  Unit <- TerminalOnly
  DevSemInit = 0
  MaskedIO = TRUE
  OneWay = FALSE
  MaxVal = 1
  MaxSoft = 2
SYMMETRY Symmetry
PROPERTY ReleasedByItsOwnDevice
