SPECIFICATION Spec
CONSTANTS
  Pcb = {p1, p2, p3}
  NULL = NULL
  UserSem = {s1}
  Unit <- DiskOnly
  DevSemInit = 0
  MaskedIO = FALSE
  OneWay = FALSE
  MaxVal = 1
  MaxSoft = 2
SYMMETRY Symmetry
INVARIANT NoCompletionLost
