SPECIFICATION Spec
CONSTANTS
  Pcb = {p1, p2, p3, p4}
  NULL = NULL
  UserSem = {s1}
  Unit <- NoUnits
  DevSemInit = 0
  MaskedIO = FALSE
  OneWay = FALSE
  MaxVal = 0
  MaxSoft = 2
SYMMETRY Symmetry
INVARIANT ProcessCountExact
