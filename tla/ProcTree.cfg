\* Five blocks: a parent with an oldest, two middle and a youngest child, or
\* two levels of siblings.
SPECIFICATION Spec
CONSTANTS
  Pcb = {p1, p2, p3, p4, p5}
  NULL = NULL
SYMMETRY Symmetry
CONSTRAINT Intact
INVARIANTS ParentsAgree SiblingsReadBothWays
PROPERTY KeepsChildLists
