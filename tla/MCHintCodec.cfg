CONSTANTS
  K = 2
  OMEGA = 3
  BYTES = 8
  WORD = 4
  GROUP = 2
SPECIFICATION Spec
INVARIANTS
  TypeOK
  VerdictExact
  SlicesInBounds
  Canonical
  HintsRead
CHECK_DEADLOCK FALSE
