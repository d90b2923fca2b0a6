CONSTANTS
  N = 16
  Q = 97
  Root = 28
  Radix = 61
  L = 2
  Inputs <- BasisInputs
SPECIFICATION Spec
CHECK_DEADLOCK FALSE
INVARIANTS TypeOK ForwardEvaluates RowExact
