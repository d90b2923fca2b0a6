CONSTANTS
  Q = 13
  W = 64
  ALPHA = 2
  QINV = 5
  Operands <- SmallOperands
  Factors <- SmallFactors
SPECIFICATION Spec
CHECK_DEADLOCK FALSE
INVARIANTS ProductExact ReductionExact NormExact
