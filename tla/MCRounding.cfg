CONSTANTS
  Groups <- OneOfFour
SPECIFICATION FinishSpec
CHECK_DEADLOCK FALSE
INVARIANTS PackedExact
