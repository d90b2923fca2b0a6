CONSTANTS
  N = 256
  DirectInputs <- RowsOnly
SPECIFICATION Spec
INVARIANTS ForwardInputContract
