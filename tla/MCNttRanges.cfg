CONSTANTS
  N = 256
  DirectInputs <- RowsOnly
SPECIFICATION Spec
INVARIANTS TypeOK PlantardAdmits ForwardGrowth RowSumAdmits Reduce32Admits
