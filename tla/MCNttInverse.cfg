CONSTANTS
  N = 256
  DirectInputs <- AnyBelowQ
SPECIFICATION Spec
INVARIANTS InverseContract
