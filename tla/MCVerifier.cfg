CONSTANTS
  k1 = k1
  k2 = k2
  weak = weak
  K = 2
  L = 2
  BYTE = 2
  CONTEXT_MAX_LEN = 1
  Large = {"large"}
  Malformed = Malformed
  Honest <- MCHonest
  Signatures <- MCSignatures
  Calls <- MCCalls
  RowOf <- MCRowOf
SPECIFICATION Spec
CHECK_DEADLOCK FALSE
PROPERTIES ImplementsVerification
