CONSTANTS
  K = 2
  L = 1
  N = 2
  TRBYTES = 4
  Q <- MCQ
  BYTE = 4
  Keys = {"A", "B"}
  Operand <- MCOperand
  HashByte <- MCHashByte
  Contents <- MCContents
  Starts <- MCStarts
  Shorter = {0, 4}
  Addresses = {0, 3}
  Unknown = Unknown
SPECIFICATION Spec
INVARIANTS
  TypeOK
  RowsCompose
  ReadersAgree
