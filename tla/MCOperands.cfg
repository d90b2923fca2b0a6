CONSTANTS
  N = 8
  Q <- MCQ
  TAU = 3
  BOUND = 130994
  LANE = 2
  RATE128 = 48
  RATE256 = 4
  Seeds <- MCSeeds
  Commitments <- MCCommitments
  Shake128 <- MCShake128
  Shake256 <- MCShake256
  T1 <- MCT1
  Z <- MCZ
  Pending = Pending
  Calls <- MCCalls
SPECIFICATION Spec
INVARIANTS
  UniformTypeOK
  ChallengeTypeOK
  FieldsExact
  BadExact
  WithinInputs
  NeverOverfull
  InBall
  OperandsReady
PROPERTIES
  SamplesRejNTTPoly
  SamplesInBall
  EveryCallReturns
CHECK_DEADLOCK FALSE
