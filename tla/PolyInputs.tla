------------------------------ MODULE PolyInputs ------------------------------
(***************************************************************************)
(* What the routines of src/poly.rs that read bytes into a polynomial are  *)
(* given: the sizes of params.rs, the outputs of the hashes, and encodings *)
(* as sets of one bits.                                                    *)
(***************************************************************************)
EXTENDS Words

CONSTANTS
  N,        \* coefficients of a polynomial (256)
  Q,        \* the modulus (8380417)
  TAU,      \* coefficients of a challenge that are not zero (39)
  BOUND,    \* GAMMA1 - BETA, the bound of the norm of z (130994)
  LANE,     \* bytes of a lane of a challenge's hash (8)
  RATE128,  \* bytes of a block of SHAKE128 (168)
  RATE256,  \* bytes of a block of SHAKE256 (136)
  Seeds,         \* seeds and nonces of matrix entries
  Commitments,   \* commitment hashes
  Shake128(_, _),  \* whether a bit of the output of SHAKE128 for a seed is one
  Shake256(_, _),  \* whether a bit of the output of SHAKE256 for a seed is one
  T1,       \* encodings of t1
  Z,        \* encodings of z
  Pending   \* stands for a polynomial until the routine returns it

\* The indices of a polynomial.
Coefs == 0 .. N-1

ASSUME UniformAssumption ==
  /\ N \in Nat \ {0}
  /\ Q \in Int
  /\ RATE128 \in Nat \ {0} /\ RATE128 % 24 = 0   \* whole groups of three lanes
  /\ Pending \notin [0 .. N-1 -> Int]

ASSUME ChallengeAssumption ==
  /\ N \in Nat /\ TAU \in Nat \ {0} /\ TAU <= N
  /\ LANE \in 1 .. 8
  /\ TAU <= 8 * LANE          \* one lane holds all the signs
  /\ RATE256 \in Nat /\ RATE256 > LANE

ASSUME UnpackingAssumption ==
  /\ N \in Nat \ {0} /\ N % 4 = 0
  /\ BOUND \in Nat
=============================================================================
