------------------------------ MODULE Arithmetic ------------------------------
(***************************************************************************)
(* The word arithmetic of src/reduce.rs and the norm check of src/poly.rs: *)
(* products wrap at WW, the shift after a signed product is arithmetic.    *)
(* A behaviour takes one operand through one of the routines.              *)
(***************************************************************************)
EXTENDS Integers

CONSTANTS
  Q,       \* the modulus (8380417)
  W,       \* half a word (2^32)
  ALPHA,   \* 2^8
  QINV     \* Q^-1 modulo W (58728449)

ASSUME ArithmeticAssumption ==
  /\ Q \in Nat /\ Q > 1 /\ Q % 2 = 1
  /\ W \in Nat /\ W % 2 = 0
  /\ ALPHA \in Nat /\ ALPHA >= 2
  /\ 2 * ALPHA * Q < W                \* Q < 2^(l - alpha - 1)
  /\ QINV \in Nat /\ (Q * QINV) % W = 1

WW == W * W

\* The casts of a 64-bit word.
Unsigned(x) == x % WW
Signed(x) == IF 2 * Unsigned(x) < WW THEN Unsigned(x) ELSE Unsigned(x) - WW

\* Mutant: QINV is widened, without the Newton step.
QINV64Widened == QINV

\* One Newton step on QINV.
QINV64 == Unsigned(QINV * (2 - Q * QINV))

\* Mutant: the correction by ALPHA is left out.
plantardUncorrected(a, b_qinv) ==
  LET r == Signed(a * b_qinv) \div W
  IN  (r * Q) \div W

plantard(a, b_qinv) ==
  LET r == Signed(a * b_qinv) \div W
  IN  ((r + ALPHA) * Q) \div W

\* The centred residue of -m * 2^64 that plantard_constant folds Q^-1 into.
Radixed(m) ==
  LET b == (-m * WW) % Q
  IN  IF 2 * b > Q THEN b - Q ELSE b

plantard_constant(m) == Unsigned(Radixed(m) * QINV64)

\* Mutant: the bound itself passes.
norm_at_least_exclusive(a, bound) == Unsigned(a + bound) >= Unsigned(2 * bound + 1)

norm_at_least(a, bound) == Unsigned(a + bound - 1) >= Unsigned(2 * bound - 1)

-----------------------------------------------------------------------------
VARIABLES
  op,    \* "multiply", "reduce" or "norm"
  x,     \* the operand
  m,     \* the factor, or the bound of the norm
  done,  \* whether it has run
  out    \* its result

vars == <<op, x, m, done, out>>

\* What the routine is specified for.
Domain(o, a, b) ==
  CASE o = "multiply" -> /\ -Q * ALPHA <= a /\ a <= Q * ALPHA
                         /\ 0 <= b /\ b < Q
    [] o = "reduce"   -> -(Q * Q * (ALPHA * ALPHA)) <= a /\ a <= Q * Q * (ALPHA * ALPHA)
    [] o = "norm"     -> -WW < 4 * a /\ 4 * a < WW /\ 0 < b /\ 4 * b < WW

CONSTANTS Operands, Factors   \* sets of integers to draw from

ASSUME OperandsAssumption == Operands \subseteq Int /\ Factors \subseteq Int

Init ==
  /\ op \in {"multiply", "reduce", "norm"}
  /\ x \in Operands /\ m \in Factors
  /\ Domain(op, x, m)
  /\ done = FALSE /\ out = 0

Multiply ==
  /\ op = "multiply" /\ ~done
  /\ done' = TRUE
  /\ out' = plantard(x, plantard_constant(m))
  /\ UNCHANGED <<op, x, m>>

Reduce ==
  /\ op = "reduce" /\ ~done
  /\ done' = TRUE
  /\ out' = plantard(x, QINV64)
  /\ UNCHANGED <<op, x, m>>

Norm ==
  /\ op = "norm" /\ ~done
  /\ done' = TRUE
  /\ out' = norm_at_least(x, m)
  /\ UNCHANGED <<op, x, m>>

Next == Multiply \/ Reduce \/ Norm

Spec == Init /\ [][Next]_vars

-----------------------------------------------------------------------------
IsCentred(r) == r \in Int /\ -Q < 2 * r /\ 2 * r < Q

Done(o) == op = o /\ done

(***************************************************************************)
(* A Plantard product by the constant of m is the centred residue of x * m,*)
(* for every |x| <= Q * ALPHA: the twiddle products and the scaling of a   *)
(* stored row.                                                             *)
(***************************************************************************)
ProductExact == Done("multiply") => IsCentred(out) /\ (out - x * m) % Q = 0

(***************************************************************************)
(* A Plantard reduction of |x| <= (Q * ALPHA)^2 is the centred residue of  *)
(* -x / 2^64: the reduction of a row.                                      *)
(***************************************************************************)
ReductionExact == Done("reduce") => IsCentred(out) /\ (out * WW + x) % Q = 0

(***************************************************************************)
(* The one unsigned comparison decides |x| >= m, below zero as well, where *)
(* the sum wraps.                                                          *)
(***************************************************************************)
NormExact == Done("norm") => (out <=> x >= m \/ -x >= m)
=============================================================================
