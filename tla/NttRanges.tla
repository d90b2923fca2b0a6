------------------------------ MODULE NttRanges ------------------------------
(***************************************************************************)
(* The transforms of src/ntt.rs on magnitudes: a coefficient stands for    *)
(* the largest absolute value its word can have, a sum adds magnitudes     *)
(* and a Plantard product has magnitude (Q-1)/2 whatever its operand, as   *)
(* long as the operand is one plantard admits (ArithmeticProofs).  The     *)
(* transforms run one after the other on the inputs their callers give.    *)
(***************************************************************************)
EXTENDS Params

CONSTANTS
  N,             \* coefficients (256)
  DirectInputs   \* magnitudes invntt is given other than by a row

\* Four pairs of layers at most; two, so that the last of one transform is
\* not the first of the other, at least.
ASSUME NttRangesAssumption ==
  /\ N \in {16, 64, 256}
  /\ DirectInputs \subseteq 0 .. Q-1

\* What plantard admits, Q * 2^8, and what it returns.
PLANTARD_IN == Q * 256
PLANTARD_OUT == (Q - 1) \div 2

-----------------------------------------------------------------------------
VARIABLES
  bound,   \* the magnitude the transform in progress was given
  a, dir, half, group

vars == <<bound, a, dir, half, group>>

\* The magnitude of a word that left every known bound.
Lost == -1
Known(x) == x # Lost

Sum(x, y) == IF Known(x) /\ Known(y) /\ x <= PLANTARD_IN - y THEN x + y ELSE Lost
\* Mutant: a product is left as the word between its two shifts.
ProductUnshifted(k, x) == IF Known(x) THEN 2147483647 ELSE Lost
Product(k, x) == IF Known(x) THEN PLANTARD_OUT ELSE Lost

INSTANCE Ntt WITH Add <- Sum, Sub <- Sum, Twiddle <- Product, Untwiddle <- Product

All(x) == [i \in Index |-> x]

Init ==
  /\ bound = 0 /\ a = All(0)
  /\ dir = "idle" /\ half = 1 /\ group = 0

\* z_hat has checked the norm, a challenge coefficient is -1, 0 or 1, and t1
\* is ten bits shifted by D.
ZMax == GAMMA1 - BETA - 1
ChallengeMax == 1
T1Max == 1023 * TwoToD

Forward ==
  /\ dir = "idle"
  /\ \E m \in {ZMax, ChallengeMax, T1Max} : bound' = m /\ StartForward(All(m))

\* Mutant: the five products of a row are reduced one by one.
RowMaxFiveProducts == 5 * PLANTARD_OUT

\* Mutant: a row is made of standard representatives.
RowMaxCanonical == Q - 1

\* row_lazy and reduce_row leave a Plantard product.
RowMax == PLANTARD_OUT

\* The sum row_lazy reduces, of four products with z and one with the
\* challenge; the words of a stored row are below 2^32, the unit here.
RowSum(z, c) == 4 * z + c

\* What the reduction admits, Q^2 * 2^16, rounded down in the same unit.
REDUCTION_IN == (Q \div 256) * (Q \div 256)

Inverse ==
  /\ dir = "idle"
  /\ \E m \in {RowMax} \cup DirectInputs : bound' = m /\ StartInverse(All(m))

Transform == (ForwardStep \/ InverseStep) /\ UNCHANGED bound

Next == Forward \/ Inverse \/ Transform

Spec == Init /\ [][Next]_vars

-----------------------------------------------------------------------------
Magnitude(x) == x \in Nat /\ x <= PLANTARD_IN

TypeOK ==
  /\ Magnitude(bound)
  /\ DOMAIN a = Index /\ \A i \in Index : Magnitude(a[i]) \/ a[i] = Lost
  /\ dir \in {"forward", "inverse", "idle"}
  /\ half > 0 /\ 4 * half <= N
  /\ group \in 0 .. N \div 4 - 1

(***************************************************************************)
(* Every word of a transform, so every operand of a Plantard product, is   *)
(* below Q * 2^8 (src/ntt.rs:15), although no sum is reduced in any of the *)
(* eight layers.                                                           *)
(***************************************************************************)
PlantardAdmits == \A i \in Index : Known(a[i])

\* The pairs of layers whose shorter distance is below h.
PairsBelow(h) == IF h < 4 THEN 0 ELSE IF h < 16 THEN 1 ELSE IF h < 64 THEN 2 ELSE 3

\* The group coefficient i belongs to in the pair of layers in progress.
GroupOf(i) == half * (i \div (4 * half)) + (i % half)

ForwardLayers(i) ==
  2 * (PairsBelow(N \div (4 * half)) + IF dir = "idle" \/ GroupOf(i) < group THEN 1 ELSE 0)

(***************************************************************************)
(* A word of ntt grows by one Plantard product per layer it has crossed    *)
(* and no more, and the outputs are below the 2^26 that freeze_scaled_into *)
(* and add_products rely on (src/poly.rs:182, 226), t1 included.           *)
(***************************************************************************)
ForwardGrowth ==
  dir = "forward" \/ (dir = "idle" /\ half = 1 /\ bound # 0) =>
    \A i \in Index : /\ a[i] <= bound + ForwardLayers(i) * PLANTARD_OUT
                     /\ a[i] < 67108864

(***************************************************************************)
(* The five products of a row, added unreduced, are in the domain of the   *)
(* reduction with any transform for z and c, and any words for the row:    *)
(* those ref_from_bytes reads in place are below 2^32, not below Q as the  *)
(* comment of row_lazy has them (src/poly.rs:199).                         *)
(***************************************************************************)
RowSumAdmits ==
  dir = "idle" /\ half = 1 /\ bound # 0 =>
    \A i \in Index : Known(a[i]) /\ RowSum(a[i], a[i]) <= REDUCTION_IN

InverseDone == dir = "idle" /\ 4 * half = N

(***************************************************************************)
(* What a finished inverse transform hands to finish_row is in the domain  *)
(* of reduce32 (src/reduce.rs:14).  Rows of standard representatives would *)
(* leave it by 2^21.                                                       *)
(***************************************************************************)
Reduce32Admits ==
  InverseDone => \A i \in Index : a[i] <= REDUCE32_IN

(***************************************************************************)
(* "Forward inputs are below 2^17" (src/ntt.rs:15).                        *)
(***************************************************************************)
ForwardInputContract == dir = "forward" => bound < 2^17

(***************************************************************************)
(* "Inputs below Q in absolute value; outputs unreduced, below 2^7 * Q"    *)
(* (src/ntt.rs:1130).                                                      *)
(***************************************************************************)
InverseContract == InverseDone => \A i \in Index : a[i] < 2^7 * Q
=============================================================================
