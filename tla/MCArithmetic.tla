----------------------------- MODULE MCArithmetic -----------------------------
(***************************************************************************)
(* Words of 12 bits, every operand Plantard admits, and bounds of the norm *)
(* check at both ends and in the middle.                                   *)
(***************************************************************************)
EXTENDS Arithmetic

SmallOperands == -1023 .. 1023
SmallFactors == 0 .. Q-1 \cup {700, 1022, 1023}
=============================================================================
