-------------------------------- MODULE Params --------------------------------
(***************************************************************************)
(* The parameters of src/params.rs that words are bounded by, and what     *)
(* reduce32 admits: 2^31 - 2^22 - 1.                                       *)
(***************************************************************************)
EXTENDS Integers

Q == 8380417
TwoToD == 8192
GAMMA1 == 131072
GAMMA2 == (Q - 1) \div 88
BETA == 78

REDUCE32_IN == 2147483647 - 4194304
=============================================================================
