----------------------------- MODULE MCNttRanges -----------------------------
(***************************************************************************)
(* All 256 coefficients and the real constants.  RowsOnly is the program:  *)
(* invntt is called by row and raw_row only.  AnyBelowQ adds the largest   *)
(* input the comment of invntt admits, the one src/tests.rs:290 draws      *)
(* from.                                                                   *)
(***************************************************************************)
EXTENDS NttRanges

RowsOnly == {}
AnyBelowQ == {Q - 1}
=============================================================================
