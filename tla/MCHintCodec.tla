----------------------------- MODULE MCHintCodec -----------------------------
(***************************************************************************)
(* Every hint block of two rows, three index slots and byte values 0..7,   *)
(* with two bitmap words of four bits read in groups of two.               *)
(***************************************************************************)
EXTENDS HintCodec
=============================================================================
