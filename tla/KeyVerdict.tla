----------------------------- MODULE KeyVerdict -----------------------------
(***************************************************************************)
(* What verify_with_context answers program/src/lib.rs on a prepared key   *)
(* for CONTEXT: yes when every row and the hash come from the key and mode *)
(* that signed this very message.  It is the verifier's answer on accounts *)
(* whose rows are, whole, one honest key's (VerifierProofs), the only ones *)
(* the program verifies with (VerdictOnOwnMode).  Under other rows the     *)
(* library promises nothing (src/ml_dsa_44.rs:169).                        *)
(***************************************************************************)
CONSTANT Rows   \* rows of a prepared key

Genuine(acc, turbo, p) ==
  /\ p.signed = p.message
  /\ p.signer[2] = turbo
  /\ acc.tr = p.signer
  /\ \A r \in Rows : acc.rows[r] = p.signer
=============================================================================
