------------------------------- MODULE Rounding -------------------------------
(***************************************************************************)
(* The tail of a row: finish_row of src/poly.rs turns four words of an     *)
(* inverse transform and their hint bits into three bytes of w1Encode, by  *)
(* the estimates of src/reduce.rs and src/rounding.rs.                     *)
(***************************************************************************)
EXTENDS Params

\* x - ((x + 2^22) >> 23) * Q
reduce32(x) == x - ((x + 4194304) \div 8388608) * Q

caddq(x) == IF x < 0 THEN x + Q ELSE x

\* The estimate of the high bits, with shifts by 7 and 24.
Estimate(x) == (((x + 127) \div 128) * 11275 + 8388608) \div 16777216

\* Mutant: the estimate 44 is not taken for the wrap it stands for.
w1_coefficientNoWrap(x, hint) ==
  LET a1 == Estimate(x)
      positive == x - a1 * (2 * GAMMA2) > 0
  IN  IF ~hint THEN a1
      ELSE IF positive THEN (IF a1 = 43 THEN 0 ELSE a1 + 1)
      ELSE (IF a1 = 0 THEN 43 ELSE a1 - 1)

w1_coefficient(x, hint) ==
  LET wraps == Estimate(x) = 44
      a1 == IF wraps THEN 0 ELSE Estimate(x)
      positive == ~wraps /\ x - a1 * (2 * GAMMA2) > 0
  IN  IF ~hint THEN a1
      ELSE IF positive THEN (IF a1 = 43 THEN 0 ELSE a1 + 1)
      ELSE (IF a1 = 0 THEN 43 ELSE a1 - 1)

\* Four six-bit fields in three bytes; the fields of a byte do not overlap.
Packed(w) == <<w[0] + ((w[1] * 64) % 256),
               w[1] \div 4 + ((w[2] * 16) % 256),
               w[2] \div 16 + ((w[3] * 4) % 256)>>

-----------------------------------------------------------------------------
Places == 0 .. 3

CONSTANT Groups   \* the groups of four words to finish

ASSUME GroupAssumption ==
  \A g \in Groups : \A i \in Places :
    g[i] \in Int /\ -REDUCE32_IN <= g[i] /\ g[i] <= REDUCE32_IN

VARIABLES
  quad,   \* four words of the transform
  hint,   \* their hint bits
  out,    \* the bytes written
  done

finishVars == <<quad, hint, out, done>>

FinishInit ==
  /\ quad \in Groups /\ hint \in [Places -> BOOLEAN]
  /\ out = <<0, 0, 0>> /\ done = FALSE

FinishGroup ==
  /\ ~done
  /\ out' = Packed([i \in Places |-> w1_coefficient(caddq(reduce32(quad[i])), hint[i])])
  /\ done' = TRUE
  /\ UNCHANGED <<quad, hint>>

FinishSpec == FinishInit /\ [][FinishGroup]_finishVars

-----------------------------------------------------------------------------
(***************************************************************************)
(* UseHint on Decompose, FIPS 204 Algorithms 36 and 40, as src/tests.rs    *)
(* states them.                                                            *)
(***************************************************************************)
Low(r) ==
  LET s == r % (2 * GAMMA2)
  IN  IF s > GAMMA2 THEN s - 2 * GAMMA2 ELSE s

Wraps(r) == r - Low(r) = Q - 1
R1(r) == IF Wraps(r) THEN 0 ELSE (r - Low(r)) \div (2 * GAMMA2)
R0(r) == IF Wraps(r) THEN Low(r) - 1 ELSE Low(r)

UseHint(h, r) ==
  IF ~h THEN R1(r)
  ELSE IF R0(r) > 0 THEN (R1(r) + 1) % 44
  ELSE (R1(r) - 1) % 44

W1Encoded ==
  /\ \A i \in 1 .. 3 : out[i] \in 0 .. 255
  /\ out[1] + 256 * out[2] + 65536 * out[3]
       = UseHint(hint[0], quad[0] % Q) + 64 * UseHint(hint[1], quad[1] % Q)
         + 4096 * UseHint(hint[2], quad[2] % Q) + 262144 * UseHint(hint[3], quad[3] % Q)

(***************************************************************************)
(* The bytes are w1Encode of UseHint of the residues: the unreduced words, *)
(* the estimates and the fused passes lose nothing, at the wrap of         *)
(* Decompose and at both ends of what reduce32 admits.                     *)
(***************************************************************************)
PackedExact == done => W1Encoded
=============================================================================
