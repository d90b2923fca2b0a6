------------------------------ MODULE RowPipeline ------------------------------
(***************************************************************************)
(* One row of the verification equation, w = sum_j A_j z_j - c t1 2^d, as  *)
(* the two paths of src/ml_dsa_44.rs compute it: "prepared", from the      *)
(* stored row, and "raw", from the public key.                             *)
(*                                                                         *)
(* Neither path divides by N, removes the radix of a reduction, or reduces *)
(* a sum.  The factor -f of the stored row, or of reduce_row, has to make  *)
(* up for all of it.  Coefficients are the integers the code holds; a      *)
(* Plantard product is the centred residue of its value (Arithmetic says   *)
(* why).                                                                   *)
(***************************************************************************)
EXTENDS Integers

CONSTANTS
  N,       \* ring degree, a power of 4 (256)
  Q,       \* the modulus, a prime that is 1 modulo 2N
  Root,    \* a 2N-th root of unity modulo Q (1753)
  Radix,   \* 2^64 modulo Q
  L,       \* matrix polynomials in a row (4)
  Inputs   \* the rows to compute: [A : the matrix row, z, c, t]

Columns == 0 .. L-1

Inverted(x) == CHOOSE y \in 1 .. Q-1 : (x * y) % Q = 1

\* f[0] + ... + f[n-1]
Sum(f, n) ==
  LET partial[i \in 0 .. n] == IF i = 0 THEN 0 ELSE partial[i-1] + f[i-1]
  IN  partial[n]

\* The powers of Root, and the order in which ZETAS lists them.
Power[e \in 0 .. 2*N] == IF e = 0 THEN 1 ELSE (Power[e-1] * Root) % Q
Reversal[k \in 0 .. N-1] ==
  IF k = 0 THEN 0
  ELSE Reversal[k \div 2] \div 2 + IF k % 2 = 1 THEN N \div 2 ELSE 0

Centred(x) == LET r == x % Q IN IF r > Q \div 2 THEN r - Q ELSE r

\* plantard(x, PLANTARD[k]), and the same with the negated word.
TwiddleQ(k, x) == Centred(Power[Reversal[k]] * (x % Q))
UntwiddleQ(k, x) == Centred(-Power[Reversal[k]] * (x % Q))

\* plantard(x, QINV64): times -2^-64.
Reduced(x) == Centred(-Inverted(Radix) * (x % Q))

\* f = 2^64 / N modulo Q
INVNTT_SCALE == (Radix * Inverted(N)) % Q

\* plantard(x, NEG_F_PLANTARD): times -f.
Scaled(x) == Centred(-INVNTT_SCALE * (x % Q))

caddq(x) == IF x < 0 THEN x + Q ELSE x

ASSUME RowAssumption ==
  /\ N \in {4, 16, 64, 256}
  /\ Q \in Nat /\ 1 < Q
  /\ Root \in Nat /\ Power[N] = Q - 1
  /\ Radix \in Nat
  /\ \A x \in {Radix, N} : \E y \in 1 .. Q-1 : (x * y) % Q = 1
  /\ L \in Nat /\ 0 < L

ASSUME InputsAssumption ==
  \A in \in Inputs :
    /\ \A j \in Columns : /\ in.A[j] \in [0 .. N-1 -> Int]
                         /\ in.z[j] \in [0 .. N-1 -> Int]
    /\ in.c \in [0 .. N-1 -> Int]
    /\ in.t \in [0 .. N-1 -> Int]

-----------------------------------------------------------------------------
VARIABLES
  input,            \* the row in progress
  path,             \* "prepared" or "raw"
  stage,            \* what the transform in progress is for
  col,              \* the column of the z in transform, or of the next matrix term
  rows,             \* the stored row: one operand per column, t1 last
  zhat, chat,       \* transformed z and c
  w,                \* the raw path's accumulator
  a, dir, half, group   \* the transform in progress

transform == <<a, dir, half, group>>
vars == <<input, path, stage, col, rows, zhat, chat, w, transform>>

Plus(x, y) == x + y
Minus(x, y) == x - y

INSTANCE Ntt WITH Add <- Plus, Sub <- Minus, Twiddle <- TwiddleQ, Untwiddle <- UntwiddleQ

Zero == [k \in Index |-> 0]

Init ==
  /\ input \in Inputs
  /\ path \in {"prepared", "raw"}
  /\ stage = "key" /\ col = 0
  /\ rows = [j \in 0 .. L |-> Zero]
  /\ zhat = [j \in Columns |-> Zero]
  /\ chat = Zero /\ w = Zero /\ a = Zero
  /\ dir = "idle" /\ half = 1 /\ group = 0

Finished(s) == stage = s /\ dir = "idle"

StartZ(j) ==
  /\ stage' = "z" /\ col' = j
  /\ StartForward(input.z[j])

\* Mutant: the centred product is stored as it is.
FrozenCentred(p) == [k \in Index |-> Scaled(p[k])]

\* freeze_scaled_into: one column of the stored row.
Frozen(p) == [k \in Index |-> caddq(Scaled(p[k]))]

\* prepare_row, the matrix polynomials; the key gives them transformed.
PrepareMatrix ==
  /\ path = "prepared" /\ Finished("key")
  /\ rows' = [j \in 0 .. L |-> IF j < L THEN Frozen(input.A[j]) ELSE rows[j]]
  /\ stage' = "t1" /\ StartForward(input.t)
  /\ UNCHANGED <<input, path, col, zhat, chat, w>>

\* prepare_row, t1; the stored row then serves a signature.
PrepareT1 ==
  /\ path = "prepared" /\ Finished("t1")
  /\ rows' = [rows EXCEPT ![L] = Frozen(a)]
  /\ StartZ(0)
  /\ UNCHANGED <<input, path, zhat, chat, w>>

\* A raw key is used as it is.
StartRaw ==
  /\ path = "raw" /\ Finished("key")
  /\ StartZ(0)
  /\ UNCHANGED <<input, path, rows, zhat, chat, w>>

\* z_hat of one column, then of the next or the challenge.
TakeZ ==
  /\ Finished("z")
  /\ zhat' = [zhat EXCEPT ![col] = a]
  /\ \/ col + 1 < L /\ StartZ(col + 1)
     \/ col + 1 = L /\ stage' = "c" /\ col' = 0 /\ StartForward(input.c)
  /\ UNCHANGED <<input, path, rows, chat, w>>

\* The sum row_lazy reduces.
RowTerm(k, ch) ==
  Sum([j \in Columns |-> rows[j][k] * zhat[j][k]], L) - ch[k] * rows[L][k]

\* rows, row: one reduction for the five products.
RowLazy ==
  /\ path = "prepared" /\ Finished("c")
  /\ chat' = a
  /\ stage' = "w" /\ StartInverse([k \in Index |-> Reduced(RowTerm(k, a))])
  /\ UNCHANGED <<input, path, col, rows, zhat, w>>

RawChallenge ==
  /\ path = "raw" /\ Finished("c")
  /\ chat' = a
  /\ stage' = "matrix"
  /\ UNCHANGED <<input, path, col, rows, zhat, w, transform>>

\* matrix_term: add_products.
MatrixTerm ==
  /\ Finished("matrix") /\ col < L
  /\ w' = [k \in Index |-> w[k] + input.A[col][k] * zhat[col][k]]
  /\ col' = col + 1
  /\ UNCHANGED <<input, path, stage, rows, zhat, chat, transform>>

RawT1 ==
  /\ Finished("matrix") /\ col = L
  /\ stage' = "t1" /\ StartForward(input.t)
  /\ UNCHANGED <<input, path, col, rows, zhat, chat, w>>

\* Mutant: one reduction only.
RowReducedOnce(p) == [k \in Index |-> Reduced(p[k])]

\* reduce_row
RowReduced(p) == [k \in Index |-> Scaled(Reduced(p[k]))]

\* t1_term, reduce_row.
T1Term ==
  /\ path = "raw" /\ Finished("t1")
  /\ LET sum == [k \in Index |-> w[k] - chat[k] * a[k]]
     IN  w' = sum /\ stage' = "w" /\ StartInverse(RowReduced(sum))
  /\ UNCHANGED <<input, path, col, rows, zhat, chat>>

Transform ==
  /\ ForwardStep \/ InverseStep
  /\ UNCHANGED <<input, path, stage, col, rows, zhat, chat, w>>

Next ==
  \/ PrepareMatrix \/ PrepareT1 \/ StartRaw \/ TakeZ \/ RowLazy
  \/ RawChallenge \/ MatrixTerm \/ RawT1 \/ T1Term \/ Transform

Spec == Init /\ [][Next]_vars

-----------------------------------------------------------------------------
\* The points a transform evaluates at, in the order of its output.
Point(k) == 2 * Reversal[k] + 1

Eval(p, e) ==
  Sum([i \in Index |-> (p[i] % Q) * Power[(e * i) % (2 * N)]], N) % Q

(***************************************************************************)
(* The words of a stored row are standard representatives, what from_bytes *)
(* insists on (src/ml_dsa_44.rs:80); a t1 coefficient is below Q.          *)
(***************************************************************************)
TypeOK ==
  /\ path \in {"prepared", "raw"}
  /\ stage \in {"key", "t1", "z", "c", "matrix", "w"}
  /\ col \in 0 .. L
  /\ rows \in [0 .. L -> [Index -> 0 .. Q-1]]
  /\ zhat \in [Columns -> [Index -> Int]]
  /\ chat \in [Index -> Int] /\ w \in [Index -> Int] /\ a \in [Index -> Int]

(***************************************************************************)
(* A finished forward transform holds the values of its polynomial at the  *)
(* odd powers of Root in bit-reversed order, whatever the merging of its   *)
(* layers: FIPS 204's NTT, in which products are pointwise.                *)
(***************************************************************************)
Transformed == CASE stage = "t1" -> input.t
                 [] stage = "z" -> input.z[col]
                 [] OTHER -> input.c

ForwardEvaluates ==
  dir = "idle" /\ stage \in {"t1", "z", "c"} =>
    \A k \in Index : a[k] % Q = Eval(Transformed, Point(k))

(***************************************************************************)
(* Both paths end with the same row, the one of the standard: at each of   *)
(* the N points w is sum_j A_j z_j - c t.  A polynomial of degree below N  *)
(* has no other choice.  The scaling by -f, the missing last pass of the   *)
(* inverse transform and the reduction by -2^-64 cancel.                   *)
(***************************************************************************)
RowExact ==
  Finished("w") =>
    \A k \in Index :
      LET e == Point(k)
          products == Sum([j \in Columns |-> input.A[j][k] * Eval(input.z[j], e)], L)
      IN  Eval(a, e) = (products - Eval(input.c, e) * Eval(input.t, e)) % Q
=============================================================================
