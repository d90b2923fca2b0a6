------------------------------ MODULE Unpacking ------------------------------
(***************************************************************************)
(* The bit fields of signatures and keys: z_unpack and t1_unpack_shifted   *)
(* of src/poly.rs.  A step is one iteration of either loop, four fields;   *)
(* the shifts and masks are those of the code.                             *)
(***************************************************************************)
EXTENDS PolyInputs

VARIABLES
  zin,    \* the encoding z_unpack reads
  zrest,  \* the byte of it that is next
  zi,     \* the loop variable
  z,      \* the polynomial written
  bad,    \* whether a coefficient at or beyond BOUND was met
  tin,    \* the encoding t1_unpack_shifted reads
  ti,     \* the loop variable
  t1      \* the polynomial written

unpackingVars == <<zin, zrest, zi, z, bad, tin, ti, t1>>

\* params.rs
TwoToD == 8192
GAMMA1 == 131072

Zeroes == [k \in Coefs |-> 0]

UnpackingInit ==
  /\ zin \in Z /\ zrest = 0 /\ zi = 0 /\ z = Zeroes /\ bad = FALSE
  /\ tin \in T1 /\ ti = 0 /\ t1 = Zeroes

\* i < N / 4
More(i) == i < N \div 4

\* A polynomial with coefficients 4 * i to 4 * i + 3 replaced.
Written(c, i, f) == [k \in Coefs |-> IF k \in 4 * i .. 4 * i + 3 THEN f[k - 4 * i] ELSE c[k]]

\* Byte p of an encoding, and the little-endian word of eight bytes at p.
At(a, p)   == {k \in 0 .. 7 : 8 * p + k \in a}
Word(a, p) == {k \in 0 .. 63 : 8 * p + k \in a}

\* Mutant: the third field begins six bits into its byte.
T1FieldsLate(a, p) ==
  [k \in 0 .. 3 |->
    CASE k = 0 -> Low(Or(At(a, p), Shl(At(a, p + 1), 8)), 10)
      [] k = 1 -> Low(Or(Shr(At(a, p + 1), 2), Shl(At(a, p + 2), 6)), 10)
      [] k = 2 -> Low(Or(Shr(At(a, p + 2), 6), Shl(At(a, p + 3), 2)), 10)
      [] k = 3 -> Low(Or(Shr(At(a, p + 3), 6), Shl(At(a, p + 4), 2)), 10)]

\* f0 to f3, from the five bytes at p
T1Fields(a, p) ==
  [k \in 0 .. 3 |->
    CASE k = 0 -> Low(Or(At(a, p), Shl(At(a, p + 1), 8)), 10)
      [] k = 1 -> Low(Or(Shr(At(a, p + 1), 2), Shl(At(a, p + 2), 6)), 10)
      [] k = 2 -> Low(Or(Shr(At(a, p + 2), 4), Shl(At(a, p + 3), 4)), 10)
      [] k = 3 -> Low(Or(Shr(At(a, p + 3), 6), Shl(At(a, p + 4), 2)), 10)]

\* One iteration of t1_unpack_shifted
UnpackT1 ==
  /\ UNCHANGED <<zin, zrest, zi, z, bad, tin>>
  /\ More(ti)
  /\ t1' = Written(t1, ti, [k \in 0 .. 3 |-> Value(T1Fields(tin, 5 * ti)[k]) * TwoToD])
  /\ ti' = ti + 1

\* Mutant: the mask of the third field has a bit too many.
ZFieldsWide(lo, hi) ==
  [k \in 0 .. 3 |->
    CASE k = 0 -> Low(lo, 18)
      [] k = 1 -> Low(Shr(lo, 18), 18)
      [] k = 2 -> Low(Shr(lo, 36), 19)
      [] k = 3 -> Low(Or(Shr(lo, 54), Shl(hi, 10)), 18)]

\* The four fields of lo and hi
ZFields(lo, hi) ==
  [k \in 0 .. 3 |->
    CASE k = 0 -> Low(lo, 18)
      [] k = 1 -> Low(Shr(lo, 18), 18)
      [] k = 2 -> Low(Shr(lo, 36), 18)
      [] k = 3 -> Low(Or(Shr(lo, 54), Shl(hi, 10)), 18)]

\* norm_at_least as Arithmetic's NormExact shows it, for words below 2^62
norm_at_least(x) == x >= BOUND \/ -x >= BOUND

\* Mutant: the verdict is that of the last four coefficients.
BadBefore == FALSE
\* bad |= ...
BadSoFar == bad

\* One iteration of z_unpack
UnpackZ ==
  /\ UNCHANGED <<zin, tin, ti, t1>>
  /\ More(zi)
  /\ LET f  == ZFields(Word(zin, zrest), At(zin, zrest + 8))
         cs == [k \in 0 .. 3 |-> GAMMA1 - Value(f[k])]
     IN  /\ z' = Written(z, zi, cs)
         /\ bad' = (BadSoFar \/ \E k \in 0 .. 3 : norm_at_least(cs[k]))
  /\ zrest' = zrest + 9
  /\ zi' = zi + 1

UnpackingNext == UnpackZ \/ UnpackT1

UnpackingSpec == UnpackingInit /\ [][UnpackingNext]_unpackingVars

-----------------------------------------------------------------------------
(***************************************************************************)
(* Properties                                                              *)
(***************************************************************************)

\* Both loops stay inside the polynomial (src/poly.rs:139, 165).
UnpackingTypeOK ==
  /\ zrest \in Nat
  /\ zi \in 0 .. N \div 4 /\ ti \in 0 .. N \div 4
  /\ z \in [Coefs -> Int] /\ t1 \in [Coefs -> Int]
  /\ bad \in BOOLEAN

\* Field n of a string of fields of w bits, in little-endian order
\* (FIPS 204 SimpleBitUnpack and BitUnpack).
FieldOf(a, w, n) == Value({k \in 0 .. w-1 : w * n + k \in a})

\* The polynomials the encodings stand for.
DecodedZ  == [n \in Coefs |-> GAMMA1 - FieldOf(zin, 18, n)]
DecodedT1 == [n \in Coefs |-> FieldOf(tin, 10, n) * TwoToD]

\* Byte by byte and word by word, with four different shifts, both routines
\* read the fields of a plain bit string; none straddles a byte wrongly and
\* none is read from its neighbour (src/poly.rs:129, 149).
FieldsExact ==
  \A n \in Coefs : /\ n < 4 * zi => z[n] = DecodedZ[n]
                   /\ n < 4 * ti => t1[n] = DecodedT1[n]

\* z_unpack refuses an encoding exactly when one of its coefficients, in
\* whichever iteration it is met, reaches the bound (src/poly.rs:169).
BadExact ==
  zi = N \div 4
    => (bad <=> \E n \in Coefs : DecodedZ[n] >= BOUND \/ -DecodedZ[n] >= BOUND)

\* Whatever the bytes of a signature or key are, every coefficient written is
\* within what the transforms are called with (NttRanges): t1 * 2^13 below
\* 2^23, z from 1 - 2^17 to 2^17.
WithinZ(x)  == -GAMMA1 < x /\ x <= GAMMA1
WithinT1(x) == 0 <= x /\ x <= 1023 * TwoToD
WithinInputs == \A n \in Coefs : WithinZ(z[n]) /\ WithinT1(t1[n])
=============================================================================
