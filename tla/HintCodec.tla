------------------------------ MODULE HintCodec ------------------------------
(***************************************************************************)
(* The hint block of a signature: src/codec.rs, and the way                *)
(* Poly::finish_row (src/poly.rs) reads the bitmaps it produces.           *)
(*                                                                         *)
(* hint_counts walks the block row by row and either refuses it or returns *)
(* the cumulative counts; hint_bitmap then turns the indices of one row    *)
(* into machine words.  One action is one iteration of a loop or one early *)
(* return.                                                                 *)
(***************************************************************************)
EXTENDS Integers, FiniteSets

CONSTANTS
  K,      \* rows of the hint vector (4)
  OMEGA,  \* index slots of the block (80)
  BYTES,  \* number of values of a byte, and of coefficients of a row (256)
  WORD,   \* bits of one bitmap word (64)
  GROUP   \* coefficients finish_row handles in one pass of its loop (4)

ASSUME HintAssumption ==
  /\ K \in Nat \ {0}
  /\ OMEGA \in Nat
  /\ BYTES \in Nat \ {0}
  /\ WORD \in Nat \ {0}
  /\ GROUP \in Nat \ {0}
  /\ WORD % GROUP = 0 /\ BYTES % WORD = 0

VARIABLES
  hints,   \* the encoded block, OMEGA indices then K counts
  pc,      \* "count", "order", "padding", "bitmap" or "done"
  i, j, k, \* the loop variables of hint_counts; i and j also of hint_bitmap
  end,     \* the count read for the current row
  counts,  \* cumulative counts of the rows accepted so far
  result,  \* "pending", then "None" or "Some"
  bits     \* the bitmap of each row, as the set of (word, bit) pairs set

vars == <<hints, pc, i, j, k, end, counts, result, bits>>

Rows  == 0 .. K-1
Byte  == 0 .. BYTES-1
Block == [0 .. OMEGA+K-1 -> Byte]
Bit   == (0 .. (BYTES \div WORD) - 1) \X (0 .. WORD-1)

TypeOK ==
  /\ hints \in Block
  /\ pc \in {"count", "order", "padding", "bitmap", "done"}
  /\ i \in 0 .. K
  /\ j \in 0 .. OMEGA
  /\ k \in 0 .. OMEGA
  /\ end \in 0 .. OMEGA
  /\ counts \in [Rows -> Byte]
  /\ result \in {"pending", "None", "Some"}
  /\ bits \in [Rows -> SUBSET Bit]

Init ==
  /\ hints \in Block
  /\ pc = "count"
  /\ i = 0 /\ j = 0 /\ k = 0 /\ end = 0
  /\ counts = [r \in Rows |-> 0]
  /\ result = "pending"
  /\ bits = [r \in Rows |-> {}]

-----------------------------------------------------------------------------
(***************************************************************************)
(* hint_counts                                                             *)
(***************************************************************************)

\* return None
Refuse ==
  /\ result' = "None"
  /\ pc' = "done"
  /\ UNCHANGED <<hints, i, j, k, end, counts, bits>>

\* Mutant: the count is compared with OMEGA only.
CountRefusedUpperOnly(e) == e > OMEGA
\* Mutant: the count is compared with the previous count only.
CountRefusedLowerOnly(e) == e < k

\* end < k || end > OMEGA
CountRefused(e) == e < k \/ e > OMEGA

RefuseCount ==
  /\ pc = "count" /\ i < K
  /\ CountRefused(hints[OMEGA + i])
  /\ Refuse

EnterRow ==
  /\ pc = "count" /\ i < K
  /\ ~CountRefused(hints[OMEGA + i])
  /\ end' = hints[OMEGA + i]
  /\ j' = k
  /\ pc' = "order"
  /\ UNCHANGED <<hints, i, k, counts, result, bits>>

\* Mutant: equal neighbours pass.
OrderRefusedStrict == j > k /\ hints[j] < hints[j-1]

\* j > k && hints[j] <= hints[j - 1]
OrderRefused == j > k /\ hints[j] <= hints[j-1]

RefuseOrder ==
  /\ pc = "order" /\ j < end
  /\ OrderRefused
  /\ Refuse

AcceptIndex ==
  /\ pc = "order" /\ j < end
  /\ ~OrderRefused
  /\ j' = j + 1
  /\ UNCHANGED <<hints, pc, i, k, end, counts, result, bits>>

\* counts[i] = end; k = end; next row, or the padding after the last one
CloseRow ==
  /\ pc = "order" /\ j >= end
  /\ counts' = [counts EXCEPT ![i] = end]
  /\ k' = end
  /\ i' = i + 1
  /\ pc' = IF i + 1 = K THEN "padding" ELSE "count"
  /\ UNCHANGED <<hints, j, end, result, bits>>

\* Mutant: the first padding slot is not looked at.
PaddingRefusedSkipsFirst == \E p \in k+1 .. OMEGA-1 : hints[p] # 0

\* hints[k..OMEGA].iter().any(|&b| b != 0)
PaddingRefused == \E p \in k .. OMEGA-1 : hints[p] # 0

RefusePadding ==
  /\ pc = "padding"
  /\ PaddingRefused
  /\ Refuse

\* Some(counts); the caller goes on to the bitmap of row 0
AcceptBlock ==
  /\ pc = "padding"
  /\ ~PaddingRefused
  /\ result' = "Some"
  /\ pc' = "bitmap"
  /\ i' = 0 /\ j' = 0
  /\ UNCHANGED <<hints, k, end, counts, bits>>

-----------------------------------------------------------------------------
(***************************************************************************)
(* hint_bitmap, called by row and raw_row for i = 0, 1, ..., K-1           *)
(***************************************************************************)

\* Mutant: every row starts at the first index of the block.
RowStartZero(r) == 0

\* if i == 0 { 0 } else { counts[i - 1] }
RowStart(r) == IF r = 0 THEN 0 ELSE counts[r-1]

\* bits[idx / 64] |= 1 << (idx % 64)
SetBit ==
  /\ pc = "bitmap" /\ j < counts[i]
  /\ bits' = [bits EXCEPT ![i] = @ \cup
                {<<hints[j] \div WORD, hints[j] % WORD>>}]
  /\ j' = j + 1
  /\ UNCHANGED <<hints, pc, i, k, end, counts, result>>

\* The caller's loop moves on to the next row
NextBitmap ==
  /\ pc = "bitmap" /\ j >= counts[i]
  /\ i' = i + 1
  /\ IF i + 1 = K
       THEN pc' = "done" /\ j' = j
       ELSE pc' = pc /\ j' = RowStart(i + 1)
  /\ UNCHANGED <<hints, k, end, counts, result, bits>>

\* Mutant: the word is selected by the group number, not the coefficient.
HintBitWrongWord(r, c) ==
  LET first == GROUP * (c \div GROUP)
  IN  <<(c \div GROUP) \div WORD, (first % WORD) + (c % GROUP)>> \in bits[r]

(***************************************************************************)
(* The bit finish_row uses for coefficient c of row r: the word is chosen  *)
(* and shifted for the first coefficient of the group of GROUP that holds  *)
(* c, then shifted by the place of c in the group.                         *)
(***************************************************************************)
HintBit(r, c) ==
  LET first == GROUP * (c \div GROUP)
  IN  <<first \div WORD, (first % WORD) + (c % GROUP)>> \in bits[r]

-----------------------------------------------------------------------------
Next ==
  \/ RefuseCount \/ EnterRow
  \/ RefuseOrder \/ AcceptIndex
  \/ CloseRow
  \/ RefusePadding \/ AcceptBlock
  \/ SetBit \/ NextBitmap

Spec == Init /\ [][Next]_vars

-----------------------------------------------------------------------------
(***************************************************************************)
(* Properties                                                              *)
(***************************************************************************)

\* First slot of row r in block b, from the encoded counts.
Start(b, r) == IF r = 0 THEN 0 ELSE b[OMEGA + r - 1]

\* What a hint block must be (FIPS 204 Algorithm 21): counts that never go
\* back nor beyond OMEGA, indices that increase inside a row, zero padding.
WellFormed(b) ==
  /\ \A r \in Rows :
       /\ Start(b, r) <= b[OMEGA + r] /\ b[OMEGA + r] <= OMEGA
       /\ \A p \in Start(b, r) + 1 .. b[OMEGA + r] - 1 : b[p-1] < b[p]
  /\ \A p \in b[OMEGA + K - 1] .. OMEGA - 1 : b[p] = 0

\* hint_counts answers Some exactly on the well-formed blocks, whichever of
\* its three early returns or loops it goes through.
VerdictExact ==
  /\ result = "Some" => WellFormed(hints)
  /\ result = "None" => ~WellFormed(hints)

\* The slices hint_bitmap takes, hints[start..counts[i]], never panic: the
\* counts of an accepted block are ordered and inside the index part.
SlicesInBounds ==
  result = "Some" =>
    \A r \in Rows : RowStart(r) <= counts[r] /\ counts[r] <= OMEGA

\* The hint vector finish_row sees, as a set of coefficients per row.
HintVector == [r \in Rows |-> {c \in Byte : HintBit(r, c)}]

\* The indices row r of block b lists.
Indices(b, r) == {b[p] : p \in Start(b, r) .. b[OMEGA + r] - 1}

\* The hints finish_row applies are the indices of the block, each in its own
\* row: none is lost, moved or doubled between the block, the slice of a row,
\* the words of its bitmap and the groups the words are read by.
HintsRead == (pc = "done" /\ result = "Some") =>
  \A r \in Rows : HintVector[r] = Indices(hints, r)

\* Number of ones in rows 0..r of hint vector h.
OnesThrough(h, r) == Cardinality({e \in (0 .. r) \X Byte : e[2] \in h[e[1]]})

\* The unique encoding of hint vector h (FIPS 204 Algorithm 20).
Pack(h) ==
  LET RowOf(p) == CHOOSE r \in Rows :
                    /\ p < OnesThrough(h, r)
                    /\ OnesThrough(h, r-1) <= p
      Nth(r, n) == CHOOSE x \in h[r] : Cardinality({y \in h[r] : y < x}) = n
  IN [p \in 0 .. OMEGA+K-1 |->
        IF p >= OMEGA THEN OnesThrough(h, p - OMEGA)
        ELSE IF p >= OnesThrough(h, K-1) THEN 0
        ELSE Nth(RowOf(p), p - OnesThrough(h, RowOf(p) - 1))]

\* An accepted block is the one encoding of the hints the verifier then
\* uses: no second block reaches the same hint vector ("the checks that make
\* the encoding unique", src/codec.rs), and no index is lost or moved to
\* another row or coefficient on its way through the bitmap words.
Canonical == (pc = "done" /\ result = "Some") => hints = Pack(HintVector)
=============================================================================
