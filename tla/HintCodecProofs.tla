--------------------------- MODULE HintCodecProofs ---------------------------
(***************************************************************************)
(* Proofs about HintCodec: for every number of rows, index slots, byte     *)
(* values and word size that satisfy HintAssumption, and for every block,  *)
(* the verdict of hint_counts is exact, the slices of hint_bitmap are in   *)
(* bounds, the hints read back through its words are the indices of the    *)
(* block, and no other block has the same hints.                           *)
(***************************************************************************)
EXTENDS HintCodec, FunctionTheorems, FiniteSetTheorems, WellFoundedInduction, TLAPS

\* Row r of the block has passed its two checks and its count is recorded.
Closed(r) ==
  /\ counts[r] = hints[OMEGA + r]
  /\ Start(hints, r) <= hints[OMEGA + r] /\ hints[OMEGA + r] <= OMEGA
  /\ \A p \in Start(hints, r) + 1 .. hints[OMEGA + r] - 1 : hints[p-1] < hints[p]

\* While hint_counts runs: the rows before i are closed and k is where row i
\* starts.
ScanInv ==
  pc \in {"count", "order", "padding"} =>
    /\ result = "pending"
    /\ \A r \in 0 .. i-1 : Closed(r)
    /\ k = Start(hints, i)

\* Inside row i: the indices before j are in order.
RowInv ==
  pc = "order" =>
    /\ end = hints[OMEGA + i]
    /\ k <= j /\ j <= end
    /\ \A p \in k+1 .. j-1 : hints[p-1] < hints[p]

\* Which row each phase may be at.
PhaseInv ==
  /\ pc \in {"count", "order", "bitmap"} => i < K
  /\ pc = "padding" => i = K
  /\ pc = "bitmap" => result = "Some"
  /\ end \in Byte

\* After the verdict.
VerdictInv ==
  /\ result = "Some" => \A r \in Rows : counts[r] = hints[OMEGA + r]
  /\ VerdictExact

IInv == TypeOK /\ ScanInv /\ RowInv /\ PhaseInv /\ VerdictInv

-----------------------------------------------------------------------------
\* The counts of an accepted block are the ones encoded in it, so the slices
\* hint_bitmap takes are ordered and inside the index part.
LEMMA AcceptedSlices ==
  ASSUME VerdictInv
  PROVE  SlicesInBounds
<1> SUFFICES ASSUME result = "Some", NEW r \in Rows
             PROVE  RowStart(r) <= counts[r] /\ counts[r] <= OMEGA
  BY DEF SlicesInBounds
<1>1. \A q \in Rows : counts[q] = hints[OMEGA + q]
  BY DEF VerdictInv
<1>2. Start(hints, r) <= hints[OMEGA + r] /\ hints[OMEGA + r] <= OMEGA
  BY DEF VerdictInv, VerdictExact, WellFormed
<1>3. RowStart(r) = Start(hints, r)
  <2>1. CASE r = 0
    BY <2>1 DEF RowStart, Start
  <2>2. CASE r # 0
    <3>1. r-1 \in Rows /\ OMEGA + (r-1) = OMEGA + r - 1
      BY <2>2, HintAssumption DEF Rows
    <3>. QED  BY <2>2, <3>1, <1>1 DEF RowStart, Start
  <2>. QED  BY <2>1, <2>2
<1>. QED  BY <1>1, <1>2, <1>3

\* Multiplication by a word size preserves order.
LEMMA MulMono ==
  ASSUME NEW w \in Nat, NEW a \in Int, NEW b \in Int, a <= b
  PROVE  w * a <= w * b
<1>1. PICK d \in Nat : b = a + d
  <2>1. b - a \in Nat /\ b = a + (b - a)
    OBVIOUS
  <2>. QED  BY <2>1
<1>2. w * d \in Nat
  OBVIOUS
<1>3. w * b = w * a + w * d
  BY <1>1
<1>. QED  BY <1>2, <1>3

\* An index below BYTES falls in one of the BYTES \div WORD words.
LEMMA BitInMap ==
  ASSUME NEW h \in Byte
  PROVE  <<h \div WORD, h % WORD>> \in Bit
<1> DEFINE q == h \div WORD
           Q == BYTES \div WORD
<1>1. /\ q \in Int /\ Q \in Int
      /\ h % WORD \in 0 .. WORD-1
      /\ h = WORD * q + (h % WORD)
      /\ BYTES = WORD * Q
  BY HintAssumption, SMTT(30) DEF Byte
<1>2. q >= 0
  <2>1. SUFFICES ASSUME q <= -1 PROVE FALSE
    BY <1>1
  <2>2. WORD * q <= WORD * (-1)
    BY <1>1, <2>1, HintAssumption
  <2>. QED  BY <1>1, <2>2, HintAssumption DEF Byte
<1>3. q < Q
  <2>1. SUFFICES ASSUME Q <= q PROVE FALSE
    BY <1>1
  <2>2. WORD * Q <= WORD * q
    BY <1>1, <2>1, HintAssumption, MulMono
  <2>. QED  BY <1>1, <2>2, HintAssumption DEF Byte
<1>. QED  BY <1>1, <1>2, <1>3 DEF Bit

-----------------------------------------------------------------------------
\* The invariant holds before the first row.
LEMMA InitInv == Init => IInv
<1> SUFFICES ASSUME Init PROVE IInv
  OBVIOUS
<1>1. TypeOK
  BY HintAssumption DEF Init, TypeOK, Rows, Byte
<1>2. ScanInv /\ RowInv /\ PhaseInv /\ VerdictInv
  BY HintAssumption DEF Init, ScanInv, RowInv, PhaseInv, VerdictInv, VerdictExact, Start, Byte
<1>. QED  BY <1>1, <1>2 DEF IInv

\* A step of hint_counts that answers None keeps the invariant, provided the
\* block it refuses is malformed.
LEMMA RefuseStep ==
  ASSUME IInv, Refuse, ~WellFormed(hints)
  PROVE  IInv'
<1> USE DEF Refuse
<1>1. TypeOK'
  BY DEF IInv, TypeOK, Bit
<1>2. ScanInv' /\ RowInv' /\ PhaseInv'
  BY DEF IInv, ScanInv, RowInv, PhaseInv
<1>3. VerdictInv'
  BY DEF VerdictInv, VerdictExact
<1>. QED  BY <1>1, <1>2, <1>3 DEF IInv

\* The count of row i is out of place: the block is malformed.
LEMMA RefuseCountStep ==
  ASSUME IInv, RefuseCount
  PROVE  IInv'
<1>1. i \in Rows
  BY HintAssumption DEF RefuseCount, IInv, TypeOK, Rows
<1>2. k = Start(hints, i)
  BY DEF RefuseCount, IInv, ScanInv
<1>3. ~(k <= hints[OMEGA + i] /\ hints[OMEGA + i] <= OMEGA)
  <2>1. hints[OMEGA + i] \in Int
    BY <1>1, HintAssumption DEF IInv, TypeOK, Block, Byte, Rows
  <2>. QED  BY <2>1, HintAssumption DEF RefuseCount, CountRefused, IInv, TypeOK
<1>4. ~WellFormed(hints)
  BY <1>1, <1>2, <1>3 DEF WellFormed
<1>. QED  BY <1>4, RefuseStep DEF RefuseCount

\* Two neighbours of row i are out of order: the block is malformed.
LEMMA RefuseOrderStep ==
  ASSUME IInv, RefuseOrder
  PROVE  IInv'
<1>1. i \in Rows
  BY HintAssumption DEF RefuseOrder, IInv, PhaseInv, TypeOK, Rows
<1>2. k = Start(hints, i) /\ end = hints[OMEGA + i]
  BY DEF RefuseOrder, IInv, ScanInv, RowInv
<1>3. /\ j \in k+1 .. end-1
      /\ hints[j] \in Int /\ hints[j-1] \in Int
  BY HintAssumption DEF RefuseOrder, OrderRefused, IInv, TypeOK, Block, Byte
<1>4. ~(hints[j-1] < hints[j])
  BY <1>3 DEF RefuseOrder, OrderRefused
<1>5. ~WellFormed(hints)
  BY <1>1, <1>2, <1>3, <1>4 DEF WellFormed
<1>. QED  BY <1>5, RefuseStep DEF RefuseOrder

\* Some index slot after the last row is not zero: the block is malformed.
LEMMA RefusePaddingStep ==
  ASSUME IInv, RefusePadding
  PROVE  IInv'
<1>1. i = K /\ k = Start(hints, i)
  BY DEF RefusePadding, IInv, PhaseInv, ScanInv
<1>2. k = hints[OMEGA + K - 1]
  BY <1>1, HintAssumption DEF Start
<1>3. ~WellFormed(hints)
  BY <1>2 DEF RefusePadding, PaddingRefused, WellFormed
<1>. QED  BY <1>3, RefuseStep DEF RefusePadding

\* Reading an acceptable count opens row i.
LEMMA EnterRowStep ==
  ASSUME IInv, EnterRow
  PROVE  IInv'
<1> USE DEF EnterRow
<1>1. hints[OMEGA + i] \in Byte
  BY HintAssumption DEF IInv, TypeOK, Block
<1>2. k <= hints[OMEGA + i] /\ hints[OMEGA + i] <= OMEGA
  BY <1>1, HintAssumption DEF CountRefused, IInv, TypeOK, Byte
<1>3. TypeOK'
  <2>1. end' \in 0 .. OMEGA /\ j' \in 0 .. OMEGA
    BY <1>1, <1>2, HintAssumption DEF IInv, TypeOK, Byte
  <2>2. UNCHANGED <<Block, Rows, Byte, Bit>>
    BY DEF Block, Rows, Byte, Bit
  <2>. QED  BY <2>1, <2>2, Zenon DEF IInv, TypeOK
<1>4. ScanInv'
  BY DEF IInv, ScanInv, Closed
<1>5. RowInv'
  BY <1>2, HintAssumption DEF IInv, TypeOK, RowInv
<1>6. PhaseInv'
  BY <1>1 DEF IInv, PhaseInv, ScanInv, Byte
<1>7. VerdictInv'
  BY DEF IInv, VerdictInv, VerdictExact
<1>. QED  BY <1>3, <1>4, <1>5, <1>6, <1>7 DEF IInv

\* An index above its left neighbour extends the ordered part of row i.
LEMMA AcceptIndexStep ==
  ASSUME IInv, AcceptIndex
  PROVE  IInv'
<1> USE DEF AcceptIndex
<1>1. TypeOK'
  BY HintAssumption DEF IInv, TypeOK, Bit
<1>2. ScanInv'
  BY DEF IInv, ScanInv, Closed
<1>3. RowInv'
  <2>1. end = hints[OMEGA + i] /\ k <= j + 1 /\ j + 1 <= end
    BY HintAssumption DEF IInv, RowInv, TypeOK
  <2>2. ASSUME NEW p \in k+1 .. j PROVE hints[p-1] < hints[p]
    <3>1. CASE p \in k+1 .. j-1
      BY <3>1 DEF IInv, RowInv
    <3>2. CASE p = j
      <4>1. j > k
        BY <3>2, HintAssumption DEF IInv, TypeOK
      <4>2. hints[j] \in Int /\ hints[j-1] \in Int
        BY <4>1, HintAssumption DEF IInv, TypeOK, Block, Byte
      <4>. QED  BY <3>2, <4>1, <4>2 DEF OrderRefused
    <3>. QED  BY <3>1, <3>2, HintAssumption DEF IInv, TypeOK
  <2>3. j' - 1 = j
    BY HintAssumption DEF IInv, TypeOK
  <2>. QED  BY <2>1, <2>2, <2>3 DEF RowInv
<1>4. PhaseInv'
  BY DEF IInv, PhaseInv
<1>5. VerdictInv'
  BY DEF IInv, VerdictInv, VerdictExact
<1>. QED  BY <1>1, <1>2, <1>3, <1>4, <1>5 DEF IInv

\* The end of row i closes it; its count is where the next row starts.
LEMMA CloseRowStep ==
  ASSUME IInv, CloseRow
  PROVE  IInv'
<1> USE DEF CloseRow
<1>1. /\ i \in Rows /\ k = Start(hints, i) /\ end = hints[OMEGA + i]
      /\ k <= end /\ end <= OMEGA /\ end \in Byte /\ j = end
      /\ result = "pending"
  BY HintAssumption DEF IInv, ScanInv, RowInv, PhaseInv, TypeOK, Rows
<1>2. TypeOK'
  BY <1>1, HintAssumption DEF IInv, TypeOK, Rows, Bit
<1>3. ScanInv'
  <2>1. ASSUME NEW r \in 0 .. i PROVE Closed(r)'
    <3>1. CASE r = i
      <4>1. counts'[i] = hints[OMEGA + i]
        BY <1>1 DEF IInv, TypeOK
      <4>2. \A p \in Start(hints, i) + 1 .. end - 1 : hints[p-1] < hints[p]
        BY <1>1 DEF IInv, RowInv
      <4>. QED  BY <1>1, <3>1, <4>1, <4>2 DEF Closed, Start
    <3>2. CASE r \in 0 .. i-1
      <4>1. counts'[r] = counts[r]
        BY <3>2, <1>1, HintAssumption DEF IInv, TypeOK, Rows
      <4>2. Closed(r)
        BY <3>2 DEF IInv, ScanInv
      <4>. QED  BY <4>1, <4>2 DEF Closed, Start
    <3>. QED  BY <3>1, <3>2, <1>1, HintAssumption DEF Rows
  <2>2. end = Start(hints, i + 1)
    <3>1. i + 1 # 0 /\ OMEGA + (i + 1) - 1 = OMEGA + i
      BY <1>1, HintAssumption DEF Rows
    <3>. QED  BY <1>1, <3>1 DEF Start
  <2>3. i' - 1 = i /\ k' = Start(hints, i')
    BY <1>1, <2>2, HintAssumption DEF Rows
  <2>4. k' = Start(hints, i)'
    BY <2>3 DEF Start
  <2>. QED  BY <1>1, <2>1, <2>3, <2>4 DEF ScanInv
<1>4. RowInv'
  BY DEF RowInv
<1>5. PhaseInv'
  BY <1>1, HintAssumption DEF PhaseInv, Rows
<1>6. VerdictInv'
  BY <1>1 DEF VerdictInv, VerdictExact
<1>. QED  BY <1>2, <1>3, <1>4, <1>5, <1>6 DEF IInv

\* All rows closed and the padding zero: the accepted block is well-formed.
LEMMA AcceptBlockStep ==
  ASSUME IInv, AcceptBlock
  PROVE  IInv'
<1> USE DEF AcceptBlock
<1>1. i = K /\ k = Start(hints, K)
  BY DEF IInv, PhaseInv, ScanInv
<1>2. \A r \in Rows : Closed(r)
  BY <1>1 DEF IInv, ScanInv, Rows
<1>3. \A p \in hints[OMEGA + K - 1] .. OMEGA - 1 : hints[p] = 0
  <2>1. k = hints[OMEGA + K - 1]
    BY <1>1, HintAssumption DEF Start
  <2>. QED  BY <2>1 DEF PaddingRefused
<1>4. WellFormed(hints)
  BY <1>2, <1>3 DEF WellFormed, Closed
<1>5. TypeOK'
  BY HintAssumption DEF IInv, TypeOK, Bit
<1>6. ScanInv' /\ RowInv' /\ PhaseInv'
  BY HintAssumption DEF IInv, ScanInv, RowInv, PhaseInv
<1>7. VerdictInv'
  BY <1>2, <1>4 DEF VerdictInv, VerdictExact, Closed
<1>. QED  BY <1>5, <1>6, <1>7 DEF IInv

\* Setting the bit of one index.
LEMMA SetBitStep ==
  ASSUME IInv, SetBit
  PROVE  IInv'
<1> USE DEF SetBit
<1>1. /\ result = "Some" /\ i \in Rows
      /\ counts[i] <= OMEGA /\ counts[i] \in Int
  <2>1. result = "Some" /\ i \in Rows
    BY HintAssumption DEF IInv, PhaseInv, TypeOK, Rows
  <2>2. SlicesInBounds
    BY AcceptedSlices DEF IInv
  <2>. QED  BY <2>1, <2>2 DEF SlicesInBounds, IInv, TypeOK, Byte
<1>2. j + 1 \in 0 .. OMEGA /\ hints[j] \in Byte
  BY <1>1, HintAssumption DEF IInv, TypeOK, Block
<1>3. bits' \in [Rows -> SUBSET Bit]
  <2> DEFINE b == <<hints[j] \div WORD, hints[j] % WORD>>
  <2>1. b \in Bit
    BY <1>2, BitInMap
  <2> HIDE DEF b
  <2>2. bits' = [bits EXCEPT ![i] = @ \cup {b}] /\ bits \in [Rows -> SUBSET Bit]
    BY DEF b, IInv, TypeOK
  <2>. QED  BY <2>1, <2>2, Zenon
<1>4. TypeOK'
  BY <1>2, <1>3 DEF IInv, TypeOK
<1>5. ScanInv' /\ RowInv' /\ PhaseInv' /\ VerdictInv'
  BY DEF IInv, ScanInv, RowInv, PhaseInv, VerdictInv, VerdictExact
<1>. QED  BY <1>4, <1>5 DEF IInv

\* Moving to the next row, or to the end.
LEMMA NextBitmapStep ==
  ASSUME IInv, NextBitmap
  PROVE  IInv'
<1> USE DEF NextBitmap
<1>1. i \in Rows /\ result = "Some"
  BY HintAssumption DEF IInv, PhaseInv, TypeOK, Rows
<1>2. j' \in 0 .. OMEGA
  <2>1. CASE i + 1 = K
    BY <2>1 DEF IInv, TypeOK
  <2>2. CASE i + 1 # K
    <3>1. j' = counts[i]
      BY <1>1, <2>2, HintAssumption DEF RowStart, Rows
    <3>2. SlicesInBounds
      BY AcceptedSlices DEF IInv
    <3>. QED  BY <1>1, <3>1, <3>2, HintAssumption
              DEF SlicesInBounds, IInv, TypeOK, Byte
  <2>. QED  BY <2>1, <2>2
<1>3. TypeOK'
  BY <1>1, <1>2, HintAssumption DEF IInv, TypeOK, Rows, Bit
<1>4. ScanInv' /\ RowInv' /\ VerdictInv'
  BY DEF IInv, ScanInv, RowInv, PhaseInv, VerdictInv, VerdictExact
<1>5. PhaseInv'
  BY <1>1, HintAssumption DEF IInv, PhaseInv, Rows
<1>. QED  BY <1>3, <1>4, <1>5 DEF IInv

-----------------------------------------------------------------------------
\* Every step keeps the invariant.
LEMMA NextInv == IInv /\ [Next]_vars => IInv'
<1> SUFFICES ASSUME IInv, [Next]_vars PROVE IInv'
  OBVIOUS
<1>1. CASE RefuseCount
  BY <1>1, RefuseCountStep
<1>2. CASE EnterRow
  BY <1>2, EnterRowStep
<1>3. CASE RefuseOrder
  BY <1>3, RefuseOrderStep
<1>4. CASE AcceptIndex
  BY <1>4, AcceptIndexStep
<1>5. CASE CloseRow
  BY <1>5, CloseRowStep
<1>6. CASE RefusePadding
  BY <1>6, RefusePaddingStep
<1>7. CASE AcceptBlock
  BY <1>7, AcceptBlockStep
<1>8. CASE SetBit
  BY <1>8, SetBitStep
<1>9. CASE NextBitmap
  BY <1>9, NextBitmapStep
<1>10. CASE UNCHANGED vars
  BY <1>10 DEF vars, IInv, TypeOK, ScanInv, RowInv, PhaseInv, VerdictInv,
     VerdictExact, Closed, Start, Bit
<1>. QED  BY <1>1, <1>2, <1>3, <1>4, <1>5, <1>6, <1>7, <1>8, <1>9, <1>10 DEF Next

\* The invariant holds in every reachable state.
LEMMA Invariance == Spec => []IInv
  BY InitInv, NextInv, PTL DEF Spec

\* The loop variables, counts and bitmap bits of hint_counts and hint_bitmap
\* keep their types for every block: no bitmap word beyond the last is set.
THEOREM TypeCorrect == Spec => []TypeOK
<1>1. IInv => TypeOK
  BY DEF IInv
<1>. QED  BY <1>1, Invariance, PTL

\* hint_counts answers Some on every well-formed block and None on every
\* other, whatever the sizes of the block.
THEOREM Exactness == Spec => []VerdictExact
<1>1. IInv => VerdictExact
  BY DEF IInv, VerdictInv
<1>. QED  BY <1>1, Invariance, PTL

\* No slice taken by hint_bitmap on an accepted block is out of bounds.
THEOREM NoSlicePanic == Spec => []SlicesInBounds
<1>1. IInv => SlicesInBounds
  BY AcceptedSlices DEF IInv
<1>. QED  BY <1>1, Invariance, PTL

-----------------------------------------------------------------------------
(***************************************************************************)
(* The hints read back are the indices of the block.                       *)
(***************************************************************************)

\* The place of index h in a bitmap.
Pos(h) == <<h \div WORD, h % WORD>>

\* Quotient and remainder are determined by the equation they satisfy.
LEMMA DivUnique ==
  ASSUME NEW w \in Nat \ {0}, NEW q \in Int, NEW t \in 0 .. w-1
  PROVE  (w * q + t) \div w = q /\ (w * q + t) % w = t
<1> DEFINE x == w * q + t
           e == x \div w
           m == x % w
<1>1. e \in Int /\ m \in 0 .. w-1 /\ x = w * e + m
  BY SMTT(30)
<1> HIDE DEF e, m
<1>2. ~(e < q)
  <2> SUFFICES ASSUME e < q PROVE FALSE
    OBVIOUS
  <2>1. w * (e + 1) <= w * q
    BY <1>1, MulMono
  <2>2. w * (e + 1) = w * e + w
    BY <1>1
  <2>. QED  BY <1>1, <2>1, <2>2
<1>3. ~(q < e)
  <2> SUFFICES ASSUME q < e PROVE FALSE
    OBVIOUS
  <2>1. w * (q + 1) <= w * e
    BY <1>1, MulMono
  <2>2. w * (q + 1) = w * q + w
    OBVIOUS
  <2>. QED  BY <1>1, <2>1, <2>2
<1>4. e = q
  BY <1>1, <1>2, <1>3
<1>5. m = t
  BY <1>1, <1>4
<1>. QED  BY <1>4, <1>5 DEF e, m

\* A word holds whole groups, so the place finish_row reads for coefficient c
\* is the place of index c.
LEMMA GroupPlace ==
  ASSUME NEW c \in Byte
  PROVE  LET first == GROUP * (c \div GROUP)
         IN  <<first \div WORD, (first % WORD) + (c % GROUP)>> = Pos(c)
<1> DEFINE q == c \div GROUP
           s == c % GROUP
           n == WORD \div GROUP
           u == q \div n
           v == q % n
<1>1. /\ q \in Int /\ s \in 0 .. GROUP-1 /\ c = GROUP * q + s
      /\ n \in Int /\ WORD = GROUP * n
  BY HintAssumption, SMTT(30) DEF Byte
<1>2. n \in Nat \ {0}
  <2> SUFFICES ASSUME n <= 0 PROVE FALSE
    BY <1>1
  <2>1. GROUP * n <= GROUP * 0
    BY <1>1, MulMono, HintAssumption
  <2>. QED  BY <1>1, <2>1, HintAssumption
<1> HIDE DEF q, s, n
<1>3. u \in Int /\ v \in 0 .. n-1 /\ q = n * u + v
  BY <1>1, <1>2, SMTT(30)
<1> HIDE DEF u, v
<1>4. GROUP * v + s \in 0 .. WORD-1 /\ GROUP * v \in 0 .. WORD-1
  <2>1. GROUP * v <= GROUP * (n - 1)
    BY <1>2, <1>3, MulMono, HintAssumption
  <2>2. GROUP * (n - 1) = WORD - GROUP
    BY <1>1, <1>2, HintAssumption
  <2>3. GROUP * 0 <= GROUP * v
    BY <1>2, <1>3, MulMono, HintAssumption
  <2>. QED  BY <1>1, <1>2, <1>3, <2>1, <2>2, <2>3, HintAssumption
<1>5. GROUP * q = WORD * u + GROUP * v
  <2>1. GROUP * (n * u) = (GROUP * n) * u
    BY <1>1, <1>2, <1>3, HintAssumption
  <2>2. GROUP * (n * u + v) = GROUP * (n * u) + GROUP * v
    BY <1>2, <1>3, HintAssumption
  <2>. QED  BY <1>1, <1>3, <2>1, <2>2
<1>6. c = WORD * u + (GROUP * v + s)
  BY <1>1, <1>3, <1>4, <1>5, HintAssumption
<1>7. c \div WORD = u /\ c % WORD = GROUP * v + s
  BY <1>3, <1>4, <1>6, DivUnique, HintAssumption
<1>8. (GROUP * q) \div WORD = u /\ (GROUP * q) % WORD = GROUP * v
  <2>1. PICK t \in 0 .. WORD-1 : t = GROUP * v
    BY <1>4
  <2>2. (WORD * u + t) \div WORD = u /\ (WORD * u + t) % WORD = t
    BY <1>3, DivUnique, HintAssumption
  <2>3. GROUP * q = WORD * u + t
    BY <1>5, <2>1
  <2>. QED  BY <2>1, <2>2, <2>3
<1>. QED  BY <1>7, <1>8 DEF Pos, q, s

\* Two indices with one place are one index.
LEMMA PosInjective ==
  ASSUME NEW x \in Byte, NEW y \in Byte, Pos(x) = Pos(y)
  PROVE  x = y
<1>1. x \div WORD = y \div WORD /\ x % WORD = y % WORD
  BY DEF Pos
<1>2. x = WORD * (x \div WORD) + (x % WORD) /\ y = WORD * (y \div WORD) + (y % WORD)
  BY HintAssumption, SMTT(30) DEF Byte
<1>. QED  BY <1>1, <1>2

\* The indices of row r in the slots before n.
Marked(r, n) == {Pos(hints[p]) : p \in Start(hints, r) .. n-1}

\* The bitmaps before row i are complete, that of row i is up to slot j, and
\* the others are empty.
BitsInv ==
  /\ pc \notin {"bitmap", "done"} => \A r \in Rows : bits[r] = {}
  /\ pc = "bitmap" =>
       /\ \A r \in 0 .. i-1 : bits[r] = Marked(r, hints[OMEGA + r])
       /\ bits[i] = Marked(i, j)
       /\ \A r \in i+1 .. K-1 : bits[r] = {}
       /\ Start(hints, i) <= j /\ j <= hints[OMEGA + i]
  /\ pc = "done" /\ result = "Some" =>
       \A r \in Rows : bits[r] = Marked(r, hints[OMEGA + r])

\* What an accepted block has where hint_bitmap starts and ends a row.
LEMMA RowSlice ==
  ASSUME IInv, result = "Some", NEW r \in Rows
  PROVE  /\ RowStart(r) = Start(hints, r) /\ counts[r] = hints[OMEGA + r]
         /\ Start(hints, r) \in Nat /\ hints[OMEGA + r] \in Nat
         /\ Start(hints, r) <= hints[OMEGA + r] /\ hints[OMEGA + r] <= OMEGA
<1>1. \A q \in Rows : counts[q] = hints[OMEGA + q]
  BY DEF IInv, VerdictInv
<1>2. Start(hints, r) <= hints[OMEGA + r] /\ hints[OMEGA + r] <= OMEGA
  BY DEF IInv, VerdictInv, VerdictExact, WellFormed
<1>3. hints[OMEGA + r] \in Nat
  BY HintAssumption DEF IInv, TypeOK, Block, Byte, Rows
<1>4. RowStart(r) = Start(hints, r) /\ Start(hints, r) \in Nat
  <2>1. CASE r = 0
    BY <2>1 DEF RowStart, Start
  <2>2. CASE r # 0
    <3>1. r-1 \in Rows /\ OMEGA + (r-1) = OMEGA + r - 1
      BY <2>2, HintAssumption DEF Rows
    <3>2. hints[OMEGA + (r-1)] \in Nat
      BY <3>1, HintAssumption DEF IInv, TypeOK, Block, Byte, Rows
    <3>. QED  BY <2>2, <3>1, <3>2, <1>1 DEF RowStart, Start
  <2>. QED  BY <2>1, <2>2
<1>. QED  BY <1>1, <1>2, <1>3, <1>4

\* The slots before the first of a row are none.
LEMMA NoneMarked ==
  ASSUME NEW r, Start(hints, r) \in Nat
  PROVE  Marked(r, Start(hints, r)) = {}
<1>1. Start(hints, r) .. Start(hints, r) - 1 = {}
  OBVIOUS
<1>. QED  BY <1>1 DEF Marked

\* hint_bitmap starts with row 0.
LEMMA BitsAccept == ASSUME IInv, BitsInv, AcceptBlock PROVE BitsInv'
<1>1. /\ pc' = "bitmap" /\ i' = 0 /\ j' = 0 /\ hints' = hints
      /\ result' = "Some" /\ bits' = bits /\ pc = "padding"
  BY DEF AcceptBlock
<1>2. \A r \in Rows : bits[r] = {}
  BY <1>1 DEF BitsInv
<1>3. IInv'
  BY NextInv DEF Next
<1>4. hints[OMEGA + 0] \in Nat
  BY HintAssumption DEF IInv, TypeOK, Block, Byte
<1>5. Start(hints, 0) = 0
  BY DEF Start
<1>6. Marked(0, 0) = {}
  BY <1>5, NoneMarked
<1>7. Marked(0, 0)' = {} /\ Start(hints, 0)' = 0
  BY <1>1, <1>5, <1>6 DEF Marked, Start
<1>8. 0 \in Rows /\ \A r \in 0 + 1 .. K-1 : r \in Rows
  BY HintAssumption DEF Rows
<1>9. bits'[0] = Marked(0, 0)'
  BY <1>1, <1>2, <1>7, <1>8
<1>10. \A r \in 0 + 1 .. K-1 : bits'[r] = {}
  BY <1>1, <1>2, <1>8
<1>11. \A r \in 0 .. 0 - 1 : FALSE
  OBVIOUS
<1>12. hints'[OMEGA + 0] \in Nat /\ 0 <= hints'[OMEGA + 0]
  BY <1>1, <1>4
<1>. QED  BY <1>1, <1>7, <1>9, <1>10, <1>11, <1>12 DEF BitsInv

LEMMA BitsSet == ASSUME IInv, BitsInv, SetBit PROVE BitsInv'
<1>1. /\ pc = "bitmap" /\ pc' = "bitmap" /\ j < counts[i] /\ j' = j + 1
      /\ hints' = hints /\ i' = i /\ result = "Some"
      /\ bits' = [bits EXCEPT ![i] = @ \cup {Pos(hints[j])}]
  BY DEF SetBit, IInv, PhaseInv, Pos
<1>2. i \in Rows /\ bits \in [Rows -> SUBSET Bit] /\ j \in Nat /\ i \in Nat
  BY <1>1, HintAssumption DEF IInv, TypeOK, PhaseInv, Rows
<1>3. /\ counts[i] = hints[OMEGA + i]
      /\ Start(hints, i) \in Nat /\ hints[OMEGA + i] \in Nat
  BY <1>1, <1>2, RowSlice
<1>4. bits[i] = Marked(i, j) /\ Start(hints, i) <= j
  BY <1>1 DEF BitsInv
<1>5. Marked(i, j + 1) = Marked(i, j) \cup {Pos(hints[j])}
  <2>1. Start(hints, i) .. (j + 1) - 1 = (Start(hints, i) .. j - 1) \cup {j}
    BY <1>2, <1>3, <1>4
  <2>. QED  BY <2>1 DEF Marked
<1>6. bits'[i] = Marked(i, j + 1)
  BY <1>1, <1>2, <1>4, <1>5
<1>7. \A r \in Rows : r # i => bits'[r] = bits[r]
  BY <1>1, <1>2
<1>8. \A r \in 0 .. i-1 : bits'[r] = Marked(r, hints[OMEGA + r])
  <2>1. \A r \in 0 .. i-1 : r \in Rows /\ r # i
    BY <1>2, HintAssumption DEF Rows
  <2>. QED  BY <1>1, <1>7, <2>1 DEF BitsInv
<1>9. \A r \in i+1 .. K-1 : bits'[r] = {}
  <2>1. \A r \in i+1 .. K-1 : r \in Rows /\ r # i
    BY <1>2, HintAssumption DEF Rows
  <2>. QED  BY <1>1, <1>7, <2>1 DEF BitsInv
<1>10. Start(hints, i) <= j + 1 /\ j + 1 <= hints[OMEGA + i]
  BY <1>1, <1>2, <1>3, <1>4
<1>. QED  BY <1>1, <1>6, <1>8, <1>9, <1>10 DEF BitsInv, Marked, Start

LEMMA BitsNext == ASSUME IInv, BitsInv, NextBitmap PROVE BitsInv'
<1>1. /\ pc = "bitmap" /\ j >= counts[i] /\ i' = i + 1
      /\ hints' = hints /\ bits' = bits /\ result' = result /\ counts' = counts
      /\ result = "Some"
      /\ IF i + 1 = K THEN pc' = "done" /\ j' = j
                      ELSE pc' = "bitmap" /\ j' = RowStart(i + 1)
  BY DEF NextBitmap, IInv, PhaseInv
<1>2. i \in Rows /\ i \in Nat /\ j \in Nat
  BY <1>1, HintAssumption DEF IInv, TypeOK, PhaseInv, Rows
<1>3. counts[i] = hints[OMEGA + i] /\ hints[OMEGA + i] \in Nat
  BY <1>1, <1>2, RowSlice
<1>4. bits[i] = Marked(i, hints[OMEGA + i])
  <2>1. bits[i] = Marked(i, j) /\ j <= hints[OMEGA + i]
    BY <1>1 DEF BitsInv
  <2>. QED  BY <1>1, <1>2, <1>3, <2>1
<1>5. \A r \in 0 .. i : bits[r] = Marked(r, hints[OMEGA + r])
  <2>1. \A r \in 0 .. i : r = i \/ r \in 0 .. i-1
    BY <1>2
  <2>2. \A r \in 0 .. i-1 : bits[r] = Marked(r, hints[OMEGA + r])
    BY <1>1 DEF BitsInv
  <2>. QED  BY <1>4, <2>1, <2>2
<1>6. CASE i + 1 = K
  <2>1. \A r \in Rows : r \in 0 .. i
    BY <1>6, <1>2 DEF Rows
  <2>. QED  BY <1>1, <1>5, <1>6, <2>1 DEF BitsInv, Marked, Start
<1>7. CASE i + 1 # K
  <2>1. i + 1 \in Rows /\ (i + 1) - 1 = i
    BY <1>2, <1>7, HintAssumption DEF Rows
  <2>2. /\ RowStart(i + 1) = Start(hints, i + 1) /\ Start(hints, i + 1) \in Nat
        /\ Start(hints, i + 1) <= hints[OMEGA + (i + 1)]
    BY <1>1, <2>1, RowSlice
  <2>3. Marked(i + 1, j') = {}
    BY <1>1, <1>7, <2>2, NoneMarked
  <2>4. \A r \in i+1 .. K-1 : bits[r] = {}
    BY <1>1 DEF BitsInv
  <2>5. i + 1 \in i+1 .. K-1 /\ \A r \in (i+1)+1 .. K-1 : r \in i+1 .. K-1
    BY <2>1, HintAssumption DEF Rows
  <2>6. bits[i + 1] = Marked(i + 1, j') /\ \A r \in (i+1)+1 .. K-1 : bits[r] = {}
    BY <2>3, <2>4, <2>5
  <2>7. Start(hints, i + 1) <= j' /\ j' <= hints[OMEGA + (i + 1)]
    BY <1>1, <1>7, <2>2
  <2>. QED  BY <1>1, <1>5, <1>7, <2>1, <2>6, <2>7 DEF BitsInv, Marked, Start
<1>. QED  BY <1>6, <1>7

LEMMA BitsInitial == Init => BitsInv
BY DEF Init, BitsInv

LEMMA BitsStep == IInv /\ BitsInv /\ [Next]_vars => BitsInv'
<1> SUFFICES ASSUME IInv, BitsInv, [Next]_vars PROVE BitsInv'
  OBVIOUS
<1>1. CASE RefuseCount \/ RefuseOrder \/ RefusePadding
  <2>1. /\ pc \notin {"bitmap", "done"} /\ result' = "None" /\ pc' = "done"
        /\ UNCHANGED <<hints, bits>>
    BY <1>1 DEF RefuseCount, RefuseOrder, RefusePadding, Refuse
  <2>. QED  BY <2>1 DEF BitsInv
<1>2. CASE EnterRow \/ AcceptIndex \/ CloseRow
  <2>1. /\ pc \notin {"bitmap", "done"} /\ pc' \notin {"bitmap", "done"}
        /\ UNCHANGED <<hints, bits>>
    BY <1>2 DEF EnterRow, AcceptIndex, CloseRow
  <2>. QED  BY <2>1 DEF BitsInv
<1>3. CASE AcceptBlock
  BY <1>3, BitsAccept
<1>4. CASE SetBit
  BY <1>4, BitsSet
<1>5. CASE NextBitmap
  BY <1>5, BitsNext
<1>6. CASE UNCHANGED vars
  BY <1>6 DEF vars, BitsInv, Marked, Start
<1>. QED  BY <1>1, <1>2, <1>3, <1>4, <1>5, <1>6 DEF Next

\* The hint vector finish_row sees is the block's, for every size of word
\* and group.
THEOREM HintsAreIndices == Spec => []HintsRead
<1>1. IInv /\ BitsInv => HintsRead
  <2> SUFFICES ASSUME IInv, BitsInv, pc = "done", result = "Some", NEW r \in Rows
               PROVE  HintVector[r] = Indices(hints, r)
    BY DEF HintsRead
  <2>1. bits[r] = Marked(r, hints[OMEGA + r])
    BY DEF BitsInv
  <2>2. \A p \in Start(hints, r) .. hints[OMEGA + r] - 1 : hints[p] \in Byte
    <3>1. /\ Start(hints, r) \in Nat /\ hints[OMEGA + r] \in Nat
          /\ hints[OMEGA + r] <= OMEGA
      BY RowSlice
    <3>. QED  BY <3>1, HintAssumption DEF IInv, TypeOK, Block
  <2>3. ASSUME NEW c \in Byte PROVE HintBit(r, c) <=> c \in Indices(hints, r)
    <3>1. HintBit(r, c) <=> Pos(c) \in bits[r]
      BY GroupPlace DEF HintBit
    <3>2. Pos(c) \in bits[r]
            <=> \E p \in Start(hints, r) .. hints[OMEGA + r] - 1 : Pos(hints[p]) = Pos(c)
      BY <2>1 DEF Marked
    <3>3. \A p \in Start(hints, r) .. hints[OMEGA + r] - 1 :
            Pos(hints[p]) = Pos(c) <=> hints[p] = c
      BY <2>2, PosInjective
    <3>. QED  BY <3>1, <3>2, <3>3 DEF Indices
  <2>4. \A c \in Indices(hints, r) : c \in Byte
    BY <2>2 DEF Indices
  <2>. QED  BY <2>3, <2>4 DEF HintVector
<1>. QED  BY <1>1, BitsInitial, BitsStep, Invariance, PTL DEF Spec

-----------------------------------------------------------------------------
(***************************************************************************)
(* The encoding of a hint vector is unique.                                *)
(***************************************************************************)

\* A set of naturals has a least element.
LEMMA LeastNat ==
  ASSUME NEW T, T \subseteq Nat, T # {}
  PROVE  \E x \in T : \A y \in T : x <= y
<1>1. IsWellFoundedOn(OpToRel(<, Nat), Nat)
  BY NatLessThanWellFounded, Zenon
<1>2. PICK x \in T : \A y \in T : ~(<<y, x>> \in OpToRel(<, Nat))
  BY <1>1, WFMin, Zenon
<1>3. ASSUME NEW y \in T PROVE x <= y
  <2>1. <<y, x>> \notin OpToRel(<, Nat)
    BY <1>2
  <2>2. ~(y < x)
    BY <2>1, Zenon DEF OpToRel
  <2>. QED  BY <2>2
<1>. QED  BY <1>3

\* Neighbours in order, so all in order.
LEMMA Increasing ==
  ASSUME NEW b, NEW s \in Nat, NEW e \in Nat,
         \A p \in s .. e-1 : b[p] \in Int,
         \A p \in s+1 .. e-1 : b[p-1] < b[p],
         NEW p \in s .. e-1, NEW q \in s .. e-1, p < q
  PROVE  b[p] < b[q]
<1> SUFFICES ASSUME ~(b[p] < b[q]) PROVE FALSE
  OBVIOUS
<1> DEFINE T == {n \in p+1 .. e-1 : ~(b[p] < b[n])}
<1>1. q \in T /\ T \subseteq Nat
  OBVIOUS
<1>2. PICK n \in T : \A y \in T : n <= y
  BY <1>1, LeastNat
<1>3. n \in s+1 .. e-1 /\ n-1 \in s .. e-1 /\ n \in s .. e-1
  OBVIOUS
<1>4. b[n-1] < b[n]
  BY <1>3
<1>5. n-1 = p \/ b[p] < b[n-1]
  <2>1. CASE n-1 = p
    BY <2>1
  <2>2. CASE n-1 # p
    <3>1. n-1 \in p+1 .. e-1 /\ ~(n <= n-1)
      BY <2>2
    <3>2. n-1 \notin T
      BY <1>2, <3>1
    <3>. QED  BY <3>1, <3>2
  <2>. QED  BY <2>1, <2>2
<1>. QED  BY <1>2, <1>3, <1>4, <1>5

\* The slots from s on up to e of a block hold an increasing list of integers.
List(b, s, e) ==
  /\ s \in Nat /\ e \in Nat /\ s <= e
  /\ \A p \in s .. e-1 : b[p] \in Int
  /\ \A p \in s+1 .. e-1 : b[p-1] < b[p]

\* Whatever stands in the slots of one stands in those of the other.
Within(b, d, s, e, f) == \A p \in s .. e-1 : \E q \in s .. f-1 : d[q] = b[p]

\* If two lists agree before slot n, the entry of the one at n stands in the
\* other, and no earlier than there.
LEMMA EntryFound ==
  ASSUME NEW b, NEW d, NEW s, NEW e, NEW f, List(b, s, e), List(d, s, f),
         Within(b, d, s, e, f),
         NEW n \in s .. e-1, \A p \in s .. n-1 : p < f /\ b[p] = d[p]
  PROVE  n < f /\ d[n] <= b[n]
<1>1. s \in Nat /\ e \in Nat /\ f \in Nat /\ n \in Nat /\ s <= n /\ n < e
  BY DEF List
<1>2. PICK q \in s .. f-1 : d[q] = b[n]
  BY DEF Within
<1>3. ~(q < n)
  <2> SUFFICES ASSUME q < n PROVE FALSE
    OBVIOUS
  <2>1. q \in s .. n-1 /\ q \in s .. e-1
    BY <1>1
  <2>2. b[q] = b[n] /\ b[n] \in Int
    BY <1>2, <2>1 DEF List
  <2>3. b[q] < b[n]
    BY <1>1, <2>1, Increasing DEF List
  <2>. QED  BY <2>2, <2>3
<1>4. n \in s .. f-1
  BY <1>1, <1>3
<1>5. d[n] \in Int
  BY <1>4 DEF List
<1>6. CASE q = n
  BY <1>1, <1>2, <1>4, <1>5, <1>6
<1>7. CASE n < q
  <2>1. d[n] < d[q]
    BY <1>1, <1>4, <1>7, Increasing DEF List
  <2>2. b[n] \in Int
    BY DEF List
  <2>. QED  BY <1>1, <1>2, <1>4, <1>5, <2>1, <2>2
<1>. QED  BY <1>1, <1>3, <1>6, <1>7

\* Two increasing lists from one slot on with the same members are one list:
\* there is no first slot where one has ended or they differ.
LEMMA ListsAgree ==
  ASSUME NEW b, NEW d, NEW s, NEW e, NEW f, List(b, s, e), List(d, s, f),
         Within(b, d, s, e, f), Within(d, b, s, f, e)
  PROVE  e = f /\ \A p \in s .. e-1 : b[p] = d[p]
<1> DEFINE Agree(p) == p < e /\ p < f /\ b[p] = d[p]
           Differ == {p \in Nat : s <= p /\ (p < e \/ p < f) /\ ~Agree(p)}
<1>1. s \in Nat /\ e \in Nat /\ f \in Nat /\ s <= e /\ s <= f
  BY DEF List
<1>2. Differ = {}
  <2> SUFFICES ASSUME Differ # {} PROVE FALSE
    OBVIOUS
  <2>1. PICK n \in Differ : \A y \in Differ : n <= y
    BY LeastNat
  <2>2. n \in Nat /\ s <= n /\ (n < e \/ n < f) /\ ~Agree(n)
    OBVIOUS
  <2>3. \A p \in s .. n-1 : Agree(p)
    <3> SUFFICES ASSUME NEW p \in s .. n-1 PROVE Agree(p)
      OBVIOUS
    <3>1. p \in Nat /\ s <= p /\ ~(n <= p)
      BY <1>1, <2>2
    <3>2. p < e \/ p < f
      BY <1>1, <2>2, <3>1
    <3>3. p \notin Differ
      BY <2>1, <3>1
    <3>. QED  BY <3>1, <3>2, <3>3
  <2>4. n < e => n < f /\ d[n] <= b[n]
    BY <1>1, <2>2, <2>3, EntryFound
  <2>5. \A p \in s .. n-1 : p < e /\ d[p] = b[p]
    BY <2>3
  <2>6. n < f => n < e /\ b[n] <= d[n]
    BY <1>1, <2>2, <2>5, EntryFound
  <2>7. n < e /\ n < f => b[n] \in Int /\ d[n] \in Int
    BY <1>1, <2>2 DEF List
  <2>. QED  BY <2>2, <2>4, <2>6, <2>7
<1>3. \A p \in Nat : s <= p /\ (p < e \/ p < f) => Agree(p)
  BY <1>2
<1>4. ~(e < f) /\ ~(f < e)
  BY <1>1, <1>3
<1>. QED  BY <1>1, <1>3, <1>4

\* No two well-formed blocks list the same indices row by row: "the checks
\* that make the encoding unique" (src/codec.rs) do, whatever the sizes.
THEOREM UniqueEncoding ==
  ASSUME NEW b \in Block, NEW d \in Block, WellFormed(b), WellFormed(d),
         \A r \in Rows : Indices(b, r) = Indices(d, r)
  PROVE  b = d
<1>1. \A r \in Rows : /\ Start(b, r) \in Nat /\ b[OMEGA + r] \in Nat
                      /\ Start(d, r) \in Nat /\ d[OMEGA + r] \in Nat
  BY HintAssumption DEF Start, Block, Byte, Rows
<1>2. \A p \in 0 .. OMEGA-1 : b[p] \in Int /\ d[p] \in Int
  BY HintAssumption DEF Block, Byte
\* a row that starts at the same slot in both is the same
<1>3. ASSUME NEW r \in Rows, Start(b, r) = Start(d, r)
      PROVE  /\ b[OMEGA + r] = d[OMEGA + r]
             /\ \A p \in Start(b, r) .. b[OMEGA + r] - 1 : b[p] = d[p]
  <2> DEFINE s == Start(b, r)
             e == b[OMEGA + r]
             f == d[OMEGA + r]
  <2>1. /\ s \in Nat /\ e \in Nat /\ f \in Nat /\ s <= e /\ s <= f
        /\ e <= OMEGA /\ f <= OMEGA
    BY <1>1, <1>3 DEF WellFormed
  <2>2. /\ \A p \in s+1 .. e-1 : b[p-1] < b[p]
        /\ \A p \in s+1 .. f-1 : d[p-1] < d[p]
    BY <1>3 DEF WellFormed
  <2>3. {b[p] : p \in s .. e-1} = {d[p] : p \in s .. f-1}
    BY <1>3 DEF Indices
  <2> HIDE DEF s, e, f
  <2>4. Within(b, d, s, e, f) /\ Within(d, b, s, f, e)
    BY <2>3 DEF Within
  <2>5. List(b, s, e) /\ List(d, s, f)
    <3>1. /\ \A p \in s .. e-1 : b[p] \in Int
          /\ \A p \in s .. f-1 : d[p] \in Int
      BY <1>2, <2>1, HintAssumption
    <3>. QED  BY <2>1, <2>2, <3>1 DEF List
  <2>6. e = f /\ \A p \in s .. e-1 : b[p] = d[p]
    BY <2>4, <2>5, ListsAgree
  <2>. QED  BY <2>6 DEF s, e, f
\* so no row is the first to start elsewhere
<1>4. \A r \in Rows : Start(b, r) = Start(d, r)
  <2> DEFINE T == {r \in Rows : Start(b, r) # Start(d, r)}
  <2> SUFFICES ASSUME T # {} PROVE FALSE
    OBVIOUS
  <2>1. T \subseteq Nat
    BY HintAssumption DEF Rows
  <2>2. PICK r \in T : \A q \in T : r <= q
    BY <2>1, LeastNat
  <2>3. r # 0
    BY DEF Start
  <2>4. r-1 \in Rows /\ OMEGA + (r-1) = OMEGA + r - 1 /\ ~(r <= r-1)
    BY <2>3, HintAssumption DEF Rows
  <2>5. Start(b, r-1) = Start(d, r-1)
    BY <2>2, <2>4
  <2>6. b[OMEGA + (r-1)] = d[OMEGA + (r-1)]
    BY <1>3, <2>4, <2>5
  <2>. QED  BY <2>3, <2>4, <2>6 DEF Start
<1>5. \A r \in Rows : b[OMEGA + r] = d[OMEGA + r]
  BY <1>3, <1>4
\* every slot of the index part is one of a row, or padding
<1>6. ASSUME NEW p \in 0 .. OMEGA-1 PROVE b[p] = d[p]
  <2> DEFINE T == {r \in Rows : p < b[OMEGA + r]}
  <2>1. CASE T = {}
    <3>1. K-1 \in Rows /\ OMEGA + (K-1) = OMEGA + K - 1
      BY HintAssumption DEF Rows
    <3>2. ~(p < b[OMEGA + (K-1)]) /\ b[OMEGA + (K-1)] \in Nat
      BY <1>1, <2>1, <3>1
    <3>3. p \in b[OMEGA + K - 1] .. OMEGA - 1
      BY <3>1, <3>2, HintAssumption
    <3>4. p \in d[OMEGA + K - 1] .. OMEGA - 1
      BY <1>5, <3>1, <3>3
    <3>. QED  BY <3>3, <3>4 DEF WellFormed
  <2>2. CASE T # {}
    <3>1. T \subseteq Nat
      BY HintAssumption DEF Rows
    <3>2. PICK r \in T : \A q \in T : r <= q
      BY <2>2, <3>1, LeastNat
    <3>3. Start(b, r) <= p
      <4>1. CASE r = 0
        BY <4>1, HintAssumption DEF Start
      <4>2. CASE r # 0
        <5>1. r-1 \in Rows /\ OMEGA + (r-1) = OMEGA + r - 1 /\ ~(r <= r-1)
          BY <4>2, HintAssumption DEF Rows
        <5>2. ~(p < b[OMEGA + (r-1)]) /\ b[OMEGA + (r-1)] \in Nat
          BY <1>1, <3>2, <5>1
        <5>. QED  BY <4>2, <5>1, <5>2, HintAssumption DEF Start
      <4>. QED  BY <4>1, <4>2
    <3>4. p \in Start(b, r) .. b[OMEGA + r] - 1
      BY <1>1, <3>2, <3>3, HintAssumption
    <3>. QED  BY <1>3, <1>4, <3>2, <3>4
  <2>. QED  BY <2>1, <2>2
<1>7. ASSUME NEW p \in 0 .. OMEGA+K-1 PROVE b[p] = d[p]
  <2>1. CASE p < OMEGA
    BY <1>6, <2>1, HintAssumption
  <2>2. CASE p >= OMEGA
    <3>1. p - OMEGA \in Rows /\ OMEGA + (p - OMEGA) = p
      BY <2>2, HintAssumption DEF Rows
    <3>. QED  BY <1>5, <3>1
  <2>. QED  BY <2>1, <2>2, HintAssumption
<1>8. /\ b = [p \in 0 .. OMEGA+K-1 |-> b[p]]
      /\ d = [p \in 0 .. OMEGA+K-1 |-> d[p]]
  BY DEF Block
<1>. QED  BY <1>7, <1>8

-----------------------------------------------------------------------------
(***************************************************************************)
(* An accepted block is the encoding of its hints.                         *)
(***************************************************************************)

\* Slot p is one of row r.
Holds(b, r, p) == Start(b, r) <= p /\ p < b[OMEGA + r]

\* The counts of a well-formed block, and where its rows start.
LEMMA Counts ==
  ASSUME NEW b \in Block, WellFormed(b), NEW r \in Rows
  PROVE  /\ Start(b, r) \in Nat /\ b[OMEGA + r] \in Nat
         /\ Start(b, r) <= b[OMEGA + r] /\ b[OMEGA + r] <= OMEGA
         /\ r # 0 => r-1 \in Rows /\ Start(b, r) = b[OMEGA + (r-1)]
<1>1. b[OMEGA + r] \in Nat
  BY HintAssumption DEF Block, Byte, Rows
<1>2. r # 0 => r-1 \in Rows /\ OMEGA + (r-1) = OMEGA + r - 1
  BY HintAssumption DEF Rows
<1>3. r # 0 => b[OMEGA + (r-1)] \in Nat
  BY <1>2, HintAssumption DEF Block, Byte, Rows
<1>. QED  BY <1>1, <1>2, <1>3 DEF Start, WellFormed

\* A row ends where a later one starts, or before.
LEMMA RowsInOrder ==
  ASSUME NEW b \in Block, WellFormed(b), NEW q \in Rows, NEW r \in Rows, q < r
  PROVE  b[OMEGA + q] <= Start(b, r)
<1> SUFFICES ASSUME ~(b[OMEGA + q] <= Start(b, r)) PROVE FALSE
  OBVIOUS
<1> DEFINE T == {n \in Rows : q < n /\ ~(b[OMEGA + q] <= Start(b, n))}
<1>1. r \in T /\ T \subseteq Nat
  BY HintAssumption DEF Rows
<1>2. PICK n \in T : \A y \in T : n <= y
  BY <1>1, LeastNat
<1>3. n \in Rows /\ q < n /\ n # 0 /\ n \in Nat /\ q \in Nat
  BY HintAssumption DEF Rows
<1>4. n-1 \in Rows /\ Start(b, n) = b[OMEGA + (n-1)] /\ Start(b, n-1) <= b[OMEGA + (n-1)]
  BY <1>3, Counts
<1>5. n-1 # q
  BY <1>2, <1>4, Counts
<1>6. q < n-1 /\ ~(n <= n-1)
  BY <1>3, <1>5
<1>7. b[OMEGA + q] <= Start(b, n-1)
  BY <1>2, <1>4, <1>6
<1>8. /\ b[OMEGA + q] \in Nat /\ Start(b, n-1) \in Nat /\ b[OMEGA + (n-1)] \in Nat
  BY <1>4, Counts
<1>9. b[OMEGA + q] <= Start(b, n)
  BY <1>4, <1>7, <1>8
<1>. QED  BY <1>2, <1>9

\* A slot before the end of row r is one of a row up to r.
LEMMA RowOfSlot ==
  ASSUME NEW b \in Block, WellFormed(b), NEW r \in Rows, NEW p \in Nat, p < b[OMEGA + r]
  PROVE  \E q \in 0 .. r : q \in Rows /\ Holds(b, q, p)
<1> DEFINE T == {n \in Rows : p < b[OMEGA + n]}
<1>1. r \in T /\ T \subseteq Nat
  BY HintAssumption DEF Rows
<1>2. PICK q \in T : \A y \in T : q <= y
  BY <1>1, LeastNat
<1>3. q \in Rows /\ q \in 0 .. r /\ q \in Nat
  BY <1>1, <1>2 DEF Rows
<1>4. Start(b, q) <= p
  <2>1. CASE q = 0
    BY <2>1 DEF Start
  <2>2. CASE q # 0
    <3>1. q-1 \in Rows /\ Start(b, q) = b[OMEGA + (q-1)] /\ ~(q <= q-1)
      BY <1>3, <2>2, Counts
    <3>2. ~(p < b[OMEGA + (q-1)]) /\ b[OMEGA + (q-1)] \in Nat
      BY <1>2, <3>1, Counts
    <3>. QED  BY <3>1, <3>2
  <2>. QED  BY <2>1, <2>2
<1>. QED  BY <1>2, <1>3, <1>4 DEF Holds

\* A slot is one of one row at most.
LEMMA OneRow ==
  ASSUME NEW b \in Block, WellFormed(b), NEW q \in Rows, NEW r \in Rows, NEW p \in Nat,
         Holds(b, q, p), Holds(b, r, p)
  PROVE  q = r
<1>1. /\ b[OMEGA + q] \in Nat /\ Start(b, q) \in Nat
      /\ b[OMEGA + r] \in Nat /\ Start(b, r) \in Nat
  BY Counts
<1>2. ~(q < r) /\ ~(r < q)
  BY <1>1, RowsInOrder DEF Holds
<1>. QED  BY <1>2, HintAssumption DEF Rows

\* The slots of a row hold indices, in increasing order.
LEMMA RowIncreases ==
  ASSUME NEW b \in Block, WellFormed(b), NEW r \in Rows,
         NEW p \in Nat, Holds(b, r, p), NEW q \in Nat, Holds(b, r, q)
  PROVE  /\ b[p] \in Byte /\ b[p] \in Indices(b, r)
         /\ p < q <=> b[p] < b[q]
<1> DEFINE s == Start(b, r)
           e == b[OMEGA + r]
<1>1. s \in Nat /\ e \in Nat /\ e <= OMEGA
  BY Counts
<1>2. \A n \in s .. e-1 : b[n] \in Byte /\ b[n] \in Int
  <2>1. s .. e-1 \subseteq 0 .. OMEGA+K-1
    BY <1>1, HintAssumption
  <2>2. Byte \subseteq Int
    BY DEF Byte
  <2>3. \A n \in 0 .. OMEGA+K-1 : b[n] \in Byte
    BY Zenon DEF Block
  <2>. QED  BY <2>1, <2>2, <2>3, Zenon
<1>3. \A n \in s+1 .. e-1 : b[n-1] < b[n]
  BY DEF WellFormed
<1>4. p \in s .. e-1 /\ q \in s .. e-1
  BY <1>1 DEF Holds
<1>5. b[p] \in Indices(b, r)
  BY <1>4 DEF Indices
<1>. HIDE DEF s, e
<1>6. p < q => b[p] < b[q]
  BY <1>1, <1>2, <1>3, <1>4, Increasing
<1>7. q < p => b[q] < b[p]
  BY <1>1, <1>2, <1>3, <1>4, Increasing
<1>8. b[p] < b[q] => p < q
  BY <1>2, <1>4, <1>7
<1>. QED  BY <1>2, <1>4, <1>5, <1>6, <1>8

\* The members of a row are as many as the slots before.
LEMMA IndexRank ==
  ASSUME NEW b \in Block, WellFormed(b), NEW r \in Rows, NEW p \in Nat, Holds(b, r, p)
  PROVE  Cardinality({y \in Indices(b, r) : y < b[p]}) = p - Start(b, r)
<1> DEFINE s == Start(b, r)
           n == p - s
           E == {y \in Indices(b, r) : y < b[p]}
           f == [m \in 1 .. n |-> b[s + m - 1]]
<1>1. s \in Nat /\ b[OMEGA + r] \in Nat /\ s <= p /\ n \in Nat
  BY Counts DEF Holds
<1>2. \A m \in 1 .. n : s + m - 1 \in Nat /\ s + m - 1 < p /\ Holds(b, r, s + m - 1)
  BY <1>1 DEF Holds
<1>3. f \in [1 .. n -> E]
  BY <1>2, RowIncreases
<1>4. ASSUME NEW l \in 1 .. n, NEW m \in 1 .. n, f[l] = f[m]
      PROVE  l = m
  <2>1. b[s + l - 1] = b[s + m - 1]
    BY <1>4
  <2>2. b[s + l - 1] \in Int /\ b[s + m - 1] \in Int
    BY <1>2, RowIncreases, HintAssumption DEF Byte
  <2>3. ~(s + l - 1 < s + m - 1) /\ ~(s + m - 1 < s + l - 1)
    BY <1>2, <2>1, <2>2, RowIncreases
  <2>. QED  BY <1>1, <2>3
<1>5. ASSUME NEW y \in E
      PROVE  \E m \in 1 .. n : f[m] = y
  <2>1. PICK q \in s .. b[OMEGA + r] - 1 : y = b[q]
    BY DEF Indices
  <2>2. q \in Nat /\ Holds(b, r, q) /\ b[q] < b[p]
    BY <1>1, <2>1 DEF Holds
  <2>3. q < p
    BY <2>2, RowIncreases
  <2>4. q - s + 1 \in 1 .. n /\ s + (q - s + 1) - 1 = q
    BY <1>1, <2>1, <2>2, <2>3
  <2>. QED  BY <2>1, <2>4
<1>. HIDE DEF f, n, E
<1>6. f \in Bijection(1 .. n, E)
  BY <1>3, <1>4, <1>5, Fun_IsBij
<1>7. Cardinality(E) = n
  BY <1>1, <1>6, FS_CountingElements DEF ExistsBijection
<1>. QED  BY <1>7 DEF E, n

\* The hints of the rows up to r are as many as the slots before the end of
\* row r: each slot is one hint, each hint one slot.
LEMMA OnesCounted ==
  ASSUME NEW b \in Block, WellFormed(b), NEW h, \A r \in Rows : h[r] = Indices(b, r),
         NEW r \in Rows
  PROVE  OnesThrough(h, r) = b[OMEGA + r]
<1> DEFINE c == b[OMEGA + r]
           E == {e \in (0 .. r) \X Byte : e[2] \in h[e[1]]}
           Row(p) == CHOOSE q \in 0 .. r : q \in Rows /\ Holds(b, q, p)
           f == [n \in 1 .. c |-> <<Row(n-1), b[n-1]>>]
<1>1. c \in Nat /\ \A q \in 0 .. r : q \in Rows
  BY Counts, HintAssumption DEF Rows
<1>2. ASSUME NEW p \in Nat, p < c
      PROVE  /\ Row(p) \in 0 .. r /\ Row(p) \in Rows /\ Holds(b, Row(p), p)
             /\ \A q \in Rows : Holds(b, q, p) => Row(p) = q
  <2>1. \E q \in 0 .. r : q \in Rows /\ Holds(b, q, p)
    BY <1>2, RowOfSlot
  <2>2. Row(p) \in 0 .. r /\ Row(p) \in Rows /\ Holds(b, Row(p), p)
    BY <2>1
  <2>. HIDE DEF Row
  <2>. QED  BY <2>2, OneRow
<1>. HIDE DEF Row
<1>3. \A n \in 1 .. c : n-1 \in Nat /\ n-1 < c
  BY <1>1
<1>4. f \in [1 .. c -> E]
  <2>1. ASSUME NEW n \in 1 .. c
        PROVE  <<Row(n-1), b[n-1]>> \in E
    <3>1. Row(n-1) \in 0 .. r /\ Row(n-1) \in Rows /\ Holds(b, Row(n-1), n-1)
      BY <1>2, <1>3
    <3>2. b[n-1] \in Byte /\ b[n-1] \in Indices(b, Row(n-1))
      BY <1>3, <3>1, RowIncreases
    <3>. QED  BY <3>1, <3>2
  <2>. QED  BY <2>1
<1>5. ASSUME NEW l \in 1 .. c, NEW m \in 1 .. c, f[l] = f[m]
      PROVE  l = m
  <2>1. Row(l-1) = Row(m-1) /\ b[l-1] = b[m-1]
    BY <1>5
  <2>2. PICK q \in Rows : Holds(b, q, l-1) /\ Holds(b, q, m-1)
    BY <1>2, <1>3, <2>1
  <2>3. b[l-1] \in Int
    BY <1>3, <2>2, RowIncreases, HintAssumption DEF Byte
  <2>4. ~(l-1 < m-1) /\ ~(m-1 < l-1)
    BY <1>3, <2>1, <2>2, <2>3, RowIncreases
  <2>. QED  BY <1>1, <2>4
<1>6. ASSUME NEW e \in E
      PROVE  \E n \in 1 .. c : f[n] = e
  <2>1. PICK q \in 0 .. r, x \in Byte : e = <<q, x>> /\ q \in Rows /\ x \in Indices(b, q)
    BY <1>1
  <2>2. PICK p \in Start(b, q) .. b[OMEGA + q] - 1 : x = b[p]
    BY <2>1 DEF Indices
  <2>3. /\ Start(b, q) \in Nat /\ b[OMEGA + q] \in Nat
        /\ p \in Nat /\ Holds(b, q, p) /\ p < b[OMEGA + q]
    BY <2>1, <2>2, Counts DEF Holds
  <2>4. p < c
    <3>1. CASE q = r
      BY <2>3, <3>1
    <3>2. CASE q # r
      <4>1. q < r /\ Start(b, r) <= c /\ Start(b, r) \in Nat
        BY <2>1, <3>2, Counts, HintAssumption DEF Rows
      <4>. QED  BY <1>1, <2>1, <2>3, <4>1, RowsInOrder
    <3>. QED  BY <3>1, <3>2
  <2>5. Row(p) = q
    BY <1>2, <2>1, <2>3, <2>4
  <2>6. p + 1 \in 1 .. c /\ (p + 1) - 1 = p
    BY <1>1, <2>3, <2>4
  <2>. QED  BY <2>1, <2>2, <2>5, <2>6
<1>. HIDE DEF f, c, E
<1>7. f \in Bijection(1 .. c, E)
  BY <1>4, <1>5, <1>6, Fun_IsBij
<1>8. Cardinality(E) = c
  BY <1>1, <1>7, FS_CountingElements DEF ExistsBijection
<1>. QED  BY <1>8 DEF E, c, OnesThrough

\* The hints before row r are as many as the slots before its first.
LEMMA OnesBefore ==
  ASSUME NEW b \in Block, WellFormed(b), NEW h, \A r \in Rows : h[r] = Indices(b, r),
         NEW r \in Rows
  PROVE  OnesThrough(h, r-1) = Start(b, r)
<1>1. CASE r = 0
  <2>1. {e \in (0 .. r-1) \X Byte : e[2] \in h[e[1]]} = {}
    BY <1>1
  <2>. QED  BY <1>1, <2>1, FS_EmptySet DEF OnesThrough, Start
<1>2. CASE r # 0
  BY <1>2, Counts, OnesCounted
<1>. QED  BY <1>1, <1>2

\* Encoding the hints of a well-formed block gives the block.
LEMMA PackIs ==
  ASSUME NEW b \in Block, WellFormed(b), NEW h, \A r \in Rows : h[r] = Indices(b, r)
  PROVE  Pack(h) = b
<1> DEFINE RowOf(p) == CHOOSE r \in Rows : p < OnesThrough(h, r) /\ OnesThrough(h, r-1) <= p
           Nth(r, n) == CHOOSE x \in h[r] : Cardinality({y \in h[r] : y < x}) = n
           value(p) == IF p >= OMEGA THEN OnesThrough(h, p - OMEGA)
                       ELSE IF p >= OnesThrough(h, K-1) THEN 0
                       ELSE Nth(RowOf(p), p - OnesThrough(h, RowOf(p) - 1))
<1>1. Pack(h) = [p \in 0 .. OMEGA+K-1 |-> value(p)]
  BY DEF Pack
<1>2. K-1 \in Rows /\ OnesThrough(h, K-1) = b[OMEGA + (K-1)] /\ b[OMEGA + (K-1)] \in Nat
      /\ b[OMEGA + (K-1)] <= OMEGA /\ OMEGA + (K-1) = OMEGA + K - 1
  <2>1. K-1 \in Rows
    BY HintAssumption DEF Rows
  <2>. QED  BY <2>1, OnesCounted, Counts, HintAssumption
<1>3. ASSUME NEW p \in Nat, p < b[OMEGA + (K-1)]
      PROVE  RowOf(p) \in Rows /\ Holds(b, RowOf(p), p)
  <2>1. \A r \in Rows : (p < OnesThrough(h, r) /\ OnesThrough(h, r-1) <= p) <=> Holds(b, r, p)
    BY OnesCounted, OnesBefore DEF Holds
  <2>2. \E r \in Rows : p < OnesThrough(h, r) /\ OnesThrough(h, r-1) <= p
    BY <1>2, <1>3, <2>1, RowOfSlot
  <2>3. RowOf(p) \in Rows /\ p < OnesThrough(h, RowOf(p)) /\ OnesThrough(h, RowOf(p) - 1) <= p
    BY <2>2
  <2>. QED  BY <2>1, <2>3
<1>4. ASSUME NEW r \in Rows, NEW p \in Nat, Holds(b, r, p)
      PROVE  Nth(r, p - Start(b, r)) = b[p]
  <2> DEFINE n == p - Start(b, r)
  <2>1. b[p] \in h[r] /\ Cardinality({y \in h[r] : y < b[p]}) = n
    BY <1>4, RowIncreases, IndexRank
  <2>2. ASSUME NEW x \in h[r], Cardinality({y \in h[r] : y < x}) = n
        PROVE  x = b[p]
    <3>1. PICK q \in Start(b, r) .. b[OMEGA + r] - 1 : x = b[q]
      BY DEF Indices
    <3>2. q \in Nat /\ Holds(b, r, q) /\ Start(b, r) \in Nat
      BY <3>1, Counts DEF Holds
    <3>3. q - Start(b, r) = p - Start(b, r)
      BY <2>2, <3>1, <3>2, IndexRank
    <3>4. q = p
      BY <3>2, <3>3
    <3>. QED  BY <3>1, <3>4
  <2>. HIDE DEF n
  <2>3. Nth(r, n) = b[p]
    BY <2>1, <2>2
  <2>. QED  BY <2>3 DEF n
<1>. HIDE DEF RowOf, Nth
<1>5. ASSUME NEW p \in 0 .. OMEGA+K-1
      PROVE  value(p) = b[p]
  <2>1. CASE p >= OMEGA
    <3>1. p - OMEGA \in Rows /\ OMEGA + (p - OMEGA) = p
      BY <2>1, HintAssumption DEF Rows
    <3>. QED  BY <2>1, <3>1, OnesCounted
  <2>2. CASE p < OMEGA /\ p >= b[OMEGA + (K-1)]
    <3>1. p \in b[OMEGA + K - 1] .. OMEGA - 1 /\ ~(p >= OMEGA)
      BY <1>2, <2>2, HintAssumption
    <3>2. b[p] = 0
      BY <3>1 DEF WellFormed
    <3>. QED  BY <1>2, <2>2, <3>1, <3>2
  <2>3. CASE p < b[OMEGA + (K-1)]
    <3>1. p \in Nat /\ ~(p >= OMEGA) /\ ~(p >= b[OMEGA + (K-1)])
      BY <1>2, <2>3, HintAssumption
    <3>2. RowOf(p) \in Rows /\ Holds(b, RowOf(p), p)
      BY <1>3, <2>3, <3>1
    <3>3. Nth(RowOf(p), p - OnesThrough(h, RowOf(p) - 1)) = b[p]
      BY <1>4, <3>1, <3>2, OnesBefore
    <3>. QED  BY <1>2, <3>1, <3>3
  <2>. QED  BY <1>2, <2>1, <2>2, <2>3, HintAssumption
<1>. HIDE DEF value
<1>6. b = [p \in 0 .. OMEGA+K-1 |-> b[p]]
  BY DEF Block
<1>. QED  BY <1>1, <1>5, <1>6

\* A block hint_counts accepts is the encoding of the hints finish_row
\* applies, whatever the sizes: no other block decodes to them.
THEOREM CanonicalEncoding == Spec => []Canonical
<1>1. IInv /\ HintsRead => Canonical
  <2> SUFFICES ASSUME IInv, HintsRead, pc = "done", result = "Some"
               PROVE  hints = Pack(HintVector)
    BY DEF Canonical
  <2>1. hints \in Block /\ WellFormed(hints)
    BY DEF IInv, TypeOK, VerdictInv, VerdictExact
  <2>2. \A r \in Rows : HintVector[r] = Indices(hints, r)
    BY DEF HintsRead
  <2>. QED  BY <2>1, <2>2, PackIs
<1>. QED  BY <1>1, HintsAreIndices, Invariance, PTL
=============================================================================
