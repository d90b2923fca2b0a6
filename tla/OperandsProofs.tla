--------------------------- MODULE OperandsProofs ---------------------------
(***************************************************************************)
(* The routines a row's operands come from, for every degree, modulus,     *)
(* weight, bound, rate, lane and output of the hashes: each is proved by   *)
(* itself, uniform against Algorithm 30, challenge against Algorithm 29    *)
(* and the unpacking routines against the bit strings, and then as         *)
(* verification calls them, one after the other.                           *)
(***************************************************************************)
EXTENDS Operands, FiniteSetTheorems, TLAPS

-----------------------------------------------------------------------------
(***************************************************************************)
(* Poly::uniform implements Algorithm 30.                                  *)
(***************************************************************************)

Groups == RATE128 \div 24

LEMMA GroupsFillBlock == Groups \in Nat /\ RATE128 = 24 * Groups
<1>1. RATE128 \in Nat /\ RATE128 % 24 = 0
  BY UniformAssumption
<1>. QED  BY <1>1 DEF Groups

LEMMA DegreeIsNat == N \in Nat /\ N > 0
  BY UniformAssumption

-----------------------------------------------------------------------------
(***************************************************************************)
(* Words                                                                   *)
(***************************************************************************)

\* A word stands for a natural number.
LEMMA ValueIsNat == ASSUME NEW w PROVE Value(w) \in Nat
<1>1. \A v, x : One(v, x) \in Nat
  BY DEF One
<1>2. \A v : ByteValue(v) \in Nat
  BY <1>1 DEF ByteValue
<1>. QED  BY <1>2 DEF Value

\* The bits of the output a candidate is made of.
Field(at) == {x \in 0 .. 22 : Shake128(seed, 8 * at + x)}

\* A word that lies in one lane, shifted down and masked.
LEMMA OneLane ==
  ASSUME NEW n \in Nat, NEW k \in 0 .. 41, sa \in Nat
  PROVE  Low(Shr(UniformLane(n), k), 23)
           = {x \in 0 .. 22 : Shake128(seed, 8 * sa + 64 * n + k + x)}
<1>1. ASSUME NEW x \in 0 .. 22
      PROVE  x \in Shr(UniformLane(n), k) <=> Shake128(seed, 8 * sa + 64 * n + k + x)
  <2>1. x \in 0 .. 63 /\ x + k \in 0 .. 63
    OBVIOUS
  <2>2. 8 * sa + 64 * n + (x + k) = 8 * sa + 64 * n + k + x
    OBVIOUS
  <2>. QED  BY <2>1, <2>2 DEF Shr, UniformLane
<1>. QED  BY <1>1 DEF Low

\* A word that begins in one lane and ends in the next.
LEMMA TwoLanes ==
  ASSUME NEW n \in Nat, sa \in Nat,
         NEW k \in 42 .. 63, NEW m \in 1 .. 22, k + m = 64
  PROVE  Low(Or(Shr(UniformLane(n), k), Shl(UniformLane(n + 1), m)), 23)
           = {x \in 0 .. 22 : Shake128(seed, 8 * sa + 64 * n + k + x)}
<1>1. ASSUME NEW x \in 0 .. 22
      PROVE  x \in Or(Shr(UniformLane(n), k), Shl(UniformLane(n + 1), m))
               <=> Shake128(seed, 8 * sa + 64 * n + k + x)
  <2>1. CASE x + k < 64
    <3>1. x \in 0 .. 63 /\ x + k \in 0 .. 63 /\ x \notin m .. 63
      BY <2>1
    <3>2. 8 * sa + 64 * n + (x + k) = 8 * sa + 64 * n + k + x
      OBVIOUS
    <3>. QED  BY <3>1, <3>2 DEF Or, Shr, Shl, UniformLane
  <2>2. CASE x + k >= 64
    <3>1. x \in m .. 63 /\ x - m \in 0 .. 63 /\ x + k \notin 0 .. 63
      BY <2>2
    <3>2. 8 * sa + 64 * (n + 1) + (x - m) = 8 * sa + 64 * n + k + x
      OBVIOUS
    <3>. QED  BY <3>1, <3>2 DEF Or, Shr, Shl, UniformLane
  <2>. QED  BY <2>1, <2>2
<1>. QED  BY <1>1 DEF Low

\* The first candidate of a group is not shifted.
LEMMA LaneUnshifted ==
  ASSUME NEW n \in Nat, sa \in Nat
  PROVE  Low(UniformLane(n), 23) = {x \in 0 .. 22 : Shake128(seed, 8 * sa + 64 * n + x)}
  BY DEF Low, UniformLane

\* Every candidate of a group of lanes is a group of three bytes.
LEMMA CutIsField ==
  ASSUME sa \in Nat, g \in Nat, NEW k \in 0 .. 7,
         l[0] = UniformLane(3 * g), l[1] = UniformLane(3 * g + 1), l[2] = UniformLane(3 * g + 2)
  PROVE  Low(Cut(k, l[0], l[1], l[2]), 23) = Field(sa + 24 * g + 3 * k)
<1>0. /\ 3 * g \in Nat /\ 3 * g + 1 \in Nat /\ 3 * g + 2 \in Nat
      /\ (3 * g + 1) + 1 = 3 * g + 2
  OBVIOUS
<1>1. CASE k = 0
  <2>1. Low(l[0], 23) = {x \in 0 .. 22 : Shake128(seed, 8 * sa + 64 * (3 * g) + x)}
    BY <1>0, LaneUnshifted
  <2>2. 8 * sa + 64 * (3 * g) = 8 * (sa + 24 * g + 3 * 0)
    OBVIOUS
  <2>. QED  BY <1>1, <2>1, <2>2 DEF Cut, Field
<1>2. CASE k = 1
  <2>1. Low(Shr(l[0], 24), 23)
          = {x \in 0 .. 22 : Shake128(seed, 8 * sa + 64 * (3 * g) + 24 + x)}
    BY <1>0, OneLane
  <2>2. 8 * sa + 64 * (3 * g) + 24 = 8 * (sa + 24 * g + 3 * 1)
    OBVIOUS
  <2>. QED  BY <1>2, <2>1, <2>2 DEF Cut, Field
<1>3. CASE k = 2
  <2>1. Low(Or(Shr(l[0], 48), Shl(l[1], 16)), 23)
          = {x \in 0 .. 22 : Shake128(seed, 8 * sa + 64 * (3 * g) + 48 + x)}
    <3>1. 48 \in 42 .. 63 /\ 16 \in 1 .. 22 /\ 48 + 16 = 64
      OBVIOUS
    <3>. QED  BY <1>0, <3>1, TwoLanes
  <2>2. 8 * sa + 64 * (3 * g) + 48 = 8 * (sa + 24 * g + 3 * 2)
    OBVIOUS
  <2>. QED  BY <1>3, <2>1, <2>2 DEF Cut, Field
<1>4. CASE k = 3
  <2>1. Low(Shr(l[1], 8), 23)
          = {x \in 0 .. 22 : Shake128(seed, 8 * sa + 64 * (3 * g + 1) + 8 + x)}
    BY <1>0, OneLane
  <2>2. 8 * sa + 64 * (3 * g + 1) + 8 = 8 * (sa + 24 * g + 3 * 3)
    OBVIOUS
  <2>. QED  BY <1>4, <2>1, <2>2 DEF Cut, Field
<1>5. CASE k = 4
  <2>1. Low(Shr(l[1], 32), 23)
          = {x \in 0 .. 22 : Shake128(seed, 8 * sa + 64 * (3 * g + 1) + 32 + x)}
    BY <1>0, OneLane
  <2>2. 8 * sa + 64 * (3 * g + 1) + 32 = 8 * (sa + 24 * g + 3 * 4)
    OBVIOUS
  <2>. QED  BY <1>5, <2>1, <2>2 DEF Cut, Field
<1>6. CASE k = 5
  <2>1. Low(Or(Shr(l[1], 56), Shl(l[2], 8)), 23)
          = {x \in 0 .. 22 : Shake128(seed, 8 * sa + 64 * (3 * g + 1) + 56 + x)}
    <3>1. 56 \in 42 .. 63 /\ 8 \in 1 .. 22 /\ 56 + 8 = 64
      OBVIOUS
    <3>. QED  BY <1>0, <3>1, TwoLanes
  <2>2. 8 * sa + 64 * (3 * g + 1) + 56 = 8 * (sa + 24 * g + 3 * 5)
    OBVIOUS
  <2>. QED  BY <1>6, <2>1, <2>2 DEF Cut, Field
<1>7. CASE k = 6
  <2>1. Low(Shr(l[2], 16), 23)
          = {x \in 0 .. 22 : Shake128(seed, 8 * sa + 64 * (3 * g + 2) + 16 + x)}
    BY <1>0, OneLane
  <2>2. 8 * sa + 64 * (3 * g + 2) + 16 = 8 * (sa + 24 * g + 3 * 6)
    OBVIOUS
  <2>. QED  BY <1>7, <2>1, <2>2 DEF Cut, Field
<1>8. CASE k = 7
  <2>1. Low(Shr(l[2], 40), 23)
          = {x \in 0 .. 22 : Shake128(seed, 8 * sa + 64 * (3 * g + 2) + 40 + x)}
    BY <1>0, OneLane
  <2>2. 8 * sa + 64 * (3 * g + 2) + 40 = 8 * (sa + 24 * g + 3 * 7)
    OBVIOUS
  <2>. QED  BY <1>8, <2>1, <2>2 DEF Cut, Field
<1>. QED  BY <1>1, <1>2, <1>3, <1>4, <1>5, <1>6, <1>7, <1>8

-----------------------------------------------------------------------------
(***************************************************************************)
(* The inductive invariant: where the loop is, the lanes and the candidate *)
(* it holds are those of its place in the output, and everything stored so *)
(* far was below Q.                                                        *)
(***************************************************************************)

Holding(k) == l[k] = UniformLane(3 * g + k)

InGroup ==
  /\ g < Groups /\ slot \in 0 .. 7
  /\ Holding(0) /\ Holding(1) /\ Holding(2)

UniformInv ==
  /\ seed \in Seeds
  /\ sa \in Nat /\ g \in 0 .. Groups /\ slot \in 0 .. 8
  /\ l \in [0 .. 2 -> SUBSET (0 .. 63)]
  /\ t \in SUBSET (0 .. 22)
  /\ ctr \in 0 .. N
  /\ entry \in [0 .. N-1 -> Int]
  /\ apc \in {"group", "take", "try", "done"}
  /\ apc # "done" => ctr < N
  /\ apc = "done" => ctr = N
  /\ apc \in {"take", "try"} => InGroup
  /\ apc = "try" => t = Field(sa + 24 * g + 3 * slot)
  /\ \A n \in 0 .. N-1 : n < ctr => 0 <= entry[n] /\ entry[n] < Q

LEMMA UniformInitInv == UniformInit => UniformInv
<1> SUFFICES ASSUME UniformInit PROVE UniformInv
  OBVIOUS
<1>1. g \in 0 .. Groups /\ slot \in 0 .. 8 /\ sa \in Nat
  BY GroupsFillBlock DEF UniformInit
<1>2. l \in [0 .. 2 -> SUBSET (0 .. 63)] /\ t \in SUBSET (0 .. 22)
  BY DEF UniformInit
<1>3. entry \in [0 .. N-1 -> Int]
  BY DEF UniformInit, STALE
<1>4. ctr \in 0 .. N /\ ctr < N /\ ctr = 0
  BY DegreeIsNat DEF UniformInit
<1>. QED  BY <1>1, <1>2, <1>3, <1>4 DEF UniformInit, UniformInv

LEMMA LaneIsWord == \A n : UniformLane(n) \in SUBSET (0 .. 63)
BY DEF UniformLane

LEMMA LoadInv == UniformInv /\ Load => UniformInv'
<1> SUFFICES ASSUME UniformInv, Load PROVE UniformInv'
  OBVIOUS
<1>1. /\ g < Groups /\ apc' = "take" /\ slot' = 0
      /\ UNCHANGED <<seed, sa, g, t, ctr, entry>>
      /\ l' = [n \in 0 .. 2 |-> UniformLane(3 * g + n)]
  BY DEF Load, Groups
<1>2. l' \in [0 .. 2 -> SUBSET (0 .. 63)]
  BY <1>1, LaneIsWord
<1>3. \A n : UniformLane(n)' = UniformLane(n)
  BY <1>1 DEF UniformLane
<1>4. InGroup'
  BY <1>1, <1>3 DEF InGroup, Holding
<1>5. ctr < N
  BY DEF UniformInv, Load
<1>. QED  BY <1>1, <1>2, <1>4, <1>5 DEF UniformInv

LEMMA TakeInv == UniformInv /\ Take => UniformInv'
<1> SUFFICES ASSUME UniformInv, Take PROVE UniformInv'
  OBVIOUS
<1>1. /\ apc = "take" /\ apc' = "try"
      /\ UNCHANGED <<seed, sa, g, slot, l, ctr, entry>>
      /\ t' = Low(Cut(slot, l[0], l[1], l[2]), 23)
  BY DEF Take
<1>2. InGroup /\ ctr < N
  BY <1>1 DEF UniformInv
<1>3. InGroup'
  BY <1>1, <1>2 DEF InGroup, Holding, UniformLane
<1>4. t' = Field(sa + 24 * g + 3 * slot)
  <2>1. sa \in Nat /\ g \in Nat /\ slot \in 0 .. 7
    BY <1>2, GroupsFillBlock DEF UniformInv, InGroup
  <2>2. l[0] = UniformLane(3 * g) /\ l[1] = UniformLane(3 * g + 1) /\ l[2] = UniformLane(3 * g + 2)
    BY <1>2, <2>1 DEF InGroup, Holding
  <2>. QED  BY <1>1, <2>1, <2>2, CutIsField
<1>5. (t = Field(sa + 24 * g + 3 * slot))'
  BY <1>1, <1>4 DEF Field
<1>6. t' \in SUBSET (0 .. 22)
  BY <1>1 DEF Low
<1>. QED  BY <1>1, <1>2, <1>3, <1>5, <1>6 DEF UniformInv

LEMMA AdvanceFacts ==
  ASSUME UniformInv, Advance, apc = "try"
  PROVE  /\ g' \in 0 .. Groups /\ slot' \in 0 .. 8
         /\ apc' \in {"group", "take"}
         /\ apc' = "take" => g' = g /\ slot' = slot + 1 /\ slot' \in 0 .. 7
         /\ apc' = "group" => g' = g + 1 /\ slot = 7
<1>1. g < Groups /\ slot \in 0 .. 7 /\ g \in 0 .. Groups
  BY DEF UniformInv, InGroup
<1>. QED  BY <1>1, GroupsFillBlock DEF Advance

\* The lanes held are still those of the group when the next take! is in it.
LEMMA AdvanceKeepsGroup ==
  ASSUME UniformInv, Advance, apc = "try", UNCHANGED <<seed, sa, l>>
  PROVE  apc' \in {"take", "try"} => InGroup'
<1> SUFFICES ASSUME apc' \in {"take", "try"} PROVE InGroup'
  OBVIOUS
<1>1. g' = g /\ slot' \in 0 .. 7
  BY AdvanceFacts
<1>2. InGroup
  BY DEF UniformInv
<1>. QED  BY <1>1, <1>2 DEF InGroup, Holding, UniformLane

LEMMA RejectInv == UniformInv /\ Reject => UniformInv'
<1> SUFFICES ASSUME UniformInv, Reject PROVE UniformInv'
  OBVIOUS
<1>1. apc = "try" /\ Advance /\ UNCHANGED <<seed, sa, l, t, ctr, entry>>
  BY DEF Reject
<1>2. ctr < N
  BY <1>1 DEF UniformInv
<1>3. apc' \in {"take", "try"} => InGroup'
  BY <1>1, AdvanceKeepsGroup
<1>. QED  BY <1>1, <1>2, <1>3, AdvanceFacts DEF UniformInv

LEMMA StoreFacts ==
  ASSUME UniformInv, Store
  PROVE  /\ entry' \in [0 .. N-1 -> Int]
         /\ ctr' = ctr + 1 /\ ctr' \in 0 .. N
         /\ \A n \in 0 .. N-1 : n < ctr' => 0 <= entry'[n] /\ entry'[n] < Q
         /\ entry'[ctr] = Value(t) /\ Value(t) < Q
         /\ \A n \in 0 .. ctr-1 : entry'[n] = entry[n]
<1>1. /\ apc = "try" /\ Value(t) < Q /\ entry' = [entry EXCEPT ![ctr] = Value(t)]
      /\ ctr' = ctr + 1
  BY DEF Store, Below
<1>2. /\ ctr \in Nat /\ ctr < N /\ N \in Nat /\ Value(t) \in Nat
      /\ entry \in [0 .. N-1 -> Int]
      /\ \A n \in 0 .. N-1 : n < ctr => 0 <= entry[n] /\ entry[n] < Q
  BY <1>1, ValueIsNat, DegreeIsNat DEF UniformInv
<1>. HIDE DEF UniformInv, Store
<1>3. ctr \in 0 .. N-1 /\ ctr' \in 0 .. N
  BY <1>1, <1>2
<1>4. entry' \in [0 .. N-1 -> Int]
  BY <1>1, <1>2
<1>5. entry'[ctr] = Value(t) /\ \A n \in 0 .. N-1 : n # ctr => entry'[n] = entry[n]
  BY <1>1, <1>2, <1>3
<1>6. ASSUME NEW n \in 0 .. N-1, n < ctr' PROVE 0 <= entry'[n] /\ entry'[n] < Q
  <2>1. CASE n = ctr
    BY <2>1, <1>1, <1>2, <1>5
  <2>2. CASE n # ctr
    BY <2>2, <1>1, <1>2, <1>5, <1>6
  <2>. QED  BY <2>1, <2>2
<1>7. \A n \in 0 .. ctr-1 : entry'[n] = entry[n]
  BY <1>2, <1>5
<1>. QED  BY <1>1, <1>3, <1>4, <1>5, <1>6, <1>7

LEMMA KeepInv == UniformInv /\ Keep => UniformInv'
<1> SUFFICES ASSUME UniformInv, Keep PROVE UniformInv'
  OBVIOUS
<1>1. Store /\ Advance /\ apc = "try" /\ ctr + 1 # N /\ UNCHANGED <<seed, sa, l, t>>
  BY DEF Keep, Store, Full
<1>2. apc' \in {"take", "try"} => InGroup'
  BY <1>1, AdvanceKeepsGroup
<1>3. ctr' < N /\ ctr' \in 0 .. N
  BY <1>1, StoreFacts, DegreeIsNat
<1>4. entry' \in [0 .. N-1 -> Int]
      /\ \A n \in 0 .. N-1 : n < ctr' => 0 <= entry'[n] /\ entry'[n] < Q
  BY <1>1, StoreFacts
<1>5. apc' \in {"group", "take"} /\ g' \in 0 .. Groups /\ slot' \in 0 .. 8
  BY <1>1, AdvanceFacts
<1>. QED  BY <1>1, <1>2, <1>3, <1>4, <1>5 DEF UniformInv

LEMMA ReturnInv == UniformInv /\ Return => UniformInv'
<1> SUFFICES ASSUME UniformInv, Return PROVE UniformInv'
  OBVIOUS
<1>1. Store /\ ctr + 1 = N /\ apc' = "done" /\ UNCHANGED <<seed, sa, l, t, g, slot>>
  BY DEF Return, Store, Full
<1>2. ctr' = N /\ ctr' \in 0 .. N /\ entry' \in [0 .. N-1 -> Int]
      /\ \A n \in 0 .. N-1 : n < ctr' => 0 <= entry'[n] /\ entry'[n] < Q
  BY <1>1, StoreFacts
<1>. QED  BY <1>1, <1>2 DEF UniformInv

LEMMA PermuteUniformInv == UniformInv /\ PermuteUniform => UniformInv'
<1> SUFFICES ASSUME UniformInv, PermuteUniform PROVE UniformInv'
  OBVIOUS
<1>1. /\ apc = "group" /\ apc' = apc /\ sa' = sa + RATE128 /\ g' = 0
      /\ UNCHANGED <<seed, slot, l, t, ctr, entry>>
  BY DEF PermuteUniform
<1>2. sa' \in Nat /\ g' \in 0 .. Groups
  BY <1>1, GroupsFillBlock, UniformAssumption DEF UniformInv
<1>. QED  BY <1>1, <1>2 DEF UniformInv

LEMMA UniformInductive == UniformInv /\ [UniformNext]_uniformVars => UniformInv'
<1> SUFFICES ASSUME UniformInv, [UniformNext]_uniformVars PROVE UniformInv'
  OBVIOUS
<1>1. CASE UNCHANGED uniformVars
  BY <1>1 DEF uniformVars, UniformInv, InGroup, Holding, UniformLane, Field
<1>. QED  BY <1>1, LoadInv, TakeInv, RejectInv, KeepInv, ReturnInv, PermuteUniformInv DEF UniformNext

LEMMA UniformInvariance == UniformSpec => []UniformInv
  BY UniformInitInv, UniformInductive, PTL DEF UniformSpec

\* Every variable keeps its type.
THEOREM UniformTypeCorrect == UniformSpec => []UniformTypeOK
<1>1. UniformInv => UniformTypeOK
  BY DEF UniformInv, UniformTypeOK, Groups
<1>. QED  BY <1>1, UniformInvariance, PTL

\* The routine stores nothing beyond the N-th coefficient and returns
\* nothing it has not sampled.
THEOREM NeverOverfilled == UniformSpec => []NeverOverfull
<1>1. UniformInv => NeverOverfull
  <2> SUFFICES ASSUME UniformInv PROVE NeverOverfull
    OBVIOUS
  <2>1. ASSUME apc = "done", NEW n \in 0 .. N-1 PROVE entry[n] # STALE /\ entry[n] < Q
    <3>1. n < ctr /\ entry[n] \in Int
      BY <2>1, DegreeIsNat DEF UniformInv
    <3>. QED  BY <3>1 DEF UniformInv, STALE
  <2>. QED  BY <2>1 DEF UniformInv, NeverOverfull
<1>. QED  BY <1>1, UniformInvariance, PTL

-----------------------------------------------------------------------------
(***************************************************************************)
(* UniformRefinement: the trials are the steps of Algorithm 30, everything else   *)
(* is invisible.                                                           *)
(***************************************************************************)

Sampled == [n \in 0 .. ctr-1 |-> entry[n]]
Returned == IF apc = "done" THEN entry ELSE Pending

\* Both modules read the same number from a word.
LEMMA SameValue == \A w : Algorithm30!Value(w) = Value(w)
<1>1. \A w, x : Algorithm30!One(w, x) = One(w, x)
  BY DEF Algorithm30!One, One
<1>2. \A w : Algorithm30!ByteValue(w) = ByteValue(w)
  BY <1>1 DEF Algorithm30!ByteValue, ByteValue
<1>3. \A w, n : Algorithm30!Shr(w, n) = Shr(w, n)
  BY DEF Algorithm30!Shr, Shr
<1>. QED  BY <1>2, <1>3 DEF Algorithm30!Value, Value

\* Where a candidate is tried, it is the one Algorithm 30 reads.
LEMMA SameCandidate ==
  ASSUME UniformInv, apc = "try"
  PROVE  Algorithm30!Candidate = Value(t)
<1>1. UniformRead = sa + 24 * g + 3 * slot
  BY DEF UniformRead, UniformInv
<1>2. t = Field(UniformRead)
  BY <1>1 DEF UniformInv
<1>. QED  BY <1>2, SameValue DEF Algorithm30!Candidate, Field

\* A trial moves on by three bytes.
LEMMA AdvanceReads ==
  ASSUME UniformInv, Advance, apc = "try", sa' = sa
  PROVE  UniformRead' = UniformRead + 3
<1>1. /\ sa \in Nat /\ g \in Nat /\ slot \in 0 .. 7
  BY GroupsFillBlock DEF UniformInv, InGroup
<1>2. UniformRead = sa + 24 * g + 3 * slot
  BY <1>1 DEF UniformRead
<1>3. CASE slot = 7
  <2>1. apc' = "group" /\ g' = g + 1
    BY <1>3 DEF Advance
  <2>. QED  BY <1>1, <1>2, <1>3, <2>1 DEF UniformRead
<1>4. CASE slot # 7
  <2>1. apc' = "take" /\ g' = g /\ slot' = slot + 1
    BY <1>4 DEF Advance
  <2>. QED  BY <1>1, <1>2, <2>1 DEF UniformRead
<1>. QED  BY <1>3, <1>4

LEMMA NotReturned == ASSUME UniformInv PROVE entry # Pending
BY UniformAssumption DEF UniformInv

LEMMA RejectSkips == UniformInv /\ Reject => Algorithm30!Next
<1> SUFFICES ASSUME UniformInv, Reject PROVE Algorithm30!Next
  OBVIOUS
<1>1. apc = "try" /\ Advance /\ ~(Value(t) < Q) /\ UNCHANGED <<seed, sa, ctr, entry>>
  BY DEF Reject, Below
<1>2. UniformRead' = UniformRead + 3
  BY <1>1, AdvanceReads
<1>3. Returned = Pending /\ Returned' = Pending
  BY <1>1, AdvanceFacts DEF Returned
<1>4. Sampled' = Sampled
  BY <1>1 DEF Sampled
<1>5. Algorithm30!Candidate >= Q
  BY <1>1, SameCandidate, ValueIsNat, UniformAssumption
<1>. QED  BY <1>1, <1>2, <1>3, <1>4, <1>5 DEF Algorithm30!Next, Algorithm30!Skip, Sampled, Returned

\* What a stored candidate adds to the coefficients sampled.
LEMMA StoreAppends ==
  ASSUME UniformInv, Store
  PROVE  /\ ctr \in 0 .. N-1 /\ DOMAIN Sampled = 0 .. ctr-1
         /\ Sampled' = [n \in 0 .. ctr |-> IF n = ctr THEN Value(t) ELSE Sampled[n]]
<1>1. ctr \in 0 .. N-1
  BY StoreFacts, DegreeIsNat DEF UniformInv, Store
<1>2. ctr' - 1 = ctr
  BY <1>1, StoreFacts
<1>3. Sampled' = [n \in 0 .. ctr |-> entry'[n]]
  BY <1>2 DEF Sampled
<1>4. ASSUME NEW n \in 0 .. ctr
      PROVE  entry'[n] = IF n = ctr THEN Value(t) ELSE Sampled[n]
  <2>1. CASE n = ctr
    BY <2>1, StoreFacts
  <2>2. CASE n # ctr
    <3>1. n \in 0 .. ctr-1
      BY <1>1, <2>2
    <3>. QED  BY <2>2, <3>1, StoreFacts DEF Sampled
  <2>. QED  BY <2>1, <2>2
<1>5. Sampled' = [n \in 0 .. ctr |-> IF n = ctr THEN Value(t) ELSE Sampled[n]]
  BY <1>3, <1>4
<1>. QED  BY <1>1, <1>5 DEF Sampled

LEMMA KeepKeeps == UniformInv /\ Keep => Algorithm30!Next
<1> SUFFICES ASSUME UniformInv, Keep PROVE Algorithm30!Next
  OBVIOUS
<1>1. apc = "try" /\ Store /\ Advance /\ ctr + 1 # N /\ Value(t) < Q /\ seed' = seed /\ sa' = sa
  BY DEF Keep, Store, Full, Below
<1>2. UniformRead' = UniformRead + 3
  BY <1>1, AdvanceReads
<1>3. Returned = Pending /\ Returned' = Pending
  BY <1>1, AdvanceFacts DEF Returned
<1>4. Algorithm30!Candidate = Value(t)
  BY <1>1, SameCandidate
<1>. QED  BY <1>1, <1>2, <1>3, <1>4, StoreAppends
          DEF Algorithm30!Next, Algorithm30!Keep, Sampled, Returned

LEMMA ReturnKeeps == UniformInv /\ Return => Algorithm30!Next
<1> SUFFICES ASSUME UniformInv, Return PROVE Algorithm30!Next
  OBVIOUS
<1>1. /\ apc = "try" /\ Store /\ ctr + 1 = N /\ Value(t) < Q /\ apc' = "done"
      /\ seed' = seed /\ sa' = sa /\ g' = g /\ slot' = slot
  BY DEF Return, Store, Full, Below
<1>2. UniformRead' = UniformRead + 3
  <2>1. sa \in Nat /\ g \in Nat /\ slot \in Nat
    BY GroupsFillBlock DEF UniformInv
  <2>. QED  BY <1>1, <2>1 DEF UniformRead
<1>3. Returned = Pending /\ Returned' = entry'
  BY <1>1 DEF Returned
<1>4. Algorithm30!Candidate = Value(t)
  BY <1>1, SameCandidate
<1>5. Sampled' = entry'
  <2>1. ctr' - 1 = N - 1 /\ entry' \in [0 .. N-1 -> Int]
    BY <1>1, StoreFacts, DegreeIsNat
  <2>. QED  BY <2>1 DEF Sampled
<1>. QED  BY <1>1, <1>2, <1>3, <1>4, <1>5, StoreAppends
          DEF Algorithm30!Next, Algorithm30!Keep, Sampled, Returned

\* The stream is read in order, whatever lane, group or block a candidate
\* is in: the routine samples what Algorithm 30 samples.
THEOREM UniformRefinement == UniformSpec => SamplesRejNTTPoly
<1>1. UniformInit => Algorithm30!Init
  <2> SUFFICES ASSUME UniformInit PROVE Algorithm30!Init
    OBVIOUS
  <2>1. UniformRead = 0
    BY DEF UniformInit, UniformRead
  <2>2. [n \in 0 .. ctr-1 |-> entry[n]] = [n \in {} |-> 0]
    <3>1. 0 .. ctr-1 = {}
      BY DEF UniformInit
    <3>. QED  BY <3>1
  <2>. QED  BY <2>1, <2>2 DEF UniformInit, Algorithm30!Init
<1>2. UniformInv /\ [UniformNext]_uniformVars => [Algorithm30!Next]_(Algorithm30!vars)
  <2> SUFFICES ASSUME UniformInv, [UniformNext]_uniformVars
               PROVE  Algorithm30!Next \/ UNCHANGED Algorithm30!vars
    OBVIOUS
  <2>1. CASE Load \/ Take
    <3>1. UniformRead' = UniformRead
      <4>1. sa \in Nat /\ g \in Nat /\ slot \in Nat
        BY GroupsFillBlock DEF UniformInv
      <4>2. sa' = sa /\ g' = g /\ apc' \in {"take", "try"}
        BY <2>1 DEF Load, Take
      <4>3. \/ apc = "group" /\ slot' = 0
            \/ apc = "take" /\ slot' = slot
        BY <2>1 DEF Load, Take
      <4>. QED  BY <4>1, <4>2, <4>3 DEF UniformRead
    <3>. QED  BY <2>1, <3>1 DEF Load, Take, Algorithm30!vars
  <2>2. CASE PermuteUniform
    <3>1. UniformRead' = UniformRead
      <4>1. apc = "group" /\ apc' = "group" /\ g = Groups /\ g' = 0 /\ sa' = sa + RATE128
        BY <2>2, GroupsFillBlock DEF PermuteUniform, UniformInv, Groups
      <4>2. sa \in Nat /\ Groups \in Nat /\ RATE128 = 24 * Groups
        BY GroupsFillBlock DEF UniformInv
      <4>3. UniformRead = sa + 24 * Groups
        BY <4>1, <4>2 DEF UniformRead
      <4>4. UniformRead' = sa + RATE128
        BY <4>1, <4>2, UniformAssumption DEF UniformRead
      <4>. QED  BY <4>2, <4>3, <4>4
    <3>. QED  BY <2>2, <3>1 DEF PermuteUniform, Algorithm30!vars
  <2>3. CASE UNCHANGED uniformVars
    BY <2>3 DEF uniformVars, Algorithm30!vars, UniformRead
  <2>. QED  BY <2>1, <2>2, <2>3, RejectSkips, KeepKeeps, ReturnKeeps DEF UniformNext
<1>. QED  BY <1>1, <1>2, UniformInvariance, PTL DEF UniformSpec, SamplesRejNTTPoly, Algorithm30!Spec

-----------------------------------------------------------------------------
(***************************************************************************)
(* Poly::challenge implements Algorithm 29, and what it writes is in the   *)
(* ball.                                                                   *)
(***************************************************************************)

LEMMA Sizes ==
  /\ N \in Nat /\ TAU \in Nat /\ TAU > 0 /\ TAU <= N
  /\ LANE \in Nat /\ LANE > 0 /\ LANE <= 8
  /\ TAU <= 8 * LANE
  /\ RATE256 \in Nat /\ RATE256 > LANE
BY ChallengeAssumption

-----------------------------------------------------------------------------
(***************************************************************************)
(* Bytes                                                                   *)
(***************************************************************************)

\* Byte at of the output.
Octet(at) == {k \in 0 .. 7 : Shake256(commitment, 8 * at + k)}

\* A byte is a number from 0 to 255.
LEMMA ByteRange == ASSUME NEW w PROVE ByteValue(w) \in 0 .. 255
<1>1. \A x : One(w, x) \in 0 .. 1
  BY DEF One
<1>. QED  BY <1>1 DEF ByteValue

LEMMA LanePlace ==
  ASSUME NEW p \in Nat
  PROVE  /\ p \div LANE \in Nat /\ p % LANE \in 0 .. LANE - 1
         /\ LANE * (p \div LANE) \in Nat
         /\ p = (LANE * (p \div LANE)) + (p % LANE)
<1>1. LANE \in Nat \ {0}
  BY Sizes
<1>2. p \div LANE \in Nat /\ p % LANE \in 0 .. LANE - 1
  BY <1>1
<1>3. p = (LANE * (p \div LANE)) + (p % LANE)
  BY <1>1
<1>4. LANE * (p \div LANE) \in Int
  BY <1>1, <1>2
<1>. QED  BY <1>1, <1>2, <1>3, <1>4

\* The byte cut out of a lane is the byte of the stream.
LEMMA ByteIsOctet ==
  ASSUME NEW p \in Nat, sc \in Nat
  PROVE  byte(p) = Octet(sc + p)
<1>. DEFINE r == p % LANE
            m == LANE * (p \div LANE)
<1>1. r \in 0 .. LANE - 1 /\ m \in Nat /\ p = m + r /\ LANE \in 1 .. 8
  BY LanePlace, ChallengeAssumption
<1>2. byte(p) = Low(Shr({k \in 0 .. 8 * LANE - 1 : Shake256(commitment, 8 * (sc + m) + k)}, 8 * r), 8)
  BY DEF byte, ChallengeLane
<1>. HIDE DEF r, m
<1>3. ASSUME NEW k \in 0 .. 7
      PROVE  /\ k \in 0 .. 63 /\ k + 8 * r \in 0 .. 8 * LANE - 1
             /\ 8 * (sc + m) + (k + 8 * r) = 8 * (sc + p) + k
  BY <1>1
<1>4. ASSUME NEW k \in 0 .. 7
      PROVE  k \in byte(p) <=> Shake256(commitment, 8 * (sc + p) + k)
  BY <1>2, <1>3 DEF Low, Shr
<1>5. byte(p) \subseteq 0 .. 7
  BY <1>2 DEF Low
<1>. QED  BY <1>4, <1>5 DEF Octet

-----------------------------------------------------------------------------
(***************************************************************************)
(* The inductive invariant: the signs left are those of the rounds left,   *)
(* the byte being placed is the last one read, and the polynomial is in    *)
(* the ball.                                                               *)
(***************************************************************************)

Rounds == i - (N - TAU)
Ones == {k \in Coefs : challenge[k] # 0}
SignsLeft ==
  signs = {k \in 0 .. 63 : k + Rounds < 8 * LANE /\ Shake256(commitment, k + Rounds)}

ChallengeInv ==
  /\ commitment \in Commitments
  /\ sc \in Nat /\ pos \in 0 .. RATE256
  /\ i \in N - TAU .. N /\ b \in 0 .. 255
  /\ challenge \in [Coefs -> {-1, 0, 1}]
  /\ cpc \in {"read", "place", "done"}
  /\ cpc # "done" => i < N
  /\ cpc = "done" => i = N
  /\ SignsLeft
  /\ cpc = "place" => b <= i /\ pos > 0 /\ b = ByteValue(Octet(sc + pos - 1))
  /\ \A k \in Coefs : k >= i => challenge[k] = 0
  /\ IsFiniteSet(Ones) /\ Cardinality(Ones) = Rounds

LEMMA ChallengeInitInv == ChallengeInit => ChallengeInv
<1> SUFFICES ASSUME ChallengeInit PROVE ChallengeInv
  OBVIOUS
<1>1. i \in N - TAU .. N /\ i < N /\ b \in 0 .. 255 /\ Rounds = 0
  BY Sizes DEF ChallengeInit, Rounds
<1>2. sc \in Nat /\ pos \in 0 .. RATE256
  BY Sizes DEF ChallengeInit
<1>3. challenge \in [Coefs -> {-1, 0, 1}] /\ \A k \in Coefs : challenge[k] = 0
  BY DEF ChallengeInit
<1>4. Ones = {}
  BY <1>3 DEF Ones
<1>5. IsFiniteSet(Ones) /\ Cardinality(Ones) = 0
  BY <1>4, FS_EmptySet
<1>6. SignsLeft
  <2>1. signs = {k \in 0 .. 8 * LANE - 1 : Shake256(commitment, 8 * (0 + LANE * 0) + k)}
    BY DEF ChallengeInit, ChallengeLane
  <2>2. 8 * (0 + LANE * 0) = 0 /\ 8 * LANE \in Nat /\ 8 * LANE <= 64
    BY Sizes
  <2>3. ASSUME NEW k \in 0 .. 8 * LANE - 1
        PROVE  k \in 0 .. 63 /\ 8 * (0 + LANE * 0) + k = k + Rounds /\ k + Rounds < 8 * LANE
    BY <2>2, <1>1
  <2>4. ASSUME NEW k \in 0 .. 63, k + Rounds < 8 * LANE
        PROVE  k \in 0 .. 8 * LANE - 1 /\ 8 * (0 + LANE * 0) + k = k + Rounds
    BY <2>2, <2>4, <1>1
  <2>. HIDE DEF Rounds
  <2>. QED  BY <2>1, <2>3, <2>4 DEF SignsLeft
<1>. QED  BY <1>1, <1>2, <1>3, <1>5, <1>6 DEF ChallengeInit, ChallengeInv

LEMMA PermuteChallengeInv == ChallengeInv /\ PermuteChallenge => ChallengeInv'
<1> SUFFICES ASSUME ChallengeInv, PermuteChallenge PROVE ChallengeInv'
  OBVIOUS
<1>1. /\ cpc = "read" /\ cpc' = cpc /\ sc' = sc + RATE256 /\ pos' = 0
      /\ UNCHANGED <<commitment, signs, i, b, challenge>>
  BY DEF PermuteChallenge
<1>2. sc' \in Nat /\ pos' \in 0 .. RATE256
  BY <1>1, Sizes DEF ChallengeInv
<1>3. Rounds' = Rounds /\ Ones' = Ones /\ SignsLeft'
  BY <1>1 DEF Rounds, Ones, SignsLeft, ChallengeInv
<1>. QED  BY <1>1, <1>2, <1>3 DEF ChallengeInv

LEMMA ReadInv == ChallengeInv /\ Read => ChallengeInv'
<1> SUFFICES ASSUME ChallengeInv, Read PROVE ChallengeInv'
  OBVIOUS
<1>1. /\ cpc = "read" /\ pos < RATE256 /\ b' = ByteValue(byte(pos)) /\ pos' = pos + 1
      /\ cpc' = IF b' <= i THEN "place" ELSE "read"
      /\ UNCHANGED <<commitment, sc, signs, i, challenge>>
  BY DEF Read, Accepted
<1>2. pos \in Nat /\ sc \in Nat /\ pos' \in 0 .. RATE256 /\ pos' > 0 /\ i < N
  BY <1>1, Sizes DEF ChallengeInv
<1>3. b' \in 0 .. 255
  BY <1>1, ByteRange
<1>4. b' = ByteValue(Octet(sc + pos))
  BY <1>1, <1>2, ByteIsOctet
<1>5. Octet(sc + pos - 1)' = Octet(sc + pos)
  <2>1. (sc + pos - 1)' = sc + pos
    BY <1>1, <1>2
  <2>. QED  BY <1>1, <2>1 DEF Octet
<1>6. Rounds' = Rounds /\ Ones' = Ones /\ SignsLeft'
  BY <1>1 DEF Rounds, Ones, SignsLeft, ChallengeInv
<1>. QED  BY <1>1, <1>2, <1>3, <1>4, <1>5, <1>6 DEF ChallengeInv

\* What a round writes.
LEMMA SwapFacts ==
  ASSUME ChallengeInv, Place
  PROVE  /\ i \in Coefs /\ b \in Coefs /\ b <= i /\ i' = i + 1
         /\ challenge' = [k \in Coefs |-> IF k = b THEN 1 - 2 * One(signs, 0)
                                  ELSE IF k = i THEN challenge[b] ELSE challenge[k]]
         /\ 1 - 2 * One(signs, 0) \in {-1, 1}
<1>1. i \in Coefs /\ b \in Coefs /\ b <= i
  <2>1. cpc = "place"
    BY DEF Place, Again
  <2>2. b <= i /\ b \in 0 .. 255 /\ i < N /\ i \in N - TAU .. N
    BY <2>1 DEF ChallengeInv
  <2>. QED  BY <2>2, Sizes DEF Coefs
<1>2. 1 - 2 * One(signs, 0) \in {-1, 1}
  BY DEF One
<1>3. challenge \in [Coefs -> {-1, 0, 1}]
  BY DEF ChallengeInv
<1>4. challenge' = [[challenge EXCEPT ![i] = challenge[b]] EXCEPT ![b] = 1 - 2 * One(signs, 0)]
  BY DEF Place, Again, Swapped
<1>5. i' = i + 1
  BY DEF Place, Again
<1>. DEFINE d == [challenge EXCEPT ![i] = challenge[b]]
<1>. HIDE DEF ChallengeInv, Place, Again
<1>6. d = [k \in Coefs |-> IF k = i THEN challenge[b] ELSE challenge[k]]
  BY <1>1, <1>3
<1>7. challenge' = [d EXCEPT ![b] = 1 - 2 * One(signs, 0)]
  BY <1>4
<1>. HIDE DEF d
<1>8. challenge' = [k \in Coefs |-> IF k = b THEN 1 - 2 * One(signs, 0)
                            ELSE IF k = i THEN challenge[b] ELSE challenge[k]]
  BY <1>1, <1>6, <1>7
<1>. QED  BY <1>1, <1>2, <1>5, <1>8

\* A round adds one coefficient: the place drawn when it was zero, the one
\* at hand when it was not.
LEMMA RoundAddsOne ==
  ASSUME ChallengeInv, Place
  PROVE  IsFiniteSet(Ones') /\ Cardinality(Ones') = Rounds + 1
<1>1. /\ i \in Coefs /\ b \in Coefs /\ b <= i
      /\ challenge' = [k \in Coefs |-> IF k = b THEN 1 - 2 * One(signs, 0)
                               ELSE IF k = i THEN challenge[b] ELSE challenge[k]]
      /\ 1 - 2 * One(signs, 0) # 0
  BY SwapFacts
<1>2. challenge[i] = 0
  BY <1>1, Sizes DEF ChallengeInv, Coefs
<1>3. IsFiniteSet(Ones) /\ Cardinality(Ones) = Rounds
  BY DEF ChallengeInv
<1>4. \A k \in Coefs : challenge'[k] # 0 <=>
        k = b \/ (k # b /\ k = i /\ challenge[b] # 0) \/ (k # b /\ k # i /\ challenge[k] # 0)
  BY <1>1
<1>5. CASE challenge[b] = 0
  <2>1. Ones' = Ones \cup {b} /\ b \notin Ones
    BY <1>1, <1>2, <1>4, <1>5 DEF Ones
  <2>. QED  BY <1>3, <2>1, FS_AddElement
<1>6. CASE challenge[b] # 0
  <2>1. Ones' = Ones \cup {i} /\ i \notin Ones
    BY <1>1, <1>2, <1>4, <1>6 DEF Ones
  <2>. QED  BY <1>3, <2>1, FS_AddElement
<1>. QED  BY <1>5, <1>6

LEMMA PlaceInv == ChallengeInv /\ Place => ChallengeInv'
<1> SUFFICES ASSUME ChallengeInv, Place PROVE ChallengeInv'
  OBVIOUS
<1>1. /\ cpc = "place" /\ signs' = Shr(signs, 1) /\ i' = i + 1
      /\ cpc' = IF i + 1 < N THEN "read" ELSE "done"
      /\ UNCHANGED <<commitment, sc, pos, b>>
  BY DEF Place, Again
<1>2. /\ i \in Int /\ i < N /\ i' \in N - TAU .. N
      /\ (cpc' # "done" => i' < N) /\ (cpc' = "done" => i' = N)
  BY <1>1, Sizes DEF ChallengeInv
<1>3. Rounds \in Int /\ Rounds' = Rounds + 1
  BY <1>1, <1>2, Sizes DEF Rounds
<1>4. challenge' \in [Coefs -> {-1, 0, 1}]
  <2>1. \A k \in Coefs : challenge[k] \in {-1, 0, 1}
    BY DEF ChallengeInv
  <2>. QED  BY <2>1, SwapFacts
<1>5. ASSUME NEW k \in Coefs, k >= i' PROVE challenge'[k] = 0
  <2>1. k # i /\ k # b /\ k >= i
    BY <1>2, <1>5, SwapFacts DEF Coefs
  <2>2. challenge[k] = 0
    BY <2>1 DEF ChallengeInv
  <2>. QED  BY <2>1, <2>2, SwapFacts
<1>6. SignsLeft'
  <2>1. signs = {k \in 0 .. 63 : k + Rounds < 8 * LANE /\ Shake256(commitment, k + Rounds)}
    BY DEF ChallengeInv, SignsLeft
  <2>2. 8 * LANE \in Nat /\ 8 * LANE <= 64 /\ Rounds >= 0
    BY Sizes DEF ChallengeInv, Rounds
  <2>3. ASSUME NEW k \in 0 .. 63
        PROVE  k + 1 \in signs <=> (k + (Rounds + 1) < 8 * LANE /\ Shake256(commitment, k + (Rounds + 1)))
    <3>1. (k + 1) + Rounds = k + (Rounds + 1)
      BY <1>3
    <3>2. k + (Rounds + 1) < 8 * LANE => k + 1 \in 0 .. 63
      BY <1>3, <2>2
    <3>. QED  BY <2>1, <3>1, <3>2
  <2>4. signs' = {k \in 0 .. 63 : k + 1 \in signs}
    BY <1>1 DEF Shr
  <2>5. signs' = {k \in 0 .. 63 : k + (Rounds + 1) < 8 * LANE /\ Shake256(commitment, k + (Rounds + 1))}
    BY <2>3, <2>4
  <2>. QED  BY <1>1, <1>3, <2>5 DEF SignsLeft
<1>7. IsFiniteSet(Ones') /\ Cardinality(Ones') = Rounds'
  BY <1>3, RoundAddsOne
<1>. QED  BY <1>1, <1>2, <1>4, <1>5, <1>6, <1>7 DEF ChallengeInv

LEMMA ChallengeInductive == ChallengeInv /\ [ChallengeNext]_challengeVars => ChallengeInv'
<1> SUFFICES ASSUME ChallengeInv, [ChallengeNext]_challengeVars PROVE ChallengeInv'
  OBVIOUS
<1>1. CASE UNCHANGED challengeVars
  <2>1. UNCHANGED <<commitment, sc, pos, signs, i, b, challenge, cpc>>
    BY <1>1 DEF challengeVars
  <2>2. Rounds' = Rounds /\ Ones' = Ones /\ Octet(sc + pos - 1)' = Octet(sc + pos - 1)
    BY <2>1 DEF Rounds, Ones, Octet
  <2>3. SignsLeft'
    BY <2>1 DEF Rounds, SignsLeft, ChallengeInv
  <2>. QED  BY <2>1, <2>2, <2>3 DEF ChallengeInv
<1>. QED  BY <1>1, PermuteChallengeInv, ReadInv, PlaceInv DEF ChallengeNext

LEMMA ChallengeInvariance == ChallengeSpec => []ChallengeInv
  BY ChallengeInitInv, ChallengeInductive, PTL DEF ChallengeSpec

\* Every variable keeps its type.
THEOREM ChallengeTypeCorrect == ChallengeSpec => []ChallengeTypeOK
<1>1. ChallengeInv => ChallengeTypeOK
  <2> SUFFICES ASSUME ChallengeInv PROVE ChallengeTypeOK
    OBVIOUS
  <2>1. signs \in SUBSET (0 .. 63)
    BY DEF ChallengeInv, SignsLeft
  <2>2. challenge \in [Coefs -> Int]
    BY DEF ChallengeInv
  <2>. QED  BY <2>1, <2>2 DEF ChallengeInv, ChallengeTypeOK
<1>. QED  BY <1>1, ChallengeInvariance, PTL

\* What challenge has written is in the ball at every round.
THEOREM StaysInBall == ChallengeSpec => []InBall
<1>1. ChallengeInv => InBall
  BY DEF ChallengeInv, InBall, Ones, Rounds
<1>. QED  BY <1>1, ChallengeInvariance, PTL

-----------------------------------------------------------------------------
(***************************************************************************)
(* ChallengeRefinement: a byte refused or a round is a step of Algorithm 29, a      *)
(* permutation or a byte about to be placed is invisible.                  *)
(***************************************************************************)

LEMMA SameByteValue == \A w : Algorithm29!ByteValue(w) = ByteValue(w)
<1>1. \A w, x : Algorithm29!One(w, x) = One(w, x)
  BY DEF Algorithm29!One, One
<1>. QED  BY <1>1 DEF Algorithm29!ByteValue, ByteValue

LEMMA ReadIsRefusal == ChallengeInv /\ Read => Algorithm29!Next \/ UNCHANGED Algorithm29!vars
<1> SUFFICES ASSUME ChallengeInv, Read PROVE Algorithm29!Next \/ UNCHANGED Algorithm29!vars
  OBVIOUS
<1>1. /\ cpc = "read" /\ b' = ByteValue(byte(pos)) /\ pos' = pos + 1
      /\ cpc' = IF b' <= i THEN "place" ELSE "read"
      /\ UNCHANGED <<commitment, sc, signs, i, challenge>>
  BY DEF Read, Accepted
<1>2. pos \in Nat /\ sc \in Nat /\ i < N /\ i \in Int
  BY <1>1, Sizes DEF ChallengeInv
<1>3. ChallengeRead = sc + pos
  BY <1>1, <1>2 DEF ChallengeRead
<1>4. b' = ByteValue(Octet(ChallengeRead)) /\ b' \in Nat
  BY <1>1, <1>2, <1>3, ByteIsOctet, ByteRange
<1>5. CASE b' <= i
  <2>1. ChallengeRead' = ChallengeRead
    BY <1>1, <1>2, <1>3, <1>5 DEF ChallengeRead
  <2>. QED  BY <1>1, <2>1 DEF Algorithm29!vars
<1>6. CASE ~(b' <= i)
  <2>1. ChallengeRead' = ChallengeRead + 1
    BY <1>1, <1>2, <1>3, <1>6 DEF ChallengeRead
  <2>2. Algorithm29!Place = b'
    BY <1>4, SameByteValue DEF Algorithm29!Place, Octet
  <2>3. Algorithm29!Refuse
    BY <1>1, <1>2, <1>4, <1>6, <2>2 DEF Algorithm29!Refuse
  <2>. QED  BY <1>1, <1>2, <2>1, <2>3 DEF Algorithm29!Next
<1>. QED  BY <1>5, <1>6

LEMMA PlaceIsSwap == ChallengeInv /\ Place => Algorithm29!Next
<1> SUFFICES ASSUME ChallengeInv, Place PROVE Algorithm29!Next
  OBVIOUS
<1>1. cpc = "place" /\ cpc' # "place" /\ UNCHANGED <<commitment, sc, pos>>
  BY DEF Place, Again
<1>2. pos \in Nat /\ sc \in Nat /\ i < N /\ i \in Int
  BY <1>1, Sizes DEF ChallengeInv
<1>3. ChallengeRead = sc + pos - 1 /\ ChallengeRead' = ChallengeRead + 1
  BY <1>1, <1>2 DEF ChallengeRead
<1>4. Algorithm29!Place = b
  <2>1. b = ByteValue(Octet(ChallengeRead))
    BY <1>1, <1>3 DEF ChallengeInv
  <2>. QED  BY <2>1, SameByteValue DEF Algorithm29!Place, Octet
<1>5. Algorithm29!Sign = 1 - 2 * One(signs, 0)
  <2>1. i + TAU - N = 0 + Rounds /\ 0 + Rounds < 8 * LANE
    BY <1>2, Sizes DEF Rounds
  <2>2. 0 \in signs <=> Shake256(commitment, i + TAU - N)
    BY <2>1 DEF ChallengeInv, SignsLeft
  <2>. QED  BY <2>2 DEF Algorithm29!Sign, One
<1>6. Algorithm29!Swap
  BY <1>4, <1>5, SwapFacts DEF Algorithm29!Swap, Coefs
<1>. QED  BY <1>1, <1>2, <1>3, <1>6 DEF Algorithm29!Next

\* The routine samples what Algorithm 29 samples, byte by byte.
THEOREM ChallengeRefinement == ChallengeSpec => SamplesInBall
<1>1. ChallengeInit => Algorithm29!Init
  <2> SUFFICES ASSUME ChallengeInit PROVE Algorithm29!Init
    OBVIOUS
  <2>1. ChallengeRead = LANE
    BY Sizes DEF ChallengeInit, ChallengeRead
  <2>. QED  BY <2>1 DEF ChallengeInit, Algorithm29!Init, Coefs
<1>2. ChallengeInv /\ [ChallengeNext]_challengeVars => [Algorithm29!Next]_(Algorithm29!vars)
  <2> SUFFICES ASSUME ChallengeInv, [ChallengeNext]_challengeVars
               PROVE  Algorithm29!Next \/ UNCHANGED Algorithm29!vars
    OBVIOUS
  <2>1. CASE PermuteChallenge
    <3>1. cpc = "read" /\ cpc' = cpc /\ pos = RATE256 /\ pos' = 0 /\ sc' = sc + RATE256
          /\ UNCHANGED <<commitment, i, challenge>>
      BY <2>1, Sizes DEF PermuteChallenge, ChallengeInv
    <3>2. ChallengeRead' = ChallengeRead
      BY <3>1, Sizes DEF ChallengeRead, ChallengeInv
    <3>. QED  BY <3>1, <3>2 DEF Algorithm29!vars
  <2>2. CASE UNCHANGED challengeVars
    BY <2>2 DEF challengeVars, Algorithm29!vars, ChallengeRead
  <2>. QED  BY <2>1, <2>2, ReadIsRefusal, PlaceIsSwap DEF ChallengeNext
<1>. QED  BY <1>1, <1>2, ChallengeInvariance, PTL DEF ChallengeSpec, SamplesInBall, Algorithm29!Spec

-----------------------------------------------------------------------------
(***************************************************************************)
(* The unpacking routines read the fields of the bit string.               *)
(***************************************************************************)

Quarter == N \div 4

LEMMA Quarters == Quarter \in Nat /\ N = 4 * Quarter
<1>1. N \in Nat /\ N % 4 = 0
  BY UnpackingAssumption
<1>. QED  BY <1>1 DEF Quarter

-----------------------------------------------------------------------------
(***************************************************************************)
(* Fields                                                                  *)
(***************************************************************************)

\* w bits of an encoding from bit at on.
Bits(a, at, w) == {k \in 0 .. w-1 : at + k \in a}

\* A field that begins k bits into byte p and ends in byte p + 1.
LEMMA TwoBytes ==
  ASSUME NEW a, NEW p \in Nat, NEW k \in 0 .. 6, NEW m \in 2 .. 8, k + m = 8
  PROVE  Low(Or(Shr(At(a, p), k), Shl(At(a, p + 1), m)), 10) = Bits(a, 8 * p + k, 10)
<1>1. ASSUME NEW x \in 0 .. 9
      PROVE  x \in Or(Shr(At(a, p), k), Shl(At(a, p + 1), m)) <=> 8 * p + k + x \in a
  <2>1. CASE x + k < 8
    <3>1. x \in 0 .. 63 /\ x + k \in 0 .. 7 /\ x \notin m .. 63
      BY <2>1
    <3>2. 8 * p + (x + k) = 8 * p + k + x
      OBVIOUS
    <3>. QED  BY <3>1, <3>2 DEF Or, Shr, Shl, At
  <2>2. CASE x + k >= 8
    <3>1. x \in m .. 63 /\ x - m \in 0 .. 7 /\ x + k \notin 0 .. 7
      BY <2>2
    <3>2. 8 * (p + 1) + (x - m) = 8 * p + k + x
      OBVIOUS
    <3>. QED  BY <3>1, <3>2 DEF Or, Shr, Shl, At
  <2>. QED  BY <2>1, <2>2
<1>2. 10 - 1 = 9
  OBVIOUS
<1>. QED  BY <1>1, <1>2 DEF Low, Bits

\* A byte shifted by nothing is itself.
LEMMA ByteUnshifted == ASSUME NEW a, NEW p PROVE Shr(At(a, p), 0) = At(a, p)
<1>1. ASSUME NEW x PROVE x \in Shr(At(a, p), 0) <=> x \in At(a, p)
  <2>1. x \in At(a, p) => x \in 0 .. 63 /\ x + 0 = x
    BY DEF At
  <2>2. x \in Shr(At(a, p), 0) => x \in 0 .. 63 /\ x + 0 = x /\ x + 0 \in At(a, p)
    BY DEF Shr
  <2>. QED  BY <2>1, <2>2 DEF Shr
<1>. QED  BY <1>1

\* The four fields of five bytes.
LEMMA T1FieldsAre ==
  ASSUME NEW a, NEW p \in Nat, NEW k \in 0 .. 3
  PROVE  T1Fields(a, p)[k] = Bits(a, 8 * p + 10 * k, 10)
<1>1. CASE k = 0
  <2>1. Low(Or(Shr(At(a, p), 0), Shl(At(a, p + 1), 8)), 10) = Bits(a, 8 * p + 0, 10)
    BY TwoBytes
  <2>. QED  BY <1>1, <2>1, ByteUnshifted DEF T1Fields
<1>2. CASE k = 1
  <2>1. p + 1 \in Nat /\ (p + 1) + 1 = p + 2 /\ 8 * (p + 1) + 2 = 8 * p + 10 * 1
    OBVIOUS
  <2>2. Low(Or(Shr(At(a, p + 1), 2), Shl(At(a, p + 2), 6)), 10) = Bits(a, 8 * (p + 1) + 2, 10)
    BY <2>1, TwoBytes
  <2>. QED  BY <1>2, <2>1, <2>2 DEF T1Fields
<1>3. CASE k = 2
  <2>1. p + 2 \in Nat /\ (p + 2) + 1 = p + 3 /\ 8 * (p + 2) + 4 = 8 * p + 10 * 2
    OBVIOUS
  <2>2. Low(Or(Shr(At(a, p + 2), 4), Shl(At(a, p + 3), 4)), 10) = Bits(a, 8 * (p + 2) + 4, 10)
    BY <2>1, TwoBytes
  <2>. QED  BY <1>3, <2>1, <2>2 DEF T1Fields
<1>4. CASE k = 3
  <2>1. p + 3 \in Nat /\ (p + 3) + 1 = p + 4 /\ 8 * (p + 3) + 6 = 8 * p + 10 * 3
    OBVIOUS
  <2>2. Low(Or(Shr(At(a, p + 3), 6), Shl(At(a, p + 4), 2)), 10) = Bits(a, 8 * (p + 3) + 6, 10)
    BY <2>1, TwoBytes
  <2>. QED  BY <1>4, <2>1, <2>2 DEF T1Fields
<1>. QED  BY <1>1, <1>2, <1>3, <1>4

\* The four fields of a word and the byte after it.
LEMMA ZFieldsAre ==
  ASSUME NEW a, NEW p \in Nat, NEW k \in 0 .. 3
  PROVE  ZFields(Word(a, p), At(a, p + 8))[k] = Bits(a, 8 * p + 18 * k, 18)
<1>1. ASSUME NEW n \in 0 .. 45
      PROVE  Low(Shr(Word(a, p), n), 18) = Bits(a, 8 * p + n, 18)
  <2>1. ASSUME NEW x \in 0 .. 17
        PROVE  x \in Shr(Word(a, p), n) <=> 8 * p + n + x \in a
    <3>1. x \in 0 .. 63 /\ x + n \in 0 .. 63 /\ 8 * p + (x + n) = 8 * p + n + x
      OBVIOUS
    <3>. QED  BY <3>1 DEF Shr, Word
  <2>2. 18 - 1 = 17
    OBVIOUS
  <2>. QED  BY <2>1, <2>2 DEF Low, Bits
<1>2. CASE k = 0
  <2>1. 18 - 1 = 17 /\ 8 * p + 18 * 0 = 8 * p
    OBVIOUS
  <2>2. \A x \in 0 .. 17 : x \in Word(a, p) <=> 8 * p + x \in a
    BY DEF Word
  <2>3. Low(Word(a, p), 18) = Bits(a, 8 * p, 18)
    BY <2>1, <2>2 DEF Low, Bits
  <2>. QED  BY <1>2, <2>1, <2>3 DEF ZFields
<1>3. CASE k = 1
  BY <1>1, <1>3 DEF ZFields
<1>4. CASE k = 2
  BY <1>1, <1>4 DEF ZFields
<1>5. CASE k = 3
  <2>1. ASSUME NEW x \in 0 .. 17
        PROVE  x \in Or(Shr(Word(a, p), 54), Shl(At(a, p + 8), 10)) <=> 8 * p + 54 + x \in a
    <3>1. CASE x < 10
      <4>1. x \in 0 .. 63 /\ x + 54 \in 0 .. 63 /\ x \notin 10 .. 63
        BY <3>1
      <4>2. 8 * p + (x + 54) = 8 * p + 54 + x
        OBVIOUS
      <4>. QED  BY <4>1, <4>2 DEF Or, Shr, Shl, Word
    <3>2. CASE x >= 10
      <4>1. x \in 10 .. 63 /\ x - 10 \in 0 .. 7 /\ x + 54 \notin 0 .. 63
        BY <3>2
      <4>2. 8 * (p + 8) + (x - 10) = 8 * p + 54 + x
        OBVIOUS
      <4>. QED  BY <4>1, <4>2 DEF Or, Shr, Shl, Word, At
    <3>. QED  BY <3>1, <3>2
  <2>2. 18 - 1 = 17 /\ 18 * 3 = 54
    OBVIOUS
  <2>3. Low(Or(Shr(Word(a, p), 54), Shl(At(a, p + 8), 10)), 18) = Bits(a, 8 * p + 54, 18)
    BY <2>1, <2>2 DEF Low, Bits
  <2>. QED  BY <1>5, <2>2, <2>3 DEF ZFields
<1>. QED  BY <1>2, <1>3, <1>4, <1>5

-----------------------------------------------------------------------------
(***************************************************************************)
(* Values                                                                  *)
(***************************************************************************)

LEMMA OneRange == \A w, x : One(w, x) \in 0 .. 1
BY DEF One

\* A byte of at most two bits.
LEMMA PairRange ==
  ASSUME NEW w, w \subseteq 0 .. 1
  PROVE  ByteValue(w) \in 0 .. 3
<1>1. \A x \in 2 .. 7 : One(w, x) = 0
  BY DEF One
<1>2. /\ One(w, 2) = 0 /\ One(w, 3) = 0 /\ One(w, 4) = 0
      /\ One(w, 5) = 0 /\ One(w, 6) = 0 /\ One(w, 7) = 0
  BY <1>1
<1>. QED  BY <1>2, OneRange DEF ByteValue

LEMMA EmptyByte == ASSUME NEW w, w = {} PROVE ByteValue(w) = 0
<1>1. \A x : One(w, x) = 0
  BY DEF One
<1>. QED  BY <1>1 DEF ByteValue

\* A field of ten bits is below 2^10, one of eighteen below 2^18.
LEMMA TenBits ==
  ASSUME NEW w, w \subseteq 0 .. 9
  PROVE  Value(w) \in Nat /\ Value(w) <= 1023
<1>1. Shr(w, 8) \subseteq 0 .. 1
  BY DEF Shr
<1>2. Shr(w, 16) = {}
  BY DEF Shr
<1>3. PICK x \in 0 .. 255 : ByteValue(w) = x
  BY ByteRange
<1>4. PICK y \in 0 .. 3 : ByteValue(Shr(w, 8)) = y
  BY <1>1, PairRange
<1>5. ByteValue(Shr(w, 16)) = 0
  BY <1>2, EmptyByte
<1>6. Value(w) = x + 256 * y + 65536 * 0
  BY <1>3, <1>4, <1>5 DEF Value
<1>. QED  BY <1>6

LEMMA EighteenBits ==
  ASSUME NEW w, w \subseteq 0 .. 17
  PROVE  Value(w) \in Nat /\ Value(w) <= 262143
<1>1. Shr(w, 16) \subseteq 0 .. 1
  BY DEF Shr
<1>2. PICK x \in 0 .. 255 : ByteValue(w) = x
  BY ByteRange
<1>3. PICK y \in 0 .. 255 : ByteValue(Shr(w, 8)) = y
  BY ByteRange
<1>4. PICK v \in 0 .. 3 : ByteValue(Shr(w, 16)) = v
  BY <1>1, PairRange
<1>5. Value(w) = x + 256 * y + 65536 * v
  BY <1>2, <1>3, <1>4, SMT DEF Value
<1>6. x \in Int /\ 0 <= x /\ x <= 255 /\ y \in Int /\ 0 <= y /\ y <= 255
  BY SMT
<1>7. v \in Int /\ 0 <= v /\ v <= 3
  BY SMT
<1>. QED  BY <1>5, <1>6, <1>7, SMT

\* What encodings stand for is in range.
LEMMA DecodedRange ==
  ASSUME NEW n \in Coefs
  PROVE  /\ DecodedZ[n] \in Int /\ WithinZ(DecodedZ[n])
         /\ DecodedT1[n] \in Int /\ WithinT1(DecodedT1[n])
<1>1. FieldOf(tin, 10, n) \in Nat /\ FieldOf(tin, 10, n) <= 1023
  BY TenBits, SMT DEF FieldOf
<1>2. FieldOf(zin, 18, n) \in Nat /\ FieldOf(zin, 18, n) <= 262143
  BY EighteenBits, SMT DEF FieldOf
<1>3. PICK x \in Nat : FieldOf(tin, 10, n) = x /\ x <= 1023
  BY <1>1
<1>4. PICK y \in Nat : FieldOf(zin, 18, n) = y /\ y <= 262143
  BY <1>2
<1>5. DecodedT1[n] = x * TwoToD
  BY <1>3, SMT DEF DecodedT1
<1>6. DecodedZ[n] = GAMMA1 - y
  BY <1>4, SMT DEF DecodedZ
<1>7. DecodedZ[n] \in Int /\ WithinZ(DecodedZ[n])
  BY <1>4, <1>6, SMT DEF WithinZ, GAMMA1
<1>8. DecodedT1[n] \in Int /\ WithinT1(DecodedT1[n])
  BY <1>3, <1>5, SMT DEF WithinT1, TwoToD
<1>. QED  BY <1>7, <1>8

-----------------------------------------------------------------------------
(***************************************************************************)
(* A polynomial of which the first 4 * m coefficients are written          *)
(***************************************************************************)

Filled(c, m, d) ==
  /\ c \in [Coefs -> Int]
  /\ \A n \in Coefs : n < 4 * m => c[n] = d[n]
  /\ \A n \in Coefs : n >= 4 * m => c[n] = 0

\* The indices of an iteration.
LEMMA FourIndices ==
  ASSUME NEW n \in Coefs, NEW m \in 0 .. Quarter, m < Quarter
  PROVE  /\ n \in 4 * m .. 4 * m + 3
               => n - 4 * m \in 0 .. 3 /\ 4 * m + (n - 4 * m) = n
         /\ n < 4 * (m + 1) <=> n < 4 * m \/ n \in 4 * m .. 4 * m + 3
         /\ n < 4 * m => n \notin 4 * m .. 4 * m + 3
         /\ n >= 4 * (m + 1) => n >= 4 * m /\ n \notin 4 * m .. 4 * m + 3
BY Quarters DEF Coefs

LEMMA IndexInRange ==
  ASSUME NEW k \in 0 .. 3, NEW m \in 0 .. Quarter, m < Quarter
  PROVE  4 * m + k \in Coefs /\ 4 * m + k < 4 * (m + 1)
BY Quarters DEF Coefs

LEMMA NothingFilled == ASSUME NEW d PROVE Filled(Zeroes, 0, d)
<1>1. \A n \in Coefs : n \in Nat /\ ~(n < 4 * 0)
  BY UnpackingAssumption DEF Coefs
<1>. QED  BY <1>1 DEF Filled, Zeroes

\* An iteration that writes four decoded coefficients.
LEMMA FourFilled ==
  ASSUME NEW m \in 0 .. Quarter, m < Quarter,
         NEW d, \A n \in Coefs : d[n] \in Int,
         NEW c, Filled(c, m, d),
         NEW f, \A k \in 0 .. 3 : f[k] = d[4 * m + k]
  PROVE  Filled(Written(c, m, f), m + 1, d)
<1>. DEFINE e == Written(c, m, f)
<1>1. e = [n \in Coefs |-> IF n \in 4 * m .. 4 * m + 3 THEN f[n - 4 * m] ELSE c[n]]
  BY DEF Written
<1>. HIDE DEF e
<1>2. ASSUME NEW n \in Coefs, n < 4 * (m + 1) PROVE e[n] = d[n]
  <2>1. CASE n \in 4 * m .. 4 * m + 3
    <3>1. n - 4 * m \in 0 .. 3 /\ 4 * m + (n - 4 * m) = n
      BY <2>1, FourIndices
    <3>2. f[n - 4 * m] = d[n]
      BY <3>1
    <3>. QED  BY <1>1, <2>1, <3>2
  <2>2. CASE n \notin 4 * m .. 4 * m + 3
    <3>1. n < 4 * m
      BY <1>2, <2>2, FourIndices
    <3>2. c[n] = d[n]
      BY <3>1 DEF Filled
    <3>. QED  BY <1>1, <2>2, <3>2
  <2>. QED  BY <2>1, <2>2
<1>3. ASSUME NEW n \in Coefs, n >= 4 * (m + 1) PROVE e[n] = 0
  <2>1. n >= 4 * m /\ n \notin 4 * m .. 4 * m + 3
    BY <1>3, FourIndices
  <2>2. c[n] = 0
    BY <2>1 DEF Filled
  <2>. QED  BY <1>1, <2>1, <2>2
<1>4. ASSUME NEW n \in Coefs PROVE e[n] \in Int
  <2>1. CASE n < 4 * (m + 1)
    BY <1>2, <2>1
  <2>2. CASE n >= 4 * (m + 1)
    BY <1>3, <2>2
  <2>3. n \in Int /\ 4 * (m + 1) \in Int
    BY Quarters DEF Coefs
  <2>. QED  BY <2>1, <2>2, <2>3
<1>5. e \in [Coefs -> Int]
  BY <1>1, <1>4
<1>6. Filled(e, m + 1, d)
  BY <1>2, <1>3, <1>5 DEF Filled
<1>. QED  BY <1>6 DEF e

-----------------------------------------------------------------------------
(***************************************************************************)
(* The inductive invariant: what is written is decoded, the rest is zero,  *)
(* z_unpack is nine bytes further after each iteration, and its verdict is *)
(* that of the coefficients written.                                       *)
(***************************************************************************)

Exceeds(n) == norm_at_least(DecodedZ[n])

ZInv ==
  /\ zi \in 0 .. Quarter
  /\ zrest \in Nat /\ zrest = 9 * zi
  /\ Filled(z, zi, DecodedZ)
  /\ bad \in BOOLEAN
  /\ bad <=> \E n \in Coefs : n < 4 * zi /\ Exceeds(n)

TInv ==
  /\ ti \in 0 .. Quarter
  /\ Filled(t1, ti, DecodedT1)

UnpackingInv == ZInv /\ TInv

LEMMA UnpackingInitInv == UnpackingInit => UnpackingInv
<1> SUFFICES ASSUME UnpackingInit PROVE UnpackingInv
  OBVIOUS
<1>1. /\ zrest = 0 /\ zi = 0 /\ z = Zeroes /\ bad = FALSE
      /\ ti = 0 /\ t1 = Zeroes
  BY DEF UnpackingInit
<1>2. 0 \in 0 .. Quarter /\ 9 * 0 = 0
  BY Quarters
<1>3. Filled(z, zi, DecodedZ) /\ Filled(t1, ti, DecodedT1)
  BY <1>1, NothingFilled
<1>4. ~ \E n \in Coefs : n < 4 * zi /\ Exceeds(n)
  BY <1>1, UnpackingAssumption DEF Coefs
<1>. QED  BY <1>1, <1>2, <1>3, <1>4 DEF UnpackingInv, ZInv, TInv

\* The polynomial an encoding stands for does not change.
LEMMA DecodedFixed ==
  ASSUME UNCHANGED <<zin, tin>>
  PROVE  /\ DecodedZ' = DecodedZ /\ DecodedT1' = DecodedT1
         /\ \A n : Exceeds(n)' = Exceeds(n)
<1>1. \A w, n : FieldOf(zin, w, n)' = FieldOf(zin, w, n)
  BY DEF FieldOf
<1>2. \A w, n : FieldOf(tin, w, n)' = FieldOf(tin, w, n)
  BY DEF FieldOf
<1>3. DecodedZ' = DecodedZ /\ DecodedT1' = DecodedT1
  BY <1>1, <1>2 DEF DecodedZ, DecodedT1
<1>. QED  BY <1>3 DEF Exceeds, norm_at_least

LEMMA ZInvKept == ZInv /\ UNCHANGED <<zin, zrest, zi, z, bad, tin>> => ZInv'
<1> SUFFICES ASSUME ZInv, UNCHANGED <<zin, zrest, zi, z, bad, tin>> PROVE ZInv'
  OBVIOUS
<1>1. DecodedZ' = DecodedZ /\ \A n : Exceeds(n)' = Exceeds(n)
  BY DecodedFixed
<1>. QED  BY <1>1 DEF ZInv, Filled

LEMMA TInvKept == TInv /\ UNCHANGED <<zin, tin, ti, t1>> => TInv'
<1> SUFFICES ASSUME TInv, UNCHANGED <<zin, tin, ti, t1>> PROVE TInv'
  OBVIOUS
<1>1. DecodedT1' = DecodedT1
  BY DecodedFixed
<1>. QED  BY <1>1 DEF TInv, Filled

LEMMA UnpackT1Inv == TInv /\ UnpackT1 => TInv'
<1> SUFFICES ASSUME TInv, UnpackT1 PROVE TInv'
  OBVIOUS
<1>. DEFINE f == [k \in 0 .. 3 |-> Value(T1Fields(tin, 5 * ti)[k]) * TwoToD]
<1>1. ti < Quarter /\ ti' = ti + 1 /\ UNCHANGED <<zin, tin>> /\ t1' = Written(t1, ti, f)
  BY DEF UnpackT1, More, Quarter
<1>2. ti \in 0 .. Quarter /\ ti \in Nat /\ 5 * ti \in Nat
  BY Quarters DEF TInv
<1>3. ASSUME NEW k \in 0 .. 3 PROVE f[k] = DecodedT1[4 * ti + k]
  <2>1. T1Fields(tin, 5 * ti)[k] = Bits(tin, 8 * (5 * ti) + 10 * k, 10)
    BY <1>2, T1FieldsAre
  <2>2. 8 * (5 * ti) + 10 * k = 10 * (4 * ti + k)
    BY <1>2
  <2>3. Value(T1Fields(tin, 5 * ti)[k]) = FieldOf(tin, 10, 4 * ti + k)
    BY <2>1, <2>2 DEF Bits, FieldOf
  <2>4. 4 * ti + k \in Coefs
    BY <1>1, <1>2, IndexInRange
  <2>. QED  BY <2>3, <2>4 DEF DecodedT1
<1>. HIDE DEF f
<1>4. Filled(t1', ti', DecodedT1)
  <2>1. \A n \in Coefs : DecodedT1[n] \in Int
    BY DecodedRange
  <2>2. Filled(t1, ti, DecodedT1)
    BY DEF TInv
  <2>3. Filled(Written(t1, ti, f), ti + 1, DecodedT1)
    BY <1>1, <1>2, <1>3, <2>1, <2>2, FourFilled
  <2>. QED  BY <1>1, <2>3
<1>5. ti' \in 0 .. Quarter
  BY <1>1, <1>2, Quarters
<1>6. DecodedT1' = DecodedT1
  BY <1>1, DecodedFixed
<1>. QED  BY <1>4, <1>5, <1>6 DEF TInv, Filled

LEMMA UnpackZInv == ZInv /\ UnpackZ => ZInv'
<1> SUFFICES ASSUME ZInv, UnpackZ PROVE ZInv'
  OBVIOUS
<1>. DEFINE w == ZFields(Word(zin, zrest), At(zin, zrest + 8))
            f == [k \in 0 .. 3 |-> GAMMA1 - Value(w[k])]
<1>1. /\ zi < Quarter /\ zi' = zi + 1 /\ zrest' = zrest + 9
      /\ UNCHANGED <<zin, tin>>
      /\ z' = Written(z, zi, f)
      /\ bad' = (bad \/ \E k \in 0 .. 3 : norm_at_least(f[k]))
  BY DEF UnpackZ, More, BadSoFar, Quarter
<1>2. zi \in 0 .. Quarter /\ zi \in Nat /\ zrest = 9 * zi /\ zrest \in Nat
  BY Quarters DEF ZInv
<1>3. ASSUME NEW k \in 0 .. 3 PROVE f[k] = DecodedZ[4 * zi + k]
  <2>1. w[k] = Bits(zin, 8 * zrest + 18 * k, 18)
    BY <1>2, ZFieldsAre
  <2>2. 8 * zrest + 18 * k = 18 * (4 * zi + k)
    BY <1>2
  <2>3. Value(w[k]) = FieldOf(zin, 18, 4 * zi + k)
    BY <2>1, <2>2 DEF Bits, FieldOf
  <2>4. 4 * zi + k \in Coefs
    BY <1>1, <1>2, IndexInRange
  <2>. HIDE DEF w
  <2>5. f[k] = GAMMA1 - FieldOf(zin, 18, 4 * zi + k)
    BY <2>3, Zenon
  <2>. HIDE DEF f
  <2>6. DecodedZ[4 * zi + k] = GAMMA1 - FieldOf(zin, 18, 4 * zi + k)
    BY <2>4, SMT DEF DecodedZ
  <2>. QED  BY <2>5, <2>6
<1>. HIDE DEF w, f
<1>4. Filled(z', zi', DecodedZ)
  <2>1. \A n \in Coefs : DecodedZ[n] \in Int
    BY DecodedRange
  <2>2. Filled(z, zi, DecodedZ)
    BY DEF ZInv
  <2>3. Filled(Written(z, zi, f), zi + 1, DecodedZ)
    BY <1>1, <1>2, <1>3, <2>1, <2>2, FourFilled
  <2>. QED  BY <1>1, <2>3
<1>5. bad' <=> \E n \in Coefs : n < 4 * zi' /\ Exceeds(n)
  <2>1. ASSUME bad PROVE \E n \in Coefs : n < 4 * zi' /\ Exceeds(n)
    <3>1. PICK n \in Coefs : n < 4 * zi /\ Exceeds(n)
      BY <2>1 DEF ZInv
    <3>2. n < 4 * (zi + 1)
      BY <1>1, <1>2, <3>1, FourIndices
    <3>. QED  BY <1>1, <3>1, <3>2
  <2>2. ASSUME NEW k \in 0 .. 3, norm_at_least(f[k])
        PROVE  \E n \in Coefs : n < 4 * zi' /\ Exceeds(n)
    <3>1. 4 * zi + k \in Coefs /\ 4 * zi + k < 4 * (zi + 1)
      BY <1>1, <1>2, IndexInRange
    <3>2. Exceeds(4 * zi + k)
      BY <1>3, <2>2 DEF Exceeds
    <3>. QED  BY <1>1, <3>1, <3>2
  <2>3. ASSUME NEW n \in Coefs, n < 4 * zi', Exceeds(n) PROVE bad'
    <3>1. CASE n < 4 * zi
      <4>1. bad
        BY <2>3, <3>1 DEF ZInv
      <4>. QED  BY <1>1, <4>1
    <3>2. CASE ~(n < 4 * zi)
      <4>1. n - 4 * zi \in 0 .. 3 /\ 4 * zi + (n - 4 * zi) = n
        BY <1>1, <1>2, <2>3, <3>2, FourIndices
      <4>2. norm_at_least(f[n - 4 * zi])
        BY <1>3, <2>3, <4>1 DEF Exceeds
      <4>. QED  BY <1>1, <4>1, <4>2
    <3>. QED  BY <3>1, <3>2
  <2>. QED  BY <1>1, <2>1, <2>2, <2>3
<1>6. DecodedZ' = DecodedZ /\ \A n : Exceeds(n)' = Exceeds(n)
  BY <1>1, DecodedFixed
<1>7. zi' \in 0 .. Quarter /\ zrest' \in Nat /\ zrest' = 9 * zi' /\ bad' \in BOOLEAN
  BY <1>1, <1>2, Quarters
<1>. QED  BY <1>4, <1>5, <1>6, <1>7 DEF ZInv, Filled

LEMMA UnpackingInductive == UnpackingInv /\ [UnpackingNext]_unpackingVars => UnpackingInv'
<1> SUFFICES ASSUME UnpackingInv, [UnpackingNext]_unpackingVars PROVE UnpackingInv'
  OBVIOUS
<1>1. CASE UNCHANGED unpackingVars
  BY <1>1, ZInvKept, TInvKept DEF unpackingVars, UnpackingInv
<1>2. CASE UnpackZ
  <2>1. UNCHANGED <<zin, tin, ti, t1>>
    BY <1>2 DEF UnpackZ
  <2>. QED  BY <1>2, <2>1, UnpackZInv, TInvKept DEF UnpackingInv
<1>3. CASE UnpackT1
  <2>1. UNCHANGED <<zin, zrest, zi, z, bad, tin>>
    BY <1>3 DEF UnpackT1
  <2>. QED  BY <1>3, <2>1, UnpackT1Inv, ZInvKept DEF UnpackingInv
<1>. QED  BY <1>1, <1>2, <1>3 DEF UnpackingNext

LEMMA UnpackingInvariance == UnpackingSpec => []UnpackingInv
  BY UnpackingInitInv, UnpackingInductive, PTL DEF UnpackingSpec

\* Both loops stay inside the polynomial.
THEOREM UnpackingTypeCorrect == UnpackingSpec => []UnpackingTypeOK
<1>1. UnpackingInv => UnpackingTypeOK
  BY DEF UnpackingInv, ZInv, TInv, Filled, UnpackingTypeOK, Quarter
<1>. QED  BY <1>1, UnpackingInvariance, PTL

\* Both routines read the fields of the bit string.
THEOREM FieldsCorrect == UnpackingSpec => []FieldsExact
<1>1. UnpackingInv => FieldsExact
  BY DEF UnpackingInv, ZInv, TInv, Filled, FieldsExact
<1>. QED  BY <1>1, UnpackingInvariance, PTL

\* z_unpack's verdict is that of the whole polynomial.
THEOREM VerdictCorrect == UnpackingSpec => []BadExact
<1>1. UnpackingInv => BadExact
  <2> SUFFICES ASSUME UnpackingInv, zi = N \div 4
               PROVE  bad <=> \E n \in Coefs : DecodedZ[n] >= BOUND \/ -DecodedZ[n] >= BOUND
    BY DEF BadExact
  <2>1. \A n \in Coefs : n < 4 * zi
    BY Quarters DEF Coefs, Quarter
  <2>2. bad <=> \E n \in Coefs : n < 4 * zi /\ Exceeds(n)
    BY DEF UnpackingInv, ZInv
  <2>. QED  BY <2>1, <2>2 DEF Exceeds, norm_at_least
<1>. QED  BY <1>1, UnpackingInvariance, PTL

\* Everything written is within what the transforms are called with.
THEOREM OutputsInRange == UnpackingSpec => []WithinInputs
<1>1. UnpackingInv => WithinInputs
  <2>1. WithinZ(0) /\ WithinT1(0)
    BY SMT DEF WithinZ, WithinT1, TwoToD, GAMMA1
  <2> SUFFICES ASSUME UnpackingInv, NEW n \in Coefs PROVE WithinZ(z[n]) /\ WithinT1(t1[n])
    BY DEF WithinInputs
  <2>2. /\ n \in Int /\ 4 * zi \in Int /\ 4 * ti \in Int
    BY Quarters DEF Coefs, UnpackingInv, ZInv, TInv
  <2>3. WithinZ(z[n])
    BY <2>1, <2>2, DecodedRange DEF UnpackingInv, ZInv, Filled
  <2>4. WithinT1(t1[n])
    BY <2>1, <2>2, DecodedRange DEF UnpackingInv, TInv, Filled
  <2>. QED  BY <2>3, <2>4
<1>. QED  BY <1>1, UnpackingInvariance, PTL

-----------------------------------------------------------------------------
(***************************************************************************)
(* The routines as verification calls them: every step of the composition  *)
(* is a step of one routine and leaves the variables of the others alone,  *)
(* so what each guarantees by itself it guarantees here.                   *)
(***************************************************************************)

\* A verification runs each of the routines and nothing else that touches
\* their variables.
THEOREM RoutinesImplemented == Spec => UniformSpec /\ ChallengeSpec /\ UnpackingSpec
<1>1. Init => UniformInit /\ ChallengeInit /\ UnpackingInit
  BY DEF Init
<1>2. [Next]_vars => [UniformNext]_uniformVars
  BY DEF Next, vars, TakeZ, DrawChallenge, DrawEntry, TakeT1
<1>3. [Next]_vars => [ChallengeNext]_challengeVars
  BY DEF Next, vars, TakeZ, DrawChallenge, DrawEntry, TakeT1
<1>4. [Next]_vars => [UnpackingNext]_unpackingVars
  BY DEF Next, vars, TakeZ, DrawChallenge, DrawEntry, TakeT1, UnpackingNext
<1>. QED  BY <1>1, <1>2, <1>3, <1>4, PTL DEF Spec, UniformSpec, ChallengeSpec, UnpackingSpec

\* What the run checks of each routine, under the specification it checks.
THEOREM RoutinesCorrect ==
  Spec => /\ []UniformTypeOK /\ []NeverOverfull /\ SamplesRejNTTPoly
          /\ []ChallengeTypeOK /\ []InBall /\ SamplesInBall
          /\ []UnpackingTypeOK /\ []FieldsExact /\ []BadExact /\ []WithinInputs
BY RoutinesImplemented, UniformTypeCorrect, NeverOverfilled, UniformRefinement,
   ChallengeTypeCorrect, StaysInBall, ChallengeRefinement,
   UnpackingTypeCorrect, FieldsCorrect, VerdictCorrect, OutputsInRange, PTL

\* What a stage has behind it.
StageInv ==
  /\ stage \in {"z", "challenge", "matrix", "t1", "done", "refused"}
  /\ stage \in {"challenge", "matrix", "t1", "done"} => ~More(zi) /\ ~bad
  /\ stage \in {"matrix", "t1", "done"} => cpc = "done"
  /\ stage \in {"t1", "done"} => apc = "done"
  /\ stage = "done" => ~More(ti)

LEMMA StageInitInv == Init => StageInv
BY DEF Init, StageInv

LEMMA StageInductive == StageInv /\ [Next]_vars => StageInv'
<1> SUFFICES ASSUME StageInv, [Next]_vars PROVE StageInv'
  OBVIOUS
<1>1. CASE TakeZ
  BY <1>1 DEF TakeZ, StageInv
<1>2. CASE DrawChallenge
  <2>1. UNCHANGED <<zi, bad, ti, apc>>
    BY <1>2 DEF DrawChallenge, unpackingVars, uniformVars
  <2>. QED  BY <1>2, <2>1 DEF DrawChallenge, StageInv, More
<1>3. CASE DrawEntry
  <2>1. UNCHANGED <<zi, bad, ti, cpc>>
    BY <1>3 DEF DrawEntry, unpackingVars, challengeVars
  <2>. QED  BY <1>3, <2>1 DEF DrawEntry, StageInv, More
<1>4. CASE TakeT1
  <2>1. UNCHANGED <<zi, bad, cpc, apc>>
    BY <1>4 DEF TakeT1, UnpackT1, challengeVars, uniformVars
  <2>. QED  BY <1>4, <2>1 DEF TakeT1, StageInv, More
<1>5. CASE UNCHANGED vars
  BY <1>5 DEF vars, unpackingVars, challengeVars, uniformVars, StageInv, More
<1>. QED  BY <1>1, <1>2, <1>3, <1>4, <1>5 DEF Next

LEMMA StageInvariance == Spec => []StageInv
BY StageInitInv, StageInductive, PTL DEF Spec

\* A loop of an unpacking routine that has ended has been through the whole
\* polynomial.
LEMMA LoopOver ==
  ASSUME NEW m \in 0 .. Quarter, ~More(m)
  PROVE  \A n \in Coefs : n < 4 * m
BY Quarters DEF More, Coefs, Quarter

\* A row is computed from complete polynomials: each is the one its routine
\* returned.
THEOREM OperandsComplete == Spec => []OperandsReady
<1>1. UniformInv /\ ChallengeInv /\ UnpackingInv /\ StageInv => OperandsReady
  <2> SUFFICES ASSUME UniformInv, ChallengeInv, UnpackingInv, StageInv, stage = "done"
               PROVE  /\ \A n \in Coefs : z[n] = DecodedZ[n] /\ ~norm_at_least(z[n])
                      /\ Cardinality({n \in Coefs : challenge[n] \in {-1, 1}}) = TAU
                      /\ \A n \in Coefs : entry[n] \in 0 .. Q-1
                      /\ t1 = DecodedT1
    BY DEF OperandsReady
  <2>1. ~More(zi) /\ ~bad /\ cpc = "done" /\ apc = "done" /\ ~More(ti)
    BY DEF StageInv
  <2>2. ASSUME NEW n \in Coefs PROVE z[n] = DecodedZ[n] /\ ~norm_at_least(z[n])
    <3>1. n < 4 * zi
      BY <2>1, LoopOver DEF UnpackingInv, ZInv
    <3>2. z[n] = DecodedZ[n]
      BY <3>1 DEF UnpackingInv, ZInv, Filled
    <3>3. ~Exceeds(n)
      BY <2>1, <3>1 DEF UnpackingInv, ZInv
    <3>. QED  BY <3>2, <3>3 DEF Exceeds
  <2>3. Cardinality({n \in Coefs : challenge[n] \in {-1, 1}}) = TAU
    <3>1. {n \in Coefs : challenge[n] \in {-1, 1}} = Ones
      <4>1. \A n \in Coefs : challenge[n] \in {-1, 0, 1}
        BY DEF ChallengeInv
      <4>. QED  BY <4>1 DEF Ones
    <3>2. Rounds = TAU
      BY <2>1, Sizes DEF ChallengeInv, Rounds
    <3>. QED  BY <3>1, <3>2 DEF ChallengeInv
  <2>4. ASSUME NEW n \in Coefs PROVE entry[n] \in 0 .. Q-1
    <3>1. n \in 0 .. N-1 /\ n < ctr /\ entry[n] \in Int
      BY <2>1, DegreeIsNat DEF UniformInv, Coefs
    <3>2. 0 <= entry[n] /\ entry[n] < Q
      BY <3>1 DEF UniformInv
    <3>. QED  BY <3>1, <3>2, UniformAssumption
  <2>5. t1 = DecodedT1
    <3>1. t1 \in [Coefs -> Int] /\ \A n \in Coefs : t1[n] = DecodedT1[n]
      BY <2>1, LoopOver DEF UnpackingInv, TInv, Filled
    <3>. QED  BY <3>1, Zenon DEF DecodedT1
  <2>. QED  BY <2>2, <2>3, <2>4, <2>5
<1>. QED  BY <1>1, RoutinesImplemented, UniformInvariance, ChallengeInvariance,
             UnpackingInvariance, StageInvariance, PTL
=============================================================================
