---------------------------- MODULE RowWordsProofs ----------------------------
(***************************************************************************)
(* The words of a row: the magnitudes of the transforms, for every degree  *)
(* of two to four pairs of layers and every input of invntt below Q, why   *)
(* they bound the words of the code, and the bytes finish_row makes of     *)
(* every word reduce32 admits.                                             *)
(***************************************************************************)
EXTENDS NttRanges, Rounding, TLAPS

-----------------------------------------------------------------------------
(***************************************************************************)
(* The schedule                                                            *)
(***************************************************************************)

Distances == {1, 4, 16, 64}

\* The group of coefficient i when the shorter distance is h.
PlaceOf(i, h) == h * (i \div (4 * h)) + (i % h)

LEMMA GroupOfIsPlace == \A i : GroupOf(i) = PlaceOf(i, half)
BY DEF GroupOf, PlaceOf

LEMMA Degrees ==
  /\ N \in {16, 64, 256}
  /\ \A h \in Distances : 4 * h <= N => N \div (4 * h) \in Distances
  /\ N \div 4 \in {4, 16, 64}
BY NttRangesAssumption DEF Distances

\* A group is four coefficients, h apart, and no coefficient is in two.
LEMMA GroupIs ==
  ASSUME NEW h \in Distances, 4 * h <= N, NEW g \in 0 .. N \div 4 - 1
  PROVE  /\ First(g, h) \in Nat /\ First(g, h) + 3 * h < N
         /\ \A i \in Index : PlaceOf(i, h) = g <=>
              i \in {First(g, h), First(g, h) + h, First(g, h) + 2 * h, First(g, h) + 3 * h}
<1>1. CASE h = 1
  BY <1>1, Degrees DEF First, Block, PlaceOf, Index
<1>2. CASE h = 4
  BY <1>2, Degrees DEF First, Block, PlaceOf, Index
<1>3. CASE h = 16
  BY <1>3, Degrees DEF First, Block, PlaceOf, Index
<1>4. CASE h = 64
  BY <1>4, Degrees DEF First, Block, PlaceOf, Index
<1>. QED  BY <1>1, <1>2, <1>3, <1>4 DEF Distances

-----------------------------------------------------------------------------
(***************************************************************************)
(* Magnitudes                                                              *)
(***************************************************************************)

LEMMA Sizes ==
  /\ Q = 8380417 /\ PLANTARD_IN = 2145386752 /\ PLANTARD_OUT = 4190208
  /\ REDUCE32_IN = 2143289343 /\ REDUCTION_IN = 1071645696
  /\ T1Max = 8380416 /\ ZMax = 130993
BY DEF Q, PLANTARD_IN, PLANTARD_OUT, REDUCE32_IN, REDUCTION_IN, T1Max, TwoToD, ZMax, GAMMA1, BETA

LEMMA Inside ==
  /\ 0 \in 0 .. Q-1 /\ ZMax \in 0 .. Q-1 /\ 1 \in 0 .. Q-1 /\ T1Max \in 0 .. Q-1
  /\ PLANTARD_OUT \in 0 .. Q-1 /\ DirectInputs \subseteq 0 .. Q-1
  /\ \A m \in 0 .. Q-1 : m \in Nat /\ m <= PLANTARD_IN
<1>1. /\ Q \in Nat /\ 1 < Q /\ ZMax \in Nat /\ ZMax < Q /\ T1Max \in Nat /\ T1Max < Q
      /\ PLANTARD_OUT \in Nat /\ PLANTARD_OUT < Q /\ PLANTARD_IN \in Nat /\ Q <= PLANTARD_IN
  BY DEF Q, PLANTARD_IN, PLANTARD_OUT, ZMax, GAMMA1, BETA, T1Max, TwoToD
<1>. QED  BY <1>1, NttRangesAssumption

LEMMA Positive ==
  /\ PLANTARD_OUT \in Nat /\ PLANTARD_IN \in Nat /\ PLANTARD_OUT <= PLANTARD_IN
  /\ Q \in Nat
BY Sizes

LEMMA SumIs ==
  ASSUME NEW x \in Nat, NEW y \in Nat, x + y <= PLANTARD_IN
  PROVE  Sum(x, y) = x + y /\ x + y \in Nat
BY Positive DEF Sum, Known, Lost

LEMMA ProductIs == ASSUME NEW k, NEW x \in Nat PROVE Product(k, x) = PLANTARD_OUT
BY DEF Product, Known, Lost

\* What a butterfly of ntt does to the magnitudes.
LEMMA CtIs ==
  ASSUME NEW p \in [Index -> Nat], NEW j \in Index, NEW len \in Nat, len > 0, j + len \in Index,
         NEW k, p[j] + PLANTARD_OUT <= PLANTARD_IN
  PROVE  /\ Ct(p, j, len, k) \in [Index -> Nat]
         /\ Ct(p, j, len, k)[j] = p[j] + PLANTARD_OUT
         /\ Ct(p, j, len, k)[j + len] = p[j] + PLANTARD_OUT
         /\ \A i \in Index : i # j /\ i # j + len => Ct(p, j, len, k)[i] = p[i]
<1>1. Product(k, p[j + len]) = PLANTARD_OUT
  BY ProductIs
<1>2. Sum(p[j], PLANTARD_OUT) = p[j] + PLANTARD_OUT /\ p[j] + PLANTARD_OUT \in Nat
  BY SumIs, Positive
<1>3. Ct(p, j, len, k) = [p EXCEPT ![j] = p[j] + PLANTARD_OUT, ![j + len] = p[j] + PLANTARD_OUT]
  BY <1>1, <1>2 DEF Ct
<1>4. j \in Int /\ j # j + len
  BY DEF Index
<1>. QED  BY <1>2, <1>3, <1>4

\* What a butterfly of invntt does to them.
LEMMA GsIs ==
  ASSUME NEW p \in [Index -> Nat], NEW j \in Index, NEW len \in Nat, len > 0, j + len \in Index,
         NEW k, p[j] + p[j + len] <= PLANTARD_IN
  PROVE  /\ Gs(p, j, len, k) \in [Index -> Nat]
         /\ Gs(p, j, len, k)[j] = p[j] + p[j + len]
         /\ Gs(p, j, len, k)[j + len] = PLANTARD_OUT
         /\ \A i \in Index : i # j /\ i # j + len => Gs(p, j, len, k)[i] = p[i]
<1>1. Sum(p[j], p[j + len]) = p[j] + p[j + len] /\ p[j] + p[j + len] \in Nat
  BY SumIs
<1>2. Product(k, p[j] + p[j + len]) = PLANTARD_OUT
  BY <1>1, ProductIs
<1>3. Gs(p, j, len, k) = [p EXCEPT ![j] = p[j] + p[j + len], ![j + len] = PLANTARD_OUT]
  BY <1>1, <1>2 DEF Gs
<1>4. j \in Int /\ j # j + len
  BY DEF Index
<1>. QED  BY <1>1, <1>3, <1>4, Positive

Four(j, h) == {j, j + h, j + 2 * h, j + 3 * h}

\* The coefficients of a group are four, all of the polynomial.
LEMMA FourApart ==
  ASSUME NEW h \in Distances, NEW j \in Nat, j + 3 * h < N
  PROVE  /\ h \in Nat /\ h > 0 /\ 2 * h \in Nat /\ 2 * h > 0
         /\ j \in Index /\ j + h \in Index /\ j + 2 * h \in Index /\ j + 3 * h \in Index
         /\ j + h + h = j + 2 * h /\ j + h + 2 * h = j + 3 * h /\ j + 2 * h + h = j + 3 * h
         /\ j # j + h /\ j # j + 2 * h /\ j # j + 3 * h
         /\ j + h # j + 2 * h /\ j + h # j + 3 * h /\ j + 2 * h # j + 3 * h
BY Degrees DEF Distances, Index

\* A group of ntt leaves in each of its four coefficients the first of them
\* and two products.
LEMMA ForwardGroupIs ==
  ASSUME NEW p \in [Index -> Nat], NEW h \in Distances, NEW g, First(g, h) \in Nat, First(g, h) + 3 * h < N,
         p[First(g, h)] + 2 * PLANTARD_OUT <= PLANTARD_IN,
         p[First(g, h) + h] + 2 * PLANTARD_OUT <= PLANTARD_IN
  PROVE  /\ ForwardGroup(p, g, h) \in [Index -> Nat]
         /\ \A i \in Index : ForwardGroup(p, g, h)[i] =
              IF i \in Four(First(g, h), h) THEN p[First(g, h)] + 2 * PLANTARD_OUT ELSE p[i]
<1>. DEFINE j == First(g, h)
            k == N \div (4 * h) + Block(g, h)
            p1 == Ct(p, j, 2 * h, k)
            p2 == Ct(p1, j + h, 2 * h, k)
            p3 == Ct(p2, j, h, 2 * k)
            p4 == Ct(p3, j + 2 * h, h, 2 * k + 1)
<1>0. ForwardGroup(p, g, h) = p4
  BY DEF ForwardGroup
<1>1. /\ h \in Nat /\ h > 0 /\ 2 * h \in Nat /\ 2 * h > 0
      /\ j \in Index /\ j + h \in Index /\ j + 2 * h \in Index /\ j + 3 * h \in Index
      /\ j + h + h = j + 2 * h /\ j + h + 2 * h = j + 3 * h /\ j + 2 * h + h = j + 3 * h
      /\ j # j + h /\ j # j + 2 * h /\ j # j + 3 * h
      /\ j + h # j + 2 * h /\ j + h # j + 3 * h /\ j + 2 * h # j + 3 * h
  BY FourApart
<1>2. /\ p[j] \in Nat /\ p[j + h] \in Nat
      /\ p[j] + 2 * PLANTARD_OUT <= PLANTARD_IN /\ p[j + h] + 2 * PLANTARD_OUT <= PLANTARD_IN
  BY <1>1
<1>. HIDE DEF j, k
<1>3. /\ p1 \in [Index -> Nat] /\ p1[j] = p[j] + PLANTARD_OUT /\ p1[j + 2 * h] = p[j] + PLANTARD_OUT
      /\ \A i \in Index : i # j /\ i # j + 2 * h => p1[i] = p[i]
  <2>1. p[j] + PLANTARD_OUT <= PLANTARD_IN
    BY <1>2, Positive
  <2>. QED  BY <1>1, <2>1, CtIs
<1>. HIDE DEF p1
<1>4. /\ p2 \in [Index -> Nat] /\ p2[j + h] = p[j + h] + PLANTARD_OUT
      /\ p2[j + h + 2 * h] = p[j + h] + PLANTARD_OUT
      /\ \A i \in Index : i # j + h /\ i # j + h + 2 * h => p2[i] = p1[i]
  <2>1. p1[j + h] = p[j + h] /\ p[j + h] + PLANTARD_OUT <= PLANTARD_IN /\ j + h + 2 * h \in Index
    BY <1>1, <1>2, <1>3, Positive
  <2>. QED  BY <1>1, <1>3, <2>1, CtIs
<1>. HIDE DEF p2
<1>5. /\ p3 \in [Index -> Nat] /\ p3[j] = p[j] + 2 * PLANTARD_OUT /\ p3[j + h] = p[j] + 2 * PLANTARD_OUT
      /\ \A i \in Index : i # j /\ i # j + h => p3[i] = p2[i]
  <2>1. p2[j] = p[j] + PLANTARD_OUT /\ p2[j] + PLANTARD_OUT = p[j] + 2 * PLANTARD_OUT
    BY <1>1, <1>2, <1>3, <1>4, Positive
  <2>2. p2[j] + PLANTARD_OUT <= PLANTARD_IN
    BY <1>2, <2>1
  <2>. QED  BY <1>1, <1>4, <2>1, <2>2, CtIs
<1>. HIDE DEF p3
<1>6. /\ p4 \in [Index -> Nat] /\ p4[j + 2 * h] = p[j] + 2 * PLANTARD_OUT
      /\ p4[j + 2 * h + h] = p[j] + 2 * PLANTARD_OUT
      /\ \A i \in Index : i # j + 2 * h /\ i # j + 2 * h + h => p4[i] = p3[i]
  <2>1. p3[j + 2 * h] = p[j] + PLANTARD_OUT
    BY <1>1, <1>3, <1>4, <1>5
  <2>2. p3[j + 2 * h] + PLANTARD_OUT = p[j] + 2 * PLANTARD_OUT /\ j + 2 * h + h \in Index
    BY <1>1, <1>2, <2>1, Positive
  <2>3. p3[j + 2 * h] + PLANTARD_OUT <= PLANTARD_IN
    BY <1>2, <2>2
  <2>. QED  BY <1>1, <1>5, <2>2, <2>3, CtIs
<1>. HIDE DEF p4
<1>7. ASSUME NEW i \in Index
      PROVE  p4[i] = IF i \in Four(j, h) THEN p[j] + 2 * PLANTARD_OUT ELSE p[i]
  <2>1. CASE i = j \/ i = j + h
    BY <1>1, <1>5, <1>6, <2>1 DEF Four
  <2>2. CASE i = j + 2 * h \/ i = j + 3 * h
    BY <1>1, <1>6, <2>2 DEF Four
  <2>3. CASE i \notin Four(j, h)
    <3>1. i # j /\ i # j + h /\ i # j + 2 * h /\ i # j + 3 * h
      BY <2>3 DEF Four
    <3>. QED  BY <1>1, <1>3, <1>4, <1>5, <1>6, <2>3, <3>1
  <2>. QED  BY <2>1, <2>2, <2>3 DEF Four
<1>. QED  BY <1>0, <1>6, <1>7 DEF j

\* A group of invntt leaves the sum of its four coefficients in the first of
\* them and products, or the sum of two, in the others.
LEMMA InverseGroupIs ==
  ASSUME NEW p \in [Index -> Nat], NEW h \in Distances, NEW g, First(g, h) \in Nat, First(g, h) + 3 * h < N,
         NEW m \in Nat, \A i \in Four(First(g, h), h) : p[i] <= m,
         4 * m <= PLANTARD_IN, 2 * PLANTARD_OUT <= 4 * m
  PROVE  /\ InverseGroup(p, g, h) \in [Index -> Nat]
         /\ \A i \in Four(First(g, h), h) : InverseGroup(p, g, h)[i] <= 4 * m
         /\ \A i \in Index : i \notin Four(First(g, h), h) => InverseGroup(p, g, h)[i] = p[i]
<1>. DEFINE j == First(g, h)
            k == N \div (2 * h) - 1 - Block(g, h)
            p1 == Gs(p, j, h, 2 * k + 1)
            p2 == Gs(p1, j + 2 * h, h, 2 * k)
            p3 == Gs(p2, j, 2 * h, k)
            p4 == Gs(p3, j + h, 2 * h, k)
<1>0. InverseGroup(p, g, h) = p4
  BY DEF InverseGroup
<1>1. /\ h \in Nat /\ h > 0 /\ 2 * h \in Nat /\ 2 * h > 0
      /\ j \in Index /\ j + h \in Index /\ j + 2 * h \in Index /\ j + 3 * h \in Index
      /\ j + h + h = j + 2 * h /\ j + h + 2 * h = j + 3 * h /\ j + 2 * h + h = j + 3 * h
      /\ j # j + h /\ j # j + 2 * h /\ j # j + 3 * h
      /\ j + h # j + 2 * h /\ j + h # j + 3 * h /\ j + 2 * h # j + 3 * h
  BY FourApart
<1>2. /\ p[j] \in 0 .. m /\ p[j + h] \in 0 .. m /\ p[j + 2 * h] \in 0 .. m /\ p[j + 3 * h] \in 0 .. m
  BY <1>1 DEF Four
<1>. HIDE DEF j, k
<1>3. /\ p1 \in [Index -> Nat] /\ p1[j] \in 0 .. 2 * m /\ p1[j + h] = PLANTARD_OUT
      /\ \A i \in Index : i # j /\ i # j + h => p1[i] = p[i]
  <2>1. p[j] + p[j + h] <= PLANTARD_IN /\ p[j] + p[j + h] \in 0 .. 2 * m
    BY <1>2, Positive
  <2>. QED  BY <1>1, <2>1, GsIs
<1>. HIDE DEF p1
<1>4. /\ p2 \in [Index -> Nat] /\ p2[j + 2 * h] \in 0 .. 2 * m /\ p2[j + 3 * h] = PLANTARD_OUT
      /\ \A i \in Index : i # j + 2 * h /\ i # j + 3 * h => p2[i] = p1[i]
  <2>1. p1[j + 2 * h] = p[j + 2 * h] /\ p1[j + 3 * h] = p[j + 3 * h]
    BY <1>1, <1>3
  <2>2. p1[j + 2 * h] + p1[j + 3 * h] <= PLANTARD_IN /\ p1[j + 2 * h] + p1[j + 3 * h] \in 0 .. 2 * m
    BY <1>2, <2>1, Positive
  <2>. QED  BY <1>1, <1>3, <2>2, GsIs
<1>. HIDE DEF p2
<1>5. /\ p3 \in [Index -> Nat] /\ p3[j] \in 0 .. 4 * m /\ p3[j + 2 * h] = PLANTARD_OUT
      /\ \A i \in Index : i # j /\ i # j + 2 * h => p3[i] = p2[i]
  <2>1. p2[j] = p1[j]
    BY <1>1, <1>4
  <2>2. p2[j] + p2[j + 2 * h] <= PLANTARD_IN /\ p2[j] + p2[j + 2 * h] \in 0 .. 4 * m
    BY <1>3, <1>4, <2>1, Positive
  <2>. QED  BY <1>1, <1>4, <2>2, GsIs
<1>. HIDE DEF p3
<1>6. /\ p4 \in [Index -> Nat] /\ p4[j + h] \in 0 .. 4 * m /\ p4[j + 3 * h] = PLANTARD_OUT
      /\ \A i \in Index : i # j + h /\ i # j + 3 * h => p4[i] = p3[i]
  <2>1. p3[j + h] = PLANTARD_OUT /\ p3[j + 3 * h] = PLANTARD_OUT
    BY <1>1, <1>3, <1>4, <1>5
  <2>2. p3[j + h] + p3[j + 3 * h] <= PLANTARD_IN /\ p3[j + h] + p3[j + 3 * h] \in 0 .. 4 * m
    BY <2>1, Positive
  <2>. QED  BY <1>1, <1>5, <2>2, GsIs
<1>. HIDE DEF p4
<1>7. p4[j] \in 0 .. 4 * m /\ p4[j + 2 * h] = PLANTARD_OUT
  BY <1>1, <1>5, <1>6
<1>8. PLANTARD_OUT <= 4 * m
  BY Positive
<1>9. \A i \in Four(j, h) : p4[i] <= 4 * m
  BY <1>6, <1>7, <1>8 DEF Four
<1>10. \A i \in Index : i \notin Four(j, h) => p4[i] = p[i]
  BY <1>3, <1>4, <1>5, <1>6 DEF Four
<1>. QED  BY <1>0, <1>6, <1>9, <1>10 DEF j

-----------------------------------------------------------------------------
(***************************************************************************)
(* The inductive invariant: a coefficient of ntt has grown by one product  *)
(* per layer it has crossed, one of invntt has been doubled by each.       *)
(***************************************************************************)

\* The layers crossed when the shorter distance has come to h.
Layers(h) == 2 * PairsBelow(N \div (4 * h))

LEMMA LayersAre ==
  /\ \A h \in Distances : 4 * h <= N => Layers(h) \in 0 .. 6
  /\ Layers(N \div 4) = 0
  /\ \A h \in Distances : 4 * h <= N /\ h >= 4 =>
       h \div 4 \in Distances /\ 4 * (h \div 4) <= N /\ Layers(h \div 4) = Layers(h) + 2
BY Degrees DEF Layers, PairsBelow, Distances

LEMMA PlaceRange ==
  ASSUME NEW h \in Distances, 4 * h <= N, NEW i \in Index
  PROVE  PlaceOf(i, h) \in 0 .. N \div 4 - 1
<1>1. CASE h = 1
  BY <1>1, Degrees DEF PlaceOf, Index
<1>2. CASE h = 4
  BY <1>2, Degrees DEF PlaceOf, Index
<1>3. CASE h = 16
  BY <1>3, Degrees DEF PlaceOf, Index
<1>4. CASE h = 64
  BY <1>4, Degrees DEF PlaceOf, Index
<1>. QED  BY <1>1, <1>2, <1>3, <1>4 DEF Distances

\* What the coefficients of an inverse transform were at most, or a product.
Start == IF bound >= PLANTARD_OUT THEN bound ELSE PLANTARD_OUT

Inputs == {RowMax} \cup DirectInputs

Crossed(i) == IF PlaceOf(i, half) < group THEN 2 ELSE 0

Shape ==
  /\ bound \in 0 .. Q-1
  /\ dir \in {"forward", "inverse", "idle"}
  /\ half \in Distances /\ 4 * half <= N /\ group \in 0 .. N \div 4 - 1
  /\ a \in [Index -> Nat] /\ \A i \in Index : a[i] <= PLANTARD_IN

ForwardInv ==
  /\ dir = "forward" =>
       \A i \in Index : a[i] <= bound + (Layers(half) + Crossed(i)) * PLANTARD_OUT
  /\ dir = "idle" /\ half = 1 /\ bound # 0 =>
       \A i \in Index : a[i] <= bound + (Layers(1) + 2) * PLANTARD_OUT

InverseInv ==
  /\ dir = "inverse" =>
       /\ bound \in Inputs
       /\ \A i \in Index : a[i] <= (IF PlaceOf(i, half) < group THEN 4 * half ELSE half) * Start
  /\ InverseDone =>
       /\ bound \in Inputs
       /\ \A i \in Index : a[i] <= N * Start

IInv == Shape /\ ForwardInv /\ InverseInv

LEMMA InitInv == Init => IInv
<1> SUFFICES ASSUME Init PROVE IInv
  OBVIOUS
<1>1. Shape
  <2>1. bound \in 0 .. Q-1
    BY Inside DEF Init
  <2>2. half \in Distances /\ 4 * half <= N /\ group \in 0 .. N \div 4 - 1
    BY Degrees DEF Init, Distances
  <2>3. a \in [Index -> Nat] /\ \A i \in Index : a[i] <= PLANTARD_IN
    BY Positive DEF Init, All
  <2>. QED  BY <2>1, <2>2, <2>3 DEF Init, Shape
<1>2. ~InverseDone
  BY Degrees DEF Init, InverseDone
<1>. QED  BY <1>1, <1>2 DEF Init, IInv, ForwardInv, InverseInv

LEMMA ForwardInvStart == IInv /\ Forward => IInv'
<1> SUFFICES ASSUME IInv, Forward PROVE IInv'
  OBVIOUS
<1>1. PICK m \in {ZMax, ChallengeMax, T1Max} :
        bound' = m /\ a' = All(m) /\ dir' = "forward" /\ half' = N \div 4 /\ group' = 0
  BY DEF Forward, StartForward
<1>2. m \in 0 .. Q-1 /\ m \in Nat /\ m <= PLANTARD_IN
  BY Inside DEF ChallengeMax
<1>3. /\ N \div 4 \in Distances /\ 4 * (N \div 4) <= N /\ 0 \in 0 .. N \div 4 - 1
      /\ Layers(N \div 4) = 0
  BY Degrees, LayersAre DEF Distances
<1>4. a' \in [Index -> Nat] /\ \A i \in Index : a'[i] = m
  BY <1>1, <1>2 DEF All
<1>5. Shape'
  BY <1>1, <1>2, <1>3, <1>4 DEF Shape
<1>6. \A i \in Index : a'[i] <= bound' + (Layers(half') + Crossed(i)') * PLANTARD_OUT
  <2>1. ASSUME NEW i \in Index PROVE Crossed(i)' \in {0, 2}
    BY DEF Crossed
  <2>2. ASSUME NEW x \in {0, 2} PROVE m <= m + (0 + x) * PLANTARD_OUT
    BY <1>2, Positive
  <2>3. ASSUME NEW i \in Index
        PROVE  a'[i] <= bound' + (Layers(half') + Crossed(i)') * PLANTARD_OUT
    <3>1. PICK x \in {0, 2} : Crossed(i)' = x
      BY <2>1
    <3>2. m <= m + (0 + x) * PLANTARD_OUT
      BY <2>2
    <3>. QED  BY <1>1, <1>3, <1>4, <3>1, <3>2
  <2>. QED  BY <2>3
<1>7. ForwardInv'
  BY <1>1, <1>6 DEF ForwardInv
<1>8. InverseInv'
  BY <1>1 DEF InverseInv, InverseDone
<1>. QED  BY <1>5, <1>7, <1>8 DEF IInv

LEMMA InverseInvStart == IInv /\ Inverse => IInv'
<1> SUFFICES ASSUME IInv, Inverse PROVE IInv'
  OBVIOUS
<1>1. PICK m \in Inputs :
        bound' = m /\ a' = All(m) /\ dir' = "inverse" /\ half' = 1 /\ group' = 0
  BY DEF Inverse, StartInverse, Inputs
<1>2. m \in 0 .. Q-1 /\ m \in Nat /\ m <= PLANTARD_IN
  BY Inside DEF Inputs, RowMax
<1>3. 1 \in Distances /\ 4 * 1 <= N /\ 0 \in 0 .. N \div 4 - 1
  BY Degrees DEF Distances
<1>4. a' \in [Index -> Nat] /\ \A i \in Index : a'[i] = m
  BY <1>1, <1>2 DEF All
<1>5. Shape'
  BY <1>1, <1>2, <1>3, <1>4 DEF Shape
<1>6. \A i \in Index : a'[i] <= (IF PlaceOf(i, half') < group' THEN 4 * half' ELSE half') * Start'
  <2>1. Start' \in Nat /\ m <= Start'
    BY <1>1, <1>2, Positive DEF Start
  <2>2. ASSUME NEW i \in Index PROVE ~(PlaceOf(i, 1) < 0)
    BY <1>3, PlaceRange, Degrees
  <2>. QED  BY <1>1, <1>4, <2>1, <2>2
<1>7. InverseInv'
  BY <1>1, <1>6 DEF InverseInv, InverseDone
<1>8. ForwardInv'
  BY <1>1 DEF ForwardInv
<1>. QED  BY <1>5, <1>7, <1>8 DEF IInv

\* A word of ntt that has crossed the layers before the pair in progress is
\* two products short of what plantard admits.
LEMMA RoomBelow ==
  ASSUME NEW b \in Nat, b < Q, NEW n \in Nat, n <= 6, NEW x \in Nat, x <= b + n * PLANTARD_OUT
  PROVE  /\ x + 2 * PLANTARD_OUT <= b + (n + 2) * PLANTARD_OUT
         /\ b + (n + 2) * PLANTARD_OUT <= PLANTARD_IN
BY DEF Q, PLANTARD_OUT, PLANTARD_IN

LEMMA Room ==
  ASSUME NEW b \in 0 .. Q-1, NEW n \in 0 .. 6, NEW x \in Nat, x <= b + n * PLANTARD_OUT
  PROVE  /\ x + 2 * PLANTARD_OUT <= b + (n + 2) * PLANTARD_OUT
         /\ b + (n + 2) * PLANTARD_OUT <= PLANTARD_IN
         /\ x <= PLANTARD_IN
<1>1. b \in Nat /\ b < Q /\ n \in Nat /\ n <= 6
  BY Positive
<1>2. /\ x + 2 * PLANTARD_OUT <= b + (n + 2) * PLANTARD_OUT
      /\ b + (n + 2) * PLANTARD_OUT <= PLANTARD_IN
  BY <1>1, RoomBelow
<1>3. PICK y \in Nat, z \in Nat : y = b + (n + 2) * PLANTARD_OUT /\ z = 2 * PLANTARD_OUT
  BY <1>1, Positive
<1>. QED  BY <1>2, <1>3, Positive

\* What a group of ntt leaves.
LEMMA ForwardGrows ==
  ASSUME IInv, ForwardStep
  PROVE  /\ a' \in [Index -> Nat]
         /\ \A i \in Index : a'[i] <= bound +
              (Layers(half) + IF PlaceOf(i, half) < group + 1 THEN 2 ELSE 0) * PLANTARD_OUT
<1>. DEFINE j == First(group, half)
<1>1. /\ dir = "forward" /\ a' = ForwardGroup(a, group, half)
  BY DEF ForwardStep
<1>2. /\ bound \in 0 .. Q-1 /\ half \in Distances /\ 4 * half <= N
      /\ group \in 0 .. N \div 4 - 1 /\ a \in [Index -> Nat]
      /\ \A i \in Index : a[i] <= bound + (Layers(half) + Crossed(i)) * PLANTARD_OUT
  BY <1>1 DEF IInv, Shape, ForwardInv
<1>3. Layers(half) \in 0 .. 6
  BY <1>2, LayersAre
<1>4. /\ j \in Nat /\ j + 3 * half < N
      /\ \A i \in Index : PlaceOf(i, half) = group <=> i \in Four(j, half)
  BY <1>2, GroupIs DEF Four
<1>5. j \in Index /\ j + half \in Index /\ j \in Four(j, half) /\ j + half \in Four(j, half)
  BY <1>2, <1>4, FourApart DEF Four
<1>6. \A i \in Four(j, half) : i \in Index => Crossed(i) = 0
  BY <1>2, <1>4 DEF Crossed
<1>7. /\ a[j] <= bound + Layers(half) * PLANTARD_OUT
      /\ a[j + half] <= bound + Layers(half) * PLANTARD_OUT
  BY <1>2, <1>3, <1>5, <1>6
<1>8. /\ a[j] + 2 * PLANTARD_OUT <= bound + (Layers(half) + 2) * PLANTARD_OUT
      /\ a[j] + 2 * PLANTARD_OUT <= PLANTARD_IN /\ a[j + half] + 2 * PLANTARD_OUT <= PLANTARD_IN
  <2>1. a[j] \in Nat /\ a[j + half] \in Nat
    BY <1>2, <1>5
  <2>2. a[j + half] + 2 * PLANTARD_OUT <= bound + (Layers(half) + 2) * PLANTARD_OUT
    BY <1>2, <1>3, <1>7, <2>1, Room
  <2>3. /\ a[j] + 2 * PLANTARD_OUT <= bound + (Layers(half) + 2) * PLANTARD_OUT
        /\ bound + (Layers(half) + 2) * PLANTARD_OUT <= PLANTARD_IN
    BY <1>2, <1>3, <1>7, <2>1, Room
  <2>. QED  BY <1>2, <1>3, <2>1, <2>2, <2>3, Positive
<1>. HIDE DEF j
<1>9. /\ a' \in [Index -> Nat]
      /\ \A i \in Index : a'[i] = IF i \in Four(j, half) THEN a[j] + 2 * PLANTARD_OUT ELSE a[i]
  BY <1>1, <1>2, <1>4, <1>8, ForwardGroupIs DEF j
<1>10. ASSUME NEW i \in Index
       PROVE  a'[i] <= bound + (Layers(half) + IF PlaceOf(i, half) < group + 1 THEN 2 ELSE 0) * PLANTARD_OUT
  <2>1. PlaceOf(i, half) \in Nat /\ group \in Nat
    BY <1>2, PlaceRange, Degrees
  <2>2. CASE i \in Four(j, half)
    <3>1. PlaceOf(i, half) < group + 1
      BY <1>4, <2>1, <2>2
    <3>. QED  BY <1>8, <1>9, <2>2, <3>1
  <2>3. CASE i \notin Four(j, half)
    <3>1. PlaceOf(i, half) # group
      BY <1>4, <2>3
    <3>2. PlaceOf(i, half) < group + 1 <=> PlaceOf(i, half) < group
      BY <2>1, <3>1
    <3>3. a'[i] = a[i] /\ a[i] <= bound + (Layers(half) + Crossed(i)) * PLANTARD_OUT
      BY <1>2, <1>9, <2>3
    <3>. QED  BY <3>2, <3>3 DEF Crossed
  <2>. QED  BY <2>2, <2>3
<1>. QED  BY <1>9, <1>10

LEMMA ForwardStepInv == IInv /\ ForwardStep /\ UNCHANGED bound => IInv'
<1> SUFFICES ASSUME IInv, ForwardStep, UNCHANGED bound PROVE IInv'
  OBVIOUS
<1>1. /\ dir = "forward"
      /\ \/ group + 1 < N \div 4 /\ group' = group + 1 /\ half' = half /\ dir' = dir
         \/ ~(group + 1 < N \div 4) /\ half >= 4 /\ group' = 0 /\ half' = half \div 4 /\ dir' = dir
         \/ ~(group + 1 < N \div 4) /\ half < 4 /\ group' = 0 /\ dir' = "idle" /\ half' = half
  BY DEF ForwardStep, MoreGroups
<1>2. /\ bound \in 0 .. Q-1 /\ half \in Distances /\ 4 * half <= N
      /\ group \in 0 .. N \div 4 - 1 /\ N \div 4 \in Nat
  BY Degrees DEF IInv, Shape
<1>3. Layers(half) \in 0 .. 6
  BY <1>2, LayersAre
<1>4. /\ a' \in [Index -> Nat]
      /\ \A i \in Index : a'[i] <= bound +
           (Layers(half) + IF PlaceOf(i, half) < group + 1 THEN 2 ELSE 0) * PLANTARD_OUT
  BY ForwardGrows
<1>5. ASSUME NEW i \in Index
      PROVE  /\ a'[i] <= bound + (Layers(half) + 2) * PLANTARD_OUT
             /\ a'[i] <= PLANTARD_IN
  <2>1. PICK n \in 0 .. 6, x \in Nat, c \in {0, 2} :
          Layers(half) = n /\ a'[i] = x /\ x <= bound + (n + c) * PLANTARD_OUT
    BY <1>3, <1>4
  <2>2. x <= bound + (n + 2) * PLANTARD_OUT
    BY <1>2, <2>1, Positive
  <2>3. bound + (n + 2) * PLANTARD_OUT <= PLANTARD_IN
    <3>1. 0 \in Nat /\ 0 <= bound + n * PLANTARD_OUT
      BY <1>2, Positive
    <3>. QED  BY <1>2, <3>1, Room
  <2>4. bound + (n + 2) * PLANTARD_OUT \in Nat
    BY <1>2, Positive
  <2>. QED  BY <2>1, <2>2, <2>3, <2>4, Positive
<1>6. /\ half' \in Distances /\ 4 * half' <= N /\ group' \in 0 .. N \div 4 - 1
      /\ dir' \in {"forward", "idle"}
  BY <1>1, <1>2, LayersAre
<1>7. Shape'
  BY <1>2, <1>4, <1>5, <1>6 DEF Shape
<1>8. CASE group + 1 < N \div 4 /\ group' = group + 1 /\ half' = half /\ dir' = dir
  <2>1. \A i \in Index : Crossed(i)' = IF PlaceOf(i, half) < group + 1 THEN 2 ELSE 0
    BY <1>8 DEF Crossed
  <2>2. ForwardInv'
    BY <1>1, <1>4, <1>8, <2>1 DEF ForwardInv
  <2>3. InverseInv'
    BY <1>1, <1>8 DEF InverseInv, InverseDone
  <2>. QED  BY <1>7, <2>2, <2>3 DEF IInv
<1>9. CASE half >= 4 /\ group' = 0 /\ half' = half \div 4 /\ dir' = dir
  <2>1. Layers(half') = Layers(half) + 2
    BY <1>2, <1>9, LayersAre
  <2>2. \A i \in Index : Crossed(i)' = 0
    <3>1. \A i \in Index : PlaceOf(i, half') \in 0 .. N \div 4 - 1
      BY <1>6, PlaceRange
    <3>. QED  BY <1>2, <1>9, <3>1 DEF Crossed
  <2>3. Layers(half') + 0 = Layers(half) + 2
    BY <1>3, <2>1
  <2>4. ForwardInv'
    BY <1>1, <1>5, <1>9, <2>2, <2>3 DEF ForwardInv
  <2>5. InverseInv'
    BY <1>1, <1>9 DEF InverseInv, InverseDone
  <2>. QED  BY <1>7, <2>4, <2>5 DEF IInv
<1>10. CASE half < 4 /\ group' = 0 /\ dir' = "idle" /\ half' = half
  <2>1. half = 1
    BY <1>2, <1>10 DEF Distances
  <2>2. ForwardInv'
    BY <1>5, <1>10, <2>1 DEF ForwardInv
  <2>3. InverseInv'
    BY <1>10, <2>1, Degrees DEF InverseInv, InverseDone
  <2>. QED  BY <1>7, <2>2, <2>3 DEF IInv
<1>. QED  BY <1>1, <1>8, <1>9, <1>10

\* Four times the sum of h coefficients is inside what plantard admits.
LEMMA Doubled ==
  ASSUME NEW h \in Distances, NEW s \in Nat, PLANTARD_OUT <= s, s < Q
  PROVE  /\ h * s \in Nat /\ (4 * h) * s = 4 * (h * s) /\ (4 * h) * s \in Nat
         /\ h * s <= (4 * h) * s /\ 4 * (h * s) <= PLANTARD_IN /\ 2 * PLANTARD_OUT <= 4 * (h * s)
<1>1. CASE h = 1
  BY <1>1 DEF Q, PLANTARD_OUT, PLANTARD_IN
<1>2. CASE h = 4
  BY <1>2 DEF Q, PLANTARD_OUT, PLANTARD_IN
<1>3. CASE h = 16
  BY <1>3 DEF Q, PLANTARD_OUT, PLANTARD_IN
<1>4. CASE h = 64
  BY <1>4 DEF Q, PLANTARD_OUT, PLANTARD_IN
<1>. QED  BY <1>1, <1>2, <1>3, <1>4 DEF Distances

LEMMA StartIs ==
  ASSUME bound \in 0 .. Q-1
  PROVE  Start \in Nat /\ PLANTARD_OUT <= Start /\ Start < Q /\ bound <= Start
BY Positive, Inside DEF Start

\* What a group of invntt leaves.
LEMMA InverseGrows ==
  ASSUME IInv, InverseStep
  PROVE  /\ a' \in [Index -> Nat]
         /\ \A i \in Index : a'[i] <=
              (IF PlaceOf(i, half) < group + 1 THEN 4 * half ELSE half) * Start
<1>. DEFINE j == First(group, half)
<1>1. /\ dir = "inverse" /\ a' = InverseGroup(a, group, half)
  BY DEF InverseStep
<1>2. /\ bound \in 0 .. Q-1 /\ half \in Distances /\ 4 * half <= N
      /\ group \in 0 .. N \div 4 - 1 /\ a \in [Index -> Nat]
      /\ \A i \in Index : a[i] <= (IF PlaceOf(i, half) < group THEN 4 * half ELSE half) * Start
  BY <1>1 DEF IInv, Shape, InverseInv
<1>3. PICK m : m = half * Start
  OBVIOUS
<1>4. /\ m \in Nat /\ (4 * half) * Start = 4 * m
      /\ 4 * m <= PLANTARD_IN /\ 2 * PLANTARD_OUT <= 4 * m
  BY <1>2, <1>3, StartIs, Doubled
<1>5. /\ j \in Nat /\ j + 3 * half < N
      /\ \A i \in Index : PlaceOf(i, half) = group <=> i \in Four(j, half)
  BY <1>2, GroupIs DEF Four
<1>6. \A i \in Four(j, half) : i \in Index
  BY <1>2, <1>5, FourApart DEF Four
<1>7. \A i \in Four(j, half) : a[i] <= m
  <2>1. ASSUME NEW i \in Four(j, half) PROVE a[i] <= m
    <3>1. i \in Index /\ PlaceOf(i, half) = group /\ ~(group < group)
      BY <1>2, <1>5, <1>6
    <3>. QED  BY <1>2, <1>3, <3>1
  <2>. QED  BY <2>1
<1>. HIDE DEF j
<1>8. /\ a' \in [Index -> Nat]
      /\ \A i \in Four(j, half) : a'[i] <= 4 * m
      /\ \A i \in Index : i \notin Four(j, half) => a'[i] = a[i]
  BY <1>1, <1>2, <1>4, <1>5, <1>7, InverseGroupIs DEF j
<1>9. ASSUME NEW i \in Index
      PROVE  a'[i] <= (IF PlaceOf(i, half) < group + 1 THEN 4 * half ELSE half) * Start
  <2>1. PlaceOf(i, half) \in Nat /\ group \in Nat
    BY <1>2, PlaceRange, Degrees
  <2>2. CASE i \in Four(j, half)
    <3>1. PlaceOf(i, half) < group + 1
      BY <1>5, <2>1, <2>2
    <3>. QED  BY <1>4, <1>8, <2>2, <3>1
  <2>3. CASE i \notin Four(j, half)
    <3>1. PlaceOf(i, half) # group
      BY <1>5, <2>3
    <3>2. PlaceOf(i, half) < group + 1 <=> PlaceOf(i, half) < group
      BY <2>1, <3>1
    <3>3. a'[i] = a[i] /\ a[i] <= (IF PlaceOf(i, half) < group THEN 4 * half ELSE half) * Start
      BY <1>2, <1>8, <2>3
    <3>. QED  BY <3>2, <3>3
  <2>. QED  BY <2>2, <2>3
<1>. QED  BY <1>8, <1>9

LEMMA InverseStepInv == IInv /\ InverseStep /\ UNCHANGED bound => IInv'
<1> SUFFICES ASSUME IInv, InverseStep, UNCHANGED bound PROVE IInv'
  OBVIOUS
<1>1. /\ dir = "inverse"
      /\ \/ group + 1 < N \div 4 /\ group' = group + 1 /\ half' = half /\ dir' = dir
         \/ ~(group + 1 < N \div 4) /\ 4 * half < N /\ group' = 0 /\ half' = 4 * half /\ dir' = dir
         \/ ~(group + 1 < N \div 4) /\ 4 * half = N /\ group' = 0 /\ dir' = "idle" /\ half' = half
  BY DEF InverseStep, MoreGroups
<1>2. /\ bound \in 0 .. Q-1 /\ half \in Distances /\ 4 * half <= N
      /\ group \in 0 .. N \div 4 - 1 /\ N \div 4 \in Nat
  BY Degrees DEF IInv, Shape
<1>3. bound' \in Inputs /\ Start' = Start
  BY <1>1 DEF IInv, InverseInv, Start
<1>4. /\ a' \in [Index -> Nat]
      /\ \A i \in Index : a'[i] <=
           (IF PlaceOf(i, half) < group + 1 THEN 4 * half ELSE half) * Start
  BY InverseGrows
<1>5. ASSUME NEW i \in Index
      PROVE  /\ a'[i] <= (4 * half) * Start
             /\ a'[i] <= PLANTARD_IN
  <2>1. /\ half * Start \in Nat /\ (4 * half) * Start \in Nat /\ half * Start <= (4 * half) * Start
        /\ (4 * half) * Start <= PLANTARD_IN
    BY <1>2, StartIs, Doubled
  <2>2. \/ a'[i] <= (4 * half) * Start
        \/ a'[i] <= half * Start
    BY <1>4
  <2>3. a'[i] \in Nat
    BY <1>4
  <2>4. PICK x \in Nat, y \in Nat : x = (4 * half) * Start /\ y = half * Start
    BY <2>1
  <2>. QED  BY <2>1, <2>2, <2>3, <2>4, Positive
<1>6. /\ half' \in Distances /\ 4 * half' <= N /\ group' \in 0 .. N \div 4 - 1
      /\ dir' \in {"inverse", "idle"}
  BY <1>1, <1>2, Degrees DEF Distances
<1>7. Shape'
  BY <1>2, <1>4, <1>5, <1>6 DEF Shape
<1>8. CASE group + 1 < N \div 4 /\ group' = group + 1 /\ half' = half /\ dir' = dir
  <2>1. InverseInv'
    BY <1>1, <1>3, <1>4, <1>8 DEF InverseInv, InverseDone
  <2>2. ForwardInv'
    BY <1>1, <1>8 DEF ForwardInv
  <2>. QED  BY <1>7, <2>1, <2>2 DEF IInv
<1>9. CASE group' = 0 /\ half' = 4 * half /\ dir' = dir
  <2>1. \A i \in Index : ~(PlaceOf(i, half') < group')
    <3>1. \A i \in Index : PlaceOf(i, half') \in 0 .. N \div 4 - 1
      BY <1>6, PlaceRange
    <3>. QED  BY <1>2, <1>9, <3>1
  <2>2. InverseInv'
    BY <1>1, <1>3, <1>5, <1>9, <2>1 DEF InverseInv, InverseDone
  <2>3. ForwardInv'
    BY <1>1, <1>9 DEF ForwardInv
  <2>. QED  BY <1>7, <2>2, <2>3 DEF IInv
<1>10. CASE 4 * half = N /\ group' = 0 /\ dir' = "idle" /\ half' = half
  <2>1. half # 1
    BY <1>10, Degrees
  <2>2. InverseInv'
    BY <1>3, <1>5, <1>10 DEF InverseInv
  <2>3. ForwardInv'
    BY <1>10, <2>1 DEF ForwardInv
  <2>. QED  BY <1>7, <2>2, <2>3 DEF IInv
<1>. QED  BY <1>1, <1>8, <1>9, <1>10

LEMMA Inductive == IInv /\ [Next]_vars => IInv'
<1>1. IInv /\ UNCHANGED vars => IInv'
  BY DEF IInv, Shape, ForwardInv, InverseInv, InverseDone, Start, Crossed, vars
<1>2. CASE Transform
  BY <1>2, ForwardStepInv, InverseStepInv DEF Transform
<1>. QED  BY <1>1, <1>2, ForwardInvStart, InverseInvStart DEF Next

LEMMA Invariance == Spec => []IInv
BY InitInv, Inductive, PTL DEF Spec

-----------------------------------------------------------------------------
(***************************************************************************)
(* The theorems                                                            *)
(***************************************************************************)

(***************************************************************************)
(* Every word has the magnitude the model says a word has.                 *)
(***************************************************************************)
THEOREM TypeCorrect == Spec => []TypeOK
<1>1. IInv => TypeOK
  <2>1. IInv => Magnitude(bound)
    BY Inside DEF IInv, Shape, Magnitude
  <2>2. IInv => DOMAIN a = Index /\ \A i \in Index : Magnitude(a[i])
    BY DEF IInv, Shape, Magnitude
  <2>3. IInv => half > 0
    BY DEF IInv, Shape, Distances
  <2>. QED  BY <2>1, <2>2, <2>3 DEF IInv, Shape, TypeOK
<1>. QED  BY <1>1, Invariance, PTL

(***************************************************************************)
(* No word of a transform leaves what plantard admits, Q * 2^8             *)
(* (src/ntt.rs:15): neither ntt on the inputs of the verifier nor invntt   *)
(* on any input below Q.                                                   *)
(***************************************************************************)
THEOREM OperandsAdmitted == Spec => []PlantardAdmits
<1>1. IInv => PlantardAdmits
  BY DEF IInv, Shape, PlantardAdmits, Known, Lost
<1>. QED  BY <1>1, Invariance, PTL

\* The bound of the inductive invariant in the form of ForwardGrowth.
LEMMA LayersCrossed ==
  ASSUME NEW i, half \in Distances, 4 * half <= N
  PROVE  /\ dir = "forward" => ForwardLayers(i) = Layers(half) + Crossed(i)
         /\ dir = "idle" => ForwardLayers(i) = Layers(half) + 2
         /\ Layers(half) + Crossed(i) \in 0 .. 8
<1>1. PairsBelow(N \div (4 * half)) \in 0 .. 3
  BY Degrees DEF PairsBelow
<1>. QED  BY <1>1, GroupOfIsPlace DEF ForwardLayers, Layers, Crossed

\* Eight layers stay below 2^26, and five such words below the reduction.
LEMMA EightLayers ==
  ASSUME NEW b \in Nat, b < Q, NEW n \in Nat, n <= 8, NEW x \in Nat, x <= b + n * PLANTARD_OUT
  PROVE  x < 67108864 /\ RowSum(x, x) <= REDUCTION_IN
BY DEF Q, PLANTARD_OUT, RowSum, REDUCTION_IN

LEMMA Grown ==
  ASSUME IInv, dir = "forward" \/ (dir = "idle" /\ half = 1 /\ bound # 0), NEW i \in Index
  PROVE  /\ a[i] <= bound + ForwardLayers(i) * PLANTARD_OUT
         /\ a[i] < 67108864
         /\ RowSum(a[i], a[i]) <= REDUCTION_IN
<1>1. /\ bound \in Nat /\ bound < Q /\ half \in Distances /\ 4 * half <= N /\ a[i] \in Nat
  BY Positive DEF IInv, Shape
<1>2. PICK n \in 0 .. 8 : ForwardLayers(i) = n /\ a[i] <= bound + n * PLANTARD_OUT
  <2>1. CASE dir = "forward"
    BY <1>1, <2>1, LayersCrossed DEF IInv, ForwardInv
  <2>2. CASE dir = "idle" /\ half = 1 /\ bound # 0
    <3>1. Layers(half) \in 0 .. 6
      BY <1>1, LayersAre
    <3>. QED  BY <1>1, <2>2, <3>1, LayersCrossed DEF IInv, ForwardInv
  <2>. QED  BY <2>1, <2>2
<1>3. a[i] < 67108864 /\ RowSum(a[i], a[i]) <= REDUCTION_IN
  BY <1>1, <1>2, EightLayers
<1>. QED  BY <1>2, <1>3

(***************************************************************************)
(* A word of ntt has grown by one Plantard product per layer it crossed,   *)
(* and the outputs are below the 2^26 that freeze_scaled_into and          *)
(* add_products rely on (src/poly.rs:182, 226).                            *)
(***************************************************************************)
THEOREM GrowthPerLayer == Spec => []ForwardGrowth
<1>1. IInv => ForwardGrowth
  BY Grown DEF ForwardGrowth
<1>. QED  BY <1>1, Invariance, PTL

(***************************************************************************)
(* The five unreduced products of a row are in the domain of their         *)
(* reduction, whatever the words of the row (src/poly.rs:199).             *)
(***************************************************************************)
THEOREM RowsAdmitted == Spec => []RowSumAdmits
<1>1. IInv => RowSumAdmits
  BY Grown DEF RowSumAdmits, IInv, Shape, Known, Lost
<1>. QED  BY <1>1, Invariance, PTL

(***************************************************************************)
(* invntt multiplies a magnitude by N at most, so what it hands to         *)
(* reduce32 is in its domain (src/reduce.rs:14) for the rows of the        *)
(* program, and for a direct input as long as N times it is.               *)
(***************************************************************************)
THEOREM OutputsAdmitted ==
  ASSUME \A m \in DirectInputs : N * m <= REDUCE32_IN
  PROVE  Spec => []Reduce32Admits
<1>1. N * PLANTARD_OUT <= REDUCE32_IN
  <2>1. 256 * PLANTARD_OUT <= REDUCE32_IN
    BY DEF PLANTARD_OUT, Q, REDUCE32_IN
  <2>. QED  BY <2>1, Degrees, Positive, Sizes
<1>2. \A m \in Inputs : N * m <= REDUCE32_IN
  BY <1>1 DEF Inputs, RowMax
<1>3. IInv /\ InverseDone => \A i \in Index : a[i] <= REDUCE32_IN
  <2> SUFFICES ASSUME IInv, InverseDone, NEW i \in Index PROVE a[i] <= REDUCE32_IN
    OBVIOUS
  <2>1. bound \in Inputs /\ a[i] <= N * Start /\ a[i] \in Nat
    BY DEF IInv, InverseInv, Shape
  <2>2. Start = bound \/ Start = PLANTARD_OUT
    BY DEF Start
  <2>3. N * Start <= REDUCE32_IN
    BY <1>1, <1>2, <2>1, <2>2
  <2>4. N * Start \in Nat /\ REDUCE32_IN \in Nat
    <3>1. REDUCE32_IN \in Nat
      BY Sizes
    <3>. QED  BY <3>1, StartIs, Degrees DEF IInv, Shape
  <2>. QED  BY <2>1, <2>3, <2>4
<1>4. IInv => Reduce32Admits
  BY <1>3 DEF Reduce32Admits
<1>. QED  BY <1>4, Invariance, PTL

-----------------------------------------------------------------------------
(***************************************************************************)
(* The words of the code beside their magnitudes: the same schedule, with  *)
(* the additions of the code, and of plantard only its contract (Products  *)
(* in ArithmeticProofs), for the entries a table of N twiddles has.        *)
(***************************************************************************)
CONSTANTS
  Mul(_, _),   \* plantard(x, PLANTARD[k])
  Unmul(_, _)  \* plantard(x, PLANTARD[k].wrapping_neg())

VARIABLE words

Plus(x, y) == x + y
Minus(x, y) == x - y

Code == INSTANCE Ntt WITH
  a <- words, Add <- Plus, Sub <- Minus, Twiddle <- Mul, Untwiddle <- Unmul

Table == 1 .. N-1

Short(x) == x \in Int /\ -PLANTARD_OUT <= x /\ x <= PLANTARD_OUT

PlantardContract ==
  \A k \in Table, x \in Int :
    /\ Mul(k, x) \in Int /\ Unmul(k, x) \in Int
    /\ -PLANTARD_IN <= x /\ x <= PLANTARD_IN => Short(Mul(k, x)) /\ Short(Unmul(k, x))

\* m is the magnitude of a word x, or is lost.
Covers(m, x) == m # Lost => m \in Nat /\ m <= PLANTARD_IN /\ -m <= x /\ x <= m

CoversAll(p, w) ==
  /\ DOMAIN p = Index /\ w \in [Index -> Int]
  /\ \A i \in Index : Covers(p[i], w[i])

LEMMA SumCovers ==
  ASSUME NEW m, NEW n, NEW x \in Int, NEW y \in Int, Covers(m, x), Covers(n, y)
  PROVE  Covers(Sum(m, n), x + y) /\ Covers(Sum(m, n), x - y)
<1>1. CASE m = Lost \/ n = Lost
  BY <1>1 DEF Sum, Known, Covers
<1>2. CASE m # Lost /\ n # Lost
  BY <1>2, Positive DEF Sum, Known, Covers, Lost
<1>. QED  BY <1>1, <1>2

LEMMA ProductCovers ==
  ASSUME PlantardContract, NEW k \in Table, NEW m, NEW x \in Int, Covers(m, x)
  PROVE  /\ Mul(k, x) \in Int /\ Covers(Product(k, m), Mul(k, x))
         /\ Unmul(k, x) \in Int /\ Covers(Product(k, m), Unmul(k, x))
<1>1. Mul(k, x) \in Int /\ Unmul(k, x) \in Int
  BY DEF PlantardContract
<1>2. CASE m = Lost
  BY <1>1, <1>2 DEF Product, Known, Covers
<1>3. CASE m # Lost
  <2>1. -PLANTARD_IN <= x /\ x <= PLANTARD_IN
    BY <1>3, Positive DEF Covers
  <2>2. Short(Mul(k, x)) /\ Short(Unmul(k, x))
    BY <2>1 DEF PlantardContract
  <2>3. Product(k, m) = PLANTARD_OUT
    BY <1>3 DEF Product, Known
  <2>. QED  BY <1>1, <2>2, <2>3, Positive DEF Short, Covers
<1>. QED  BY <1>2, <1>3

\* A butterfly of the code is covered by that of the magnitudes.
LEMMA CtCovers ==
  ASSUME PlantardContract, NEW p, NEW w, CoversAll(p, w), NEW k \in Table,
         NEW j \in Index, NEW len, j + len \in Index
  PROVE  CoversAll(Ct(p, j, len, k), Code!Ct(w, j, len, k))
<1>. DEFINE t == Mul(k, w[j + len])
            m == Sum(p[j], Product(k, p[j + len]))
<1>1. w[j] \in Int /\ w[j + len] \in Int /\ Covers(p[j], w[j]) /\ Covers(p[j + len], w[j + len])
  BY DEF CoversAll
<1>2. t \in Int /\ Covers(Product(k, p[j + len]), t)
  BY <1>1, ProductCovers
<1>3. Covers(m, w[j] + t) /\ Covers(m, w[j] - t) /\ w[j] + t \in Int /\ w[j] - t \in Int
  BY <1>1, <1>2, SumCovers
<1>4. /\ Ct(p, j, len, k) = [p EXCEPT ![j] = m, ![j + len] = m]
      /\ Code!Ct(w, j, len, k) = [w EXCEPT ![j] = w[j] + t, ![j + len] = w[j] - t]
  BY DEF Ct, Code!Ct, Plus, Minus
<1>. HIDE DEF t, m
<1>. QED  BY <1>3, <1>4 DEF CoversAll

LEMMA GsCovers ==
  ASSUME PlantardContract, NEW p, NEW w, CoversAll(p, w), NEW k \in Table,
         NEW j \in Index, NEW len, j + len \in Index
  PROVE  CoversAll(Gs(p, j, len, k), Code!Gs(w, j, len, k))
<1>. DEFINE m == Sum(p[j], p[j + len])
            s == w[j] + w[j + len]
            t == w[j] - w[j + len]
<1>1. w[j] \in Int /\ w[j + len] \in Int /\ Covers(p[j], w[j]) /\ Covers(p[j + len], w[j + len])
  BY DEF CoversAll
<1>2. s \in Int /\ t \in Int /\ Covers(m, s) /\ Covers(m, t)
  BY <1>1, SumCovers
<1>3. /\ Gs(p, j, len, k) = [p EXCEPT ![j] = m, ![j + len] = Product(k, m)]
      /\ Code!Gs(w, j, len, k) = [w EXCEPT ![j] = s, ![j + len] = Unmul(k, t)]
  BY DEF Gs, Code!Gs, Plus, Minus
<1>. HIDE DEF s, t, m
<1>4. Unmul(k, t) \in Int /\ Covers(Product(k, m), Unmul(k, t))
  BY <1>2, ProductCovers
<1>. QED  BY <1>2, <1>3, <1>4 DEF CoversAll

\* The twiddles of a group are in the table.
LEMMA TwiddlesInTable ==
  ASSUME NEW h \in Distances, 4 * h <= N, NEW g \in 0 .. N \div 4 - 1
  PROVE  /\ \A k : k = N \div (4 * h) + Block(g, h) =>
              k \in Table /\ 2 * k \in Table /\ 2 * k + 1 \in Table
         /\ \A k : k = N \div (2 * h) - 1 - Block(g, h) =>
              k \in Table /\ 2 * k \in Table /\ 2 * k + 1 \in Table
<1>1. CASE h = 1
  BY <1>1, Degrees DEF Block, Table
<1>2. CASE h = 4
  BY <1>2, Degrees DEF Block, Table
<1>3. CASE h = 16
  BY <1>3, Degrees DEF Block, Table
<1>4. CASE h = 64
  BY <1>4, Degrees DEF Block, Table
<1>. QED  BY <1>1, <1>2, <1>3, <1>4 DEF Distances

LEMMA ForwardGroupCovers ==
  ASSUME PlantardContract, NEW p, NEW w, CoversAll(p, w),
         NEW h \in Distances, 4 * h <= N, NEW g \in 0 .. N \div 4 - 1
  PROVE  CoversAll(ForwardGroup(p, g, h), Code!ForwardGroup(w, g, h))
<1>. DEFINE j == First(g, h)
            k == N \div (4 * h) + Block(g, h)
            p1 == Ct(p, j, 2 * h, k)                 w1 == Code!Ct(w, j, 2 * h, k)
            p2 == Ct(p1, j + h, 2 * h, k)            w2 == Code!Ct(w1, j + h, 2 * h, k)
            p3 == Ct(p2, j, h, 2 * k)                w3 == Code!Ct(w2, j, h, 2 * k)
            p4 == Ct(p3, j + 2 * h, h, 2 * k + 1)    w4 == Code!Ct(w3, j + 2 * h, h, 2 * k + 1)
<1>1. ForwardGroup(p, g, h) = p4 /\ Code!ForwardGroup(w, g, h) = w4
  BY DEF ForwardGroup, Code!ForwardGroup, First, Block, Code!First, Code!Block
<1>2. j \in Nat /\ j + 3 * h < N
  BY GroupIs
<1>3. /\ j \in Index /\ j + h \in Index /\ j + 2 * h \in Index
      /\ j + h + 2 * h \in Index /\ j + 2 * h + h \in Index
  BY <1>2, FourApart
<1>4. k \in Table /\ 2 * k \in Table /\ 2 * k + 1 \in Table
  BY TwiddlesInTable
<1>. HIDE DEF j, k
<1>5. CoversAll(p1, w1)
  BY <1>3, <1>4, CtCovers
<1>. HIDE DEF p1, w1
<1>6. CoversAll(p2, w2)
  BY <1>3, <1>4, <1>5, CtCovers
<1>. HIDE DEF p2, w2
<1>7. CoversAll(p3, w3)
  BY <1>3, <1>4, <1>6, CtCovers
<1>. HIDE DEF p3, w3
<1>8. CoversAll(p4, w4)
  BY <1>3, <1>4, <1>7, CtCovers
<1>. QED  BY <1>1, <1>8

LEMMA InverseGroupCovers ==
  ASSUME PlantardContract, NEW p, NEW w, CoversAll(p, w),
         NEW h \in Distances, 4 * h <= N, NEW g \in 0 .. N \div 4 - 1
  PROVE  CoversAll(InverseGroup(p, g, h), Code!InverseGroup(w, g, h))
<1>. DEFINE j == First(g, h)
            k == N \div (2 * h) - 1 - Block(g, h)
            p1 == Gs(p, j, h, 2 * k + 1)             w1 == Code!Gs(w, j, h, 2 * k + 1)
            p2 == Gs(p1, j + 2 * h, h, 2 * k)        w2 == Code!Gs(w1, j + 2 * h, h, 2 * k)
            p3 == Gs(p2, j, 2 * h, k)                w3 == Code!Gs(w2, j, 2 * h, k)
            p4 == Gs(p3, j + h, 2 * h, k)            w4 == Code!Gs(w3, j + h, 2 * h, k)
<1>1. InverseGroup(p, g, h) = p4 /\ Code!InverseGroup(w, g, h) = w4
  BY DEF InverseGroup, Code!InverseGroup, First, Block, Code!First, Code!Block
<1>2. j \in Nat /\ j + 3 * h < N
  BY GroupIs
<1>3. /\ j \in Index /\ j + h \in Index /\ j + 2 * h \in Index
      /\ j + h + 2 * h \in Index /\ j + 2 * h + h \in Index
  BY <1>2, FourApart
<1>4. k \in Table /\ 2 * k \in Table /\ 2 * k + 1 \in Table
  BY TwiddlesInTable
<1>. HIDE DEF j, k
<1>5. CoversAll(p1, w1)
  BY <1>3, <1>4, GsCovers
<1>. HIDE DEF p1, w1
<1>6. CoversAll(p2, w2)
  BY <1>3, <1>4, <1>5, GsCovers
<1>. HIDE DEF p2, w2
<1>7. CoversAll(p3, w3)
  BY <1>3, <1>4, <1>6, GsCovers
<1>. HIDE DEF p3, w3
<1>8. CoversAll(p4, w4)
  BY <1>3, <1>4, <1>7, GsCovers
<1>. QED  BY <1>1, <1>8

\* A transform of the code in step with that of the magnitudes, on any input
\* of the magnitude it is given.
JointStart == words' \in [Index -> Int] /\ \A i \in Index : Covers(bound', words'[i])

JointNext ==
  \/ Forward /\ JointStart
  \/ Inverse /\ JointStart
  \/ UNCHANGED bound /\ ForwardStep /\ Code!ForwardStep
  \/ UNCHANGED bound /\ InverseStep /\ Code!InverseStep

JointVars == <<vars, words>>

JointSpec == Init /\ words = [i \in Index |-> 0] /\ [][JointNext]_JointVars

Bounded == CoversAll(a, words)

WithinMagnitude ==
  \A i \in Index : -a[i] <= words[i] /\ words[i] <= a[i] /\ a[i] <= PLANTARD_IN

LEMMA JointImplements == JointSpec => Spec
<1>1. [JointNext]_JointVars => [Next]_vars
  BY DEF JointNext, JointVars, Next, Transform
<1>. QED  BY <1>1, PTL DEF JointSpec, Spec

LEMMA BoundedStep == PlantardContract /\ IInv /\ Bounded /\ [JointNext]_JointVars => Bounded'
<1> SUFFICES ASSUME PlantardContract, IInv, Bounded, [JointNext]_JointVars PROVE Bounded'
  OBVIOUS
<1>1. /\ half \in Distances /\ 4 * half <= N /\ group \in 0 .. N \div 4 - 1
  BY DEF IInv, Shape
<1>2. CASE (Forward \/ Inverse) /\ JointStart
  <2>1. a' = All(bound')
    BY <1>2 DEF Forward, Inverse, StartForward, StartInverse
  <2>. QED  BY <1>2, <2>1 DEF JointStart, Bounded, CoversAll, All
<1>3. CASE ForwardStep /\ Code!ForwardStep
  <2>1. a' = ForwardGroup(a, group, half) /\ words' = Code!ForwardGroup(words, group, half)
    BY <1>3 DEF ForwardStep, Code!ForwardStep
  <2>. QED  BY <1>1, <2>1, ForwardGroupCovers DEF Bounded
<1>4. CASE InverseStep /\ Code!InverseStep
  <2>1. a' = InverseGroup(a, group, half) /\ words' = Code!InverseGroup(words, group, half)
    BY <1>4 DEF InverseStep, Code!InverseStep
  <2>. QED  BY <1>1, <2>1, InverseGroupCovers DEF Bounded
<1>5. CASE UNCHANGED JointVars
  BY <1>5 DEF JointVars, vars, Bounded
<1>. QED  BY <1>2, <1>3, <1>4, <1>5 DEF JointNext

(***************************************************************************)
(* The magnitudes are those of the words: as long as plantard keeps its    *)
(* contract on operands below Q * 2^8, no word of a transform leaves that  *)
(* range, so the contract applies to every one of its products, and every  *)
(* word is between minus and plus its magnitude.                           *)
(***************************************************************************)
THEOREM MagnitudesSound ==
  ASSUME PlantardContract
  PROVE  JointSpec => []WithinMagnitude
<1>1. Init /\ words = [i \in Index |-> 0] => Bounded
  BY Positive DEF Init, All, Bounded, CoversAll, Covers
<1>2. IInv /\ Bounded /\ [JointNext]_JointVars => Bounded'
  BY BoundedStep
<1>3. IInv /\ Bounded => WithinMagnitude
  BY DEF IInv, Shape, Bounded, CoversAll, Covers, Lost, WithinMagnitude
<1>4. JointSpec => []IInv
  BY JointImplements, Invariance, PTL
<1>. QED  BY <1>1, <1>2, <1>3, <1>4, PTL DEF JointSpec

-----------------------------------------------------------------------------
(***************************************************************************)
(* What finish_row makes of a word                                         *)
(***************************************************************************)

LEMMA Literals == Q = 8380417 /\ GAMMA2 = 95232 /\ REDUCE32_IN = 2143289343
  BY SMT DEF Q, GAMMA2, REDUCE32_IN

\* Representatives, with and without the literal.
LEMMA Representative ==
  ASSUME NEW x
  PROVE  x \in 0 .. Q-1 <=> x \in Int /\ 0 <= x /\ x <= 8380416
<1>1. Q \in Int /\ \A y \in Int : y <= Q - 1 <=> y <= 8380416
  BY Literals, SMT
<1>. QED  BY <1>1, SMT

(***************************************************************************)
(* reduce32 and caddq leave the standard representative; the word is at    *)
(* most 6283008 in between.                                                *)
(***************************************************************************)
LEMMA Standard ==
  ASSUME NEW x \in Int, -REDUCE32_IN <= x, x <= REDUCE32_IN
  PROVE  caddq(reduce32(x)) \in 0 .. Q-1 /\ caddq(reduce32(x)) = x % Q
<1> DEFINE t == (x + 4194304) \div 8388608
           r == x - t * 8380417
<1>1. t \in Int /\ -255 <= t /\ t <= 255 /\ 8388608 * t <= x + 4194304 /\ x + 4194304 < 8388608 * t + 8388608
  BY Literals, SMT
<1>2. reduce32(x) = r /\ r \in Int /\ -6283008 <= r /\ r <= 6283008
  BY <1>1, Literals, SMT DEF reduce32
<1>. HIDE DEF t
<1>3. CASE r < 0
  <2>1. caddq(reduce32(x)) = x + (1 - t) * 8380417
    BY <1>1, <1>2, <1>3, Literals, SMT DEF caddq
  <2>2. caddq(reduce32(x)) \in Int /\ 0 <= caddq(reduce32(x)) /\ caddq(reduce32(x)) <= 8380416
    BY <1>1, <1>2, <1>3, <2>1, SMT
  <2>3. caddq(reduce32(x)) = x % 8380417
    BY <1>1, <2>1, <2>2, SMT
  <2>4. caddq(reduce32(x)) \in 0 .. Q-1
    BY <2>2, Representative
  <2>5. x % 8380417 = x % Q
    BY Literals, SMT
  <2>. QED  BY <2>3, <2>4, <2>5
<1>4. CASE r >= 0
  <2>1. caddq(reduce32(x)) = x - t * 8380417
    BY <1>1, <1>2, <1>4, Literals, SMT DEF caddq
  <2>2. caddq(reduce32(x)) \in Int /\ 0 <= caddq(reduce32(x)) /\ caddq(reduce32(x)) <= 8380416
    BY <1>1, <1>2, <1>4, <2>1, SMT
  <2>3. caddq(reduce32(x)) = x % 8380417
    BY <1>1, <2>1, <2>2, SMT
  <2>4. caddq(reduce32(x)) \in 0 .. Q-1
    BY <2>2, Representative
  <2>5. x % 8380417 = x % Q
    BY Literals, SMT
  <2>. QED  BY <2>3, <2>4, <2>5
<1>. QED  BY <1>2, <1>3, <1>4

(***************************************************************************)
(* The estimate is the multiple of 2 * GAMMA2 nearest to x, ties down.     *)
(***************************************************************************)
LEMMA EstimateExact ==
  ASSUME NEW x \in Int, 0 <= x, x <= 8380416
  PROVE  /\ Estimate(x) \in Int /\ 0 <= Estimate(x) /\ Estimate(x) <= 44
         /\ -95232 < x - Estimate(x) * 190464
         /\ x - Estimate(x) * 190464 <= 95232
<1> DEFINE t == (x + 127) \div 128
           e == (t * 11275 + 8388608) \div 16777216
<1>1. t \in Int /\ 128 * t <= x + 127 /\ x + 127 <= 128 * t + 127
  BY SMT
<1>. HIDE DEF t
<1>2. e \in Int /\ 16777216 * e <= t * 11275 + 8388608
      /\ t * 11275 + 8388608 <= 16777216 * e + 16777215
  BY <1>1, SMT
<1>. HIDE DEF e
<1>3. 0 <= e /\ e <= 44
  BY <1>1, <1>2, SMT
<1>4. -95232 < x - e * 190464 /\ x - e * 190464 <= 95232
  BY <1>1, <1>2, <1>3, SMTT(60)
<1>5. Estimate(x) = e
  BY DEF Estimate, e, t
<1>. QED  BY <1>2, <1>3, <1>4, <1>5, SMT

\* The low part is what the estimate leaves.
LEMMA LowExact ==
  ASSUME NEW x \in Int, 0 <= x, x <= 8380416
  PROVE  Low(x) = x - Estimate(x) * 190464
<1> DEFINE e == Estimate(x)
           s == x % 190464
<1>1. /\ e \in Int /\ 0 <= e /\ e <= 44
      /\ -95232 < x - e * 190464 /\ x - e * 190464 <= 95232
  BY EstimateExact
<1>. HIDE DEF e
<1>2. Low(x) = IF s > 95232 THEN s - 190464 ELSE s
  <2>1. GAMMA2 = 95232 /\ 2 * GAMMA2 = 190464
    BY Literals, SMT
  <2>. QED  BY <2>1, SMT DEF Low
<1>3. CASE x - e * 190464 >= 0
  <2>1. s = x - e * 190464
    BY <1>1, <1>3, SMT
  <2>. QED  BY <1>1, <1>2, <2>1, SMT DEF e
<1>4. CASE x - e * 190464 < 0
  <2>1. s = x - (e - 1) * 190464
    BY <1>1, <1>4, SMT
  <2>. QED  BY <1>1, <1>2, <1>4, <2>1, SMT DEF e
<1>. QED  BY <1>1, <1>3, <1>4, SMT

(***************************************************************************)
(* w1_coefficient is UseHint on Decompose for every representative and     *)
(* both hints; a coefficient has six bits.                                 *)
(***************************************************************************)
LEMMA CoefficientExact ==
  ASSUME NEW x \in Int, 0 <= x, x <= 8380416, NEW h \in BOOLEAN
  PROVE  /\ w1_coefficient(x, h) = UseHint(h, x)
         /\ w1_coefficient(x, h) \in 0 .. 43
<1> DEFINE e == Estimate(x)
           low == x - e * 190464
<1>1. /\ e \in Int /\ 0 <= e /\ e <= 44
      /\ -95232 < low /\ low <= 95232 /\ low \in Int
  BY EstimateExact, SMT
<1>2. Low(x) = low
  BY LowExact
<1>3. GAMMA2 = 95232 /\ 2 * GAMMA2 = 190464 /\ Q - 1 = 44 * 190464
  BY Literals, SMT
<1>. HIDE DEF e
<1>4. Wraps(x) <=> e = 44
  <2>1. x - low = e * 190464 /\ low \in Int
    BY <1>1, SMT
  <2>2. Wraps(x) <=> e * 190464 = 44 * 190464
    BY <1>2, <1>3, <2>1, SMT DEF Wraps
  <2>. QED  BY <1>1, <2>2, SMT
<1>. HIDE DEF low
<1>. DEFINE r1 == IF e = 44 THEN 0 ELSE e
<1>5. r1 \in Int /\ 0 <= r1 /\ r1 <= 43
  BY <1>1, SMT
<1>6. R1(x) = r1
  <2>1. x - low = e * 190464
    BY <1>1, SMT DEF low
  <2>2. (e * 190464) \div 190464 = e
    BY <1>1, SMT
  <2>. QED  BY <1>2, <1>3, <1>4, <2>1, <2>2, SMT DEF R1
<1>7. R0(x) > 0 <=> e # 44 /\ low > 0
  <2>1. e = 44 => low <= 0
    BY <1>1, SMT DEF low
  <2>. QED  BY <1>1, <1>2, <1>4, <2>1, SMT DEF R0
<1>8. UseHint(h, x) = IF ~h THEN r1 ELSE IF e # 44 /\ low > 0 THEN (r1 + 1) % 44 ELSE (r1 - 1) % 44
  BY <1>6, <1>7, SMT DEF UseHint
<1>9. w1_coefficient(x, h) =
        IF ~h THEN r1
        ELSE IF e # 44 /\ low > 0 THEN (IF r1 = 43 THEN 0 ELSE r1 + 1)
        ELSE (IF r1 = 0 THEN 43 ELSE r1 - 1)
  <2>1. e # 44 => x - r1 * (2 * GAMMA2) = low
    BY <1>1, <1>3, SMT DEF low
  <2>2. e # 44 /\ x - r1 * (2 * GAMMA2) > 0 <=> e # 44 /\ low > 0
    BY <2>1
  <2>. QED  BY <2>2, SMT DEF w1_coefficient, e
<1>10. (r1 + 1) % 44 = (IF r1 = 43 THEN 0 ELSE r1 + 1) /\ (r1 - 1) % 44 = (IF r1 = 0 THEN 43 ELSE r1 - 1)
  BY <1>5, SMT
<1>11. w1_coefficient(x, h) = UseHint(h, x)
  BY <1>8, <1>9, <1>10, SMT
<1>12. w1_coefficient(x, h) \in 0 .. 43
  BY <1>5, <1>9, SMT
<1>. QED  BY <1>11, <1>12

\* The three bytes of four six-bit fields.
LEMMA PackedFields ==
  ASSUME NEW w, w[0] \in 0 .. 43, w[1] \in 0 .. 43, w[2] \in 0 .. 43, w[3] \in 0 .. 43
  PROVE  /\ \A i \in 1 .. 3 : Packed(w)[i] \in 0 .. 255
         /\ Packed(w)[1] + 256 * Packed(w)[2] + 65536 * Packed(w)[3]
              = w[0] + 64 * w[1] + 4096 * w[2] + 262144 * w[3]
<1>0. PICK w0 \in 0 .. 43, w1 \in 0 .. 43, w2 \in 0 .. 43, w3 \in 0 .. 43 :
         w[0] = w0 /\ w[1] = w1 /\ w[2] = w2 /\ w[3] = w3
  OBVIOUS
<1> DEFINE b1 == w0 + ((w1 * 64) % 256)
           b2 == w1 \div 4 + ((w2 * 16) % 256)
           b3 == w2 \div 16 + ((w3 * 4) % 256)
           q1 == w1 \div 4
           q2 == w2 \div 16
<1>1. q1 \in Int /\ 0 <= q1 /\ q1 <= 10 /\ (w1 * 64) % 256 = 64 * (w1 - 4 * q1)
      /\ 0 <= w1 - 4 * q1 /\ w1 - 4 * q1 <= 3
  BY SMT
<1>2. q2 \in Int /\ 0 <= q2 /\ q2 <= 2 /\ (w2 * 16) % 256 = 16 * (w2 - 16 * q2)
      /\ 0 <= w2 - 16 * q2 /\ w2 - 16 * q2 <= 15
  BY SMT
<1>3. (w3 * 4) % 256 = 4 * w3
  BY SMT
<1>4. Packed(w) = <<b1, b2, b3>>
  BY <1>0 DEF Packed
<1>5. b1 \in 0 .. 255 /\ b2 \in 0 .. 255 /\ b3 \in 0 .. 255
  BY <1>1, <1>2, <1>3, SMT
<1>6. b1 + 256 * b2 + 65536 * b3 = w0 + 64 * w1 + 4096 * w2 + 262144 * w3
  BY <1>1, <1>2, <1>3, SMT
<1>. HIDE DEF b1, b2, b3
<1>7. Packed(w)[1] = b1 /\ Packed(w)[2] = b2 /\ Packed(w)[3] = b3
  BY <1>4
<1>8. \A i \in 1 .. 3 : Packed(w)[i] \in 0 .. 255
  <2>1. \A i \in 1 .. 3 : i = 1 \/ i = 2 \/ i = 3
    BY SMT
  <2>. QED  BY <1>5, <1>7, <2>1, SMT
<1>. QED  BY <1>0, <1>6, <1>7, <1>8

\* What becomes of one word.
LEMMA WordExact ==
  ASSUME NEW x \in Int, -REDUCE32_IN <= x, x <= REDUCE32_IN, NEW h \in BOOLEAN
  PROVE  /\ w1_coefficient(caddq(reduce32(x)), h) = UseHint(h, x % Q)
         /\ w1_coefficient(caddq(reduce32(x)), h) \in 0 .. 43
<1> DEFINE r == caddq(reduce32(x))
<1>1. r \in 0 .. Q-1 /\ r = x % Q
  BY Standard
<1>2. r \in Int /\ 0 <= r /\ r <= 8380416
  BY <1>1, Representative
<1>. HIDE DEF r
<1>3. w1_coefficient(r, h) = UseHint(h, r) /\ w1_coefficient(r, h) \in 0 .. 43
  BY <1>2, CoefficientExact
<1>. QED  BY <1>1, <1>3 DEF r

-----------------------------------------------------------------------------
FinishInv ==
  /\ quad \in Groups /\ hint \in [Places -> BOOLEAN]
  /\ PackedExact

LEMMA Finished == FinishInv /\ FinishGroup => FinishInv'
<1>. SUFFICES ASSUME FinishInv, FinishGroup
              PROVE  FinishInv'
  OBVIOUS
<1> DEFINE w == [i \in Places |-> w1_coefficient(caddq(reduce32(quad[i])), hint[i])]
           u(i) == UseHint(hint[i], quad[i] % Q)
<1>1. out' = Packed(w) /\ UNCHANGED <<quad, hint>>
  BY DEF FinishGroup
<1>2. ASSUME NEW i \in Places
      PROVE  w[i] = u(i) /\ u(i) \in 0 .. 43
  <2>1. quad[i] \in Int /\ -REDUCE32_IN <= quad[i] /\ quad[i] <= REDUCE32_IN /\ hint[i] \in BOOLEAN
    BY GroupAssumption DEF FinishInv
  <2>2. /\ w1_coefficient(caddq(reduce32(quad[i])), hint[i]) = u(i)
        /\ w1_coefficient(caddq(reduce32(quad[i])), hint[i]) \in 0 .. 43
    BY <2>1, WordExact
  <2>. QED  BY <2>2
<1>3. 0 \in Places /\ 1 \in Places /\ 2 \in Places /\ 3 \in Places
  BY SMT DEF Places
<1>. HIDE DEF w
<1>4. /\ w[0] = u(0) /\ u(0) \in 0 .. 43 /\ w[1] = u(1) /\ u(1) \in 0 .. 43
      /\ w[2] = u(2) /\ u(2) \in 0 .. 43 /\ w[3] = u(3) /\ u(3) \in 0 .. 43
  BY <1>2, <1>3
<1>. HIDE DEF u
<1>5. /\ \A i \in 1 .. 3 : Packed(w)[i] \in 0 .. 255
      /\ Packed(w)[1] + 256 * Packed(w)[2] + 65536 * Packed(w)[3]
           = u(0) + 64 * u(1) + 4096 * u(2) + 262144 * u(3)
  <2>1. w[0] \in 0 .. 43 /\ w[1] \in 0 .. 43 /\ w[2] \in 0 .. 43 /\ w[3] \in 0 .. 43
    BY <1>4
  <2>. QED  BY <1>4, <2>1, PackedFields
<1>6. W1Encoded'
  <2>1. /\ \A i \in 1 .. 3 : out'[i] \in 0 .. 255
        /\ out'[1] + 256 * out'[2] + 65536 * out'[3]
             = u(0) + 64 * u(1) + 4096 * u(2) + 262144 * u(3)
    BY <1>1, <1>5
  <2>2. /\ u(0) = UseHint(hint'[0], quad'[0] % Q) /\ u(1) = UseHint(hint'[1], quad'[1] % Q)
        /\ u(2) = UseHint(hint'[2], quad'[2] % Q) /\ u(3) = UseHint(hint'[3], quad'[3] % Q)
    BY <1>1 DEF u
  <2>3. out'[1] + 256 * out'[2] + 65536 * out'[3]
          = UseHint(hint'[0], quad'[0] % Q) + 64 * UseHint(hint'[1], quad'[1] % Q)
            + 4096 * UseHint(hint'[2], quad'[2] % Q) + 262144 * UseHint(hint'[3], quad'[3] % Q)
    <3>. HIDE DEF u
    <3>. QED  BY <2>1, <2>2, SMT
  <2>. QED  BY <2>1, <2>3, SMT DEF W1Encoded
<1>. QED  BY <1>1, <1>6 DEF FinishInv, PackedExact

(***************************************************************************)
(* finish_row writes w1Encode of UseHint, for every word in the domain of  *)
(* reduce32 and every hint.                                                *)
(***************************************************************************)
THEOREM Finishing == FinishSpec => []PackedExact
<1>1. FinishInit => FinishInv
  BY DEF FinishInit, FinishInv, PackedExact
<1>2. FinishInv /\ UNCHANGED finishVars => FinishInv'
  <2>1. UNCHANGED finishVars => (W1Encoded <=> W1Encoded')
    BY SMT DEF finishVars, W1Encoded
  <2>. QED  BY <2>1 DEF FinishInv, PackedExact, finishVars
<1>3. FinishInv => PackedExact
  BY DEF FinishInv
<1>. QED  BY <1>1, <1>2, <1>3, Finished, PTL DEF FinishSpec

-----------------------------------------------------------------------------
RowFinished ==
  InverseDone =>
    \A i \in Index, h \in BOOLEAN :
      w1_coefficient(caddq(reduce32(words[i])), h) = UseHint(h, words[i] % Q)

(***************************************************************************)
(* The words invntt ends with are words finish_row is exact on: from the   *)
(* magnitude of its inputs and the contract of plantard alone, every       *)
(* coefficient written is UseHint of the residue of its word.              *)
(***************************************************************************)
THEOREM RowsFinished ==
  ASSUME PlantardContract, \A m \in DirectInputs : N * m <= REDUCE32_IN
  PROVE  JointSpec => []RowFinished
<1>1. Shape /\ WithinMagnitude /\ Reduce32Admits /\ Bounded => RowFinished
  <2> SUFFICES ASSUME Shape, WithinMagnitude, Reduce32Admits, Bounded, InverseDone,
                      NEW i \in Index, NEW h \in BOOLEAN
               PROVE  w1_coefficient(caddq(reduce32(words[i])), h) = UseHint(h, words[i] % Q)
    BY DEF RowFinished
  <2>1. words[i] \in Int /\ a[i] \in Nat /\ a[i] <= REDUCE32_IN
    BY DEF Shape, Bounded, CoversAll, Reduce32Admits
  <2>2. -a[i] <= words[i] /\ words[i] <= a[i]
    BY DEF WithinMagnitude
  <2>3. -REDUCE32_IN <= words[i] /\ words[i] <= REDUCE32_IN
    BY <2>1, <2>2, Literals
  <2>. QED  BY <2>1, <2>3, WordExact
<1>2. Init /\ words = [i \in Index |-> 0] => Bounded
  BY Positive DEF Init, All, Bounded, CoversAll, Covers
<1>3. IInv /\ Bounded /\ [JointNext]_JointVars => Bounded'
  BY BoundedStep
<1>4. IInv => Shape
  BY DEF IInv
<1>5. JointSpec => []IInv
  BY JointImplements, Invariance, PTL
<1>6. JointSpec => []Reduce32Admits
  BY JointImplements, OutputsAdmitted, PTL
<1>7. JointSpec => []WithinMagnitude
  BY MagnitudesSound
<1>. QED  BY <1>1, <1>2, <1>3, <1>4, <1>5, <1>6, <1>7, PTL DEF JointSpec
=============================================================================
