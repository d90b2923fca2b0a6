------------------------------ MODULE MCOperands ------------------------------
(***************************************************************************)
(* Polynomials of eight coefficients, the 64-bit lanes, bit fields and     *)
(* modulus of the code, and small blocks, so that a call needs several.    *)
(* In a call one input is arbitrary and the others are ordinary ones.      *)
(***************************************************************************)
EXTENDS Operands, FiniteSetsExt

MCQ == 8380417

(***************************************************************************)
(* The fields of z and t1 are the bits of the input in another             *)
(* arrangement, so inputs of a single one and of a single zero tell any    *)
(* two arrangements apart; to these come, for z, inputs in which one       *)
(* coefficient lies on either side of the bound and the others are zero.   *)
(***************************************************************************)
Singles(bits) == {{k} : k \in 0 .. bits-1} \cup {(0 .. bits-1) \ {k} : k \in 0 .. bits-1}

NearBound(n, v) ==
  {18 * m + 17 : m \in (0 .. 7) \ {n}}
    \cup {18 * n + k : k \in {j \in 0 .. 17 : (v \div 2^j) % 2 = 1}}

MCT1 == Singles(80)
MCZ == {NearBound(0, 2^17)} \cup Singles(144)
         \cup {NearBound(n, v) : n \in 0 .. 7, v \in {78, 79, 262065, 262066}}

(***************************************************************************)
(* Blocks of two groups, so sixteen candidates.  A seed is the set of the  *)
(* candidates refused: any two of the first ten, or any run of up to       *)
(* twelve, so that the last coefficient is found at every place of a       *)
(* group, in the first block and in the second; or all of the first block. *)
(* Kept and refused candidates tell their place, with Q - 1, Q and         *)
(* 2^23 - 1 among them and the bit the mask drops set in some.             *)
(***************************************************************************)
MCSeeds == kSubset(2, 0 .. 9) \cup {m .. m + n : m \in 0 .. 7, n \in -1 .. 11} \cup {0 .. 15}

Kept(p) ==
  (IF p % 5 = 0 THEN 13 .. 22 ELSE {p % 23, (3 * p + 1) % 20})
    \cup (IF p % 2 = 1 THEN {23} ELSE {})
Refused(p) ==
  (IF p % 2 = 0 THEN 0 .. 22 ELSE {0} \cup (13 .. 22))
    \cup (IF p % 3 = 0 THEN {23} ELSE {})

MCShake128(refused, place) ==
  LET p == place \div 24
  IN  place % 24 \in (IF p \in refused THEN Refused(p) ELSE Kept(p))

(***************************************************************************)
(* Three signs, in blocks of two lanes of two bytes: every choice of signs,*)
(* two places in the first block and two in the second, drawn from         *)
(* coefficients before, among and beyond the last three; the second block  *)
(* ends in bytes that are refused, so that a third may be needed.          *)
(***************************************************************************)
Places == {0, 6, 7, 255}
MCCommitments == [signs : SUBSET (0 .. 2), places : [2 .. 5 -> Places]]

MCShake256(seeded, place) ==
  LET p == place \div 8 IN
  CASE p = 0        -> place \in seeded.signs
    [] p \in 2 .. 5 -> (seeded.places[p] \div 2^(place % 8)) % 2 = 1
    [] p \in 6 .. 7 -> TRUE
    [] OTHER        -> FALSE

Ordinary ==
  [z |-> NearBound(0, 2^17), seed |-> {}, t1 |-> {3},
   commitment |-> [signs |-> {1}, places |-> [p \in 2 .. 5 |-> 0]]]

MCCalls ==
  {[Ordinary EXCEPT !.z = x] : x \in MCZ} \cup {[Ordinary EXCEPT !.t1 = x] : x \in MCT1}
    \cup {[Ordinary EXCEPT !.seed = x] : x \in MCSeeds}
    \cup {[Ordinary EXCEPT !.commitment = x] : x \in MCCommitments}
=============================================================================
