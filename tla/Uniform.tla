------------------------------- MODULE Uniform -------------------------------
(***************************************************************************)
(* Poly::uniform of src/poly.rs: a polynomial of coefficients below Q cut  *)
(* out of the output of a hash.  The output comes in blocks of RATE128     *)
(* bytes, a block as lanes of eight bytes, three lanes hold eight          *)
(* candidates, and one take! is two actions, the cut of its candidate and  *)
(* its trial.                                                              *)
(***************************************************************************)
EXTENDS PolyInputs

VARIABLES
  seed,    \* the seed and nonce absorbed
  sa,      \* the byte of the output the state's block starts at
  g,       \* the group of three lanes
  l,       \* the three lanes of the group
  slot,    \* the take! of the group that is next
  t,       \* the candidate, under MASK
  ctr,     \* coefficients stored
  entry,   \* the polynomial written in place
  apc      \* "group", "take", "try" or "done"

uniformVars == <<seed, sa, g, l, slot, t, ctr, entry, apc>>

\* A coefficient the polynomial held before the call.
STALE == -1

UniformInit ==
  /\ seed \in Seeds
  /\ sa = 0 /\ g = 0 /\ slot = 0 /\ ctr = 0
  /\ entry = [n \in 0 .. N-1 |-> STALE]
  /\ l = [n \in 0 .. 2 |-> {}] /\ t = {} /\ apc = "group"

\* Lane n of the block, RATE128 / 8 of them.
UniformLane(n) == {b \in 0 .. 63 : Shake128(seed, 8 * sa + 64 * n + b)}

\* Mutant: the high bits of the third candidate are taken from two bits
\* further up.
CutMisplaced(k, l0, l1, l2) ==
  CASE k = 0 -> l0
    [] k = 1 -> Shr(l0, 24)
    [] k = 2 -> Or(Shr(l0, 48), Shl(l1, 14))
    [] k = 3 -> Shr(l1, 8)
    [] k = 4 -> Shr(l1, 32)
    [] k = 5 -> Or(Shr(l1, 56), Shl(l2, 8))
    [] k = 6 -> Shr(l2, 16)
    [] k = 7 -> Shr(l2, 40)

\* The operand of take! number k of a group of three lanes
Cut(k, l0, l1, l2) ==
  CASE k = 0 -> l0
    [] k = 1 -> Shr(l0, 24)
    [] k = 2 -> Or(Shr(l0, 48), Shl(l1, 16))
    [] k = 3 -> Shr(l1, 8)
    [] k = 4 -> Shr(l1, 32)
    [] k = 5 -> Or(Shr(l1, 56), Shl(l2, 8))
    [] k = 6 -> Shr(l2, 16)
    [] k = 7 -> Shr(l2, 40)

\* l0, l1 and l2, while one of the groups of the block is left
Load ==
  /\ apc = "group" /\ g < RATE128 \div 24
  /\ l' = [n \in 0 .. 2 |-> UniformLane(3 * g + n)]
  /\ slot' = 0
  /\ apc' = "take"
  /\ UNCHANGED <<seed, sa, g, t, ctr, entry>>

\* let t = $t & MASK
Take ==
  /\ apc = "take"
  /\ t' = Low(Cut(slot, l[0], l[1], l[2]), 23)
  /\ apc' = "try"
  /\ UNCHANGED <<seed, sa, g, slot, l, ctr, entry>>

\* The next take! of the group, or g += 1 after the last
Advance ==
  /\ slot' = slot + 1
  /\ IF slot = 7
       THEN g' = g + 1 /\ apc' = "group"
       ELSE g' = g /\ apc' = "take"

\* Mutant: Q itself is kept.
BelowInclusive == Value(t) <= Q
\* t < Q as u64
Below == Value(t) < Q

Reject ==
  /\ apc = "try"
  /\ ~Below
  /\ Advance
  /\ UNCHANGED <<seed, sa, l, t, ctr, entry>>

\* self.c[ctr] = t; ctr += 1
Store ==
  /\ apc = "try"
  /\ Below
  /\ entry' = [entry EXCEPT ![ctr] = Value(t)]
  /\ ctr' = ctr + 1
  /\ UNCHANGED <<seed, sa, l, t>>

\* Mutant: the routine leaves one coefficient early.
FullEarly == ctr + 1 >= N - 1
\* Mutant: the routine looks for N + 1 coefficients.
FullLate == ctr + 1 = N + 1
\* ctr == N after the increment
Full == ctr + 1 = N

Keep   == Store /\ ~Full /\ Advance
Return == Store /\ Full /\ apc' = "done" /\ UNCHANGED <<g, slot>>

\* Mutant: the state is not permuted, the same block is read again.
PermuteUniformNot ==
  /\ apc = "group" /\ g >= RATE128 \div 24
  /\ g' = 0
  /\ UNCHANGED <<seed, sa, l, slot, t, ctr, entry, apc>>

\* s.permute(), at the end of the block
PermuteUniform ==
  /\ apc = "group" /\ g >= RATE128 \div 24
  /\ sa' = sa + RATE128
  /\ g' = 0
  /\ UNCHANGED <<seed, l, slot, t, ctr, entry, apc>>

UniformNext == Load \/ Take \/ Reject \/ Keep \/ Return \/ PermuteUniform

UniformSpec == UniformInit /\ [][UniformNext]_uniformVars

-----------------------------------------------------------------------------
(***************************************************************************)
(* Properties                                                              *)
(***************************************************************************)

UniformTypeOK ==
  /\ seed \in Seeds
  /\ sa \in Nat
  /\ g \in 0 .. RATE128 \div 24 /\ slot \in 0 .. 8
  /\ l \in [0 .. 2 -> SUBSET (0 .. 63)]
  /\ ctr \in 0 .. N
  /\ entry \in [0 .. N-1 -> Int]
  /\ t \in SUBSET (0 .. 22)
  /\ apc \in {"group", "take", "try", "done"}

\* "ctr < N holds whenever a candidate is stored because the loop returns
\* the moment ctr reaches N" (src/poly.rs:69): whichever of the eight places
\* of a block the last coefficient is found at, no index leaves the array,
\* and nothing of what the polynomial held before is left in what returns.
NeverOverfull ==
  /\ apc # "done" => ctr < N
  /\ apc = "done" => \A n \in 0 .. N-1 : entry[n] # STALE /\ entry[n] < Q

\* The bytes of the output Algorithm 30 has read when the routine has tried
\* the candidates before this one.
UniformRead ==
  sa + 24 * g + (IF apc = "group" THEN 0 ELSE 3 * slot) + (IF apc = "done" THEN 3 ELSE 0)

Algorithm30 == INSTANCE RejNTTPoly
  WITH Squeezed <- Shake128,
       read   <- UniformRead,
       a      <- [n \in 0 .. ctr-1 |-> entry[n]],
       result <- IF apc = "done" THEN entry ELSE Pending

\* The candidates the constant shifts cut out of the lanes are, across
\* lanes, groups and blocks, the three-byte groups of the stream "in the
\* same order as the byte stream" (src/poly.rs:54), none lost, none twice,
\* and the polynomial is the one Algorithm 30 samples.
SamplesRejNTTPoly == Algorithm30!Spec
=============================================================================
