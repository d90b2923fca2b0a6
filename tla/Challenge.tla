------------------------------ MODULE Challenge ------------------------------
(***************************************************************************)
(* Poly::challenge of src/poly.rs: TAU coefficients of 1 and -1 at places  *)
(* drawn from the output of a hash, which comes in blocks of RATE256       *)
(* bytes, a block as lanes.  The signs are the first lane of the first     *)
(* block.                                                                  *)
(***************************************************************************)
EXTENDS PolyInputs, FiniteSets

VARIABLES
  commitment,   \* the commitment hash absorbed
  sc,           \* the byte of the output the state's block starts at
  pos,          \* the next byte of the block
  signs,        \* what is left of the signs
  i,            \* the coefficient at hand
  b,            \* the last byte read
  challenge,    \* the polynomial
  cpc           \* "read", "place" or "done"

challengeVars == <<commitment, sc, pos, signs, i, b, challenge, cpc>>

\* Lane n of the block that starts at byte st of the output.
ChallengeLane(st, n) == {k \in 0 .. 8 * LANE - 1 : Shake256(commitment, 8 * (st + LANE * n) + k)}

\* Mutant: the bytes of a lane are taken from its high end.
byteBigEndian(p) == Low(Shr(ChallengeLane(sc, p \div LANE), 8 * (LANE - 1 - (p % LANE))), 8)

\* (lanes[p / 8] >> (8 * (p % 8))) as u8
byte(p) == Low(Shr(ChallengeLane(sc, p \div LANE), 8 * (p % LANE)), 8)

ChallengeInit ==
  /\ commitment \in Commitments
  /\ sc = 0
  /\ pos = LANE
  /\ signs = ChallengeLane(0, 0)
  /\ i = N - TAU /\ b = 0
  /\ challenge = [k \in Coefs |-> 0]
  /\ cpc = "read"

\* Mutant: the byte after the permutation is the second of the block.
PermuteChallengeSkips ==
  /\ cpc = "read" /\ pos >= RATE256
  /\ sc' = sc + RATE256
  /\ pos' = 1
  /\ UNCHANGED <<commitment, signs, i, b, challenge, cpc>>

\* s.permute(); pos = 0
PermuteChallenge ==
  /\ cpc = "read" /\ pos >= RATE256
  /\ sc' = sc + RATE256
  /\ pos' = 0
  /\ UNCHANGED <<commitment, signs, i, b, challenge, cpc>>

\* Mutant: any index of the polynomial is taken.
AcceptedAnywhere(p) == p < N
\* b <= i
Accepted(p) == p <= i

\* let b = byte(...); pos += 1; if b <= i { break b }
Read ==
  /\ cpc = "read" /\ pos < RATE256
  /\ b' = ByteValue(byte(pos))
  /\ pos' = pos + 1
  /\ cpc' = IF Accepted(b') THEN "place" ELSE "read"
  /\ UNCHANGED <<commitment, sc, signs, i, challenge>>

\* Mutant: the coefficient at b is overwritten before it is moved.
SwappedLate == LET d == [challenge EXCEPT ![b] = 1 - 2 * One(signs, 0)] IN [d EXCEPT ![i] = d[b]]

\* self.c[i] = self.c[b]; self.c[b] = 1 - 2 * (signs & 1)
Swapped == LET d == [challenge EXCEPT ![i] = challenge[b]] IN [d EXCEPT ![b] = 1 - 2 * One(signs, 0)]

\* Mutant: the loop runs once too often.
AgainInclusive == i + 1 <= N
\* i < N after the increment
Again == i + 1 < N

\* signs >>= 1; i += 1
Place ==
  /\ cpc = "place"
  /\ challenge' = Swapped
  /\ signs' = Shr(signs, 1)
  /\ i' = i + 1
  /\ cpc' = IF Again THEN "read" ELSE "done"
  /\ UNCHANGED <<commitment, sc, pos, b>>

ChallengeNext == PermuteChallenge \/ Read \/ Place

ChallengeSpec == ChallengeInit /\ [][ChallengeNext]_challengeVars

-----------------------------------------------------------------------------
(***************************************************************************)
(* Properties                                                              *)
(***************************************************************************)

ChallengeTypeOK ==
  /\ commitment \in Commitments
  /\ sc \in Nat /\ pos \in 0 .. RATE256
  /\ signs \in SUBSET (0 .. 63)
  /\ i \in N - TAU .. N /\ b \in 0 .. 255
  /\ challenge \in [Coefs -> Int]
  /\ cpc \in {"read", "place", "done"}

\* The polynomial is in the ball: however often a place is drawn twice or
\* is the coefficient at hand itself, every round adds exactly one
\* coefficient of 1 or -1 and none lies at or beyond the one at hand, so what
\* is returned has exactly TAU of them.  The bound row_lazy asks of the
\* challenge's transform (src/poly.rs:198) rests on it.
InBall ==
  /\ \A k \in Coefs : challenge[k] \in {-1, 0, 1}
  /\ \A k \in Coefs : k >= i => challenge[k] = 0
  /\ Cardinality({k \in Coefs : challenge[k] # 0}) = i - (N - TAU)

\* The bytes of the output used up, but for the one being placed.
ChallengeRead == sc + pos - (IF cpc = "place" THEN 1 ELSE 0)

Algorithm29 == INSTANCE SampleInBall
  WITH Squeezed <- Shake256,
       seed <- commitment,
       read <- ChallengeRead,
       c    <- challenge

\* The bytes cut out of the lanes are those of the stream, in order and
\* across blocks, the signs are spent one by one, and every step is one of
\* Algorithm 29.
SamplesInBall == Algorithm29!Spec
=============================================================================
