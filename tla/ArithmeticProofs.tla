--------------------------- MODULE ArithmeticProofs ---------------------------
(***************************************************************************)
(* What the routines of Arithmetic compute, for every word size and        *)
(* modulus the assumption admits, the code's among them.                   *)
(***************************************************************************)
EXTENDS Arithmetic, TLAPS

\* Division with remainder.
LEMMA DivMod ==
  ASSUME NEW d \in Nat, d > 0, NEW y \in Int
  PROVE  /\ y \div d \in Int /\ y % d \in Int
         /\ y = d * (y \div d) + (y % d)
         /\ 0 <= y % d /\ y % d < d
  BY SMTT(30)

\* Multiplying an inequality by a natural number.
LEMMA MulMono ==
  ASSUME NEW f \in Nat, NEW u \in Int, NEW v \in Int, u <= v
  PROVE  f * u <= f * v
<1>1. PICK d \in Nat : v = u + d
  <2>1. v - u \in Nat /\ v = u + (v - u)
    OBVIOUS
  <2>. QED  BY <2>1
<1>2. f * d \in Nat
  OBVIOUS
<1>3. f * v = f * u + f * d
  BY <1>1
<1>. QED  BY <1>2, <1>3

\* The quotient is the only q with d * q <= y < d * (q+1).
LEMMA DivUnique ==
  ASSUME NEW d \in Nat, d > 0, NEW y \in Int, NEW q \in Int,
         d * q <= y, y < d * q + d
  PROVE  y \div d = q
<1> DEFINE p == y \div d
<1>1. p \in Int /\ d * p <= y /\ y < d * p + d
  BY DivMod
<1>2. ASSUME p + 1 <= q PROVE FALSE
  <2>1. d * (p + 1) <= d * q
    BY <1>1, <1>2, MulMono
  <2>2. d * (p + 1) = d * p + d
    BY <1>1
  <2>. QED  BY <1>1, <2>1, <2>2
<1>3. ASSUME q + 1 <= p PROVE FALSE
  <2>1. d * (q + 1) <= d * p
    BY <1>1, <1>3, MulMono
  <2>2. d * (q + 1) = d * q + d
    OBVIOUS
  <2>. QED  BY <1>1, <2>1, <2>2
<1>. QED  BY <1>1, <1>2, <1>3

\* Multiples have no remainder.
LEMMA MultipleMod ==
  ASSUME NEW d \in Nat, d > 0, NEW k \in Int
  PROVE  (d * k) % d = 0
<1>1. (d * k) \div d = k
  BY DivUnique
<1>. QED  BY <1>1, DivMod

LEMMA WordSize == WW \in Nat /\ WW > 0 /\ W > 0 /\ Q > 0
<1>1. W \in Nat /\ W > 0 /\ Q > 0
  <2>1. ALPHA * Q \in Nat /\ 2 * ALPHA * Q = 2 * (ALPHA * Q)
    BY ArithmeticAssumption
  <2>. QED  BY <2>1, ArithmeticAssumption
<1>2. \A w \in Nat : w > 0 => w * w \in Nat /\ w * w > 0
  OBVIOUS
<1>. QED  BY <1>1, <1>2 DEF WW

-----------------------------------------------------------------------------
\* An unsigned word is its value modulo WW.
LEMMA UnsignedWord ==
  ASSUME NEW y \in Int
  PROVE  /\ Unsigned(y) \in Int /\ 0 <= Unsigned(y) /\ Unsigned(y) < WW
         /\ \E k \in Int : Unsigned(y) = y + WW * k
<1> DEFINE q == y \div WW
<1>1. q \in Int /\ Unsigned(y) \in Int /\ y = WW * q + Unsigned(y)
      /\ 0 <= Unsigned(y) /\ Unsigned(y) < WW
  BY DivMod, WordSize DEF Unsigned
<1>2. Unsigned(y) = y + WW * (-q) /\ -q \in Int
  BY <1>1, WordSize
<1>. QED  BY <1>1, <1>2

\* So is a signed one, around zero.
LEMMA SignedWord ==
  ASSUME NEW y \in Int
  PROVE  /\ Signed(y) \in Int /\ -WW <= 2 * Signed(y) /\ 2 * Signed(y) < WW
         /\ \E k \in Int : Signed(y) = y + WW * k
<1>1. PICK k \in Int : Unsigned(y) = y + WW * k
  BY UnsignedWord
<1>2. Unsigned(y) \in Int /\ 0 <= Unsigned(y) /\ Unsigned(y) < WW
  BY UnsignedWord
<1>3. CASE 2 * Unsigned(y) < WW
  BY <1>1, <1>2, <1>3, WordSize DEF Signed
<1>4. CASE ~(2 * Unsigned(y) < WW)
  <2>1. Signed(y) = Unsigned(y) - WW
    BY <1>4 DEF Signed
  <2>2. y + WW * k - WW = y + WW * (k - 1) /\ k - 1 \in Int
    BY WordSize
  <2>. QED  BY <1>1, <1>2, <1>4, <2>1, <2>2, WordSize
<1>. QED  BY <1>3, <1>4

(***************************************************************************)
(* The Newton step doubles the width of the inverse: Q * QINV64 is 1       *)
(* modulo WW when Q * QINV is 1 modulo W.                                  *)
(***************************************************************************)
LEMMA NewtonStep == QINV64 \in Int /\ \E k \in Int : Q * QINV64 = 1 + WW * k
<1>1. PICK j \in Int : Q * QINV = 1 + W * j
  BY DivMod, ArithmeticAssumption, WordSize
<1>2. QINV * (2 - Q * QINV) \in Int
  BY ArithmeticAssumption
<1>3. PICK e \in Int : QINV64 = QINV * (2 - Q * QINV) + WW * e
  BY <1>2, UnsignedWord DEF QINV64
<1>4. QINV64 \in Int
  BY <1>2, UnsignedWord DEF QINV64
<1>5. Q * (QINV * (2 - Q * QINV)) = (1 + W * j) * (1 - W * j)
  <2>1. \A u, v \in Int : u * (v * (2 - u * v)) = (u * v) * (2 - u * v)
    OBVIOUS
  <2>2. Q * (QINV * (2 - Q * QINV)) = (Q * QINV) * (2 - Q * QINV)
    BY <2>1, ArithmeticAssumption
  <2>. QED  BY <1>1, <2>2, ArithmeticAssumption
<1>6. (1 + W * j) * (1 - W * j) = 1 - WW * (j * j)
  BY ArithmeticAssumption DEF WW
<1>7. Q * (WW * e) = WW * (Q * e)
  BY ArithmeticAssumption, WordSize
<1>8. Q * QINV64 = 1 + WW * (Q * e - j * j)
  <2>1. \A u, v \in Int : Q * (u + v) = Q * u + Q * v
    BY ArithmeticAssumption
  <2>2. Q * QINV64 = Q * (QINV * (2 - Q * QINV)) + Q * (WW * e)
    BY <1>2, <1>3, <2>1, WordSize
  <2>3. \A u, v \in Int : 1 - WW * u + WW * v = 1 + WW * (v - u)
    BY WordSize
  <2>4. j * j \in Int /\ Q * e \in Int
    BY ArithmeticAssumption
  <2>. QED  BY <1>5, <1>6, <1>7, <2>2, <2>3, <2>4
<1>9. Q * e - j * j \in Int
  BY ArithmeticAssumption
<1>. QED  BY <1>4, <1>8, <1>9

-----------------------------------------------------------------------------
(***************************************************************************)
(* The heart of plantard.  With p * Q = c + WW * k, the high half of p     *)
(* loses less than W * Q of the product; adding ALPHA * Q before the       *)
(* second shift makes up for it and for the sign of c, so that the shift   *)
(* returns k exactly.                                                      *)
(***************************************************************************)
LEMMA SecondShift ==
  ASSUME NEW c \in Int, NEW p \in Int, NEW k \in Int,
         p * Q = c + WW * k,
         -(Q * Q * (ALPHA * ALPHA)) <= c, c <= Q * Q * (ALPHA * ALPHA)
  PROVE  (((p \div W) + ALPHA) * Q) \div W = k
<1> DEFINE h == p \div W
           low == p % W
           sum == (h + ALPHA) * Q
           A == ALPHA * Q
           e == c - low * Q + W * A
<1>1. /\ Q \in Nat /\ W \in Nat /\ ALPHA \in Nat /\ A \in Nat
      /\ Q > 0 /\ W > 0 /\ ALPHA >= 2 /\ 2 * A < W
  <2>1. ALPHA * Q \in Nat /\ 2 * ALPHA * Q = 2 * (ALPHA * Q)
    BY ArithmeticAssumption
  <2>. QED  BY <2>1, ArithmeticAssumption, WordSize
<1>2. h \in Int /\ low \in Int /\ p = W * h + low /\ 0 <= low /\ low < W
  BY <1>1, DivMod
<1>3. sum \in Int /\ e \in Int
  BY <1>1, <1>2
<1>4. W * sum = W * (W * k) + e
  <2>1. W * sum = (W * h) * Q + W * A
    BY <1>1, <1>2
  <2>2. (W * h) * Q = p * Q - low * Q
    <3>1. W * h = p - low
      BY <1>1, <1>2
    <3>. QED  BY <1>1, <1>2, <3>1
  <2>3. WW * k = W * (W * k)
    BY <1>1 DEF WW
  <2>. QED  BY <1>1, <1>2, <2>1, <2>2, <2>3, WordSize
<1>5. c >= -(A * A) /\ c <= A * A
  <2>1. Q * Q * (ALPHA * ALPHA) = A * A
    BY <1>1
  <2>. QED  BY <2>1
<1>6. 2 * (A * A) <= W * A
  <2>1. A * (2 * A) <= A * W
    BY <1>1, MulMono
  <2>. QED  BY <1>1, <2>1
<1>7. low * Q <= W * Q /\ low * Q >= 0
  <2>1. Q * low <= Q * W /\ Q * 0 <= Q * low
    BY <1>1, <1>2, MulMono
  <2>. QED  BY <1>1, <1>2, <2>1
<1>8. W * A >= 2 * (W * Q)
  <2>1. Q * 2 <= Q * ALPHA
    BY <1>1, MulMono
  <2>2. W * (2 * Q) <= W * A
    BY <1>1, <2>1, MulMono
  <2>. QED  BY <1>1, <2>2
<1>9. 0 <= e
  BY <1>1, <1>2, <1>5, <1>6, <1>7, <1>8
<1>10. e < W * W
  <2>1. W * (2 * A) <= W * (W - 1)
    BY <1>1, MulMono
  <2>2. 2 * (W * A) < W * W
    BY <1>1, <2>1
  <2>. QED  BY <1>1, <1>2, <1>5, <1>6, <1>7, <2>2
<1>11. W * k <= sum
  <2>1. ASSUME sum + 1 <= W * k PROVE FALSE
    <3>1. W * (sum + 1) <= W * (W * k)
      BY <1>1, <1>3, <2>1, MulMono
    <3>2. W * (sum + 1) = W * sum + W
      BY <1>1, <1>3
    <3>. QED  BY <1>1, <1>3, <1>4, <1>9, <3>1, <3>2
  <2>. QED  BY <1>1, <1>3, <2>1
<1>12. sum < W * k + W
  <2>1. ASSUME W * k + W <= sum PROVE FALSE
    <3>1. W * (W * k + W) <= W * sum
      BY <1>1, <1>3, <2>1, MulMono
    <3>2. W * (W * k + W) = W * (W * k) + W * W
      BY <1>1
    <3>. QED  BY <1>1, <1>3, <1>4, <1>10, <3>1, <3>2
  <2>. QED  BY <1>1, <1>3, <2>1
<1>13. sum \div W = k
  BY <1>1, <1>3, <1>11, <1>12, DivUnique
<1>. QED  BY <1>13

(***************************************************************************)
(* The range: p is a signed word and c is small against WW * Q, so k is    *)
(* strictly between -Q/2 and Q/2, Q being odd.                             *)
(***************************************************************************)
LEMMA SecondShiftRange ==
  ASSUME NEW c \in Int, NEW p \in Int, NEW k \in Int,
         p * Q = c + WW * k,
         -WW <= 2 * p, 2 * p < WW,
         -(Q * Q * (ALPHA * ALPHA)) <= c, c <= Q * Q * (ALPHA * ALPHA)
  PROVE  IsCentred(k)
<1> DEFINE A == ALPHA * Q
<1>1. /\ Q \in Nat /\ W \in Nat /\ ALPHA \in Nat /\ A \in Nat
      /\ Q > 0 /\ W > 0 /\ 2 * A < W
  <2>1. ALPHA * Q \in Nat /\ 2 * ALPHA * Q = 2 * (ALPHA * Q)
    BY ArithmeticAssumption
  <2>. QED  BY <2>1, ArithmeticAssumption, WordSize
<1>2. 4 * c < WW /\ -WW < 4 * c
  <2>1. Q * Q * (ALPHA * ALPHA) = A * A
    BY <1>1
  <2>2. A * (2 * A) <= A * W
    BY <1>1, MulMono
  <2>3. W * (2 * A) <= W * (W - 1)
    BY <1>1, MulMono
  <2>4. A * (2 * A) = 2 * (A * A) /\ W * (2 * A) = 2 * (A * W) /\ W * (W - 1) = W * W - W
    BY <1>1
  <2>5. 4 * (A * A) < W * W
    BY <1>1, <2>2, <2>3, <2>4
  <2>. QED  BY <1>1, <2>1, <2>5 DEF WW
<1>3. -(WW * Q) <= 2 * (p * Q) /\ 2 * (p * Q) <= WW * Q
  <2>1. Q * (-WW) <= Q * (2 * p) /\ Q * (2 * p) <= Q * WW
    BY <1>1, WordSize, MulMono
  <2>2. Q * (-WW) = -(WW * Q) /\ Q * (2 * p) = 2 * (p * Q) /\ Q * WW = WW * Q
    BY <1>1, WordSize
  <2>. QED  BY <2>1, <2>2
<1>4. 2 * k <= Q
  <2>1. ASSUME Q + 1 <= 2 * k PROVE FALSE
    <3>1. WW * (Q + 1) <= WW * (2 * k)
      BY <1>1, <2>1, WordSize, MulMono
    <3>2. WW * (Q + 1) = WW * Q + WW /\ WW * (2 * k) = 2 * (WW * k)
      BY <1>1, WordSize
    <3>. HIDE DEF A
    <3>. QED  BY <1>1, <1>2, <1>3, <3>1, <3>2, WordSize
  <2>. QED  BY <1>1, <2>1
<1>5. -Q <= 2 * k
  <2>1. ASSUME 2 * k <= -Q - 1 PROVE FALSE
    <3>1. WW * (2 * k) <= WW * (-Q - 1)
      BY <1>1, <2>1, WordSize, MulMono
    <3>2. WW * (-Q - 1) = -(WW * Q) - WW /\ WW * (2 * k) = 2 * (WW * k)
      BY <1>1, WordSize
    <3>. QED  BY <1>1, <1>2, <1>3, <3>1, <3>2, WordSize
  <2>. QED  BY <1>1, <2>1
<1>6. 2 * k # Q /\ 2 * k # -Q
  BY <1>1, ArithmeticAssumption
<1>. QED  BY <1>1, <1>4, <1>5, <1>6 DEF IsCentred

(***************************************************************************)
(* plantard on a constant that is b * Q^-1 modulo WW: the centred residue  *)
(* of -a * b / WW, for every product within (Q * ALPHA)^2.                 *)
(***************************************************************************)
LEMMA PlantardExact ==
  ASSUME NEW a \in Int, NEW b \in Int, NEW b_qinv \in Int,
         \E k \in Int : b_qinv = b * QINV64 + WW * k,
         -(Q * Q * (ALPHA * ALPHA)) <= a * b, a * b <= Q * Q * (ALPHA * ALPHA)
  PROVE  /\ IsCentred(plantard(a, b_qinv))
         /\ \E k \in Int : plantard(a, b_qinv) * WW + a * b = Q * k
<1> DEFINE p == Signed(a * b_qinv)
<1>1. PICK k1 \in Int : b_qinv = b * QINV64 + WW * k1
  OBVIOUS
<1>2. PICK k2 \in Int : Q * QINV64 = 1 + WW * k2
  BY NewtonStep
<1>3. PICK k3 \in Int : p = a * b_qinv + WW * k3
  BY SignedWord
<1>4. p \in Int /\ -WW <= 2 * p /\ 2 * p < WW
  BY SignedWord
<1>5. Q \in Nat /\ WW \in Nat /\ QINV64 \in Int
  BY ArithmeticAssumption, WordSize, NewtonStep
<1>. DEFINE k == (a * b) * k2 + Q * (a * k1 + k3)
<1>6. k \in Int
  BY <1>5
<1>7. p * Q = a * b + WW * k
  <2>1. a * b_qinv = (a * b) * QINV64 + WW * (a * k1)
    BY <1>1, <1>5
  <2>2. p = (a * b) * QINV64 + WW * (a * k1 + k3)
    <3>1. WW * (a * k1 + k3) = WW * (a * k1) + WW * k3
      BY <1>5
    <3>. QED  BY <1>3, <1>5, <2>1, <3>1
  <2>3. p * Q = (a * b) * (Q * QINV64) + WW * (Q * (a * k1 + k3))
    <3>1. \A s, t \in Int : ((a * b) * s + WW * t) * Q = (a * b) * (Q * s) + WW * (Q * t)
      BY <1>5
    <3>. QED  BY <1>5, <2>2, <3>1
  <2>4. (a * b) * (1 + WW * k2) = a * b + WW * ((a * b) * k2)
    BY <1>5
  <2>5. WW * k = WW * ((a * b) * k2) + WW * (Q * (a * k1 + k3))
    BY <1>5
  <2>. QED  BY <1>2, <1>5, <2>3, <2>4, <2>5
<1>. HIDE DEF k
<1>8. plantard(a, b_qinv) = k
  <2>1. (((p \div W) + ALPHA) * Q) \div W = k
    BY <1>4, <1>6, <1>7, SecondShift
  <2>. QED  BY <2>1 DEF plantard
<1>9. IsCentred(k)
  BY <1>4, <1>6, <1>7, SecondShiftRange
<1>10. k * WW + a * b = Q * p
  BY <1>4, <1>5, <1>6, <1>7
<1>. QED  BY <1>4, <1>8, <1>9, <1>10

-----------------------------------------------------------------------------
\* WW is a unit modulo Q.
LEMMA Cancel ==
  ASSUME NEW u \in Int, (\E k \in Int : WW * u = Q * k)
  PROVE  u % Q = 0
<1>1. PICK k \in Int : WW * u = Q * k
  OBVIOUS
<1>2. PICK j \in Int : Q * QINV64 = 1 + WW * j
  BY NewtonStep
<1>3. Q \in Nat /\ Q > 0 /\ WW \in Nat /\ QINV64 \in Int
  BY ArithmeticAssumption, WordSize, NewtonStep
<1>4. u = Q * (QINV64 * u - j * k)
  <2>1. (Q * QINV64) * u = u + (WW * u) * j
    BY <1>2, <1>3
  <2>2. (Q * QINV64) * u = Q * (QINV64 * u) /\ (Q * k) * j = Q * (j * k)
    BY <1>3
  <2>3. Q * (QINV64 * u - j * k) = Q * (QINV64 * u) - Q * (j * k)
    BY <1>3
  <2>. QED  BY <1>1, <1>3, <2>1, <2>2, <2>3
<1>5. QINV64 * u - j * k \in Int
  BY <1>3
<1>. QED  BY <1>3, <1>4, <1>5, MultipleMod

\* The factor a Plantard constant is made of.
LEMMA RadixedFactor ==
  ASSUME NEW f \in Int
  PROVE  /\ Radixed(f) \in Int /\ -Q <= 2 * Radixed(f) /\ 2 * Radixed(f) <= Q
         /\ \E k \in Int : Radixed(f) = -f * WW + Q * k
<1> DEFINE y == -f * WW
           q == y \div Q
           b == y % Q
<1>1. Q \in Nat /\ Q > 0 /\ y \in Int
  BY ArithmeticAssumption, WordSize
<1>2. q \in Int /\ b \in Int /\ y = Q * q + b /\ 0 <= b /\ b < Q
  BY <1>1, DivMod
<1>. HIDE DEF y
<1>3. CASE 2 * b > Q
  <2>1. Radixed(f) = b - Q
    BY <1>3 DEF Radixed, y
  <2>2. b - Q = y + Q * (-q - 1) /\ -q - 1 \in Int
    BY <1>1, <1>2
  <2>3. Radixed(f) \in Int /\ -Q <= 2 * Radixed(f) /\ 2 * Radixed(f) <= Q
    BY <1>1, <1>2, <1>3, <2>1
  <2>4. \E k \in Int : Radixed(f) = y + Q * k
    BY <2>1, <2>2
  <2>. QED  BY <2>3, <2>4 DEF y
<1>4. CASE ~(2 * b > Q)
  <2>1. Radixed(f) = b
    BY <1>4 DEF Radixed, y
  <2>2. b = y + Q * (-q) /\ -q \in Int
    BY <1>1, <1>2
  <2>3. Radixed(f) \in Int /\ -Q <= 2 * Radixed(f) /\ 2 * Radixed(f) <= Q
    BY <1>1, <1>2, <1>4, <2>1
  <2>4. \E k \in Int : Radixed(f) = y + Q * k
    BY <2>1, <2>2
  <2>. QED  BY <2>3, <2>4 DEF y
<1>. QED  BY <1>3, <1>4

\* An operand of plantard times such a factor is within its domain.
LEMMA ProductBound ==
  ASSUME NEW u \in Int, -Q * ALPHA <= u, u <= Q * ALPHA,
         NEW b \in Int, -Q <= 2 * b, 2 * b <= Q
  PROVE  -(Q * Q * (ALPHA * ALPHA)) <= u * b /\ u * b <= Q * Q * (ALPHA * ALPHA)
<1> DEFINE A == Q * ALPHA
<1>1. Q \in Nat /\ ALPHA \in Nat /\ ALPHA >= 2 /\ A \in Nat /\ Q <= A
  <2>1. Q * 1 <= Q * ALPHA
    BY ArithmeticAssumption, MulMono
  <2>. QED  BY <2>1, ArithmeticAssumption
<1>2. -A <= u /\ u <= A /\ -A <= b /\ b <= A
  BY <1>1
<1>3. Q * Q * (ALPHA * ALPHA) = A * A
  BY <1>1
<1>. HIDE DEF A
<1>4. ASSUME NEW s \in Nat, NEW t \in Nat, s <= A, t <= A
      PROVE  s * t <= A * A /\ 0 <= s * t
  <2>1. s * t <= s * A /\ s * 0 <= s * t
    BY <1>1, <1>4, MulMono
  <2>2. A * s <= A * A
    BY <1>1, <1>4, MulMono
  <2>. QED  BY <1>1, <2>1, <2>2
<1>5. CASE u >= 0 /\ b >= 0
  BY <1>1, <1>2, <1>3, <1>4, <1>5
<1>6. CASE u >= 0 /\ b < 0
  <2>1. u * (-b) <= A * A /\ 0 <= u * (-b)
    BY <1>1, <1>2, <1>4, <1>6
  <2>. QED  BY <1>1, <1>3, <2>1
<1>7. CASE u < 0 /\ b >= 0
  <2>1. (-u) * b <= A * A /\ 0 <= (-u) * b
    BY <1>1, <1>2, <1>4, <1>7
  <2>. QED  BY <1>1, <1>3, <2>1
<1>8. CASE u < 0 /\ b < 0
  <2>1. (-u) * (-b) <= A * A /\ 0 <= (-u) * (-b)
    BY <1>1, <1>2, <1>4, <1>8
  <2>. QED  BY <1>1, <1>3, <2>1
<1>. QED  BY <1>5, <1>6, <1>7, <1>8

(***************************************************************************)
(* Multiplication by a constant: what ct, gs and freeze_scaled_into rely   *)
(* on.                                                                     *)
(***************************************************************************)
LEMMA MultiplyExact ==
  ASSUME NEW u \in Int, NEW f \in Int, Domain("multiply", u, f)
  PROVE  /\ IsCentred(plantard(u, plantard_constant(f)))
         /\ (plantard(u, plantard_constant(f)) - u * f) % Q = 0
<1> DEFINE b == Radixed(f)
           r == plantard(u, plantard_constant(f))
<1>1. Q \in Nat /\ Q > 0 /\ WW \in Nat /\ QINV64 \in Int
  BY ArithmeticAssumption, WordSize, NewtonStep
<1>2. b \in Int /\ -Q <= 2 * b /\ 2 * b <= Q
  BY RadixedFactor
<1>3. PICK k1 \in Int : b = -f * WW + Q * k1
  BY RadixedFactor
<1>4. -Q * ALPHA <= u /\ u <= Q * ALPHA
  BY DEF Domain
<1>5. -(Q * Q * (ALPHA * ALPHA)) <= u * b /\ u * b <= Q * Q * (ALPHA * ALPHA)
  BY <1>2, <1>4, ProductBound
<1>. HIDE DEF b
<1>6. /\ plantard_constant(f) \in Int
      /\ \E k \in Int : plantard_constant(f) = b * QINV64 + WW * k
  <2>1. plantard_constant(f) = Unsigned(b * QINV64)
    BY DEF plantard_constant, b
  <2>2. b * QINV64 \in Int
    BY <1>1, <1>2
  <2>. QED  BY <2>1, <2>2, UnsignedWord
<1>7. IsCentred(r) /\ \E k \in Int : r * WW + u * b = Q * k
  BY <1>2, <1>5, <1>6, PlantardExact
<1>8. PICK k2 \in Int : r * WW + u * b = Q * k2
  BY <1>7
<1>9. r \in Int
  BY <1>7 DEF IsCentred
<1>. HIDE DEF r
<1>10. WW * (r - u * f) = Q * (k2 - u * k1)
  <2>1. u * b = Q * (u * k1) - WW * (u * f)
    BY <1>1, <1>3
  <2>2. WW * (r - u * f) = r * WW - WW * (u * f)
    BY <1>1, <1>9
  <2>3. Q * (k2 - u * k1) = Q * k2 - Q * (u * k1)
    BY <1>1
  <2>. QED  BY <1>1, <1>8, <1>9, <2>1, <2>2, <2>3
<1>11. (r - u * f) % Q = 0
  <2>1. r - u * f \in Int /\ k2 - u * k1 \in Int
    BY <1>9
  <2>. QED  BY <1>10, <2>1, Cancel
<1>. QED  BY <1>7, <1>11 DEF r

(***************************************************************************)
(* The reduction of a row.                                                 *)
(***************************************************************************)
LEMMA ReduceExact ==
  ASSUME NEW u \in Int, NEW f \in Int, Domain("reduce", u, f)
  PROVE  IsCentred(plantard(u, QINV64)) /\ (plantard(u, QINV64) * WW + u) % Q = 0
<1> DEFINE r == plantard(u, QINV64)
<1>1. Q \in Nat /\ Q > 0 /\ WW \in Nat /\ QINV64 \in Int
  BY ArithmeticAssumption, WordSize, NewtonStep
<1>2. PICK b \in Int : b = 1
  OBVIOUS
<1>3. u * b = u /\ b * QINV64 = QINV64
  BY <1>1, <1>2
<1>4. -(Q * Q * (ALPHA * ALPHA)) <= u * b /\ u * b <= Q * Q * (ALPHA * ALPHA)
  BY <1>3 DEF Domain
<1>5. \E k \in Int : QINV64 = b * QINV64 + WW * k
  <2>1. QINV64 = b * QINV64 + WW * 0
    BY <1>1, <1>3
  <2>. QED  BY <2>1
<1>6. IsCentred(r) /\ \E k \in Int : r * WW + u * b = Q * k
  BY <1>1, <1>4, <1>5, PlantardExact
<1>7. PICK k \in Int : r * WW + u = Q * k
  BY <1>3, <1>6
<1>. QED  BY <1>1, <1>6, <1>7, MultipleMod

(***************************************************************************)
(* The norm check.                                                         *)
(***************************************************************************)
LEMMA NormCheck ==
  ASSUME NEW u \in Int, NEW bound \in Int, Domain("norm", u, bound)
  PROVE  norm_at_least(u, bound) <=> u >= bound \/ -u >= bound
<1>1. WW \in Nat /\ WW > 0 /\ -WW < 4 * u /\ 4 * u < WW /\ 0 < bound /\ 4 * bound < WW
  BY WordSize DEF Domain
<1>2. ASSUME NEW y \in Int, 0 <= y, y < WW
      PROVE  Unsigned(y) = y
  <2>1. y \div WW = 0
    BY <1>1, <1>2, DivUnique
  <2>. QED  BY <1>1, <1>2, <2>1, DivMod DEF Unsigned
<1>3. Unsigned(2 * bound - 1) = 2 * bound - 1
  BY <1>1, <1>2
<1>4. CASE u + bound - 1 >= 0
  <2>1. Unsigned(u + bound - 1) = u + bound - 1
    BY <1>1, <1>2, <1>4
  <2>. QED  BY <1>1, <1>3, <1>4, <2>1 DEF norm_at_least
<1>5. CASE u + bound - 1 < 0
  <2>1. (u + bound - 1) \div WW = -1
    BY <1>1, <1>5, DivUnique
  <2>2. Unsigned(u + bound - 1) = u + bound - 1 + WW
    BY <1>1, <2>1, DivMod DEF Unsigned
  <2>. QED  BY <1>1, <1>3, <1>5, <2>2 DEF norm_at_least
<1>. QED  BY <1>1, <1>4, <1>5

-----------------------------------------------------------------------------
\* Nothing but the result changes, so the operand stays in its domain.
IInv ==
  /\ x \in Int /\ m \in Int
  /\ Domain(op, x, m)
  /\ done \in BOOLEAN
  /\ ProductExact /\ ReductionExact /\ NormExact

LEMMA Invariance == Spec => []IInv
<1>1. Init => IInv
  BY OperandsAssumption DEF Init, IInv, ProductExact, ReductionExact, NormExact, Done
<1>2. IInv /\ [Next]_vars => IInv'
  <2>. SUFFICES ASSUME IInv, [Next]_vars
                PROVE  IInv'
    OBVIOUS
  <2>1. CASE Multiply
    <3>1. op = "multiply" /\ out' = plantard(x, plantard_constant(m)) /\ UNCHANGED <<op, x, m>>
          /\ done' = TRUE
      BY <2>1 DEF Multiply
    <3>2. IsCentred(out') /\ (out' - x * m) % Q = 0
      BY <3>1, MultiplyExact DEF IInv
    <3>. QED  BY <3>1, <3>2 DEF IInv, ProductExact, ReductionExact, NormExact, Done
  <2>2. CASE Reduce
    <3>1. op = "reduce" /\ out' = plantard(x, QINV64) /\ UNCHANGED <<op, x, m>> /\ done' = TRUE
      BY <2>2 DEF Reduce
    <3>2. IsCentred(out') /\ (out' * WW + x) % Q = 0
      BY <3>1, ReduceExact DEF IInv
    <3>. QED  BY <3>1, <3>2 DEF IInv, ProductExact, ReductionExact, NormExact, Done
  <2>3. CASE Norm
    <3>1. op = "norm" /\ out' = norm_at_least(x, m) /\ UNCHANGED <<op, x, m>> /\ done' = TRUE
      BY <2>3 DEF Norm
    <3>2. out' <=> x >= m \/ -x >= m
      BY <3>1, NormCheck DEF IInv
    <3>. QED  BY <3>1, <3>2 DEF IInv, ProductExact, ReductionExact, NormExact, Done
  <2>4. CASE UNCHANGED vars
    BY <2>4 DEF vars, IInv, ProductExact, ReductionExact, NormExact, Done
  <2>. QED  BY <2>1, <2>2, <2>3, <2>4 DEF Next
<1>. QED  BY <1>1, <1>2, PTL DEF Spec

(***************************************************************************)
(* Every Plantard product of the program is exact and centred.             *)
(***************************************************************************)
THEOREM Products == Spec => []ProductExact
<1>1. IInv => ProductExact
  BY DEF IInv
<1>. QED  BY <1>1, Invariance, PTL

(***************************************************************************)
(* Every Plantard reduction within (Q * ALPHA)^2 is exact and centred.     *)
(***************************************************************************)
THEOREM Reductions == Spec => []ReductionExact
<1>1. IInv => ReductionExact
  BY DEF IInv
<1>. QED  BY <1>1, Invariance, PTL

(***************************************************************************)
(* The norm check decides the absolute value.                              *)
(***************************************************************************)
THEOREM Norms == Spec => []NormExact
<1>1. IInv => NormExact
  BY DEF IInv
<1>. QED  BY <1>1, Invariance, PTL
=============================================================================
