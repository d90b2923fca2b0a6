-------------------------- MODULE RowPipelineProofs --------------------------
(***************************************************************************)
(* Both paths compute the standard's row, for every modulus with a root of *)
(* unity of the right order, every input and degrees of one to four pairs  *)
(* of layers.  The transforms keep the value of a block of coefficients at *)
(* each of its points: a group of butterflies only changes how the value   *)
(* is spread over the coefficients.                                        *)
(***************************************************************************)
EXTENDS RowPipeline, NaturalsInduction, WellFoundedInduction, TLAPS

-----------------------------------------------------------------------------
(***************************************************************************)
(* Recursive functions and sums                                            *)
(***************************************************************************)

\* A set of naturals has a least element.
LEMMA LeastNat ==
  ASSUME NEW T, T \subseteq Nat, T # {}
  PROVE  \E x \in T : \A y \in T : x <= y
<1>1. IsWellFoundedOn(OpToRel(<, Nat), Nat)
  BY NatLessThanWellFounded, Zenon
<1>2. PICK x \in T : \A y \in T : ~(<<y, x>> \in OpToRel(<, Nat))
  BY <1>1, WFMin, Zenon
<1>3. ASSUME NEW y \in T PROVE x <= y
  <2>1. <<y, x>> \notin OpToRel(<, Nat)
    BY <1>2
  <2>2. ~(y < x)
    BY <2>1, Zenon DEF OpToRel
  <2>. QED  BY <2>2
<1>. QED  BY <1>3

\* A set that holds 0 and with every number below n the next holds all up to n.
LEMMA Upwards ==
  ASSUME NEW n \in Nat, NEW T, 0 \in T, \A i \in 0 .. n-1 : i \in T => i + 1 \in T
  PROVE  \A i \in 0 .. n : i \in T
<1> DEFINE Out == {i \in 0 .. n : i \notin T}
<1>1. SUFFICES ASSUME Out # {} PROVE FALSE
  OBVIOUS
<1>2. PICK m \in Out : \A y \in Out : m <= y
  <2>1. Out \subseteq Nat
    OBVIOUS
  <2>. QED  BY <1>1, <2>1, LeastNat
<1>3. m \in Nat /\ m <= n /\ m # 0 /\ m - 1 \in 0 .. n-1 /\ m - 1 \in 0 .. n /\ ~(m <= m - 1) /\ m - 1 + 1 = m
  OBVIOUS
<1>4. m - 1 \in T
  BY <1>2, <1>3
<1>. QED  BY <1>3, <1>4

Partial(f, n, s) == s = [i \in 0 .. n |-> IF i = 0 THEN 0 ELSE s[i-1] + f[i-1]]

LEMMA PartialExists ==
  ASSUME NEW n \in Nat, NEW f
  PROVE  \E s : Partial(f, n, s)
<1> DEFINE T == {m \in 0 .. n : \E s : Partial(f, m, s)}
<1>1. 0 \in T
  <2> DEFINE s == [i \in 0 .. 0 |-> 0]
  <2>1. Partial(f, 0, s)
    BY DEF Partial
  <2>. QED  BY <2>1
<1>2. ASSUME NEW m \in 0 .. n-1, m \in T PROVE m + 1 \in T
  <2>1. PICK s : Partial(f, m, s)
    BY <1>2
  <2> DEFINE r == [i \in 0 .. m + 1 |-> IF i = m + 1 THEN s[m] + f[m] ELSE s[i]]
  <2>2. s = [i \in 0 .. m |-> IF i = 0 THEN 0 ELSE s[i-1] + f[i-1]]
    BY <2>1 DEF Partial
  <2>3. \A i \in 0 .. m : s[i] = IF i = 0 THEN 0 ELSE s[i-1] + f[i-1]
    BY <2>2
  <2>4. ASSUME NEW i \in 0 .. m + 1
        PROVE  r[i] = IF i = 0 THEN 0 ELSE r[i-1] + f[i-1]
    <3>1. CASE i = m + 1
      <4>1. r[i] = s[m] + f[m] /\ i - 1 = m /\ m \in 0 .. m + 1 /\ m # m + 1
        BY <3>1
      <4>2. r[i-1] = s[m]
        BY <4>1
      <4>. QED  BY <3>1, <4>1, <4>2
    <3>2. CASE i # m + 1 /\ i # 0
      <4>1. i \in 0 .. m /\ i - 1 \in 0 .. m + 1 /\ i - 1 # m + 1
        BY <3>2
      <4>. QED  BY <2>3, <3>2, <4>1
    <3>3. CASE i = 0
      BY <2>3, <3>3
    <3>. QED  BY <3>1, <3>2, <3>3
  <2>5. r = [i \in 0 .. m + 1 |-> IF i = 0 THEN 0 ELSE r[i-1] + f[i-1]]
    <3>. HIDE DEF r
    <3>1. r = [i \in 0 .. m + 1 |-> r[i]]
      BY DEF r
    <3>. QED  BY <2>4, <3>1
  <2>6. Partial(f, m + 1, r)
    BY <2>5, Zenon DEF Partial
  <2>. QED  BY <2>6
<1>. HIDE DEF T
<1>3. n \in T
  BY <1>1, <1>2, Upwards
<1>. QED  BY <1>3 DEF T

LEMMA PartialUnique ==
  ASSUME NEW n \in Nat, NEW m \in 0 .. n, NEW f, NEW g, NEW s, NEW r,
         Partial(f, n, s), Partial(g, m, r), \A i \in 0 .. m-1 : f[i] = g[i]
  PROVE  \A i \in 0 .. m : s[i] = r[i]
<1> DEFINE T == {i \in 0 .. m : s[i] = r[i]}
<1>0. /\ \A i \in 0 .. n : s[i] = IF i = 0 THEN 0 ELSE s[i-1] + f[i-1]
      /\ \A i \in 0 .. m : r[i] = IF i = 0 THEN 0 ELSE r[i-1] + g[i-1]
  <2>1. s = [i \in 0 .. n |-> IF i = 0 THEN 0 ELSE s[i-1] + f[i-1]]
    BY DEF Partial
  <2>2. r = [i \in 0 .. m |-> IF i = 0 THEN 0 ELSE r[i-1] + g[i-1]]
    BY DEF Partial
  <2>. QED  BY <2>1, <2>2
<1>1. 0 \in T
  BY <1>0
<1>2. ASSUME NEW i \in 0 .. m-1, i \in T PROVE i + 1 \in T
  <2>1. i + 1 \in 0 .. m /\ i + 1 \in 0 .. n /\ i + 1 # 0 /\ i + 1 - 1 = i
    OBVIOUS
  <2>2. s[i+1] = s[i] + f[i] /\ r[i+1] = r[i] + g[i]
    BY <1>0, <2>1
  <2>. QED  BY <1>2, <2>1, <2>2
<1>. HIDE DEF T
<1>3. \A i \in 0 .. m : i \in T
  BY <1>1, <1>2, Upwards
<1>. QED  BY <1>3 DEF T

LEMMA SumIsPartial ==
  ASSUME NEW n \in Nat, NEW f
  PROVE  \E s : Partial(f, n, s) /\ Sum(f, n) = s[n]
<1> DEFINE s == CHOOSE s : Partial(f, n, s)
<1>1. Partial(f, n, s)
  BY PartialExists
<1>2. Sum(f, n) = s[n]
  BY DEF Sum, Partial
<1>. QED  BY <1>1, <1>2

\* What a sum is, term by term.
LEMMA SumRec ==
  ASSUME NEW f
  PROVE  /\ Sum(f, 0) = 0
         /\ \A n \in Nat : Sum(f, n + 1) = Sum(f, n) + f[n]
<1>1. Sum(f, 0) = 0
  <2>1. PICK s : Partial(f, 0, s) /\ Sum(f, 0) = s[0]
    BY SumIsPartial
  <2>. QED  BY <2>1 DEF Partial
<1>2. ASSUME NEW n \in Nat PROVE Sum(f, n + 1) = Sum(f, n) + f[n]
  <2>1. PICK s : Partial(f, n, s) /\ Sum(f, n) = s[n]
    BY SumIsPartial
  <2>2. PICK r : Partial(f, n + 1, r) /\ Sum(f, n + 1) = r[n + 1]
    BY SumIsPartial
  <2>3. r[n] = s[n]
    <3>1. n + 1 \in Nat /\ n \in 0 .. n + 1 /\ n \in 0 .. n
      OBVIOUS
    <3>. QED  BY <2>1, <2>2, <3>1, PartialUnique
  <2>4. r[n + 1] = r[n] + f[n]
    <3>1. n + 1 \in 0 .. n + 1 /\ n + 1 # 0 /\ n + 1 - 1 = n
      OBVIOUS
    <3>2. r = [i \in 0 .. n + 1 |-> IF i = 0 THEN 0 ELSE r[i-1] + f[i-1]]
      BY <2>2 DEF Partial
    <3>. QED  BY <3>1, <3>2
  <2>. QED  BY <2>1, <2>2, <2>3, <2>4
<1>. QED  BY <1>1, <1>2

LEMMA SumType ==
  ASSUME NEW n \in Nat, NEW f, \A i \in 0 .. n-1 : f[i] \in Int
  PROVE  \A m \in 0 .. n : Sum(f, m) \in Int
<1> DEFINE T == {m \in Nat : Sum(f, m) \in Int}
<1>1. 0 \in T
  BY SumRec
<1>2. ASSUME NEW m \in 0 .. n-1, m \in T PROVE m + 1 \in T
  BY <1>2, SumRec
<1>. HIDE DEF T
<1>3. \A m \in 0 .. n : m \in T
  BY <1>1, <1>2, Upwards
<1>. QED  BY <1>3 DEF T

\* Only the terms matter.
LEMMA SumSame ==
  ASSUME NEW n \in Nat, NEW f, NEW g, \A i \in 0 .. n-1 : f[i] = g[i]
  PROVE  Sum(f, n) = Sum(g, n)
<1> DEFINE T == {m \in Nat : Sum(f, m) = Sum(g, m)}
<1>1. 0 \in T
  BY SumRec
<1>2. ASSUME NEW m \in 0 .. n-1, m \in T PROVE m + 1 \in T
  BY <1>2, SumRec
<1>. HIDE DEF T
<1>3. n \in T
  BY <1>1, <1>2, Upwards
<1>. QED  BY <1>3 DEF T

\* A sum of sums of two terms: s adds f and g up term by term.
AddsUp(s, f, g, n) == \A i \in 0 .. n-1 : f[i] \in Int /\ g[i] \in Int /\ s[i] = f[i] + g[i]

LEMMA SumPlus ==
  ASSUME NEW n \in Nat, NEW f, NEW g, NEW s, AddsUp(s, f, g, n)
  PROVE  Sum(s, n) = Sum(f, n) + Sum(g, n)
<1>0. \A i \in 0 .. n-1 : f[i] \in Int /\ g[i] \in Int /\ s[i] = f[i] + g[i]
  BY DEF AddsUp
<1> DEFINE T == {m \in Nat : Sum(s, m) = Sum(f, m) + Sum(g, m)}
<1>1. 0 \in T
  BY SumRec
<1>2. ASSUME NEW m \in 0 .. n-1, m \in T PROVE m + 1 \in T
  <2>1. m \in 0 .. n /\ Sum(f, m) \in Int /\ Sum(g, m) \in Int
    <3>1. m \in 0 .. n
      OBVIOUS
    <3>. QED  BY <1>0, <3>1, SumType
  <2>2. /\ Sum(s, m + 1) = Sum(s, m) + s[m]
        /\ Sum(f, m + 1) = Sum(f, m) + f[m] /\ Sum(g, m + 1) = Sum(g, m) + g[m]
    <3>1. m \in Nat
      OBVIOUS
    <3>. QED  BY <3>1, SumRec, Zenon
  <2>3. f[m] \in Int /\ g[m] \in Int /\ s[m] = f[m] + g[m]
    BY <1>0, Zenon
  <2>4. Sum(s, m) = Sum(f, m) + Sum(g, m) /\ m + 1 \in Nat
    BY <1>2
  <2>5. Sum(s, m + 1) = Sum(f, m + 1) + Sum(g, m + 1)
    BY <2>1, <2>2, <2>3, <2>4
  <2>. QED  BY <2>4, <2>5
<1>. HIDE DEF T
<1>3. \A i \in 0 .. n-1 : i \in T => i + 1 \in T
  BY <1>2, Zenon
<1>4. \A i \in 0 .. n : i \in T
  BY <1>1, <1>3, Upwards, Zenon
<1>5. n \in T
  BY <1>4
<1>. QED  BY <1>5 DEF T

\* A factor of every term is one of the sum.
LEMMA SumTimes ==
  ASSUME NEW n \in Nat, NEW f, NEW s, NEW c \in Int,
         \A i \in 0 .. n-1 : f[i] \in Int /\ s[i] = c * f[i]
  PROVE  Sum(s, n) = c * Sum(f, n)
<1> DEFINE T == {m \in Nat : Sum(s, m) = c * Sum(f, m)}
<1>1. 0 \in T
  BY SumRec
<1>2. ASSUME NEW m \in 0 .. n-1, m \in T PROVE m + 1 \in T
  <2>1. m \in 0 .. n /\ Sum(f, m) \in Int /\ f[m] \in Int
    <3>1. m \in 0 .. n
      OBVIOUS
    <3>. QED  BY <3>1, SumType
  <2>2. c * (Sum(f, m) + f[m]) = c * Sum(f, m) + c * f[m]
    BY <2>1
  <2>3. Sum(s, m + 1) = c * Sum(f, m) + c * f[m] /\ Sum(f, m + 1) = Sum(f, m) + f[m]
    BY <1>2, SumRec
  <2>. QED  BY <2>2, <2>3
<1>. HIDE DEF T
<1>3. \A m \in 0 .. n : m \in T
  BY <1>1, <1>2, Upwards
<1>4. n \in 0 .. n
  OBVIOUS
<1>. QED  BY <1>3, <1>4 DEF T

\* A sum in two parts.
LEMMA SumSplit ==
  ASSUME NEW n \in Nat, NEW m \in Nat, NEW f, \A i \in 0 .. n + m - 1 : f[i] \in Int
  PROVE  Sum(f, n + m) = Sum(f, n) + Sum([i \in 0 .. m-1 |-> f[n + i]], m)
<1> DEFINE g == [i \in 0 .. m-1 |-> f[n + i]]
           T == {k \in Nat : Sum(f, n + k) = Sum(f, n) + Sum(g, k)}
<1>0. Sum(f, n) \in Int
  <2>1. n + m \in Nat /\ n \in 0 .. n + m
    OBVIOUS
  <2>. QED  BY <2>1, SumType
<1>1. 0 \in T
  BY <1>0, SumRec
<1>2. ASSUME NEW k \in 0 .. m-1, k \in T PROVE k + 1 \in T
  <2>1. /\ k \in Nat /\ k \in 0 .. m /\ n + k \in Nat /\ n + k \in 0 .. n + m - 1 /\ n + (k + 1) = n + k + 1
        /\ g[k] = f[n + k]
    OBVIOUS
  <2>2. \A i \in 0 .. m-1 : g[i] \in Int
    <3> SUFFICES ASSUME NEW i \in 0 .. m-1 PROVE g[i] \in Int
      OBVIOUS
    <3>1. n + i \in 0 .. n + m - 1
      OBVIOUS
    <3>. QED  BY <3>1
  <2>. HIDE DEF g
  <2>3. Sum(g, k) \in Int /\ f[n + k] \in Int
    BY <2>1, <2>2, SumType
  <2>4. Sum(f, n + k + 1) = Sum(f, n + k) + f[n + k] /\ Sum(g, k + 1) = Sum(g, k) + g[k]
    BY <2>1, SumRec
  <2>5. Sum(f, n + k) = Sum(f, n) + Sum(g, k)
    BY <1>2
  <2>. QED  BY <1>0, <2>1, <2>3, <2>4, <2>5
<1>. HIDE DEF T
<1>3. m \in T
  BY <1>1, <1>2, Upwards
<1>. QED  BY <1>3 DEF T

\* A sum in four parts of the same length, term by term.
LEMMA SumInFour ==
  ASSUME NEW n \in Nat, NEW f, NEW s, \A i \in 0 .. 4 * n - 1 : f[i] \in Int,
         \A i \in 0 .. n-1 : s[i] = f[i] + f[n + i] + f[2 * n + i] + f[3 * n + i]
  PROVE  Sum(f, 4 * n) = Sum(s, n)
<1> DEFINE f1 == [i \in 0 .. n-1 |-> f[n + i]]
           f2 == [i \in 0 .. n-1 |-> f[2 * n + i]]
           f3 == [i \in 0 .. n-1 |-> f[3 * n + i]]
           s1 == [i \in 0 .. n-1 |-> f[i] + f1[i]]
           s2 == [i \in 0 .. n-1 |-> s1[i] + f2[i]]
<1>1. ASSUME NEW i \in 0 .. n-1
      PROVE  /\ f[i] \in Int /\ f1[i] \in Int /\ f2[i] \in Int /\ f3[i] \in Int
             /\ s1[i] = f[i] + f1[i] /\ s1[i] \in Int /\ s2[i] = s1[i] + f2[i] /\ s2[i] \in Int
             /\ s[i] = s2[i] + f3[i]
  <2>1. i \in 0 .. 4 * n - 1 /\ n + i \in 0 .. 4 * n - 1 /\ 2 * n + i \in 0 .. 4 * n - 1 /\ 3 * n + i \in 0 .. 4 * n - 1
    OBVIOUS
  <2>. QED  BY <2>1
<1>2. /\ Sum(f, n + n) = Sum(f, n) + Sum(f1, n)
      /\ Sum(f, 2 * n + n) = Sum(f, 2 * n) + Sum(f2, n)
      /\ Sum(f, 3 * n + n) = Sum(f, 3 * n) + Sum(f3, n)
  <2>1. /\ 2 * n \in Nat /\ 3 * n \in Nat
        /\ \A i \in 0 .. n + n - 1 : f[i] \in Int
        /\ \A i \in 0 .. 2 * n + n - 1 : f[i] \in Int
        /\ \A i \in 0 .. 3 * n + n - 1 : f[i] \in Int
    <3>1. /\ 0 .. n + n - 1 \subseteq 0 .. 4 * n - 1
          /\ 0 .. 2 * n + n - 1 \subseteq 0 .. 4 * n - 1
          /\ 0 .. 3 * n + n - 1 \subseteq 0 .. 4 * n - 1
          /\ 2 * n \in Nat /\ 3 * n \in Nat
      OBVIOUS
    <3>. QED  BY <3>1, Zenon
  <2>. HIDE DEF s1, s2
  <2>. QED  BY <2>1, SumSplit
<1>. HIDE DEF f1, f2, f3, s1, s2
<1>3. /\ Sum(s1, n) = Sum(f, n) + Sum(f1, n)
      /\ Sum(s2, n) = Sum(s1, n) + Sum(f2, n)
      /\ Sum(s, n) = Sum(s2, n) + Sum(f3, n)
  <2>1. AddsUp(s1, f, f1, n)
    BY <1>1, Zenon DEF AddsUp
  <2>2. AddsUp(s2, s1, f2, n)
    BY <1>1, Zenon DEF AddsUp
  <2>3. AddsUp(s, s2, f3, n)
    BY <1>1, Zenon DEF AddsUp
  <2>. QED  BY <2>1, <2>2, <2>3, SumPlus, Zenon
<1>4. n + n = 2 * n /\ 2 * n + n = 3 * n /\ 3 * n + n = 4 * n
  OBVIOUS
<1>. QED  BY <1>2, <1>3, <1>4

-----------------------------------------------------------------------------
(***************************************************************************)
(* Residues                                                                *)
(***************************************************************************)

Cong(x, y) == x % Q = y % Q

LEMMA ModulusIs == Q \in Nat /\ Q > 1
  BY RowAssumption

LEMMA DivMod ==
  ASSUME NEW x \in Int
  PROVE  x % Q \in 0 .. Q-1 /\ x \div Q \in Int /\ x = Q * (x \div Q) + (x % Q)
  BY ModulusIs

LEMMA ModUnique ==
  ASSUME NEW x \in Int, NEW r \in 0 .. Q-1, NEW c \in Int, x = c * Q + r
  PROVE  x % Q = r
<1> DEFINE d == x \div Q
           s == x % Q
<1>1. d \in Int /\ s \in 0 .. Q-1 /\ x = Q * d + s
  BY DivMod
<1>. HIDE DEF d, s
<1>2. Q * d = d * Q /\ (c - d) * Q = c * Q - d * Q /\ (d - c) * Q = d * Q - c * Q
  BY <1>1, ModulusIs
<1>3. (c - d) * Q = s - r /\ (d - c) * Q = r - s
  BY <1>1, <1>2, ModulusIs
<1>4. CASE c - d >= 1
  <2>1. (c - d) * Q >= Q
    BY <1>1, <1>4, ModulusIs
  <2>. QED  BY <1>1, <1>3, <2>1, ModulusIs
<1>5. CASE d - c >= 1
  <2>1. (d - c) * Q >= Q
    BY <1>1, <1>5, ModulusIs
  <2>. QED  BY <1>1, <1>3, <2>1, ModulusIs
<1>6. CASE c = d
  BY <1>1, <1>2, <1>6, ModulusIs DEF s
<1>. QED  BY <1>1, <1>4, <1>5, <1>6

LEMMA CongIs ==
  ASSUME NEW x \in Int, NEW y \in Int
  PROVE  Cong(x, y) <=> \E c \in Int : x = c * Q + y
<1>1. ASSUME Cong(x, y) PROVE \E c \in Int : x = c * Q + y
  <2> DEFINE c == x \div Q - y \div Q
  <2>1. x \div Q \in Int /\ y \div Q \in Int /\ x = Q * (x \div Q) + (x % Q) /\ y = Q * (y \div Q) + (y % Q)
        /\ x % Q = y % Q /\ x % Q \in Int
    BY <1>1, DivMod, ModulusIs DEF Cong
  <2>2. c * Q = Q * (x \div Q) - Q * (y \div Q) /\ c \in Int
    BY <2>1, ModulusIs
  <2>3. x = c * Q + y
    BY <2>1, <2>2, ModulusIs
  <2>. QED  BY <2>2, <2>3
<1>2. ASSUME NEW c \in Int, x = c * Q + y PROVE Cong(x, y)
  <2> DEFINE d == y \div Q
  <2>1. d \in Int /\ y % Q \in 0 .. Q-1 /\ y = Q * d + (y % Q)
    BY DivMod
  <2>. HIDE DEF d
  <2>2. (c + d) * Q = c * Q + Q * d /\ c + d \in Int
    BY <2>1, ModulusIs
  <2>3. x = (c + d) * Q + (y % Q)
    BY <1>2, <2>1, <2>2, ModulusIs
  <2>4. x % Q = y % Q
    BY <2>1, <2>2, <2>3, ModUnique
  <2>. QED  BY <2>4 DEF Cong
<1>. QED  BY <1>1, <1>2

LEMMA CongRefl == \A x : Cong(x, x)
  BY DEF Cong

LEMMA CongSym == \A x, y : Cong(x, y) => Cong(y, x)
  BY DEF Cong

LEMMA CongTrans == \A x, y, z : Cong(x, y) /\ Cong(y, z) => Cong(x, z)
  BY DEF Cong

LEMMA CongPlus ==
  ASSUME NEW x \in Int, NEW y \in Int, NEW u \in Int, NEW v \in Int, Cong(x, y), Cong(u, v)
  PROVE  Cong(x + u, y + v) /\ Cong(x - u, y - v)
<1>1. PICK c \in Int : x = c * Q + y
  BY CongIs
<1>2. PICK d \in Int : u = d * Q + v
  BY CongIs
<1>3. (c + d) * Q = c * Q + d * Q /\ (c - d) * Q = c * Q - d * Q /\ c + d \in Int /\ c - d \in Int
  BY ModulusIs
<1>4. x + u = (c + d) * Q + (y + v) /\ x - u = (c - d) * Q + (y - v)
  BY <1>1, <1>2, <1>3, ModulusIs
<1>5. x + u \in Int /\ y + v \in Int /\ x - u \in Int /\ y - v \in Int
  OBVIOUS
<1>. QED  BY <1>3, <1>4, <1>5, CongIs

LEMMA CongTimes ==
  ASSUME NEW x \in Int, NEW y \in Int, NEW u \in Int, NEW v \in Int, Cong(x, y), Cong(u, v)
  PROVE  Cong(x * u, y * v)
<1>1. PICK c \in Int : x = c * Q + y
  BY CongIs
<1>2. PICK d \in Int : u = d * Q + v
  BY CongIs
<1> DEFINE e == c * u + d * y
<1>3. e \in Int /\ e * Q = (c * Q) * u + y * (d * Q)
  BY ModulusIs
<1>. HIDE DEF e
<1>4. x * u = (c * Q) * u + y * u /\ y * u = y * (d * Q) + y * v
  BY <1>1, <1>2, ModulusIs
<1>5. x * u \in Int /\ y * v \in Int /\ y * u \in Int /\ (c * Q) * u \in Int /\ y * (d * Q) \in Int
  BY ModulusIs
<1>6. x * u = e * Q + y * v
  BY <1>3, <1>4, <1>5
<1>. QED  BY <1>3, <1>5, <1>6, CongIs

LEMMA CongScale ==
  ASSUME NEW x \in Int, NEW y \in Int, NEW u \in Int, Cong(x, y)
  PROVE  Cong(x * u, y * u) /\ Cong(u * x, u * y)
  BY CongTimes, CongRefl

LEMMA CongMod ==
  ASSUME NEW x \in Int
  PROVE  x % Q \in Int /\ Cong(x % Q, x) /\ Cong(x, x % Q)
<1>1. x % Q \in Int /\ x \div Q \in Int /\ x = (x \div Q) * Q + (x % Q)
  BY DivMod, ModulusIs
<1>2. Cong(x, x % Q)
  BY <1>1, CongIs
<1>. QED  BY <1>1, <1>2, CongSym

LEMMA CongCentred ==
  ASSUME NEW x \in Int
  PROVE  Centred(x) \in Int /\ Cong(Centred(x), x) /\ -Q < Centred(x) /\ Centred(x) < Q
<1> DEFINE r == x % Q
<1>1. r \in Int /\ Cong(r, x) /\ r \in 0 .. Q-1
  BY CongMod, DivMod
<1>2. Centred(x) = IF r > Q \div 2 THEN r - Q ELSE r
  BY DEF Centred
<1>. HIDE DEF r
<1>3. r - Q \in Int /\ r - Q = (-1) * Q + r
  BY <1>1, ModulusIs
<1>4. Cong(r - Q, r)
  BY <1>1, <1>3, CongIs
<1>. QED  BY <1>1, <1>2, <1>3, <1>4, CongTrans, ModulusIs

LEMMA SumCong ==
  ASSUME NEW n \in Nat, NEW f, NEW g,
         \A i \in 0 .. n-1 : f[i] \in Int /\ g[i] \in Int /\ Cong(f[i], g[i])
  PROVE  Cong(Sum(f, n), Sum(g, n))
<1> DEFINE T == {m \in Nat : Cong(Sum(f, m), Sum(g, m))}
<1>1. 0 \in T
  BY SumRec, CongRefl
<1>2. ASSUME NEW m \in 0 .. n-1, m \in T PROVE m + 1 \in T
  <2>1. m \in 0 .. n /\ m \in Nat
    OBVIOUS
  <2>2. Sum(f, m) \in Int /\ Sum(g, m) \in Int
    BY <2>1, SumType
  <2>3. Sum(f, m + 1) = Sum(f, m) + f[m] /\ Sum(g, m + 1) = Sum(g, m) + g[m]
    BY <2>1, SumRec
  <2>4. Cong(Sum(f, m) + f[m], Sum(g, m) + g[m])
    BY <1>2, <2>2, CongPlus
  <2>. QED  BY <2>1, <2>3, <2>4
<1>. HIDE DEF T
<1>3. n \in T
  BY <1>1, <1>2, Upwards
<1>. QED  BY <1>3 DEF T

-----------------------------------------------------------------------------
(***************************************************************************)
(* Powers of the root                                                      *)
(***************************************************************************)

LEMMA Degrees ==
  /\ N \in {4, 16, 64, 256} /\ N \in Nat
  /\ 2 * N \in Nat
BY RowAssumption

PowerUpTo(n, s) == s = [e \in 0 .. n |-> IF e = 0 THEN 1 ELSE (s[e-1] * Root) % Q]

LEMMA PowerExists ==
  ASSUME NEW n \in Nat
  PROVE  \E s : PowerUpTo(n, s)
<1> DEFINE T == {m \in 0 .. n : \E s : PowerUpTo(m, s)}
<1>1. 0 \in T
  <2> DEFINE s == [i \in 0 .. 0 |-> 1]
  <2>1. PowerUpTo(0, s)
    BY DEF PowerUpTo
  <2>. QED  BY <2>1
<1>2. ASSUME NEW m \in 0 .. n-1, m \in T PROVE m + 1 \in T
  <2>1. PICK s : PowerUpTo(m, s)
    BY <1>2
  <2> DEFINE r == [i \in 0 .. m + 1 |-> IF i = m + 1 THEN (s[m] * Root) % Q ELSE s[i]]
  <2>2. s = [i \in 0 .. m |-> IF i = 0 THEN 1 ELSE (s[i-1] * Root) % Q]
    BY <2>1 DEF PowerUpTo
  <2>3. \A i \in 0 .. m : s[i] = IF i = 0 THEN 1 ELSE (s[i-1] * Root) % Q
    BY <2>2
  <2>4. ASSUME NEW i \in 0 .. m + 1
        PROVE  r[i] = IF i = 0 THEN 1 ELSE (r[i-1] * Root) % Q
    <3>1. CASE i = m + 1
      <4>1. r[i] = (s[m] * Root) % Q /\ i - 1 = m /\ m \in 0 .. m + 1 /\ m # m + 1 /\ i # 0
        BY <3>1
      <4>2. r[i-1] = s[m]
        BY <4>1
      <4>. HIDE DEF r
      <4>. QED  BY <4>1, <4>2
    <3>2. CASE i # m + 1 /\ i # 0
      <4>1. i \in 0 .. m /\ i - 1 \in 0 .. m + 1 /\ i - 1 # m + 1
        BY <3>2
      <4>2. r[i] = s[i] /\ r[i-1] = s[i-1]
        BY <3>2, <4>1
      <4>. HIDE DEF r
      <4>. QED  BY <2>3, <3>2, <4>1, <4>2
    <3>3. CASE i = 0
      BY <2>3, <3>3
    <3>. QED  BY <3>1, <3>2, <3>3
  <2>5. r = [i \in 0 .. m + 1 |-> IF i = 0 THEN 1 ELSE (r[i-1] * Root) % Q]
    <3>. HIDE DEF r
    <3>1. r = [i \in 0 .. m + 1 |-> r[i]]
      BY DEF r
    <3>. QED  BY <2>4, <3>1
  <2>6. PowerUpTo(m + 1, r)
    BY <2>5, Zenon DEF PowerUpTo
  <2>. QED  BY <2>6
<1>. HIDE DEF T
<1>3. n \in T
  BY <1>1, <1>2, Upwards
<1>. QED  BY <1>3 DEF T

LEMMA PowerRec ==
  /\ Power[0] = 1
  /\ \A e \in 0 .. 2 * N - 1 : Power[e + 1] = (Power[e] * Root) % Q
  /\ \A e \in 0 .. 2 * N : Power[e] \in Int
<1>1. PowerUpTo(2 * N, Power)
  <2>1. \E s : PowerUpTo(2 * N, s)
    BY Degrees, PowerExists
  <2>. QED  BY <2>1 DEF Power, PowerUpTo
<1>2. \A e \in 0 .. 2 * N : Power[e] = IF e = 0 THEN 1 ELSE (Power[e-1] * Root) % Q
  BY <1>1 DEF PowerUpTo
<1>3. Power[0] = 1
  BY <1>2, Degrees
<1>4. ASSUME NEW e \in 0 .. 2 * N - 1 PROVE Power[e + 1] = (Power[e] * Root) % Q
  <2>1. e + 1 \in 0 .. 2 * N /\ e + 1 # 0 /\ e + 1 - 1 = e
    BY Degrees
  <2>. QED  BY <1>2, <2>1
<1>5. \A e \in 0 .. 2 * N : Power[e] \in Int
  <2> DEFINE T == {e \in Nat : Power[e] \in Int}
  <2>1. 0 \in T
    BY <1>3
  <2>2. ASSUME NEW e \in 0 .. 2 * N - 1, e \in T PROVE e + 1 \in T
    <3>1. Power[e] * Root \in Int
      BY <2>2, RowAssumption
    <3>2. (Power[e] * Root) % Q \in Int
      BY <3>1, CongMod
    <3>. QED  BY <1>4, <3>2
  <2>. HIDE DEF T
  <2>3. \A e \in 0 .. 2 * N : e \in T
    BY <2>1, <2>2, Degrees, Upwards
  <2>. QED  BY <2>3 DEF T
<1>. QED  BY <1>3, <1>4, <1>5

LEMMA PowerPlus ==
  ASSUME NEW d \in Nat, NEW e \in Nat, d + e <= 2 * N
  PROVE  Cong(Power[d + e], Power[d] * Power[e])
<1> DEFINE T == {b \in Nat : Cong(Power[d + b], Power[d] * Power[b])}
<1>0. d \in 0 .. 2 * N /\ Power[d] \in Int
  BY Degrees, PowerRec
<1>1. 0 \in T
  <2>1. Power[d] * 1 = Power[d] /\ d + 0 = d
    BY <1>0
  <2>. QED  BY <2>1, PowerRec, CongRefl
<1>2. ASSUME NEW b \in 0 .. e-1, b \in T PROVE b + 1 \in T
  <2>1. b \in 0 .. 2 * N - 1 /\ d + b \in 0 .. 2 * N - 1 /\ d + (b + 1) = d + b + 1 /\ b \in 0 .. 2 * N /\ d + b \in 0 .. 2 * N
    BY Degrees
  <2>2. Power[b] \in Int /\ Power[d + b] \in Int /\ Root \in Int
    BY <2>1, PowerRec, RowAssumption
  <2>3. Power[b + 1] = (Power[b] * Root) % Q /\ Power[d + (b + 1)] = (Power[d + b] * Root) % Q
    BY <2>1, PowerRec
  <2>4. Cong(Power[d + b], Power[d] * Power[b])
    BY <1>2
  <2>5. Cong(Power[d + b] * Root, (Power[d] * Power[b]) * Root)
    <3>1. Power[d] * Power[b] \in Int
      BY <1>0, <2>2
    <3>. QED  BY <2>2, <2>4, <3>1, CongTimes, CongRefl
  <2>6. /\ Power[d + b] * Root \in Int /\ Power[b] * Root \in Int
        /\ (Power[d] * Power[b]) * Root = Power[d] * (Power[b] * Root)
    BY <1>0, <2>2
  <2>7. Cong(Power[d + (b + 1)], Power[d + b] * Root) /\ Cong(Power[b] * Root, Power[b + 1])
        /\ Power[b + 1] \in Int
    BY <2>3, <2>6, CongMod
  <2>8. Cong(Power[d] * (Power[b] * Root), Power[d] * Power[b + 1])
    BY <1>0, <2>6, <2>7, CongTimes, CongRefl
  <2>9. Cong(Power[d + (b + 1)], Power[d] * Power[b + 1])
    BY <2>5, <2>6, <2>7, <2>8, CongTrans
  <2>. QED  BY <2>1, <2>9
<1>. HIDE DEF T
<1>3. e \in T
  BY <1>1, <1>2, Upwards
<1>. QED  BY <1>3 DEF T

\* The power with exponent e, whatever e: the root has order 2N.
P(e) == Power[e % (2 * N)]

LEMMA MinusOne == Q - 1 \in Int /\ Cong(Q - 1, -1)
<1>1. Q - 1 \in Int /\ -1 \in Int /\ Q - 1 = 1 * Q + (-1)
  BY ModulusIs
<1>. QED  BY <1>1, CongIs

LEMMA PowerFull == Cong(Power[N], -1) /\ Cong(Power[2 * N], 1) /\ Power[N] \in Int /\ Power[2 * N] \in Int
<1>1. Power[N] = Q - 1
  BY RowAssumption
<1>2. Cong(Power[N], -1)
  BY <1>1, MinusOne
<1>3. N + N = 2 * N /\ N + N <= 2 * N /\ N \in 0 .. 2 * N /\ 2 * N \in 0 .. 2 * N
  BY Degrees
<1>4. Power[N] \in Int /\ Power[2 * N] \in Int
  BY <1>3, PowerRec
<1>5. Cong(Power[2 * N], Power[N] * Power[N])
  BY <1>3, Degrees, PowerPlus
<1>6. Cong(Power[N] * Power[N], (-1) * (-1))
  BY <1>2, <1>4, CongTimes
<1>7. (-1) * (-1) = 1
  OBVIOUS
<1>. QED  BY <1>2, <1>4, <1>5, <1>6, <1>7, CongTrans

LEMMA PType == \A e \in Nat : P(e) \in Int
<1> SUFFICES ASSUME NEW e \in Nat PROVE P(e) \in Int
  OBVIOUS
<1> DEFINE r == e % (2 * N)
<1>1. r \in 0 .. 2 * N
  BY Degrees
<1>2. P(e) = Power[r]
  BY DEF P
<1>. HIDE DEF r
<1>. QED  BY <1>1, <1>2, PowerRec, Zenon

LEMMA PPlus ==
  ASSUME NEW d \in Nat, NEW e \in Nat
  PROVE  Cong(P(d + e), P(d) * P(e))
<1> DEFINE x == d % (2 * N)
           y == e % (2 * N)
<1>1. /\ x \in Nat /\ y \in Nat /\ x < 2 * N /\ y < 2 * N
      /\ (d + e) % (2 * N) = IF x + y < 2 * N THEN x + y ELSE x + y - 2 * N
  <2>1. CASE N = 4
    BY <2>1
  <2>2. CASE N = 16
    BY <2>2
  <2>3. CASE N = 64
    BY <2>3
  <2>4. CASE N = 256
    BY <2>4
  <2>. QED  BY <2>1, <2>2, <2>3, <2>4, Degrees
<1>2. P(d) = Power[x] /\ P(e) = Power[y]
  BY DEF P
<1>3. CASE x + y < 2 * N
  <2>1. P(d + e) = Power[x + y]
    BY <1>1, <1>3 DEF P
  <2>. HIDE DEF x, y
  <2>2. Cong(Power[x + y], Power[x] * Power[y])
    BY <1>1, <1>3, Degrees, PowerPlus
  <2>. QED  BY <1>2, <2>1, <2>2
<1>4. CASE x + y >= 2 * N
  <2> DEFINE z == x + y - 2 * N
             v == 2 * N - y
  <2>1. P(d + e) = Power[z]
    BY <1>1, <1>4, Degrees DEF P
  <2>. HIDE DEF x, y
  <2>2. z \in Nat /\ v \in Nat /\ z + v = x /\ v + y = 2 * N /\ z + v <= 2 * N /\ v + y <= 2 * N
        /\ z \in 0 .. 2 * N /\ v \in 0 .. 2 * N /\ x \in 0 .. 2 * N /\ y \in 0 .. 2 * N
    BY <1>1, <1>4, Degrees
  <2>. HIDE DEF z, v
  <2>3. Power[z] \in Int /\ Power[v] \in Int /\ Power[x] \in Int /\ Power[y] \in Int
    BY <2>2, PowerRec
  <2>4. Cong(Power[x], Power[z] * Power[v]) /\ Cong(Power[2 * N], Power[v] * Power[y])
    BY <1>1, <2>2, PowerPlus
  <2>5. Cong(Power[v] * Power[y], 1)
    BY <2>4, PowerFull, CongSym, CongTrans
  <2>6. /\ Power[z] * Power[v] \in Int /\ Power[v] * Power[y] \in Int
        /\ (Power[z] * Power[v]) * Power[y] = Power[z] * (Power[v] * Power[y])
        /\ Power[z] * 1 = Power[z] /\ Power[x] * Power[y] \in Int
    BY <2>3
  <2>7. Cong(Power[x] * Power[y], (Power[z] * Power[v]) * Power[y])
    BY <2>3, <2>4, <2>6, CongTimes, CongRefl
  <2>8. Cong(Power[z] * (Power[v] * Power[y]), Power[z] * 1)
    <3>1. 1 \in Int
      OBVIOUS
    <3>. QED  BY <2>3, <2>5, <2>6, <3>1, CongScale, Zenon
  <2>9. Cong(Power[x] * Power[y], Power[z])
    BY <2>6, <2>7, <2>8, CongTrans
  <2>10. Cong(Power[z], Power[x] * Power[y])
    BY <2>9, CongSym
  <2>. QED  BY <1>2, <2>1, <2>10, Zenon
<1>. QED  BY <1>1, <1>3, <1>4, Degrees

\* Half a turn changes the sign, a whole one nothing.
LEMMA PHalfTurn ==
  ASSUME NEW e \in Nat
  PROVE  Cong(P(e + N), -P(e))
<1>1. N % (2 * N) = N
  BY Degrees
<1>2. P(N) = Power[N] /\ P(N) \in Int /\ P(e) \in Int /\ Cong(P(N), -1)
  BY <1>1, PowerFull, PType DEF P
<1>3. Cong(P(e + N), P(e) * P(N))
  BY Degrees, PPlus
<1>4. Cong(P(e) * P(N), P(e) * (-1))
  <2>1. -1 \in Int
    OBVIOUS
  <2>. QED  BY <1>2, <2>1, CongScale, Zenon
<1>5. P(e) * (-1) = -P(e)
  BY <1>2
<1>. QED  BY <1>3, <1>4, <1>5, CongTrans

LEMMA PTurns ==
  ASSUME NEW e \in Nat, NEW c \in Nat
  PROVE  P(e + 2 * N * c) = P(e)
<1>1. (e + 2 * N * c) % (2 * N) = e % (2 * N)
  <2>1. CASE N = 4
    BY <2>1
  <2>2. CASE N = 16
    BY <2>2
  <2>3. CASE N = 64
    BY <2>3
  <2>4. CASE N = 256
    BY <2>4
  <2>. QED  BY <2>1, <2>2, <2>3, <2>4, Degrees
<1>. QED  BY <1>1 DEF P

-----------------------------------------------------------------------------
(***************************************************************************)
(* The order of the table                                                  *)
(***************************************************************************)

ReversalUpTo(n, s) ==
  s = [k \in 0 .. n |-> IF k = 0 THEN 0
                        ELSE s[k \div 2] \div 2 + IF k % 2 = 1 THEN N \div 2 ELSE 0]

LEMMA ReversalExists ==
  ASSUME NEW n \in Nat
  PROVE  \E s : ReversalUpTo(n, s)
<1> DEFINE T == {m \in 0 .. n : \E s : ReversalUpTo(m, s)}
<1>1. 0 \in T
  <2> DEFINE s == [i \in 0 .. 0 |-> 0]
  <2>1. ReversalUpTo(0, s)
    BY DEF ReversalUpTo
  <2>. QED  BY <2>1
<1>2. ASSUME NEW m \in 0 .. n-1, m \in T PROVE m + 1 \in T
  <2>1. PICK s : ReversalUpTo(m, s)
    BY <1>2
  <2> DEFINE next == s[(m + 1) \div 2] \div 2 + IF (m + 1) % 2 = 1 THEN N \div 2 ELSE 0
             r == [i \in 0 .. m + 1 |-> IF i = m + 1 THEN next ELSE s[i]]
  <2>2. s = [k \in 0 .. m |-> IF k = 0 THEN 0
                              ELSE s[k \div 2] \div 2 + IF k % 2 = 1 THEN N \div 2 ELSE 0]
    BY <2>1 DEF ReversalUpTo
  <2>3. \A i \in 0 .. m : s[i] = IF i = 0 THEN 0 ELSE s[i \div 2] \div 2 + IF i % 2 = 1 THEN N \div 2 ELSE 0
    BY <2>2
  <2>4. ASSUME NEW i \in 0 .. m + 1
        PROVE  r[i] = IF i = 0 THEN 0 ELSE r[i \div 2] \div 2 + IF i % 2 = 1 THEN N \div 2 ELSE 0
    <3>1. CASE i = m + 1
      <4>1. i \div 2 \in 0 .. m + 1 /\ i \div 2 # m + 1 /\ i # 0
        BY <3>1
      <4>2. r[i] = next /\ r[i \div 2] = s[i \div 2]
        BY <3>1, <4>1
      <4>. HIDE DEF r
      <4>. QED  BY <3>1, <4>1, <4>2
    <3>2. CASE i # m + 1 /\ i # 0
      <4>1. i \in 0 .. m /\ i \div 2 \in 0 .. m + 1 /\ i \div 2 # m + 1
        BY <3>2
      <4>2. r[i] = s[i] /\ r[i \div 2] = s[i \div 2]
        BY <3>2, <4>1
      <4>. HIDE DEF r
      <4>. QED  BY <2>3, <3>2, <4>1, <4>2
    <3>3. CASE i = 0
      BY <2>3, <3>3
    <3>. QED  BY <3>1, <3>2, <3>3
  <2>5. r = [i \in 0 .. m + 1 |-> IF i = 0 THEN 0
                                  ELSE r[i \div 2] \div 2 + IF i % 2 = 1 THEN N \div 2 ELSE 0]
    <3>. HIDE DEF r
    <3>1. r = [i \in 0 .. m + 1 |-> r[i]]
      BY DEF r
    <3>. QED  BY <2>4, <3>1
  <2>6. ReversalUpTo(m + 1, r)
    BY <2>5, Zenon DEF ReversalUpTo
  <2>. QED  BY <2>6
<1>. HIDE DEF T
<1>3. n \in T
  BY <1>1, <1>2, Upwards
<1>. QED  BY <1>3 DEF T

LEMMA ReversalIs ==
  \A k \in Index : Reversal[k] = IF k = 0 THEN 0
                                 ELSE Reversal[k \div 2] \div 2 + IF k % 2 = 1 THEN N \div 2 ELSE 0
<1>1. ReversalUpTo(N - 1, Reversal)
  <2>1. N - 1 \in Nat
    BY Degrees
  <2>2. \E s : ReversalUpTo(N - 1, s)
    BY <2>1, ReversalExists
  <2>. QED  BY <2>2 DEF Reversal, ReversalUpTo
<1>. QED  BY <1>1 DEF ReversalUpTo, Index

LEMMA ReversalRange == \A k \in Index : Reversal[k] \in Index
<1> DEFINE T == {m \in 0 .. N-1 : \A k \in 0 .. m : Reversal[k] \in Index}
<1>1. 0 \in T
  BY ReversalIs, Degrees DEF Index
<1>2. ASSUME NEW m \in 0 .. N-1-1, m \in T PROVE m + 1 \in T
  <2>1. m + 1 \in Index /\ m + 1 # 0 /\ (m + 1) \div 2 \in 0 .. m
    BY Degrees DEF Index
  <2>2. Reversal[(m + 1) \div 2] \in 0 .. N-1
    BY <1>2, <2>1 DEF Index
  <2>3. Reversal[m + 1] = Reversal[(m + 1) \div 2] \div 2 + IF (m + 1) % 2 = 1 THEN N \div 2 ELSE 0
    BY <2>1, ReversalIs
  <2>4. Reversal[m + 1] \in 0 .. N-1
    BY <2>2, <2>3, Degrees
  <2>5. \A k \in 0 .. m + 1 : k \in 0 .. m \/ k = m + 1
    OBVIOUS
  <2>. QED  BY <1>2, <2>1, <2>4, <2>5 DEF Index
<1>. HIDE DEF T
<1>3. N - 1 \in T
  <2>1. N - 1 \in Nat
    BY Degrees
  <2>. QED  BY <1>1, <1>2, <2>1, Upwards
<1>. QED  BY <1>3 DEF T, Index

\* One level of the tree of blocks: t nodes, from t on, whose exponents are
\* u apart from those above; N = 2tu.
Level(t, u) ==
  /\ \A k \in Index : k < t => \E m \in Nat : Reversal[k] = 2 * u * m
  /\ \A k \in Index : k < t => Reversal[t + k] = Reversal[k] + u
  /\ \A k, l \in Index : t <= k /\ k < 2 * t /\ t <= l /\ l < 2 * t /\ k + l = 3 * t - 1 =>
       Reversal[k] + Reversal[l] = N

LEMMA LevelFirst == Level(1, N \div 2)
<1>1. 0 \in Index /\ 1 \in Index /\ 1 \div 2 = 0 /\ 1 % 2 = 1
  BY Degrees DEF Index
<1>2. Reversal[0] = 0
  BY <1>1, ReversalIs
<1>3. Reversal[1] = N \div 2
  <2>1. Reversal[1] = 0 \div 2 + N \div 2
    BY <1>1, <1>2, ReversalIs
  <2>. QED  BY <2>1, Degrees
<1>4. ASSUME NEW k \in Index, k < 1
      PROVE  (\E m \in Nat : Reversal[k] = 2 * (N \div 2) * m) /\ Reversal[1 + k] = Reversal[k] + N \div 2
  <2>1. k = 0 /\ 1 + k = 1
    BY <1>4 DEF Index
  <2>2. Reversal[k] = 2 * (N \div 2) * 0
    BY <1>2, <2>1, Degrees
  <2>. QED  BY <1>2, <1>3, <2>1, <2>2, Degrees
<1>5. ASSUME NEW k \in Index, NEW l \in Index, 1 <= k, k < 2 * 1, 1 <= l, l < 2 * 1
      PROVE  Reversal[k] + Reversal[l] = N
  <2>1. k = 1 /\ l = 1
    BY <1>5 DEF Index
  <2>. QED  BY <1>3, <2>1, Degrees
<1>. QED  BY <1>4, <1>5 DEF Level

\* What Level says of a node's exponent and that of its parent.
LEMMA LevelHalves ==
  ASSUME NEW t \in Nat, NEW u \in Nat, t > 0, Level(t, 2 * u), 2 * t <= N,
         NEW k \in Index, k \div 2 < 2 * t
  PROVE  2 * Reversal[k] = Reversal[k \div 2] + N * (k % 2)
<1> DEFINE h == k \div 2
<1>1. h \in Index /\ k \in Nat /\ h \in Nat /\ h < 2 * t /\ h = k \div 2
  BY Degrees DEF Index
<1>2. Reversal[k] \in Nat /\ Reversal[h] \in Nat
  BY <1>1, ReversalRange DEF Index
<1>3. Reversal[h] % 2 = 0
  <2>1. CASE h < t
    <3>1. PICK m \in Nat : Reversal[h] = 2 * (2 * u) * m
      BY <1>1, <2>1 DEF Level
    <3>2. 2 * (2 * u) * m = 2 * (2 * u * m) /\ 2 * u * m \in Nat
      OBVIOUS
    <3>. QED  BY <3>1, <3>2
  <2>2. CASE t <= h
    <3>. HIDE DEF h
    <3>1. h - t \in Index /\ h - t < t /\ t + (h - t) = h
      BY <1>1, <2>2, Degrees DEF Index
    <3>2. PICK m \in Nat : Reversal[h - t] = 2 * (2 * u) * m
      BY <3>1 DEF Level
    <3>3. Reversal[h] = Reversal[h - t] + 2 * u
      BY <3>1 DEF Level
    <3>4. 2 * (2 * u) * m + 2 * u = 2 * (2 * u * m + u) /\ 2 * u * m + u \in Nat
      OBVIOUS
    <3>. QED  BY <3>2, <3>3, <3>4
  <2>. QED  BY <1>1, <2>1, <2>2
<1>4. CASE k = 0
  <2>1. Reversal[0] = 0 /\ 0 \div 2 = 0 /\ 0 % 2 = 0
    BY <1>4, ReversalIs
  <2>. QED  BY <1>4, <2>1, Degrees
<1>5. CASE k # 0
  <2>1. Reversal[k] = Reversal[h] \div 2 + IF k % 2 = 1 THEN N \div 2 ELSE 0
    BY <1>5, ReversalIs
  <2>. HIDE DEF h
  <2>2. k % 2 = 0 \/ k % 2 = 1
    BY <1>1
  <2>. QED  BY <1>2, <1>3, <2>1, <2>2, Degrees DEF h
<1>. QED  BY <1>4, <1>5

LEMMA LevelNext ==
  ASSUME NEW t \in Nat, NEW u \in Nat, t > 0, 4 * t * u = N, Level(t, 2 * u)
  PROVE  Level(2 * t, u)
<1>1. 2 * t \in Nat /\ 4 * t <= N /\ 2 * t <= N
  <2>1. u >= 1
    BY Degrees
  <2>2. 4 * t \in Nat /\ (4 * t) * u >= 4 * t
    BY <2>1
  <2>. QED  BY <2>2, Degrees
<1>2. ASSUME NEW k \in Index, k < 2 * t
      PROVE  \E m \in Nat : Reversal[k] = 2 * u * m
  <2>1. k \div 2 \in Index /\ k \div 2 < t /\ k \div 2 < 2 * t
    BY <1>1, <1>2, Degrees DEF Index
  <2>2. PICK m \in Nat : Reversal[k \div 2] = 2 * (2 * u) * m
    BY <2>1 DEF Level
  <2>3. 2 * Reversal[k] = Reversal[k \div 2] + N * (k % 2)
    BY <1>1, <2>1, LevelHalves
  <2>4. Reversal[k] \in Nat
    BY ReversalRange DEF Index
  <2>5. CASE k % 2 = 0
    <3>1. Reversal[k] = 2 * u * m
      BY <2>2, <2>3, <2>4, <2>5, Degrees
    <3>. QED  BY <3>1
  <2>6. CASE k % 2 = 1
    <3>1. Reversal[k] = 2 * u * m + 2 * t * u
      BY <2>2, <2>3, <2>4, <2>6, Degrees
    <3>2. 2 * u * m + 2 * t * u = 2 * u * (m + t) /\ m + t \in Nat
      OBVIOUS
    <3>. QED  BY <3>1, <3>2
  <2>7. k % 2 = 0 \/ k % 2 = 1
    BY DEF Index
  <2>. QED  BY <2>5, <2>6, <2>7
<1>3. ASSUME NEW k \in Index, k < 2 * t
      PROVE  Reversal[2 * t + k] = Reversal[k] + u
  <2> DEFINE l == 2 * t + k
  <2>1. /\ l \in Index /\ l \div 2 = t + k \div 2 /\ l % 2 = k % 2 /\ l \div 2 < 2 * t
        /\ k \div 2 \in Index /\ k \div 2 < t /\ k \div 2 < 2 * t /\ k % 2 \in Nat
    BY <1>1, <1>3, Degrees DEF Index
  <2>. HIDE DEF l
  <2>2. 2 * Reversal[k] = Reversal[k \div 2] + N * (k % 2) /\ 2 * Reversal[l] = Reversal[l \div 2] + N * (l % 2)
    BY <1>1, <2>1, LevelHalves
  <2>3. Reversal[t + k \div 2] = Reversal[k \div 2] + 2 * u
    BY <2>1 DEF Level
  <2>4. Reversal[k] \in Nat /\ Reversal[l] \in Nat /\ Reversal[k \div 2] \in Nat /\ N * (k % 2) \in Nat
    BY <2>1, ReversalRange, Degrees DEF Index
  <2>5. Reversal[l \div 2] = Reversal[k \div 2] + 2 * u /\ N * (l % 2) = N * (k % 2)
    BY <2>1, <2>3, Zenon
  <2>6. Reversal[l] = Reversal[k] + u
    <3> DEFINE x == N * (k % 2)
               y == N * (l % 2)
               p == Reversal[k \div 2]
               q == Reversal[l \div 2]
               e == Reversal[k]
               f == Reversal[l]
    <3>1. x \in Nat /\ y = x /\ q = p + 2 * u /\ p \in Nat /\ e \in Nat /\ f \in Nat
      BY <2>4, <2>5
    <3>2. 2 * e = p + x /\ 2 * f = q + y
      BY <2>2
    <3>. HIDE DEF x, y, p, q, e, f
    <3>3. f = e + u
      BY <3>1, <3>2
    <3>. QED  BY <3>3 DEF e, f
  <2>. QED  BY <2>6 DEF l
<1>4. ASSUME NEW k \in Index, NEW l \in Index, 2 * t <= k, k < 2 * (2 * t), 2 * t <= l, l < 2 * (2 * t),
             k + l = 3 * (2 * t) - 1
      PROVE  Reversal[k] + Reversal[l] = N
  <2>1. /\ k \in Nat /\ l \in Nat /\ k \div 2 \in Index /\ l \div 2 \in Index
        /\ t <= k \div 2 /\ k \div 2 < 2 * t /\ t <= l \div 2 /\ l \div 2 < 2 * t
        /\ k \div 2 + l \div 2 = 3 * t - 1
        /\ (k % 2 = 0 /\ l % 2 = 1) \/ (k % 2 = 1 /\ l % 2 = 0)
    BY <1>4, Degrees DEF Index
  <2>2. 2 * Reversal[k] = Reversal[k \div 2] + N * (k % 2) /\ 2 * Reversal[l] = Reversal[l \div 2] + N * (l % 2)
    BY <1>1, <2>1, LevelHalves
  <2>3. Reversal[k \div 2] + Reversal[l \div 2] = N
    BY <2>1 DEF Level
  <2>4. Reversal[k] \in Nat /\ Reversal[l] \in Nat /\ Reversal[k \div 2] \in Nat /\ Reversal[l \div 2] \in Nat
    BY <2>1, ReversalRange DEF Index
  <2>. QED  BY <2>1, <2>2, <2>3, <2>4, Degrees
<1>. QED  BY <1>2, <1>3, <1>4 DEF Level

LEMMA Levels ==
  /\ N = 4 => Level(1, 2) /\ Level(2, 1)
  /\ N = 16 => Level(1, 8) /\ Level(2, 4) /\ Level(4, 2) /\ Level(8, 1)
  /\ N = 64 => Level(1, 32) /\ Level(2, 16) /\ Level(4, 8) /\ Level(8, 4) /\ Level(16, 2) /\ Level(32, 1)
  /\ N = 256 => /\ Level(1, 128) /\ Level(2, 64) /\ Level(4, 32) /\ Level(8, 16)
                /\ Level(16, 8) /\ Level(32, 4) /\ Level(64, 2) /\ Level(128, 1)
<1>1. CASE N = 4
  <2>1. Level(1, 2)
    BY <1>1, LevelFirst
  <2>2. Level(2 * 1, 1)
    BY <1>1, <2>1, LevelNext
  <2>. QED  BY <1>1, <2>1, <2>2
<1>2. CASE N = 16
  <2>1. Level(1, 8)
    BY <1>2, LevelFirst
  <2>2. Level(2 * 1, 4)
    BY <1>2, <2>1, LevelNext
  <2>3. Level(2 * 2, 2)
    BY <1>2, <2>2, LevelNext
  <2>4. Level(2 * 4, 1)
    BY <1>2, <2>3, LevelNext
  <2>. QED  BY <1>2, <2>1, <2>2, <2>3, <2>4
<1>3. CASE N = 64
  <2>1. Level(1, 32)
    BY <1>3, LevelFirst
  <2>2. Level(2 * 1, 16)
    BY <1>3, <2>1, LevelNext
  <2>3. Level(2 * 2, 8)
    BY <1>3, <2>2, LevelNext
  <2>4. Level(2 * 4, 4)
    BY <1>3, <2>3, LevelNext
  <2>5. Level(2 * 8, 2)
    BY <1>3, <2>4, LevelNext
  <2>6. Level(2 * 16, 1)
    BY <1>3, <2>5, LevelNext
  <2>. QED  BY <1>3, <2>1, <2>2, <2>3, <2>4, <2>5, <2>6
<1>4. CASE N = 256
  <2>1. Level(1, 128)
    BY <1>4, LevelFirst
  <2>2. Level(2 * 1, 64)
    BY <1>4, <2>1, LevelNext
  <2>3. Level(2 * 2, 32)
    BY <1>4, <2>2, LevelNext
  <2>4. Level(2 * 4, 16)
    BY <1>4, <2>3, LevelNext
  <2>5. Level(2 * 8, 8)
    BY <1>4, <2>4, LevelNext
  <2>6. Level(2 * 16, 4)
    BY <1>4, <2>5, LevelNext
  <2>7. Level(2 * 32, 2)
    BY <1>4, <2>6, LevelNext
  <2>8. Level(2 * 64, 1)
    BY <1>4, <2>7, LevelNext
  <2>. QED  BY <1>4, <2>1, <2>2, <2>3, <2>4, <2>5, <2>6, <2>7, <2>8
<1>. QED  BY <1>1, <1>2, <1>3, <1>4, Degrees

\* The exponent of a node is half that of its parent, or half a turn more.
LEMMA ReversalHalves == \A k \in Index : 2 * Reversal[k] = Reversal[k \div 2] + N * (k % 2)
<1> SUFFICES ASSUME NEW k \in Index PROVE 2 * Reversal[k] = Reversal[k \div 2] + N * (k % 2)
  OBVIOUS
<1>1. CASE N = 4
  <2>1. Level(1, 2 * 1) /\ 2 * 1 <= N /\ k \div 2 < 2 * 1
    BY <1>1, Levels DEF Index
  <2>. QED  BY <2>1, LevelHalves
<1>2. CASE N = 16
  <2>1. Level(4, 2 * 1) /\ 2 * 4 <= N /\ k \div 2 < 2 * 4
    BY <1>2, Levels DEF Index
  <2>. QED  BY <2>1, LevelHalves
<1>3. CASE N = 64
  <2>1. Level(16, 2 * 1) /\ 2 * 16 <= N /\ k \div 2 < 2 * 16
    BY <1>3, Levels DEF Index
  <2>. QED  BY <2>1, LevelHalves
<1>4. CASE N = 256
  <2>1. Level(64, 2 * 1) /\ 2 * 64 <= N /\ k \div 2 < 2 * 64
    BY <1>4, Levels DEF Index
  <2>. QED  BY <2>1, LevelHalves
<1>. QED  BY <1>1, <1>2, <1>3, <1>4, Degrees

LEMMA ReversalTop == \A k \in Index : k < N \div 2 => Reversal[N \div 2 + k] = Reversal[k] + 1
<1>1. Level(N \div 2, 1)
  BY Levels, Degrees
<1>. QED  BY <1>1 DEF Level

Distances == {1, 4, 16, 64}

\* The node of a block of 4h coefficients, and its mirror image: the entries
\* ntt and invntt use for it and for its two halves.
NodeOf(h, b) == N \div (4 * h) + b
MirrorOf(h, b) == N \div (2 * h) - 1 - b

LEMMA Mirrored ==
  ASSUME NEW h \in Distances, 4 * h <= N, NEW b \in 0 .. N \div (4 * h) - 1
  PROVE  LET k == NodeOf(h, b)
             l == MirrorOf(h, b)
         IN  /\ k \in Index /\ 2 * k \in Index /\ 2 * k + 1 \in Index
             /\ l \in Index /\ 2 * l \in Index /\ 2 * l + 1 \in Index
             /\ Reversal[k] + Reversal[l] = N
             /\ Reversal[2 * k] + Reversal[2 * l + 1] = N
             /\ Reversal[2 * k + 1] + Reversal[2 * l] = N
<1> DEFINE k == NodeOf(h, b)
           l == MirrorOf(h, b)
           t == N \div (4 * h)
<1>1. /\ k \in Index /\ 2 * k \in Index /\ 2 * k + 1 \in Index
      /\ l \in Index /\ 2 * l \in Index /\ 2 * l + 1 \in Index
      /\ t <= k /\ k < 2 * t /\ t <= l /\ l < 2 * t /\ k + l = 3 * t - 1
      /\ t \in Nat
  BY Degrees DEF Distances, Index, NodeOf, MirrorOf
<1>2. \E u \in Nat : Level(t, 2 * u) /\ Level(2 * t, u)
  <2>1. CASE N = 4
    BY <2>1, Levels DEF Distances
  <2>2. CASE N = 16
    BY <2>2, Levels DEF Distances
  <2>3. CASE N = 64
    BY <2>3, Levels DEF Distances
  <2>4. CASE N = 256
    BY <2>4, Levels DEF Distances
  <2>. QED  BY <2>1, <2>2, <2>3, <2>4, Degrees
<1>3. PICK u \in Nat : Level(t, 2 * u) /\ Level(2 * t, u)
  BY <1>2
<1>. HIDE DEF k, l, t
<1>4. Reversal[k] + Reversal[l] = N
  BY <1>1, <1>3 DEF Level
<1>5. /\ 2 * t <= 2 * k /\ 2 * k < 2 * (2 * t) /\ 2 * t <= 2 * l + 1 /\ 2 * l + 1 < 2 * (2 * t)
      /\ 2 * k + (2 * l + 1) = 3 * (2 * t) - 1
      /\ 2 * t <= 2 * k + 1 /\ 2 * k + 1 < 2 * (2 * t) /\ 2 * t <= 2 * l /\ 2 * l < 2 * (2 * t)
      /\ (2 * k + 1) + 2 * l = 3 * (2 * t) - 1
  BY <1>1 DEF Index
<1>6. Reversal[2 * k] + Reversal[2 * l + 1] = N
  BY <1>1, <1>3, <1>5 DEF Level
<1>7. Reversal[2 * k + 1] + Reversal[2 * l] = N
  BY <1>1, <1>3, <1>5 DEF Level
<1>. QED  BY <1>1, <1>4, <1>6, <1>7 DEF k, l

\* The exponent of point k, s coefficients further on.
Node(s) ==
  \A k \in Index : \E c \in Nat :
    Point(k) * s = Reversal[N \div (2 * s) + k \div (2 * s)] + N * ((k \div s) % 2) + 2 * N * c

LEMMA NodeFirst == Node(1)
<1> SUFFICES ASSUME NEW k \in Index
             PROVE  \E c \in Nat : Point(k) * 1 = Reversal[N \div (2 * 1) + k \div (2 * 1)] + N * ((k \div 1) % 2) + 2 * N * c
  BY DEF Node
<1>1. k \div 2 \in Index /\ k \div 2 < N \div 2 /\ k \div 1 = k /\ N * (k % 2) \in Nat
  BY Degrees DEF Index
<1>2. Reversal[N \div 2 + k \div 2] = Reversal[k \div 2] + 1
  BY <1>1, ReversalTop
<1>3. 2 * Reversal[k] = Reversal[k \div 2] + N * (k % 2)
  BY ReversalHalves
<1>4. Reversal[k] \in Nat /\ Reversal[k \div 2] \in Nat
  BY <1>1, ReversalRange DEF Index
<1>5. Point(k) * 1 = Reversal[N \div 2 + k \div 2] + N * (k % 2)
  BY <1>1, <1>2, <1>3, <1>4 DEF Point
<1>6. 2 * N * 0 = 0 /\ Reversal[N \div 2 + k \div 2] + N * (k % 2) \in Nat
  BY <1>1, <1>2, <1>4, Degrees
<1>. QED  BY <1>1, <1>5, <1>6

LEMMA NodeNext ==
  ASSUME NEW s \in {1, 2, 4, 8, 16, 32, 64}, 4 * s <= N, Node(s)
  PROVE  Node(2 * s)
<1> SUFFICES ASSUME NEW k \in Index
             PROVE  \E c \in Nat : Point(k) * (2 * s) = Reversal[N \div (2 * (2 * s)) + k \div (2 * (2 * s))]
                                                        + N * ((k \div (2 * s)) % 2) + 2 * N * c
  BY DEF Node
<1> DEFINE n == N \div (2 * s) + k \div (2 * s)
           b == (k \div s) % 2
           e == (k \div (2 * s)) % 2
<1>1. /\ n \in Index /\ n \div 2 = N \div (2 * (2 * s)) + k \div (2 * (2 * s)) /\ n % 2 = e
      /\ b \in Nat /\ e \in Nat /\ n \div 2 \in Index
  <2>1. CASE N = 4
    BY <2>1 DEF Index
  <2>2. CASE N = 16
    BY <2>2 DEF Index
  <2>3. CASE N = 64
    BY <2>3 DEF Index
  <2>4. CASE N = 256
    <3>1. CASE s = 1
      BY <2>4, <3>1 DEF Index
    <3>2. CASE s = 2
      BY <2>4, <3>2 DEF Index
    <3>3. CASE s = 4
      BY <2>4, <3>3 DEF Index
    <3>4. CASE s = 8
      BY <2>4, <3>4 DEF Index
    <3>5. CASE s = 16
      BY <2>4, <3>5 DEF Index
    <3>6. CASE s = 32
      BY <2>4, <3>6 DEF Index
    <3>7. CASE s = 64
      BY <2>4, <3>7 DEF Index
    <3>. QED  BY <3>1, <3>2, <3>3, <3>4, <3>5, <3>6, <3>7
  <2>. QED  BY <2>1, <2>2, <2>3, <2>4, Degrees
<1>2. PICK c \in Nat : Point(k) * s = Reversal[n] + N * b + 2 * N * c
  BY DEF Node
<1>. HIDE DEF n, b
<1>3. 2 * Reversal[n] = Reversal[n \div 2] + N * e
  BY <1>1, ReversalHalves
<1>4. Reversal[n] \in Nat /\ Reversal[n \div 2] \in Nat
  BY <1>1, ReversalRange DEF Index
<1>. HIDE DEF e
<1>5. Point(k) * (2 * s) = 2 * (Point(k) * s) /\ Point(k) \in Nat
  <2>1. Point(k) \in Nat
    BY ReversalRange DEF Point, Index
  <2>. QED  BY <2>1
<1> DEFINE d == b + 2 * c
<1>6. 2 * (N * b) + 2 * (2 * N * c) = 2 * N * d /\ d \in Nat /\ N * b \in Nat /\ 2 * N * c \in Nat /\ N * e \in Nat
  BY <1>1, Degrees
<1>. HIDE DEF d
<1>7. Point(k) * (2 * s) = Reversal[n \div 2] + N * e + 2 * N * d
  BY <1>2, <1>3, <1>4, <1>5, <1>6
<1>. QED  BY <1>1, <1>6, <1>7 DEF e

LEMMA Nodes ==
  ASSUME NEW h \in Distances, 4 * h <= N
  PROVE  Node(h) /\ Node(2 * h)
<1>1. Node(1) /\ Node(2)
  <2>1. Node(2 * 1)
    BY NodeFirst, NodeNext, Degrees
  <2>. QED  BY <2>1, NodeFirst
<1>2. ASSUME 16 <= N PROVE Node(4) /\ Node(8)
  <2>1. Node(2 * 2)
    BY <1>1, <1>2, NodeNext, Degrees
  <2>2. Node(2 * 4)
    BY <1>2, <2>1, NodeNext, Degrees
  <2>. QED  BY <2>1, <2>2
<1>3. ASSUME 64 <= N PROVE Node(16) /\ Node(32)
  <2>1. Node(2 * 8)
    BY <1>2, <1>3, NodeNext, Degrees
  <2>2. Node(2 * 16)
    BY <1>3, <2>1, NodeNext, Degrees
  <2>. QED  BY <2>1, <2>2
<1>4. ASSUME 256 <= N PROVE Node(64) /\ Node(128)
  <2>1. Node(2 * 32)
    BY <1>3, <1>4, NodeNext, Degrees
  <2>2. Node(2 * 64)
    BY <1>4, <2>1, NodeNext, Degrees
  <2>. QED  BY <2>1, <2>2
<1>5. CASE h = 1
  BY <1>1, <1>5
<1>6. CASE h = 4
  BY <1>2, <1>6
<1>7. CASE h = 16
  BY <1>3, <1>7
<1>8. CASE h = 64
  BY <1>4, <1>8
<1>. QED  BY <1>5, <1>6, <1>7, <1>8 DEF Distances

-----------------------------------------------------------------------------
(***************************************************************************)
(* Products                                                                *)
(***************************************************************************)

LEMMA CongNeg ==
  ASSUME NEW x \in Int, NEW y \in Int, Cong(x, y)
  PROVE  Cong(-x, -y)
<1>1. Cong(0 - x, 0 - y)
  <2>1. 0 \in Int
    OBVIOUS
  <2>. QED  BY <2>1, CongRefl, CongPlus, Zenon
<1>2. 0 - x = -x /\ 0 - y = -y
  OBVIOUS
<1>. QED  BY <1>1, <1>2

\* The twiddle of entry k of the table.
Zeta(k) == P(Reversal[k])

LEMMA ZetaIs ==
  ASSUME NEW k \in Index
  PROVE  Zeta(k) \in Int /\ Power[Reversal[k]] = Zeta(k)
<1>1. Reversal[k] \in Nat /\ Reversal[k] % (2 * N) = Reversal[k]
  BY ReversalRange, Degrees DEF Index
<1>. QED  BY <1>1, PType DEF Zeta, P

LEMMA TwiddleIs ==
  ASSUME NEW k \in Index, NEW x \in Int
  PROVE  /\ TwiddleQ(k, x) \in Int /\ Cong(TwiddleQ(k, x), Zeta(k) * x)
         /\ UntwiddleQ(k, x) \in Int /\ Cong(UntwiddleQ(k, x), -(Zeta(k) * x))
<1> DEFINE z == Zeta(k)
           r == x % Q
<1>1. z \in Int /\ r \in Int /\ Cong(r, x) /\ TwiddleQ(k, x) = Centred(z * r) /\ UntwiddleQ(k, x) = Centred(-z * r)
  BY ZetaIs, CongMod DEF TwiddleQ, UntwiddleQ
<1>. HIDE DEF z, r
<1>2. z * r \in Int /\ -z * r \in Int /\ z * x \in Int /\ -z * r = -(z * r)
  BY <1>1
<1>3. Cong(z * r, z * x)
  BY <1>1, CongScale
<1>4. Cong(-(z * r), -(z * x))
  BY <1>2, <1>3, CongNeg
<1>5. /\ Centred(z * r) \in Int /\ Cong(Centred(z * r), z * r)
      /\ Centred(-z * r) \in Int /\ Cong(Centred(-z * r), -z * r)
  BY <1>2, CongCentred
<1>6. Cong(Centred(z * r), z * x) /\ Cong(Centred(-z * r), -(z * x))
  BY <1>2, <1>3, <1>4, <1>5, CongTrans
<1>. QED  BY <1>1, <1>5, <1>6 DEF z

\* A product with a twiddle, or its negation, is one with any congruent number.
LEMMA TwiddleAs ==
  ASSUME NEW k \in Index, NEW x \in Int, NEW y \in Int
  PROVE  /\ Cong(y, Zeta(k)) => Cong(TwiddleQ(k, x), y * x)
         /\ Cong(y, -Zeta(k)) => Cong(-TwiddleQ(k, x), y * x)
<1> DEFINE z == Zeta(k)
           t == TwiddleQ(k, x)
<1>1. z \in Int /\ t \in Int /\ Cong(t, z * x)
  BY ZetaIs, TwiddleIs
<1>. HIDE DEF z, t
<1>2. z * x \in Int /\ -z \in Int /\ (-z) * x = -(z * x)
  BY <1>1
<1>3. ASSUME Cong(y, z) PROVE Cong(t, y * x)
  <2>1. Cong(y * x, z * x)
    BY <1>1, <1>3, CongScale
  <2>. QED  BY <1>1, <2>1, CongSym, CongTrans
<1>4. ASSUME Cong(y, -z) PROVE Cong(-t, y * x)
  <2>1. Cong(y * x, (-z) * x)
    BY <1>2, <1>4, CongScale
  <2>2. Cong(-t, -(z * x))
    BY <1>1, <1>2, CongNeg
  <2>. QED  BY <1>2, <2>1, <2>2, CongSym, CongTrans
<1>. QED  BY <1>3, <1>4 DEF z, t

\* invntt's product takes the mirrored entry for the inverse twiddle.
LEMMA UntwiddleUndoes ==
  ASSUME NEW k \in Index, NEW l \in Index, Reversal[k] + Reversal[l] = N, NEW x \in Int, NEW y \in Int
  PROVE  /\ Cong(y, Zeta(k)) => Cong(y * UntwiddleQ(l, x), x)
         /\ Cong(y, -Zeta(k)) => Cong(y * UntwiddleQ(l, x), -x)
<1> DEFINE z == Zeta(k)
           v == Zeta(l)
           t == UntwiddleQ(l, x)
<1>1. z \in Int /\ v \in Int /\ t \in Int /\ Cong(t, -(v * x))
  BY ZetaIs, TwiddleIs
<1>2. Cong(z * v, -1)
  <2>1. Reversal[k] \in Nat /\ Reversal[l] \in Nat /\ N % (2 * N) = N
    BY ReversalRange, Degrees DEF Index
  <2>2. Cong(P(N), P(Reversal[k]) * P(Reversal[l]))
    BY <2>1, PPlus
  <2>3. P(N) = Power[N] /\ Cong(Power[N], -1)
    BY <2>1, PowerFull DEF P
  <2>. QED  BY <2>2, <2>3, CongSym, CongTrans DEF Zeta
<1>. HIDE DEF z, v, t
<1>3. /\ v * x \in Int /\ -(v * x) \in Int /\ z * v \in Int /\ -z \in Int /\ -1 \in Int /\ z * t \in Int
      /\ z * (-(v * x)) = (z * v) * (-x) /\ (-1) * (-x) = x /\ (-z) * t = -(z * t) /\ -x \in Int
  BY <1>1
<1>4. Cong(z * t, z * (-(v * x)))
  BY <1>1, <1>3, CongScale
<1>5. Cong((z * v) * (-x), (-1) * (-x))
  BY <1>2, <1>3, CongScale
<1>6. Cong(z * t, x)
  BY <1>3, <1>4, <1>5, CongTrans
<1>7. Cong((-z) * t, -x)
  BY <1>3, <1>6, CongNeg
<1>8. ASSUME Cong(y, z) PROVE Cong(y * t, x)
  <2>1. Cong(y * t, z * t)
    BY <1>1, <1>8, CongScale
  <2>. QED  BY <1>6, <2>1, CongTrans
<1>9. ASSUME Cong(y, -z) PROVE Cong(y * t, -x)
  <2>1. Cong(y * t, (-z) * t)
    BY <1>1, <1>3, <1>9, CongScale
  <2>. QED  BY <1>7, <2>1, CongTrans
<1>. QED  BY <1>8, <1>9 DEF z, t

\* Point k raised to the power e.
X(k, e) == P(Point(k) * e)

LEMMA XIs ==
  ASSUME NEW k \in Index
  PROVE  /\ X(k, 0) = 1
         /\ \A e \in Nat : X(k, e) \in Int
         /\ \A d, e \in Nat : Cong(X(k, d + e), X(k, d) * X(k, e))
<1>1. Point(k) \in Nat
  BY ReversalRange DEF Point, Index
<1>2. X(k, 0) = 1
  <2>1. Point(k) * 0 = 0 /\ 0 % (2 * N) = 0
    BY <1>1, Degrees
  <2>. QED  BY <2>1, PowerRec DEF X, P
<1>3. \A e \in Nat : Point(k) * e \in Nat
  BY <1>1
<1>4. ASSUME NEW d \in Nat, NEW e \in Nat PROVE Cong(X(k, d + e), X(k, d) * X(k, e))
  <2>1. Point(k) * (d + e) = Point(k) * d + Point(k) * e
    BY <1>1
  <2>. QED  BY <1>3, <2>1, PPlus DEF X
<1>. QED  BY <1>2, <1>3, <1>4, PType DEF X

LEMMA HalfTurns ==
  ASSUME NEW k \in Index, NEW e \in {0, 1}, NEW c \in Nat, NEW x, x = Reversal[k] + N * e + 2 * N * c
  PROVE  (e = 0 => P(x) = Zeta(k)) /\ (e = 1 => Cong(P(x), -Zeta(k)))
<1>1. Reversal[k] \in Nat
  BY ReversalRange DEF Index
<1>2. CASE e = 0
  <2>1. x = Reversal[k] + 2 * N * c
    BY <1>1, <1>2, Degrees
  <2>2. P(Reversal[k] + 2 * N * c) = P(Reversal[k])
    BY <1>1, PTurns
  <2>. QED  BY <1>2, <2>1, <2>2 DEF Zeta
<1>3. CASE e = 1
  <2>1. x = (Reversal[k] + N) + 2 * N * c /\ Reversal[k] + N \in Nat
    BY <1>1, <1>3, Degrees
  <2>2. P((Reversal[k] + N) + 2 * N * c) = P(Reversal[k] + N)
    BY <2>1, PTurns
  <2>3. Cong(P(Reversal[k] + N), -P(Reversal[k]))
    BY <1>1, PHalfTurn
  <2>. QED  BY <1>3, <2>1, <2>2, <2>3 DEF Zeta
<1>. QED  BY <1>2, <1>3

\* The powers of a point over a block are the twiddles of the block and of
\* the half the point is in, with a sign for the half within.
LEMMA PointPowers ==
  ASSUME NEW h \in Distances, 4 * h <= N, NEW k \in Index
  PROVE  LET n == NodeOf(h, k \div (4 * h))
             r == (k \div h) % 4
         IN  /\ r = 0 => Cong(X(k, 2 * h), Zeta(n)) /\ Cong(X(k, h), Zeta(2 * n))
             /\ r = 1 => Cong(X(k, 2 * h), Zeta(n)) /\ Cong(X(k, h), -Zeta(2 * n))
             /\ r = 2 => Cong(X(k, 2 * h), -Zeta(n)) /\ Cong(X(k, h), Zeta(2 * n + 1))
             /\ r = 3 => Cong(X(k, 2 * h), -Zeta(n)) /\ Cong(X(k, h), -Zeta(2 * n + 1))
             /\ r \in 0 .. 3
<1> DEFINE n == NodeOf(h, k \div (4 * h))
           r == (k \div h) % 4
           m == N \div (2 * h) + k \div (2 * h)
           d == (k \div h) % 2
           e == (k \div (2 * h)) % 2
<1>1. /\ n \in Index /\ m \in Index
      /\ r = 2 * e + d /\ m = 2 * n + e /\ d \in {0, 1} /\ e \in {0, 1} /\ h \in Nat
      /\ n = N \div (2 * (2 * h)) + k \div (2 * (2 * h))
  <2>1. CASE h = 1
    BY <2>1, Degrees DEF Index, NodeOf
  <2>2. CASE h = 4
    BY <2>2, Degrees DEF Index, NodeOf
  <2>3. CASE h = 16
    BY <2>3, Degrees DEF Index, NodeOf
  <2>4. CASE h = 64
    BY <2>4, Degrees DEF Index, NodeOf
  <2>. QED  BY <2>1, <2>2, <2>3, <2>4 DEF Distances
<1>2. PICK c1 \in Nat : Point(k) * h = Reversal[m] + N * d + 2 * N * c1
  BY Nodes DEF Node
<1>3. PICK c2 \in Nat : Point(k) * (2 * h) = Reversal[n] + N * e + 2 * N * c2
  <2>1. PICK c2 \in Nat : Point(k) * (2 * h) = Reversal[N \div (2 * (2 * h)) + k \div (2 * (2 * h))]
                                             + N * ((k \div (2 * h)) % 2) + 2 * N * c2
    BY Nodes DEF Node
  <2>. QED  BY <1>1, <2>1
<1>. HIDE DEF n, r, m, d, e
<1>4. (d = 0 => X(k, h) = Zeta(m)) /\ (d = 1 => Cong(X(k, h), -Zeta(m)))
  BY <1>1, <1>2, HalfTurns DEF X
<1>5. (e = 0 => X(k, 2 * h) = Zeta(n)) /\ (e = 1 => Cong(X(k, 2 * h), -Zeta(n)))
  BY <1>1, <1>3, HalfTurns DEF X
<1>6. n \in Int /\ 2 * n \in Int
  BY <1>1 DEF Index
<1>7. CASE e = 0
  <2>1. m = 2 * n /\ r = d
    BY <1>1, <1>6, <1>7
  <2>. QED  BY <1>1, <1>4, <1>5, <1>7, <2>1, CongRefl DEF n, r
<1>8. CASE e = 1
  <2>1. m = 2 * n + 1 /\ r = 2 + d
    BY <1>1, <1>6, <1>8
  <2>. QED  BY <1>1, <1>4, <1>5, <1>8, <2>1, CongRefl DEF n, r
<1>. QED  BY <1>1, <1>7, <1>8

-----------------------------------------------------------------------------
(***************************************************************************)
(* A group of butterflies                                                  *)
(***************************************************************************)

\* A group is four coefficients, h apart, of one block.
LEMMA GroupIs ==
  ASSUME NEW h \in Distances, 4 * h <= N, NEW g \in 0 .. N \div 4 - 1
  PROVE  LET j == First(g, h)
             n == NodeOf(h, Block(g, h))
             l == MirrorOf(h, Block(g, h))
         IN  /\ h \in Nat /\ h > 0 /\ 2 * h \in Nat /\ 2 * h > 0
             /\ j \in Index /\ j + h \in Index /\ j + 2 * h \in Index /\ j + 3 * h \in Index
             /\ j + h + h = j + 2 * h /\ j + h + 2 * h = j + 3 * h /\ j + 2 * h + h = j + 3 * h
             /\ j # j + h /\ j # j + 2 * h /\ j # j + 3 * h
             /\ j + h # j + 2 * h /\ j + h # j + 3 * h /\ j + 2 * h # j + 3 * h
             /\ n \in Index /\ 2 * n \in Index /\ 2 * n + 1 \in Index
             /\ l \in Index /\ 2 * l \in Index /\ 2 * l + 1 \in Index
             /\ Block(g, h) \in 0 .. N \div (4 * h) - 1
<1>1. CASE h = 1
  BY <1>1, Degrees DEF First, Block, Index, NodeOf, MirrorOf
<1>2. CASE h = 4
  BY <1>2, Degrees DEF First, Block, Index, NodeOf, MirrorOf
<1>3. CASE h = 16
  BY <1>3, Degrees DEF First, Block, Index, NodeOf, MirrorOf
<1>4. CASE h = 64
  BY <1>4, Degrees DEF First, Block, Index, NodeOf, MirrorOf
<1>. QED  BY <1>1, <1>2, <1>3, <1>4 DEF Distances

LEMMA CtIs ==
  ASSUME NEW p \in [Index -> Int], NEW j \in Index, NEW len \in Nat, len > 0, j + len \in Index,
         NEW k \in Index
  PROVE  /\ Ct(p, j, len, k) \in [Index -> Int]
         /\ Ct(p, j, len, k)[j] = p[j] + TwiddleQ(k, p[j + len])
         /\ Ct(p, j, len, k)[j + len] = p[j] - TwiddleQ(k, p[j + len])
         /\ \A i \in Index : i # j /\ i # j + len => Ct(p, j, len, k)[i] = p[i]
<1> DEFINE t == TwiddleQ(k, p[j + len])
<1>1. t \in Int
  BY TwiddleIs
<1>2. Ct(p, j, len, k) = [p EXCEPT ![j] = p[j] + t, ![j + len] = p[j] - t]
  BY DEF Ct, Plus, Minus
<1>3. j \in Int /\ j # j + len
  BY DEF Index
<1>. HIDE DEF t
<1>. QED  BY <1>1, <1>2, <1>3 DEF t

LEMMA GsIs ==
  ASSUME NEW p \in [Index -> Int], NEW j \in Index, NEW len \in Nat, len > 0, j + len \in Index,
         NEW k \in Index
  PROVE  /\ Gs(p, j, len, k) \in [Index -> Int]
         /\ Gs(p, j, len, k)[j] = p[j] + p[j + len]
         /\ Gs(p, j, len, k)[j + len] = UntwiddleQ(k, p[j] - p[j + len])
         /\ \A i \in Index : i # j /\ i # j + len => Gs(p, j, len, k)[i] = p[i]
<1> DEFINE t == UntwiddleQ(k, p[j] - p[j + len])
<1>1. t \in Int
  <2>1. p[j] - p[j + len] \in Int
    OBVIOUS
  <2>. QED  BY <2>1, TwiddleIs
<1>2. Gs(p, j, len, k) = [p EXCEPT ![j] = p[j] + p[j + len], ![j + len] = t]
  BY DEF Gs, Plus, Minus
<1>3. j \in Int /\ j # j + len
  BY DEF Index
<1>. HIDE DEF t
<1>. QED  BY <1>1, <1>2, <1>3 DEF t

LEMMA ForwardGroupIs ==
  ASSUME NEW p \in [Index -> Int], NEW h \in Distances, 4 * h <= N, NEW g \in 0 .. N \div 4 - 1
  PROVE  LET j == First(g, h)
             n == NodeOf(h, Block(g, h))
             q == ForwardGroup(p, g, h)
             t2 == TwiddleQ(n, p[j + 2 * h])
             t3 == TwiddleQ(n, p[j + 3 * h])
             s1 == TwiddleQ(2 * n, p[j + h] + t3)
             s3 == TwiddleQ(2 * n + 1, p[j + h] - t3)
         IN  /\ q \in [Index -> Int]
             /\ q[j] = p[j] + t2 + s1 /\ q[j + h] = p[j] + t2 - s1
             /\ q[j + 2 * h] = p[j] - t2 + s3 /\ q[j + 3 * h] = p[j] - t2 - s3
             /\ \A i \in Index : i \notin {j, j + h, j + 2 * h, j + 3 * h} => q[i] = p[i]
<1>. DEFINE j == First(g, h)
            n == NodeOf(h, Block(g, h))
            p1 == Ct(p, j, 2 * h, n)
            p2 == Ct(p1, j + h, 2 * h, n)
            p3 == Ct(p2, j, h, 2 * n)
            p4 == Ct(p3, j + 2 * h, h, 2 * n + 1)
            t2 == TwiddleQ(n, p[j + 2 * h])
            t3 == TwiddleQ(n, p[j + 3 * h])
            s1 == TwiddleQ(2 * n, p[j + h] + t3)
            s3 == TwiddleQ(2 * n + 1, p[j + h] - t3)
<1>0. ForwardGroup(p, g, h) = p4
  BY DEF ForwardGroup, NodeOf
<1>1. /\ h \in Nat /\ h > 0 /\ 2 * h \in Nat /\ 2 * h > 0
      /\ j \in Index /\ j + h \in Index /\ j + 2 * h \in Index /\ j + 3 * h \in Index
      /\ j + h + h = j + 2 * h /\ j + h + 2 * h = j + 3 * h /\ j + 2 * h + h = j + 3 * h
      /\ j # j + h /\ j # j + 2 * h /\ j # j + 3 * h
      /\ j + h # j + 2 * h /\ j + h # j + 3 * h /\ j + 2 * h # j + 3 * h
      /\ n \in Index /\ 2 * n \in Index /\ 2 * n + 1 \in Index
  BY GroupIs
<1>. HIDE DEF j, n
<1>2. t2 \in Int /\ t3 \in Int
  BY <1>1, TwiddleIs
<1>3. s1 \in Int /\ s3 \in Int
  <2>. HIDE DEF t3
  <2>1. p[j + h] + t3 \in Int /\ p[j + h] - t3 \in Int
    BY <1>1, <1>2
  <2>. QED  BY <1>1, <2>1, TwiddleIs
<1>4. /\ p1 \in [Index -> Int] /\ p1[j] = p[j] + t2 /\ p1[j + 2 * h] = p[j] - t2
      /\ \A i \in Index : i # j /\ i # j + 2 * h => p1[i] = p[i]
  BY <1>1, CtIs
<1>. HIDE DEF p1
<1>5. /\ p2 \in [Index -> Int] /\ p2[j + h] = p[j + h] + t3 /\ p2[j + 3 * h] = p[j + h] - t3
      /\ \A i \in Index : i # j + h /\ i # j + 3 * h => p2[i] = p1[i]
  <2>1. p1[j + h] = p[j + h] /\ p1[j + 3 * h] = p[j + 3 * h] /\ j + h + 2 * h \in Index
    BY <1>1, <1>4
  <2>2. /\ p2 \in [Index -> Int]
        /\ p2[j + h] = p1[j + h] + TwiddleQ(n, p1[j + h + 2 * h])
        /\ p2[j + h + 2 * h] = p1[j + h] - TwiddleQ(n, p1[j + h + 2 * h])
        /\ \A i \in Index : i # j + h /\ i # j + h + 2 * h => p2[i] = p1[i]
    BY <1>1, <1>4, <2>1, CtIs
  <2>. QED  BY <1>1, <2>1, <2>2
<1>. HIDE DEF p2
<1>6. /\ p3 \in [Index -> Int] /\ p3[j] = p[j] + t2 + s1 /\ p3[j + h] = p[j] + t2 - s1
      /\ \A i \in Index : i # j /\ i # j + h => p3[i] = p2[i]
  <2>1. p2[j] = p[j] + t2 /\ p2[j + h] = p[j + h] + t3
    BY <1>1, <1>4, <1>5
  <2>2. /\ p3 \in [Index -> Int]
        /\ p3[j] = p2[j] + TwiddleQ(2 * n, p2[j + h])
        /\ p3[j + h] = p2[j] - TwiddleQ(2 * n, p2[j + h])
        /\ \A i \in Index : i # j /\ i # j + h => p3[i] = p2[i]
    <3>1. p2 \in [Index -> Int]
      BY <1>5, Zenon
    <3>2. j \in Index /\ h \in Nat /\ h > 0 /\ j + h \in Index /\ 2 * n \in Index
      BY <1>1, Zenon
    <3>. QED  BY <3>1, <3>2, CtIs
  <2>. HIDE DEF t2, t3
  <2>3. TwiddleQ(2 * n, p2[j + h]) = s1
    BY <2>1, Zenon
  <2>. HIDE DEF s1, p3
  <2>4. p3[j] = p2[j] + s1 /\ p3[j + h] = p2[j] - s1
    BY <2>2, <2>3
  <2>5. p2[j] \in Int /\ s1 \in Int /\ p[j] \in Int /\ t2 \in Int
    BY <1>1, <1>2, <1>3, <1>5
  <2>6. p3[j] = p[j] + t2 + s1 /\ p3[j + h] = p[j] + t2 - s1
    BY <2>1, <2>4, <2>5
  <2>. QED  BY <2>2, <2>6
<1>. HIDE DEF p3
<1>7. /\ p4 \in [Index -> Int] /\ p4[j + 2 * h] = p[j] - t2 + s3 /\ p4[j + 3 * h] = p[j] - t2 - s3
      /\ \A i \in Index : i # j + 2 * h /\ i # j + 3 * h => p4[i] = p3[i]
  <2>1. p3[j + 2 * h] = p[j] - t2 /\ p3[j + 3 * h] = p[j + h] - t3 /\ j + 2 * h + h \in Index
    BY <1>1, <1>4, <1>5, <1>6
  <2>2. /\ p4 \in [Index -> Int]
        /\ p4[j + 2 * h] = p3[j + 2 * h] + TwiddleQ(2 * n + 1, p3[j + 2 * h + h])
        /\ p4[j + 2 * h + h] = p3[j + 2 * h] - TwiddleQ(2 * n + 1, p3[j + 2 * h + h])
        /\ \A i \in Index : i # j + 2 * h /\ i # j + 2 * h + h => p4[i] = p3[i]
    <3>1. p3 \in [Index -> Int]
      BY <1>6, Zenon
    <3>2. /\ j + 2 * h \in Index /\ h \in Nat /\ h > 0 /\ j + 2 * h + h \in Index
          /\ 2 * n + 1 \in Index
      BY <1>1, <2>1, Zenon
    <3>. QED  BY <3>1, <3>2, CtIs
  <2>3. TwiddleQ(2 * n + 1, p3[j + 2 * h + h]) = s3 /\ j + 2 * h + h = j + 3 * h
    <3>1. j + 2 * h + h = j + 3 * h
      BY <1>1, Zenon
    <3>. QED  BY <2>1, <3>1, Zenon
  <2>. HIDE DEF p4, s3, t2, t3
  <2>. QED  BY <2>1, <2>2, <2>3, Zenon
<1>. HIDE DEF p4, t2, t3, s1, s3
<1>8. p4[j] = p[j] + t2 + s1 /\ p4[j + h] = p[j] + t2 - s1
  BY <1>1, <1>6, <1>7
<1>9. \A i \in Index : i \notin {j, j + h, j + 2 * h, j + 3 * h} => p4[i] = p[i]
  BY <1>4, <1>5, <1>6, <1>7
<1>10. /\ p4 \in [Index -> Int]
       /\ p4[j] = p[j] + t2 + s1 /\ p4[j + h] = p[j] + t2 - s1
       /\ p4[j + 2 * h] = p[j] - t2 + s3 /\ p4[j + 3 * h] = p[j] - t2 - s3
       /\ \A i \in Index : i \notin {j, j + h, j + 2 * h, j + 3 * h} => p4[i] = p[i]
  BY <1>7, <1>8, <1>9
<1>. QED  BY <1>0, <1>10, Zenon DEF j, n, t2, t3, s1, s3

LEMMA InverseGroupIs ==
  ASSUME NEW p \in [Index -> Int], NEW h \in Distances, 4 * h <= N, NEW g \in 0 .. N \div 4 - 1
  PROVE  LET j == First(g, h)
             l == MirrorOf(h, Block(g, h))
             q == InverseGroup(p, g, h)
             y0 == p[j] + p[j + h]
             y1 == UntwiddleQ(2 * l + 1, p[j] - p[j + h])
             y2 == p[j + 2 * h] + p[j + 3 * h]
             y3 == UntwiddleQ(2 * l, p[j + 2 * h] - p[j + 3 * h])
         IN  /\ q \in [Index -> Int]
             /\ q[j] = y0 + y2 /\ q[j + h] = y1 + y3
             /\ q[j + 2 * h] = UntwiddleQ(l, y0 - y2) /\ q[j + 3 * h] = UntwiddleQ(l, y1 - y3)
             /\ \A i \in Index : i \notin {j, j + h, j + 2 * h, j + 3 * h} => q[i] = p[i]
<1>. DEFINE j == First(g, h)
            l == MirrorOf(h, Block(g, h))
            p1 == Gs(p, j, h, 2 * l + 1)
            p2 == Gs(p1, j + 2 * h, h, 2 * l)
            p3 == Gs(p2, j, 2 * h, l)
            p4 == Gs(p3, j + h, 2 * h, l)
            y0 == p[j] + p[j + h]
            y1 == UntwiddleQ(2 * l + 1, p[j] - p[j + h])
            y2 == p[j + 2 * h] + p[j + 3 * h]
            y3 == UntwiddleQ(2 * l, p[j + 2 * h] - p[j + 3 * h])
            z2 == UntwiddleQ(l, y0 - y2)
            z3 == UntwiddleQ(l, y1 - y3)
<1>0. InverseGroup(p, g, h) = p4
  BY DEF InverseGroup, MirrorOf
<1>1. /\ h \in Nat /\ h > 0 /\ 2 * h \in Nat /\ 2 * h > 0
      /\ j \in Index /\ j + h \in Index /\ j + 2 * h \in Index /\ j + 3 * h \in Index
      /\ j + h + h = j + 2 * h /\ j + h + 2 * h = j + 3 * h /\ j + 2 * h + h = j + 3 * h
      /\ j # j + h /\ j # j + 2 * h /\ j # j + 3 * h
      /\ j + h # j + 2 * h /\ j + h # j + 3 * h /\ j + 2 * h # j + 3 * h
      /\ l \in Index /\ 2 * l \in Index /\ 2 * l + 1 \in Index
  BY GroupIs
<1>. HIDE DEF j, l
<1>4. /\ p1 \in [Index -> Int] /\ p1[j] = y0 /\ p1[j + h] = y1
      /\ \A i \in Index : i # j /\ i # j + h => p1[i] = p[i]
  BY <1>1, GsIs
<1>. HIDE DEF p1
<1>5. /\ p2 \in [Index -> Int] /\ p2[j + 2 * h] = y2 /\ p2[j + 3 * h] = y3
      /\ \A i \in Index : i # j + 2 * h /\ i # j + 3 * h => p2[i] = p1[i]
  <2>1. p1[j + 2 * h] = p[j + 2 * h] /\ p1[j + 3 * h] = p[j + 3 * h] /\ j + 2 * h + h \in Index
    BY <1>1, <1>4
  <2>2. /\ p2 \in [Index -> Int]
        /\ p2[j + 2 * h] = p1[j + 2 * h] + p1[j + 2 * h + h]
        /\ p2[j + 2 * h + h] = UntwiddleQ(2 * l, p1[j + 2 * h] - p1[j + 2 * h + h])
        /\ \A i \in Index : i # j + 2 * h /\ i # j + 2 * h + h => p2[i] = p1[i]
    <3>1. p1 \in [Index -> Int]
      BY <1>4, Zenon
    <3>2. /\ j + 2 * h \in Index /\ h \in Nat /\ h > 0 /\ j + 2 * h + h \in Index
          /\ 2 * l \in Index
      BY <1>1, <2>1, Zenon
    <3>. QED  BY <3>1, <3>2, GsIs
  <2>. QED  BY <1>1, <2>1, <2>2
<1>. HIDE DEF p2, y0, y1, y2, y3
<1>6. /\ p3 \in [Index -> Int] /\ p3[j] = y0 + y2 /\ p3[j + 2 * h] = z2
      /\ \A i \in Index : i # j /\ i # j + 2 * h => p3[i] = p2[i]
  <2>1. p2[j] = y0 /\ p2[j + 2 * h] = y2
    BY <1>1, <1>4, <1>5
  <2>. QED  BY <1>1, <1>5, <2>1, GsIs
<1>. HIDE DEF p3
<1>7. /\ p4 \in [Index -> Int] /\ p4[j + h] = y1 + y3 /\ p4[j + 3 * h] = z3
      /\ \A i \in Index : i # j + h /\ i # j + 3 * h => p4[i] = p3[i]
  <2>1. p3[j + h] = y1 /\ p3[j + 3 * h] = y3 /\ j + h + 2 * h \in Index
    BY <1>1, <1>4, <1>5, <1>6
  <2>2. /\ p4 \in [Index -> Int]
        /\ p4[j + h] = p3[j + h] + p3[j + h + 2 * h]
        /\ p4[j + h + 2 * h] = UntwiddleQ(l, p3[j + h] - p3[j + h + 2 * h])
        /\ \A i \in Index : i # j + h /\ i # j + h + 2 * h => p4[i] = p3[i]
    <3>1. p3 \in [Index -> Int]
      BY <1>6, Zenon
    <3>2. /\ j + h \in Index /\ 2 * h \in Nat /\ 2 * h > 0 /\ j + h + 2 * h \in Index
          /\ l \in Index
      BY <1>1, <2>1, Zenon
    <3>. QED  BY <3>1, <3>2, GsIs
  <2>. QED  BY <1>1, <2>1, <2>2
<1>. HIDE DEF p4, z2, z3
<1>8. p4[j] = y0 + y2 /\ p4[j + 2 * h] = z2
  BY <1>1, <1>6, <1>7
<1>9. \A i \in Index : i \notin {j, j + h, j + 2 * h, j + 3 * h} => p4[i] = p[i]
  BY <1>4, <1>5, <1>6, <1>7
<1>10. /\ p4 \in [Index -> Int]
       /\ p4[j] = y0 + y2 /\ p4[j + h] = y1 + y3
       /\ p4[j + 2 * h] = z2 /\ p4[j + 3 * h] = z3
       /\ \A i \in Index : i \notin {j, j + h, j + 2 * h, j + 3 * h} => p4[i] = p[i]
  BY <1>7, <1>8, <1>9
<1>. QED  BY <1>0, <1>10, Zenon DEF j, l, y0, y1, y2, y3, z2, z3

-----------------------------------------------------------------------------
(***************************************************************************)
(* What a group does to the value of its block at a point                  *)
(***************************************************************************)

\* Two butterflies at distance 2h and one at distance h, seen from a point
\* whose powers u and v are what the twiddles stand for, signs included.
LEMMA Branch ==
  ASSUME NEW x0 \in Int, NEW x1 \in Int, NEW x2 \in Int, NEW x3 \in Int, NEW u \in Int, NEW v \in Int,
         NEW t2 \in Int, NEW t3 \in Int, NEW s \in Int,
         Cong(t2, u * x2), Cong(t3, u * x3), Cong(s, v * (x1 + t3))
  PROVE  Cong(x0 + t2 + s, (x0 + u * x2) + v * (x1 + u * x3))
<1>1. u * x2 \in Int /\ u * x3 \in Int /\ x1 + t3 \in Int /\ x1 + u * x3 \in Int /\ x0 + t2 \in Int /\ x0 + u * x2 \in Int
  OBVIOUS
<1>2. Cong(x1 + t3, x1 + u * x3) /\ Cong(x0 + t2, x0 + u * x2)
  BY <1>1, CongPlus, CongRefl
<1>3. v * (x1 + t3) \in Int /\ v * (x1 + u * x3) \in Int
  BY <1>1
<1>4. Cong(v * (x1 + t3), v * (x1 + u * x3))
  BY <1>1, <1>2, CongScale
<1>5. Cong(s, v * (x1 + u * x3))
  BY <1>4, CongTrans
<1>. QED  BY <1>1, <1>2, <1>3, <1>5, CongPlus

LEMMA ForwardValue ==
  ASSUME NEW p \in [Index -> Int], NEW h \in Distances, 4 * h <= N, NEW g \in 0 .. N \div 4 - 1,
         NEW k \in Index, k \div (4 * h) = Block(g, h)
  PROVE  LET j == First(g, h)
         IN  Cong(ForwardGroup(p, g, h)[j + h * ((k \div h) % 4)],
                  (p[j] + X(k, 2 * h) * p[j + 2 * h]) + X(k, h) * (p[j + h] + X(k, 2 * h) * p[j + 3 * h]))
<1>. DEFINE j == First(g, h)
            n == NodeOf(h, Block(g, h))
            q == ForwardGroup(p, g, h)
            t2 == TwiddleQ(n, p[j + 2 * h])
            t3 == TwiddleQ(n, p[j + 3 * h])
            s1 == TwiddleQ(2 * n, p[j + h] + t3)
            s3 == TwiddleQ(2 * n + 1, p[j + h] - t3)
            r == (k \div h) % 4
            u == X(k, 2 * h)
            v == X(k, h)
<1>1. /\ q[j] = p[j] + t2 + s1 /\ q[j + h] = p[j] + t2 - s1
      /\ q[j + 2 * h] = p[j] - t2 + s3 /\ q[j + 3 * h] = p[j] - t2 - s3
  BY ForwardGroupIs, Zenon
<1>2. /\ r = 0 => Cong(u, Zeta(n)) /\ Cong(v, Zeta(2 * n))
      /\ r = 1 => Cong(u, Zeta(n)) /\ Cong(v, -Zeta(2 * n))
      /\ r = 2 => Cong(u, -Zeta(n)) /\ Cong(v, Zeta(2 * n + 1))
      /\ r = 3 => Cong(u, -Zeta(n)) /\ Cong(v, -Zeta(2 * n + 1))
      /\ r \in 0 .. 3
  BY PointPowers
<1>3. /\ h \in Nat /\ j \in Index /\ j + h \in Index /\ j + 2 * h \in Index /\ j + 3 * h \in Index
      /\ n \in Index /\ 2 * n \in Index /\ 2 * n + 1 \in Index /\ j \in Nat
  BY GroupIs DEF Index
<1>. HIDE DEF j, n, q
<1>4. u \in Int /\ v \in Int
  BY <1>3, XIs
<1>. HIDE DEF u, v, r
<1>5. t2 \in Int /\ t3 \in Int
  BY <1>3, TwiddleIs
<1>6. /\ Cong(u, Zeta(n)) => Cong(t2, u * p[j + 2 * h]) /\ Cong(t3, u * p[j + 3 * h])
      /\ Cong(u, -Zeta(n)) => Cong(-t2, u * p[j + 2 * h]) /\ Cong(-t3, u * p[j + 3 * h])
  BY <1>3, <1>4, TwiddleAs
<1>. HIDE DEF t2, t3
<1>7. s1 \in Int /\ s3 \in Int
  <2>1. p[j + h] + t3 \in Int /\ p[j + h] - t3 \in Int
    BY <1>3, <1>5
  <2>. QED  BY <1>3, <2>1, TwiddleIs
<1>8. /\ Cong(v, Zeta(2 * n)) => Cong(s1, v * (p[j + h] + t3))
      /\ Cong(v, -Zeta(2 * n)) => Cong(-s1, v * (p[j + h] + t3))
      /\ Cong(v, Zeta(2 * n + 1)) => Cong(s3, v * (p[j + h] - t3))
      /\ Cong(v, -Zeta(2 * n + 1)) => Cong(-s3, v * (p[j + h] - t3))
  <2>1. p[j + h] + t3 \in Int /\ p[j + h] - t3 \in Int
    BY <1>3, <1>5
  <2>. QED  BY <1>3, <1>4, <2>1, TwiddleAs
<1>. HIDE DEF s1, s3
<1> DEFINE y == (p[j] + u * p[j + 2 * h]) + v * (p[j + h] + u * p[j + 3 * h])
           x0 == p[j]
           x1 == p[j + h]
           x2 == p[j + 2 * h]
           x3 == p[j + 3 * h]
<1>9. x0 \in Int /\ x1 \in Int /\ x2 \in Int /\ x3 \in Int
  BY <1>3
<1>10. /\ -t2 \in Int /\ -t3 \in Int /\ -s1 \in Int /\ -s3 \in Int
       /\ x0 + t2 - s1 = x0 + t2 + (-s1) /\ x0 - t2 + s3 = x0 + (-t2) + s3 /\ x0 - t2 - s3 = x0 + (-t2) + (-s3)
       /\ x1 - t3 = x1 + (-t3)
  BY <1>5, <1>7, <1>9
<1>11. CASE r = 0
  <2>1. Cong(x0 + t2 + s1, (x0 + u * x2) + v * (x1 + u * x3))
    BY <1>2, <1>4, <1>5, <1>6, <1>7, <1>8, <1>9, <1>11, Branch
  <2>2. j + h * r = j
    BY <1>3, <1>11
  <2>. QED  BY <1>1, <2>1, <2>2 DEF r, u, v, q, j
<1>12. CASE r = 1
  <2>1. Cong(x0 + t2 + (-s1), (x0 + u * x2) + v * (x1 + u * x3))
    BY <1>2, <1>4, <1>5, <1>6, <1>7, <1>8, <1>9, <1>10, <1>12, Branch
  <2>2. j + h * r = j + h
    BY <1>3, <1>12
  <2>. QED  BY <1>1, <1>10, <2>1, <2>2 DEF r, u, v, q, j
<1>13. CASE r = 2
  <2>1. Cong(s3, v * (x1 + (-t3)))
    BY <1>2, <1>8, <1>10, <1>13
  <2>2. Cong(x0 + (-t2) + s3, (x0 + u * x2) + v * (x1 + u * x3))
    BY <1>2, <1>4, <1>5, <1>6, <1>7, <1>9, <1>10, <1>13, <2>1, Branch
  <2>3. j + h * r = j + 2 * h
    BY <1>3, <1>13
  <2>. QED  BY <1>1, <1>10, <2>2, <2>3 DEF r, u, v, q, j
<1>14. CASE r = 3
  <2>1. Cong(-s3, v * (x1 + (-t3)))
    BY <1>2, <1>8, <1>10, <1>14
  <2>2. Cong(x0 + (-t2) + (-s3), (x0 + u * x2) + v * (x1 + u * x3))
    BY <1>2, <1>4, <1>5, <1>6, <1>7, <1>9, <1>10, <1>14, <2>1, Branch
  <2>3. j + h * r = j + 3 * h
    BY <1>3, <1>14
  <2>. QED  BY <1>1, <1>10, <2>2, <2>3 DEF r, u, v, q, j
<1>. QED  BY <1>2, <1>11, <1>12, <1>13, <1>14

\* Two butterflies at distance 2h, undone at a point.
LEMMA Undone ==
  ASSUME NEW q0 \in Int, NEW q1 \in Int, NEW q2 \in Int, NEW q3 \in Int, NEW u \in Int, NEW v \in Int,
         NEW d \in Int, NEW e \in Int, Cong(u * q2, d), Cong(u * q3, e)
  PROVE  Cong((q0 + u * q2) + v * (q1 + u * q3), (q0 + d) + v * (q1 + e))
<1>1. u * q2 \in Int /\ u * q3 \in Int /\ q0 + u * q2 \in Int /\ q1 + u * q3 \in Int
      /\ q0 + d \in Int /\ q1 + e \in Int
  OBVIOUS
<1>2. Cong(q0 + u * q2, q0 + d) /\ Cong(q1 + u * q3, q1 + e)
  BY <1>1, CongPlus, CongRefl
<1>3. Cong(v * (q1 + u * q3), v * (q1 + e))
  BY <1>1, <1>2, CongScale
<1>4. v * (q1 + u * q3) \in Int /\ v * (q1 + e) \in Int
  BY <1>1
<1>. QED  BY <1>1, <1>2, <1>3, <1>4, CongPlus

\* And the one at distance h of the point's half.
LEMMA UndoneHalf ==
  ASSUME NEW y \in Int, NEW z \in Int, NEW v \in Int, NEW f \in Int, Cong(v * z, f)
  PROVE  Cong(2 * y + v * (2 * z), 2 * y + 2 * f)
<1>1. v * z \in Int /\ 2 * (v * z) \in Int /\ v * (2 * z) = 2 * (v * z) /\ 2 * f \in Int /\ 2 * y \in Int /\ 2 \in Int
  OBVIOUS
<1>2. Cong(2 * (v * z), 2 * f)
  BY <1>1, CongScale
<1>. QED  BY <1>1, <1>2, CongPlus, CongRefl

LEMMA InverseValue ==
  ASSUME NEW p \in [Index -> Int], NEW h \in Distances, 4 * h <= N, NEW g \in 0 .. N \div 4 - 1,
         NEW k \in Index, k \div (4 * h) = Block(g, h)
  PROVE  LET j == First(g, h)
             q == InverseGroup(p, g, h)
         IN  Cong((q[j] + X(k, 2 * h) * q[j + 2 * h]) + X(k, h) * (q[j + h] + X(k, 2 * h) * q[j + 3 * h]),
                  4 * p[j + h * ((k \div h) % 4)])
<1>. DEFINE j == First(g, h)
            n == NodeOf(h, Block(g, h))
            l == MirrorOf(h, Block(g, h))
            q == InverseGroup(p, g, h)
            d0 == p[j] - p[j + h]
            d2 == p[j + 2 * h] - p[j + 3 * h]
            y0 == p[j] + p[j + h]
            y1 == UntwiddleQ(2 * l + 1, d0)
            y2 == p[j + 2 * h] + p[j + 3 * h]
            y3 == UntwiddleQ(2 * l, d2)
            r == (k \div h) % 4
            u == X(k, 2 * h)
            v == X(k, h)
<1>1. /\ q[j] = y0 + y2 /\ q[j + h] = y1 + y3
      /\ q[j + 2 * h] = UntwiddleQ(l, y0 - y2) /\ q[j + 3 * h] = UntwiddleQ(l, y1 - y3)
      /\ q \in [Index -> Int]
  BY InverseGroupIs, Zenon
<1>2. /\ r = 0 => Cong(u, Zeta(n)) /\ Cong(v, Zeta(2 * n))
      /\ r = 1 => Cong(u, Zeta(n)) /\ Cong(v, -Zeta(2 * n))
      /\ r = 2 => Cong(u, -Zeta(n)) /\ Cong(v, Zeta(2 * n + 1))
      /\ r = 3 => Cong(u, -Zeta(n)) /\ Cong(v, -Zeta(2 * n + 1))
      /\ r \in 0 .. 3
  BY PointPowers
<1>3. /\ h \in Nat /\ j \in Index /\ j + h \in Index /\ j + 2 * h \in Index /\ j + 3 * h \in Index
      /\ n \in Index /\ 2 * n \in Index /\ 2 * n + 1 \in Index /\ j \in Nat
      /\ l \in Index /\ 2 * l \in Index /\ 2 * l + 1 \in Index
      /\ Block(g, h) \in 0 .. N \div (4 * h) - 1
  BY GroupIs DEF Index
<1>4. /\ Reversal[n] + Reversal[l] = N
      /\ Reversal[2 * n] + Reversal[2 * l + 1] = N
      /\ Reversal[2 * n + 1] + Reversal[2 * l] = N
  BY <1>3, Mirrored, Zenon
<1>. HIDE DEF j, n, l, q
<1>5. u \in Int /\ v \in Int
  BY <1>3, XIs
<1>. HIDE DEF u, v, r
<1> DEFINE x0 == p[j]
           x1 == p[j + h]
           x2 == p[j + 2 * h]
           x3 == p[j + 3 * h]
<1>6. /\ x0 \in Int /\ x1 \in Int /\ x2 \in Int /\ x3 \in Int /\ d0 \in Int /\ d2 \in Int
      /\ d0 = x0 - x1 /\ d2 = x2 - x3 /\ y0 = x0 + x1 /\ y2 = x2 + x3
  BY <1>3
<1>. HIDE DEF x0, x1, x2, x3, d0, d2
<1>7. y0 \in Int /\ y2 \in Int /\ y1 \in Int /\ y3 \in Int
  <2>1. y1 \in Int /\ y3 \in Int
    BY <1>3, <1>6, TwiddleIs
  <2>. QED  BY <1>6, <2>1
<1>8. /\ Cong(v, Zeta(2 * n)) => Cong(v * y1, d0)
      /\ Cong(v, -Zeta(2 * n)) => Cong(v * y1, -d0)
      /\ Cong(v, Zeta(2 * n + 1)) => Cong(v * y3, d2)
      /\ Cong(v, -Zeta(2 * n + 1)) => Cong(v * y3, -d2)
  BY <1>3, <1>4, <1>5, <1>6, UntwiddleUndoes
<1>. HIDE DEF y0, y1, y2, y3
<1> DEFINE d == y0 - y2
           e == y1 - y3
<1>10. d \in Int /\ e \in Int
  BY <1>7
<1> DEFINE q0 == q[j]
           q1 == q[j + h]
           q2 == q[j + 2 * h]
           q3 == q[j + 3 * h]
<1>11. q0 \in Int /\ q1 \in Int /\ q2 \in Int /\ q3 \in Int /\ q0 = y0 + y2 /\ q1 = y1 + y3
       /\ q2 = UntwiddleQ(l, d) /\ q3 = UntwiddleQ(l, e)
  BY <1>1, <1>3
<1>. HIDE DEF q0, q1, q2, q3
<1>12. /\ q0 + d = 2 * y0 /\ q1 + e = 2 * y1 /\ q0 + (-d) = 2 * y2 /\ q1 + (-e) = 2 * y3
       /\ 2 * y0 + 2 * d0 = 4 * x0 /\ 2 * y0 + 2 * (-d0) = 4 * x1
       /\ 2 * y2 + 2 * d2 = 4 * x2 /\ 2 * y2 + 2 * (-d2) = 4 * x3
       /\ -d \in Int /\ -e \in Int /\ -d0 \in Int /\ -d2 \in Int
  BY <1>6, <1>7, <1>11
<1>. HIDE DEF d, e
<1>13. /\ Cong(u, Zeta(n)) => Cong(u * q2, d) /\ Cong(u * q3, e)
       /\ Cong(u, -Zeta(n)) => Cong(u * q2, -d) /\ Cong(u * q3, -e)
  BY <1>3, <1>4, <1>5, <1>10, <1>11, UntwiddleUndoes
<1>14. CASE r = 0
  <2>1. Cong(u * q2, d) /\ Cong(u * q3, e) /\ Cong(v * y1, d0)
    BY <1>2, <1>8, <1>13, <1>14
  <2>2. Cong((q0 + u * q2) + v * (q1 + u * q3), 4 * x0)
    <3>1. Cong((q0 + u * q2) + v * (q1 + u * q3), (q0 + d) + v * (q1 + e))
      BY <1>5, <1>10, <1>11, <1>12, <2>1, Undone
    <3>2. Cong(2 * y0 + v * (2 * y1), 2 * y0 + 2 * d0)
      BY <1>5, <1>6, <1>7, <1>12, <2>1, UndoneHalf
    <3>. QED  BY <1>12, <3>1, <3>2, CongTrans
  <2>3. j + h * r = j
    BY <1>3, <1>14
  <2>. QED  BY <2>2, <2>3 DEF r, u, v, q, j, q0, q1, q2, q3, x0
<1>15. CASE r = 1
  <2>1. Cong(u * q2, d) /\ Cong(u * q3, e) /\ Cong(v * y1, -d0)
    BY <1>2, <1>8, <1>13, <1>15
  <2>2. Cong((q0 + u * q2) + v * (q1 + u * q3), 4 * x1)
    <3>1. Cong((q0 + u * q2) + v * (q1 + u * q3), (q0 + d) + v * (q1 + e))
      BY <1>5, <1>10, <1>11, <1>12, <2>1, Undone
    <3>2. Cong(2 * y0 + v * (2 * y1), 2 * y0 + 2 * (-d0))
      BY <1>5, <1>6, <1>7, <1>12, <2>1, UndoneHalf
    <3>. QED  BY <1>12, <3>1, <3>2, CongTrans
  <2>3. j + h * r = j + h
    BY <1>3, <1>15
  <2>. QED  BY <2>2, <2>3 DEF r, u, v, q, j, q0, q1, q2, q3, x1
<1>16. CASE r = 2
  <2>1. Cong(u * q2, -d) /\ Cong(u * q3, -e) /\ Cong(v * y3, d2)
    BY <1>2, <1>8, <1>13, <1>16
  <2>2. Cong((q0 + u * q2) + v * (q1 + u * q3), 4 * x2)
    <3>1. Cong((q0 + u * q2) + v * (q1 + u * q3), (q0 + (-d)) + v * (q1 + (-e)))
      BY <1>5, <1>10, <1>11, <1>12, <2>1, Undone
    <3>2. Cong(2 * y2 + v * (2 * y3), 2 * y2 + 2 * d2)
      BY <1>5, <1>6, <1>7, <1>12, <2>1, UndoneHalf
    <3>. QED  BY <1>12, <3>1, <3>2, CongTrans
  <2>3. j + h * r = j + 2 * h
    BY <1>3, <1>16
  <2>. QED  BY <2>2, <2>3 DEF r, u, v, q, j, q0, q1, q2, q3, x2
<1>17. CASE r = 3
  <2>1. Cong(u * q2, -d) /\ Cong(u * q3, -e) /\ Cong(v * y3, -d2)
    BY <1>2, <1>8, <1>13, <1>17
  <2>2. Cong((q0 + u * q2) + v * (q1 + u * q3), 4 * x3)
    <3>1. Cong((q0 + u * q2) + v * (q1 + u * q3), (q0 + (-d)) + v * (q1 + (-e)))
      BY <1>5, <1>10, <1>11, <1>12, <2>1, Undone
    <3>2. Cong(2 * y2 + v * (2 * y3), 2 * y2 + 2 * (-d2))
      BY <1>5, <1>6, <1>7, <1>12, <2>1, UndoneHalf
    <3>. QED  BY <1>12, <3>1, <3>2, CongTrans
  <2>3. j + h * r = j + 3 * h
    BY <1>3, <1>17
  <2>. QED  BY <2>2, <2>3 DEF r, u, v, q, j, q0, q1, q2, q3, x3
<1>. QED  BY <1>2, <1>14, <1>15, <1>16, <1>17

-----------------------------------------------------------------------------
(***************************************************************************)
(* The value of a block at a point                                         *)
(***************************************************************************)

\* The group of offset o in the block of point k, and its coefficients.
GroupOf(k, h, o) == h * (k \div (4 * h)) + o

LEMMA Spread ==
  ASSUME NEW h \in Distances, 4 * h <= N, NEW k \in Index, NEW o \in 0 .. h-1
  PROVE  LET g == GroupOf(k, h, o)
             j == First(g, h)
         IN  /\ g \in 0 .. N \div 4 - 1
             /\ Block(g, h) = k \div (4 * h) /\ j = 4 * h * (k \div (4 * h)) + o
             /\ j \in Index /\ j + h \in Index /\ j + 2 * h \in Index /\ j + 3 * h \in Index
             /\ h * (k \div h) + o = j + h * ((k \div h) % 4)
             /\ (k \div h) % 4 \in 0 .. 3
             /\ h * (k \div h) + o \in {j, j + h, j + 2 * h, j + 3 * h}
<1>1. CASE h = 1
  BY <1>1, Degrees DEF First, Block, Index, GroupOf
<1>2. CASE h = 4
  BY <1>2, Degrees DEF First, Block, Index, GroupOf
<1>3. CASE h = 16
  BY <1>3, Degrees DEF First, Block, Index, GroupOf
<1>4. CASE h = 64
  BY <1>4, Degrees DEF First, Block, Index, GroupOf
<1>. QED  BY <1>1, <1>2, <1>3, <1>4 DEF Distances

\* No coefficient is in two groups.
LEMMA Apart ==
  ASSUME NEW h \in Distances, 4 * h <= N, NEW g \in 0 .. N \div 4 - 1, NEW d \in 0 .. N \div 4 - 1,
         NEW i, i \in {First(g, h), First(g, h) + h, First(g, h) + 2 * h, First(g, h) + 3 * h},
         i \in {First(d, h), First(d, h) + h, First(d, h) + 2 * h, First(d, h) + 3 * h}
  PROVE  g = d
<1>1. CASE h = 1
  BY <1>1, Degrees DEF First, Block
<1>2. CASE h = 4
  BY <1>2, Degrees DEF First, Block
<1>3. CASE h = 16
  BY <1>3, Degrees DEF First, Block
<1>4. CASE h = 64
  BY <1>4, Degrees DEF First, Block
<1>. QED  BY <1>1, <1>2, <1>3, <1>4 DEF Distances

\* The group of o in the block of k, seen from k: the coefficient that ends
\* up in k's quarter, and the value of all four.
Single(p, k, h, o) == p[h * (k \div h) + o] * X(k, o)
Quad(p, k, h, o) ==
  LET j == First(GroupOf(k, h, o), h)
  IN  ((p[j] + X(k, 2 * h) * p[j + 2 * h]) + X(k, h) * (p[j + h] + X(k, 2 * h) * p[j + 3 * h])) * X(k, o)

LEMMA TermTypes ==
  ASSUME NEW p \in [Index -> Int], NEW h \in Distances, 4 * h <= N, NEW k \in Index, NEW o \in 0 .. h-1
  PROVE  Single(p, k, h, o) \in Int /\ Quad(p, k, h, o) \in Int
<1> DEFINE j == First(GroupOf(k, h, o), h)
           u == X(k, 2 * h)
           v == X(k, h)
           x == X(k, o)
<1>1. /\ j \in Index /\ j + h \in Index /\ j + 2 * h \in Index /\ j + 3 * h \in Index
      /\ h * (k \div h) + o \in {j, j + h, j + 2 * h, j + 3 * h}
  BY Spread, Zenon
<1>2. h \in Nat /\ 2 * h \in Nat /\ o \in Nat
  BY DEF Distances
<1>3. u \in Int /\ v \in Int /\ x \in Int
  BY <1>2, XIs
<1>4. p[h * (k \div h) + o] \in Int /\ p[j] \in Int /\ p[j + h] \in Int /\ p[j + 2 * h] \in Int /\ p[j + 3 * h] \in Int
  <2>. HIDE DEF j
  <2>1. h * (k \div h) + o \in Index
    BY <1>1
  <2>. QED  BY <1>1, <2>1
<1>. DEFINE f == p[h * (k \div h) + o]
            p0 == p[j]
            p1 == p[j + h]
            p2 == p[j + 2 * h]
            p3 == p[j + 3 * h]
<1>5. Single(p, k, h, o) = f * x /\ Quad(p, k, h, o) = ((p0 + u * p2) + v * (p1 + u * p3)) * x
  BY DEF Single, Quad
<1>6. f \in Int /\ p0 \in Int /\ p1 \in Int /\ p2 \in Int /\ p3 \in Int
  BY <1>4
<1>. HIDE DEF u, v, x, f, p0, p1, p2, p3
<1>. QED  BY <1>3, <1>5, <1>6

\* A group changes the coefficients of its own block and offset only.
LEMMA OthersKept ==
  ASSUME NEW p, NEW q, NEW h \in Distances, 4 * h <= N, NEW g \in 0 .. N \div 4 - 1,
         \A i \in Index : i \notin {First(g, h), First(g, h) + h, First(g, h) + 2 * h, First(g, h) + 3 * h} => q[i] = p[i],
         NEW k \in Index, NEW o \in 0 .. h-1, GroupOf(k, h, o) # g
  PROVE  Single(q, k, h, o) = Single(p, k, h, o) /\ Quad(q, k, h, o) = Quad(p, k, h, o)
<1> DEFINE d == GroupOf(k, h, o)
           j == First(d, h)
           i == h * (k \div h) + o
<1>1. /\ d \in 0 .. N \div 4 - 1
      /\ j \in Index /\ j + h \in Index /\ j + 2 * h \in Index /\ j + 3 * h \in Index
      /\ i \in {j, j + h, j + 2 * h, j + 3 * h}
  BY Spread, Zenon
<1>. HIDE DEF d, i
<1>2. \A m \in {j, j + h, j + 2 * h, j + 3 * h} :
        m \notin {First(g, h), First(g, h) + h, First(g, h) + 2 * h, First(g, h) + 3 * h}
  BY <1>1, Apart DEF d
<1>3. \A m \in {j, j + h, j + 2 * h, j + 3 * h} : q[m] = p[m]
  <2>. HIDE DEF j
  <2>. QED  BY <1>1, <1>2
<1>4. q[i] = p[i] /\ q[j] = p[j] /\ q[j + h] = p[j + h] /\ q[j + 2 * h] = p[j + 2 * h] /\ q[j + 3 * h] = p[j + 3 * h]
  <2>. HIDE DEF j
  <2>. QED  BY <1>1, <1>3
<1>. QED  BY <1>4, Zenon DEF Single, Quad, d, i, j

ForwardTerms(p, k, h, g) ==
  [o \in 0 .. h-1 |-> IF GroupOf(k, h, o) < g THEN Single(p, k, h, o) ELSE Quad(p, k, h, o)]
InverseTerms(p, k, h, g) ==
  [o \in 0 .. h-1 |-> IF GroupOf(k, h, o) < g THEN Quad(p, k, h, o) ELSE 4 * Single(p, k, h, o)]

\* The value of the block of point k when the groups before g are done.
ForwardSum(p, k, h, g) == Sum(ForwardTerms(p, k, h, g), h)
InverseSum(p, k, h, g) == Sum(InverseTerms(p, k, h, g), h)

LEMMA ForwardGroupKeeps ==
  ASSUME NEW p \in [Index -> Int], NEW h \in Distances, 4 * h <= N, NEW g \in 0 .. N \div 4 - 1, NEW k \in Index
  PROVE  Cong(ForwardSum(ForwardGroup(p, g, h), k, h, g + 1), ForwardSum(p, k, h, g))
<1> DEFINE q == ForwardGroup(p, g, h)
           s == ForwardTerms(q, k, h, g + 1)
           f == ForwardTerms(p, k, h, g)
<1>1. /\ q \in [Index -> Int]
      /\ \A i \in Index : i \notin {First(g, h), First(g, h) + h, First(g, h) + 2 * h, First(g, h) + 3 * h} => q[i] = p[i]
  BY ForwardGroupIs, Zenon
<1>2. ASSUME NEW o \in 0 .. h-1
      PROVE  s[o] \in Int /\ f[o] \in Int /\ Cong(s[o], f[o])
  <2> DEFINE d == GroupOf(k, h, o)
  <2>1. s[o] = (IF d < g + 1 THEN Single(q, k, h, o) ELSE Quad(q, k, h, o))
        /\ f[o] = (IF d < g THEN Single(p, k, h, o) ELSE Quad(p, k, h, o))
    BY DEF ForwardTerms
  <2>. HIDE DEF q
  <2>2. /\ Single(p, k, h, o) \in Int /\ Quad(p, k, h, o) \in Int
        /\ Single(q, k, h, o) \in Int /\ Quad(q, k, h, o) \in Int
    BY <1>1, TermTypes
  <2>3. d \in Int /\ g \in Int
    BY Spread
  <2>. HIDE DEF s, f, d
  <2>4. s[o] \in Int /\ f[o] \in Int
    BY <2>1, <2>2
  <2>5. CASE d # g
    <3>1. Single(q, k, h, o) = Single(p, k, h, o) /\ Quad(q, k, h, o) = Quad(p, k, h, o)
      BY <1>1, <2>5, OthersKept DEF d
    <3>2. d < g + 1 <=> d < g
      BY <2>3, <2>5
    <3>3. s[o] = f[o]
      BY <2>1, <3>1, <3>2
    <3>. QED  BY <2>4, <3>3, CongRefl
  <2>6. CASE d = g
    <3>1. s[o] = Single(q, k, h, o) /\ f[o] = Quad(p, k, h, o)
      BY <2>1, <2>3, <2>6
    <3> DEFINE j == First(g, h)
               y == (p[j] + X(k, 2 * h) * p[j + 2 * h]) + X(k, h) * (p[j + h] + X(k, 2 * h) * p[j + 3 * h])
               z == q[j + h * ((k \div h) % 4)]
               x == X(k, o)
    <3>2. k \div (4 * h) = Block(g, h) /\ h * (k \div h) + o = j + h * ((k \div h) % 4)
          /\ j + h * ((k \div h) % 4) \in Index /\ j \in Index /\ j + h \in Index /\ j + 2 * h \in Index /\ j + 3 * h \in Index
      <4> DEFINE i == First(d, h)
      <4>1. /\ Block(d, h) = k \div (4 * h) /\ h * (k \div h) + o = i + h * ((k \div h) % 4)
            /\ i \in Index /\ i + h \in Index /\ i + 2 * h \in Index /\ i + 3 * h \in Index
            /\ h * (k \div h) + o \in {i, i + h, i + 2 * h, i + 3 * h}
        BY Spread, Zenon DEF d
      <4>2. i = j
        BY <2>6
      <4>. HIDE DEF i, j
      <4>3. h * (k \div h) + o \in Index
        BY <4>1
      <4>. QED  BY <2>6, <4>1, <4>2, <4>3, Zenon
    <3>3. Cong(z, y)
      BY <3>2, ForwardValue, Zenon DEF q
    <3>4. Single(q, k, h, o) = z * x /\ Quad(p, k, h, o) = y * x
      BY <2>6, <3>2, Zenon DEF Single, Quad, d
    <3>5. h \in Nat /\ 2 * h \in Nat /\ o \in Nat
      BY DEF Distances
    <3>6. x \in Int /\ z \in Int /\ y \in Int
      <4>1. x \in Int /\ X(k, 2 * h) \in Int /\ X(k, h) \in Int /\ z \in Int
        BY <1>1, <3>2, <3>5, XIs
      <4>2. p[j] \in Int /\ p[j + h] \in Int /\ p[j + 2 * h] \in Int /\ p[j + 3 * h] \in Int
        <5>. HIDE DEF j
        <5>. QED  BY <3>2
      <4>. QED  BY <4>1, <4>2
    <3>. HIDE DEF y, z, x, j
    <3>7. Cong(z * x, y * x)
      BY <3>3, <3>6, CongScale
    <3>. QED  BY <2>4, <3>1, <3>4, <3>7
  <2>. QED  BY <2>5, <2>6
<1>. HIDE DEF s, f
<1>3. h \in Nat
  BY DEF Distances
<1>4. Cong(Sum(s, h), Sum(f, h))
  BY <1>2, <1>3, SumCong
<1>. QED  BY <1>4 DEF s, f, ForwardSum

LEMMA InverseGroupKeeps ==
  ASSUME NEW p \in [Index -> Int], NEW h \in Distances, 4 * h <= N, NEW g \in 0 .. N \div 4 - 1, NEW k \in Index
  PROVE  Cong(InverseSum(InverseGroup(p, g, h), k, h, g + 1), InverseSum(p, k, h, g))
<1> DEFINE q == InverseGroup(p, g, h)
           s == InverseTerms(q, k, h, g + 1)
           f == InverseTerms(p, k, h, g)
<1>1. /\ q \in [Index -> Int]
      /\ \A i \in Index : i \notin {First(g, h), First(g, h) + h, First(g, h) + 2 * h, First(g, h) + 3 * h} => q[i] = p[i]
  BY InverseGroupIs, Zenon
<1>2. ASSUME NEW o \in 0 .. h-1
      PROVE  s[o] \in Int /\ f[o] \in Int /\ Cong(s[o], f[o])
  <2> DEFINE d == GroupOf(k, h, o)
  <2>1. s[o] = (IF d < g + 1 THEN Quad(q, k, h, o) ELSE 4 * Single(q, k, h, o))
        /\ f[o] = (IF d < g THEN Quad(p, k, h, o) ELSE 4 * Single(p, k, h, o))
    BY DEF InverseTerms
  <2>. HIDE DEF q
  <2>2. /\ Single(p, k, h, o) \in Int /\ Quad(p, k, h, o) \in Int
        /\ Single(q, k, h, o) \in Int /\ Quad(q, k, h, o) \in Int
    BY <1>1, TermTypes
  <2>3. d \in Int /\ g \in Int
    BY Spread
  <2>. HIDE DEF s, f, d
  <2>4. s[o] \in Int /\ f[o] \in Int
    BY <2>1, <2>2
  <2>5. CASE d # g
    <3>1. Single(q, k, h, o) = Single(p, k, h, o) /\ Quad(q, k, h, o) = Quad(p, k, h, o)
      BY <1>1, <2>5, OthersKept DEF d
    <3>2. d < g + 1 <=> d < g
      BY <2>3, <2>5
    <3>3. s[o] = f[o]
      BY <2>1, <3>1, <3>2
    <3>. QED  BY <2>4, <3>3, CongRefl
  <2>6. CASE d = g
    <3>1. s[o] = Quad(q, k, h, o) /\ f[o] = 4 * Single(p, k, h, o)
      BY <2>1, <2>3, <2>6
    <3> DEFINE j == First(g, h)
               y == (q[j] + X(k, 2 * h) * q[j + 2 * h]) + X(k, h) * (q[j + h] + X(k, 2 * h) * q[j + 3 * h])
               z == p[j + h * ((k \div h) % 4)]
               x == X(k, o)
    <3>2. k \div (4 * h) = Block(g, h) /\ h * (k \div h) + o = j + h * ((k \div h) % 4)
          /\ j + h * ((k \div h) % 4) \in Index /\ j \in Index /\ j + h \in Index /\ j + 2 * h \in Index /\ j + 3 * h \in Index
      <4> DEFINE i == First(d, h)
      <4>1. /\ Block(d, h) = k \div (4 * h) /\ h * (k \div h) + o = i + h * ((k \div h) % 4)
            /\ i \in Index /\ i + h \in Index /\ i + 2 * h \in Index /\ i + 3 * h \in Index
            /\ h * (k \div h) + o \in {i, i + h, i + 2 * h, i + 3 * h}
        BY Spread, Zenon DEF d
      <4>2. i = j
        BY <2>6
      <4>. HIDE DEF i, j
      <4>3. h * (k \div h) + o \in Index
        BY <4>1
      <4>. QED  BY <2>6, <4>1, <4>2, <4>3, Zenon
    <3>3. Cong(y, 4 * z)
      BY <3>2, InverseValue, Zenon DEF q
    <3>4. Quad(q, k, h, o) = y * x /\ Single(p, k, h, o) = z * x
      BY <2>6, <3>2, Zenon DEF Single, Quad, d
    <3>5. h \in Nat /\ 2 * h \in Nat /\ o \in Nat
      BY DEF Distances
    <3>6. x \in Int /\ z \in Int /\ y \in Int
      <4>1. x \in Int /\ X(k, 2 * h) \in Int /\ X(k, h) \in Int /\ z \in Int
        BY <3>2, <3>5, XIs
      <4>2. q[j] \in Int /\ q[j + h] \in Int /\ q[j + 2 * h] \in Int /\ q[j + 3 * h] \in Int
        <5>. HIDE DEF j
        <5>. QED  BY <1>1, <3>2
      <4>. QED  BY <4>1, <4>2
    <3>. HIDE DEF y, z, x, j
    <3>7. Cong(y * x, (4 * z) * x) /\ (4 * z) * x = 4 * (z * x)
      <4>1. 4 * z \in Int /\ (4 * z) * x = 4 * (z * x)
        BY <3>6
      <4>. QED  BY <3>3, <3>6, <4>1, CongScale
    <3>. QED  BY <2>4, <3>1, <3>4, <3>7
  <2>. QED  BY <2>5, <2>6
<1>. HIDE DEF s, f
<1>3. h \in Nat
  BY DEF Distances
<1>4. Cong(Sum(s, h), Sum(f, h))
  BY <1>2, <1>3, SumCong
<1>. QED  BY <1>4 DEF s, f, InverseSum

\* The value at point k of the block of s coefficients that it is in.
WholeTerms(p, k, s) == [o \in 0 .. s-1 |-> p[s * (k \div s) + o] * X(k, o)]
Whole(p, k, s) == Sum(WholeTerms(p, k, s), s)

\* The four coefficients of a group, at the point's powers.
LEMMA QuadIs ==
  ASSUME NEW p \in [Index -> Int], NEW h \in Distances, 4 * h <= N, NEW k \in Index, NEW o \in 0 .. h-1
  PROVE  LET j == First(GroupOf(k, h, o), h)
         IN  Cong(p[j] * X(k, o) + p[j + h] * X(k, h + o) + p[j + 2 * h] * X(k, 2 * h + o) + p[j + 3 * h] * X(k, 3 * h + o),
                  Quad(p, k, h, o))
<1> DEFINE j == First(GroupOf(k, h, o), h)
           u == X(k, 2 * h)
           v == X(k, h)
           x == X(k, o)
           x1 == X(k, h + o)
           x2 == X(k, 2 * h + o)
           x3 == X(k, 3 * h + o)
           p0 == p[j]
           p1 == p[j + h]
           p2 == p[j + 2 * h]
           p3 == p[j + 3 * h]
<1>1. /\ j \in Index /\ j + h \in Index /\ j + 2 * h \in Index /\ j + 3 * h \in Index
  BY Spread, Zenon
<1>2. h \in Nat /\ 2 * h \in Nat /\ o \in Nat /\ h + o \in Nat /\ 2 * h + o \in Nat /\ 3 * h + o \in Nat /\ h + (2 * h + o) = 3 * h + o
  BY DEF Distances
<1>3. u \in Int /\ v \in Int /\ x \in Int /\ x1 \in Int /\ x2 \in Int /\ x3 \in Int
  BY <1>2, XIs
<1>4. p0 \in Int /\ p1 \in Int /\ p2 \in Int /\ p3 \in Int
  <2>. HIDE DEF j
  <2>. QED  BY <1>1
<1>5. Cong(x1, v * x) /\ Cong(x2, u * x) /\ Cong(x3, v * x2)
  BY <1>2, XIs
<1>6. Quad(p, k, h, o) = ((p0 + u * p2) + v * (p1 + u * p3)) * x
  BY DEF Quad
<1>. HIDE DEF u, v, x, x1, x2, x3, p0, p1, p2, p3
<1>7. v * x \in Int /\ u * x \in Int /\ v * x2 \in Int /\ v * (u * x) \in Int
  BY <1>3
<1>8. Cong(x3, v * (u * x))
  <2>1. Cong(v * x2, v * (u * x))
    BY <1>3, <1>5, <1>7, CongScale
  <2>. QED  BY <1>5, <2>1, CongTrans
<1>9. Cong(p1 * x1, p1 * (v * x)) /\ Cong(p2 * x2, p2 * (u * x)) /\ Cong(p3 * x3, p3 * (v * (u * x)))
  BY <1>3, <1>4, <1>5, <1>7, <1>8, CongScale
<1> DEFINE m0 == p0 * x
           m1 == p1 * x1
           m2 == p2 * x2
           m3 == p3 * x3
           n1 == p1 * (v * x)
           n2 == p2 * (u * x)
           n3 == p3 * (v * (u * x))
<1>10. m0 \in Int /\ m1 \in Int /\ m2 \in Int /\ m3 \in Int /\ n1 \in Int /\ n2 \in Int /\ n3 \in Int
  BY <1>3, <1>4, <1>7
<1>11. ((p0 + u * p2) + v * (p1 + u * p3)) * x = m0 + n1 + n2 + n3
  BY <1>3, <1>4
<1>12. Cong(m1, n1) /\ Cong(m2, n2) /\ Cong(m3, n3)
  BY <1>9
<1>. HIDE DEF m0, m1, m2, m3, n1, n2, n3
<1>13. Cong(m0 + m1, m0 + n1) /\ m0 + m1 \in Int /\ m0 + n1 \in Int
  <2>1. Cong(m0, m0)
    BY CongRefl
  <2>. QED  BY <1>10, <1>12, <2>1, CongPlus
<1>14. Cong(m0 + m1 + m2, m0 + n1 + n2) /\ m0 + m1 + m2 \in Int /\ m0 + n1 + n2 \in Int
  BY <1>10, <1>12, <1>13, CongPlus
<1>15. Cong(m0 + m1 + m2 + m3, m0 + n1 + n2 + n3)
  BY <1>10, <1>12, <1>14, CongPlus
<1>. QED  BY <1>6, <1>11, <1>15, Zenon DEF m0, m1, m2, m3, p0, p1, p2, p3, x, x1, x2, x3

\* A block of 4h coefficients, group by group.
LEMMA WholeInGroups ==
  ASSUME NEW p \in [Index -> Int], NEW h \in Distances, 4 * h <= N, NEW k \in Index
  PROVE  Cong(Whole(p, k, 4 * h), Sum([o \in 0 .. h-1 |-> Quad(p, k, h, o)], h))
<1> DEFINE f == WholeTerms(p, k, 4 * h)
           s == [o \in 0 .. h-1 |-> f[o] + f[h + o] + f[2 * h + o] + f[3 * h + o]]
           r == [o \in 0 .. h-1 |-> Quad(p, k, h, o)]
<1>1. h \in Nat /\ 4 * h \in Nat
  BY DEF Distances
<1>2. ASSUME NEW i \in 0 .. 4 * h - 1
      PROVE  f[i] = p[4 * h * (k \div (4 * h)) + i] * X(k, i) /\ 4 * h * (k \div (4 * h)) + i \in Index /\ f[i] \in Int
  <2>1. f[i] = p[4 * h * (k \div (4 * h)) + i] * X(k, i)
    BY DEF WholeTerms
  <2>2. 4 * h * (k \div (4 * h)) + i \in Index
    <3>1. CASE h = 1
      BY <3>1, Degrees DEF Index
    <3>2. CASE h = 4
      BY <3>2, Degrees DEF Index
    <3>3. CASE h = 16
      BY <3>3, Degrees DEF Index
    <3>4. CASE h = 64
      <4>1. N = 256 /\ k \in 0 .. 255
        BY <3>4, Degrees DEF Index
      <4>2. k \div 256 = 0
        BY <4>1
      <4>3. 4 * h * (k \div (4 * h)) = 0 /\ i \in 0 .. 255
        BY <3>4, <4>2
      <4>. QED  BY <4>1, <4>3 DEF Index
    <3>. QED  BY <3>1, <3>2, <3>3, <3>4 DEF Distances
  <2>3. i \in Nat
    OBVIOUS
  <2>4. X(k, i) \in Int
    BY <2>3, XIs
  <2> DEFINE y == p[4 * h * (k \div (4 * h)) + i]
  <2>5. y \in Int
    BY <2>2
  <2>6. y * X(k, i) \in Int
    <3>. HIDE DEF y
    <3>. QED  BY <2>4, <2>5
  <2>. QED  BY <2>1, <2>2, <2>6
<1>3. ASSUME NEW o \in 0 .. h-1
      PROVE  s[o] = f[o] + f[h + o] + f[2 * h + o] + f[3 * h + o] /\ s[o] \in Int /\ r[o] \in Int /\ Cong(s[o], r[o])
  <2> DEFINE j == First(GroupOf(k, h, o), h)
             b == 4 * h * (k \div (4 * h))
  <2>1. o \in 0 .. 4 * h - 1 /\ h + o \in 0 .. 4 * h - 1 /\ 2 * h + o \in 0 .. 4 * h - 1 /\ 3 * h + o \in 0 .. 4 * h - 1
    BY DEF Distances
  <2>2. j = b + o
    BY Spread, Zenon
  <2>3. b + o = j /\ b + (h + o) = j + h /\ b + (2 * h + o) = j + 2 * h /\ b + (3 * h + o) = j + 3 * h
    <3>1. b \in Int /\ o \in Int /\ h \in Int
      <4>1. k \in Int /\ 4 * h \in Nat /\ 4 * h > 0
        BY DEF Index, Distances
      <4>2. k \div (4 * h) \in Int
        BY <4>1
      <4>. QED  BY <1>1, <4>2
    <3>. HIDE DEF j, b
    <3>. QED  BY <2>2, <3>1
  <2>4. /\ f[o] = p[b + o] * X(k, o) /\ f[h + o] = p[b + (h + o)] * X(k, h + o)
        /\ f[2 * h + o] = p[b + (2 * h + o)] * X(k, 2 * h + o) /\ f[3 * h + o] = p[b + (3 * h + o)] * X(k, 3 * h + o)
        /\ f[o] \in Int /\ f[h + o] \in Int /\ f[2 * h + o] \in Int /\ f[3 * h + o] \in Int
    <3>. HIDE DEF f
    <3>. QED  BY <1>2, <2>1
  <2>5. s[o] = f[o] + f[h + o] + f[2 * h + o] + f[3 * h + o] /\ r[o] = Quad(p, k, h, o)
    OBVIOUS
  <2>6. Cong(p[j] * X(k, o) + p[j + h] * X(k, h + o) + p[j + 2 * h] * X(k, 2 * h + o) + p[j + 3 * h] * X(k, 3 * h + o),
             Quad(p, k, h, o))
    BY QuadIs, Zenon
  <2>7. Quad(p, k, h, o) \in Int
    BY TermTypes
  <2>. HIDE DEF s, f, r, j, b
  <2>8. s[o] \in Int
    BY <2>4, <2>5
  <2>9. s[o] = p[j] * X(k, o) + p[j + h] * X(k, h + o) + p[j + 2 * h] * X(k, 2 * h + o) + p[j + 3 * h] * X(k, 3 * h + o)
    BY <2>3, <2>4, <2>5, Zenon
  <2>10. Cong(s[o], r[o])
    BY <2>5, <2>6, <2>9, Zenon
  <2>. QED  BY <2>5, <2>7, <2>8, <2>10
<1>. HIDE DEF f, s, r
<1>4. Sum(f, 4 * h) = Sum(s, h)
  BY <1>1, <1>2, <1>3, SumInFour
<1>5. Cong(Sum(s, h), Sum(r, h))
  BY <1>1, <1>3, SumCong
<1>. QED  BY <1>4, <1>5 DEF Whole, f, r

\* Before the first group of a pair of layers, and after the last.
LEMMA ForwardEnds ==
  ASSUME NEW p \in [Index -> Int], NEW h \in Distances, 4 * h <= N, NEW k \in Index
  PROVE  /\ Cong(Whole(p, k, 4 * h), ForwardSum(p, k, h, 0))
         /\ ForwardSum(p, k, h, N \div 4) = Whole(p, k, h)
<1> DEFINE r == [o \in 0 .. h-1 |-> Quad(p, k, h, o)]
           s == ForwardTerms(p, k, h, 0)
           t == ForwardTerms(p, k, h, N \div 4)
           f == WholeTerms(p, k, h)
<1>1. h \in Nat
  BY DEF Distances
<1>2. \A o \in 0 .. h-1 : s[o] = r[o] /\ t[o] = f[o]
  <2> SUFFICES ASSUME NEW o \in 0 .. h-1 PROVE s[o] = r[o] /\ t[o] = f[o]
    OBVIOUS
  <2>1. GroupOf(k, h, o) \in 0 .. N \div 4 - 1 /\ N \div 4 \in Nat
    BY Spread, Degrees
  <2>2. ~(GroupOf(k, h, o) < 0) /\ GroupOf(k, h, o) < N \div 4
    BY <2>1
  <2>. QED  BY <2>2 DEF ForwardTerms, WholeTerms, Single
<1>. HIDE DEF r, s, t, f
<1>3. Sum(s, h) = Sum(r, h) /\ Sum(t, h) = Sum(f, h)
  BY <1>1, <1>2, SumSame
<1>4. Cong(Whole(p, k, 4 * h), Sum(r, h))
  BY WholeInGroups DEF r
<1>. QED  BY <1>3, <1>4 DEF s, t, f, ForwardSum, Whole

LEMMA InverseEnds ==
  ASSUME NEW p \in [Index -> Int], NEW h \in Distances, 4 * h <= N, NEW k \in Index
  PROVE  /\ InverseSum(p, k, h, 0) = 4 * Whole(p, k, h)
         /\ Cong(Whole(p, k, 4 * h), InverseSum(p, k, h, N \div 4))
<1> DEFINE r == [o \in 0 .. h-1 |-> Quad(p, k, h, o)]
           s == InverseTerms(p, k, h, 0)
           t == InverseTerms(p, k, h, N \div 4)
           f == WholeTerms(p, k, h)
<1>1. h \in Nat
  BY DEF Distances
<1>2. \A o \in 0 .. h-1 : t[o] = r[o] /\ f[o] \in Int /\ s[o] = 4 * f[o]
  <2> SUFFICES ASSUME NEW o \in 0 .. h-1 PROVE t[o] = r[o] /\ f[o] \in Int /\ s[o] = 4 * f[o]
    OBVIOUS
  <2>1. GroupOf(k, h, o) \in 0 .. N \div 4 - 1 /\ N \div 4 \in Nat
    BY Spread, Degrees
  <2>2. ~(GroupOf(k, h, o) < 0) /\ GroupOf(k, h, o) < N \div 4
    BY <2>1
  <2>3. f[o] = Single(p, k, h, o) /\ Single(p, k, h, o) \in Int
    BY TermTypes DEF WholeTerms, Single
  <2>4. t[o] = Quad(p, k, h, o) /\ s[o] = 4 * Single(p, k, h, o)
    BY <2>2 DEF InverseTerms
  <2>. QED  BY <2>3, <2>4
<1>. HIDE DEF r, s, t, f
<1>3. Sum(s, h) = 4 * Sum(f, h)
  <2>1. 4 \in Int
    OBVIOUS
  <2>. QED  BY <1>1, <1>2, <2>1, SumTimes
<1>4. Sum(t, h) = Sum(r, h)
  BY <1>1, <1>2, SumSame
<1>5. Cong(Whole(p, k, 4 * h), Sum(r, h))
  BY WholeInGroups DEF r
<1>. QED  BY <1>3, <1>4, <1>5 DEF s, t, f, InverseSum, Whole

\* A block of one coefficient, and the block of all.
LEMMA WholeEnds ==
  ASSUME NEW p \in [Index -> Int], NEW k \in Index
  PROVE  /\ Whole(p, k, 1) = p[k]
         /\ Whole(p, k, N) \in Int
         /\ Cong(Whole(p, k, N), Eval(p, Point(k))) /\ Eval(p, Point(k)) \in Int
<1>1. Whole(p, k, 1) = p[k]
  <2> DEFINE f == WholeTerms(p, k, 1)
  <2>1. 1 * (k \div 1) + 0 = k /\ p[k] \in Int
    BY Degrees DEF Index
  <2>2. f[0] = p[1 * (k \div 1) + 0] * X(k, 0)
    BY DEF WholeTerms
  <2>. HIDE DEF f
  <2>3. f[0] = p[k]
    <3>1. X(k, 0) = 1
      BY XIs
    <3>2. f[0] = p[k] * 1
      BY <2>1, <2>2, <3>1, Zenon
    <3>. QED  BY <2>1, <3>2
  <2>4. Sum(f, 0 + 1) = Sum(f, 0) + f[0] /\ Sum(f, 0) = 0
    BY SumRec
  <2>5. Sum(f, 1) = p[k]
    BY <2>1, <2>3, <2>4
  <2>. QED  BY <2>5 DEF Whole, f
<1> DEFINE f == WholeTerms(p, k, N)
           g == [i \in Index |-> (p[i] % Q) * Power[(Point(k) * i) % (2 * N)]]
<1>2. ASSUME NEW i \in 0 .. N-1 PROVE f[i] \in Int /\ g[i] \in Int /\ Cong(f[i], g[i])
  <2>1. N * (k \div N) + i = i /\ i \in Index /\ i \in Nat
    BY Degrees DEF Index
  <2>2. f[i] = p[N * (k \div N) + i] * X(k, i)
    BY DEF WholeTerms
  <2>3. g[i] = (p[i] % Q) * X(k, i)
    BY <2>1 DEF X, P
  <2>4. X(k, i) \in Int /\ p[i] \in Int
    BY <2>1, XIs
  <2>. HIDE DEF f, g
  <2> DEFINE y == p[i]
             x == X(k, i)
             r == y % Q
  <2>5. y \in Int /\ x \in Int /\ r \in Int /\ Cong(y, r)
    BY <2>4, CongMod
  <2>6. f[i] = y * x /\ g[i] = r * x
    BY <2>1, <2>2, <2>3
  <2>. HIDE DEF y, x, r
  <2>7. Cong(y * x, r * x) /\ y * x \in Int /\ r * x \in Int
    BY <2>5, CongScale
  <2>. QED  BY <2>6, <2>7
<1>3. N \in Nat /\ N \in 0 .. N
  BY Degrees
<1>. HIDE DEF f, g
<1>4. Cong(Sum(f, N), Sum(g, N)) /\ Sum(f, N) \in Int /\ Sum(g, N) \in Int
  BY <1>2, <1>3, SumCong, SumType
<1>5. Eval(p, Point(k)) = Sum(g, N) % Q
  BY DEF Eval, g
<1>6. Cong(Sum(g, N), Sum(g, N) % Q) /\ Sum(g, N) % Q \in Int
  BY <1>4, CongMod
<1>7. Whole(p, k, N) = Sum(f, N)
  BY DEF Whole, f
<1>. QED  BY <1>1, <1>4, <1>5, <1>6, <1>7, CongTrans

-----------------------------------------------------------------------------
(***************************************************************************)
(* The transforms                                                          *)
(***************************************************************************)

Values == [Index -> Int]

EvalOf(p) == [k \in Index |-> Eval(p, Point(k))]

\* ntt on its way to the values v.
Forward(v) ==
  /\ a \in Values /\ dir \in {"forward", "idle"}
  /\ dir = "forward" =>
       /\ half \in Distances /\ 4 * half <= N /\ group \in 0 .. N \div 4 - 1
       /\ \A k \in Index : Cong(ForwardSum(a, k, half, group), v[k])
  /\ dir = "idle" => \A k \in Index : Cong(a[k], v[k])

\* invntt of the values v, N times too large at its end.
Inverse(v) ==
  /\ a \in Values /\ dir \in {"inverse", "idle"}
  /\ dir = "inverse" =>
       /\ half \in Distances /\ 4 * half <= N /\ group \in 0 .. N \div 4 - 1
       /\ \A k \in Index : Cong(InverseSum(a, k, half, group), (4 * half) * v[k])
  /\ dir = "idle" => \A k \in Index : Cong(Whole(a, k, N), N * v[k])

LEMMA HalfIs ==
  /\ 1 \in Distances /\ 4 * 1 <= N
  /\ N \div 4 \in Distances /\ 4 * (N \div 4) = N /\ N <= N
  /\ 0 \in 0 .. N \div 4 - 1 /\ N \div 4 \in Nat
  /\ \A h \in Distances : /\ h \in Nat
                          /\ h < 4 <=> h = 1
                          /\ h >= 4 => h \div 4 \in Distances /\ 4 * (h \div 4) = h
                          /\ 4 * h < N => 4 * h \in Distances /\ 4 * (4 * h) <= N
  BY Degrees DEF Distances

LEMMA EvalType == ASSUME NEW p \in Values PROVE EvalOf(p) \in Values
  BY WholeEnds DEF EvalOf, Values

LEMMA ForwardStarts ==
  ASSUME NEW p \in Values, StartForward(p)
  PROVE  /\ a' \in Values /\ dir' = "forward" /\ half' \in Distances /\ 4 * half' <= N
         /\ group' \in 0 .. N \div 4 - 1
         /\ \A k \in Index : Cong(ForwardSum(a', k, half', group'), EvalOf(p)[k])
<1>1. a' = p /\ dir' = "forward" /\ half' = N \div 4 /\ group' = 0
  BY DEF StartForward
<1>2. ASSUME NEW k \in Index PROVE Cong(ForwardSum(p, k, N \div 4, 0), EvalOf(p)[k])
  <2>1. Cong(Whole(p, k, N), EvalOf(p)[k])
    BY WholeEnds DEF EvalOf, Values
  <2> DEFINE h == N \div 4
  <2>2. h \in Distances /\ 4 * h <= N /\ 4 * h = N
    BY HalfIs
  <2>. HIDE DEF h
  <2>3. Cong(Whole(p, k, 4 * h), ForwardSum(p, k, h, 0))
    BY <2>2, ForwardEnds DEF Values
  <2>. QED  BY <2>1, <2>2, <2>3, CongSym, CongTrans DEF h
<1>. QED  BY <1>1, <1>2, HalfIs

LEMMA ForwardSteps ==
  ASSUME NEW v, Forward(v), ForwardStep
  PROVE  /\ a' \in Values /\ dir' \in {"forward", "idle"}
         /\ dir' = "forward" =>
              /\ half' \in Distances /\ 4 * half' <= N /\ group' \in 0 .. N \div 4 - 1
              /\ \A k \in Index : Cong(ForwardSum(a', k, half', group'), v[k])
         /\ dir' = "idle" => \A k \in Index : Cong(a'[k], v[k])
<1>1. /\ dir = "forward" /\ a \in Values /\ a' = ForwardGroup(a, group, half)
      /\ half \in Distances /\ 4 * half <= N /\ group \in 0 .. N \div 4 - 1
      /\ \A k \in Index : Cong(ForwardSum(a, k, half, group), v[k])
  BY DEF Forward, ForwardStep
<1>2. a' \in Values
  BY <1>1, ForwardGroupIs, Zenon DEF Values
<1>3. \A k \in Index : Cong(ForwardSum(a', k, half, group + 1), v[k])
  <2> SUFFICES ASSUME NEW k \in Index PROVE Cong(ForwardSum(a', k, half, group + 1), v[k])
    OBVIOUS
  <2>1. Cong(ForwardSum(a', k, half, group + 1), ForwardSum(a, k, half, group))
    BY <1>1, ForwardGroupKeeps DEF Values
  <2>. QED  BY <1>1, <2>1, CongTrans
<1>4. CASE MoreGroups /\ group' = group + 1 /\ UNCHANGED <<half, dir>>
  <2>1. group + 1 \in 0 .. N \div 4 - 1
    BY <1>1, <1>4, HalfIs DEF MoreGroups
  <2>. QED  BY <1>1, <1>2, <1>3, <1>4, <2>1
<1>5. ASSUME ~MoreGroups PROVE \A k \in Index : Cong(Whole(a', k, half), v[k])
  <2> SUFFICES ASSUME NEW k \in Index PROVE Cong(Whole(a', k, half), v[k])
    OBVIOUS
  <2>1. group + 1 = N \div 4
    <3>1. group \in 0 .. N \div 4 - 1 /\ ~(group + 1 < N \div 4)
      BY <1>1, <1>5 DEF MoreGroups
    <3>. QED  BY <3>1, Degrees
  <2>2. ForwardSum(a', k, half, N \div 4) = Whole(a', k, half)
    BY <1>1, <1>2, ForwardEnds DEF Values
  <2>. QED  BY <1>3, <2>1, <2>2
<1>6. CASE ~MoreGroups /\ half >= 4 /\ group' = 0 /\ half' = half \div 4 /\ UNCHANGED dir
  <2>1. half' \in Distances /\ 4 * half' = half /\ 4 * half' <= N
    <3>1. half' \in Distances /\ 4 * half' = half /\ half \in Nat
      BY <1>1, <1>6, HalfIs
    <3>2. half <= N
      <4>1. 4 * half <= N /\ half \in Nat /\ N \in Nat
        BY <1>1, <3>1, Degrees
      <4>. QED  BY <4>1
    <3>. QED  BY <3>1, <3>2
  <2>2. ASSUME NEW k \in Index PROVE Cong(ForwardSum(a', k, half', 0), v[k])
    <3>1. Cong(Whole(a', k, 4 * half'), ForwardSum(a', k, half', 0))
      BY <1>2, <2>1, ForwardEnds DEF Values
    <3>2. Cong(Whole(a', k, 4 * half'), v[k])
      BY <1>5, <1>6, <2>1
    <3>. QED  BY <3>1, <3>2, CongSym, CongTrans
  <2>. QED  BY <1>1, <1>2, <1>6, <2>1, <2>2, HalfIs
<1>7. CASE ~MoreGroups /\ half < 4 /\ group' = 0 /\ dir' = "idle" /\ UNCHANGED half
  <2>1. half = 1
    BY <1>1, <1>7, HalfIs
  <2>2. \A k \in Index : Whole(a', k, 1) = a'[k]
    BY <1>2, WholeEnds DEF Values
  <2>. QED  BY <1>2, <1>5, <1>7, <2>1, <2>2
<1>. QED  BY <1>4, <1>6, <1>7 DEF ForwardStep

LEMMA InverseStarts ==
  ASSUME NEW p \in Values, NEW v \in Values, StartInverse(p), \A k \in Index : Cong(p[k], v[k])
  PROVE  /\ a' \in Values /\ dir' = "inverse" /\ half' \in Distances /\ 4 * half' <= N
         /\ group' \in 0 .. N \div 4 - 1
         /\ \A k \in Index : Cong(InverseSum(a', k, half', group'), (4 * half') * v[k])
<1>1. a' = p /\ dir' = "inverse" /\ half' = 1 /\ group' = 0
  BY DEF StartInverse
<1>2. ASSUME NEW k \in Index PROVE Cong(InverseSum(p, k, 1, 0), (4 * 1) * v[k])
  <2>1. InverseSum(p, k, 1, 0) = 4 * Whole(p, k, 1) /\ Whole(p, k, 1) = p[k]
    BY HalfIs, InverseEnds, WholeEnds DEF Values
  <2>2. p[k] \in Int /\ v[k] \in Int /\ 4 \in Int
    BY DEF Values
  <2>3. Cong(4 * p[k], 4 * v[k])
    BY <2>2, CongScale
  <2>. QED  BY <2>1, <2>3
<1>. QED  BY <1>1, <1>2, HalfIs

LEMMA InverseSteps ==
  ASSUME NEW v \in Values, Inverse(v), InverseStep
  PROVE  /\ a' \in Values /\ dir' \in {"inverse", "idle"}
         /\ dir' = "inverse" =>
              /\ half' \in Distances /\ 4 * half' <= N /\ group' \in 0 .. N \div 4 - 1
              /\ \A k \in Index : Cong(InverseSum(a', k, half', group'), (4 * half') * v[k])
         /\ dir' = "idle" => \A k \in Index : Cong(Whole(a', k, N), N * v[k])
<1>1. /\ dir = "inverse" /\ a \in Values /\ a' = InverseGroup(a, group, half)
      /\ half \in Distances /\ 4 * half <= N /\ group \in 0 .. N \div 4 - 1
      /\ \A k \in Index : Cong(InverseSum(a, k, half, group), (4 * half) * v[k])
  BY DEF Inverse, InverseStep
<1>2. a' \in Values
  BY <1>1, InverseGroupIs, Zenon DEF Values
<1>3. \A k \in Index : Cong(InverseSum(a', k, half, group + 1), (4 * half) * v[k])
  <2> SUFFICES ASSUME NEW k \in Index PROVE Cong(InverseSum(a', k, half, group + 1), (4 * half) * v[k])
    OBVIOUS
  <2>1. Cong(InverseSum(a', k, half, group + 1), InverseSum(a, k, half, group))
    BY <1>1, InverseGroupKeeps DEF Values
  <2>. QED  BY <1>1, <2>1, CongTrans
<1>4. CASE MoreGroups /\ group' = group + 1 /\ UNCHANGED <<half, dir>>
  <2>1. group + 1 \in 0 .. N \div 4 - 1
    BY <1>1, <1>4, HalfIs DEF MoreGroups
  <2>. QED  BY <1>1, <1>2, <1>3, <1>4, <2>1
<1>5. ASSUME ~MoreGroups PROVE \A k \in Index : Cong(Whole(a', k, 4 * half), (4 * half) * v[k])
  <2> SUFFICES ASSUME NEW k \in Index PROVE Cong(Whole(a', k, 4 * half), (4 * half) * v[k])
    OBVIOUS
  <2>1. group + 1 = N \div 4
    <3>1. group \in 0 .. N \div 4 - 1 /\ ~(group + 1 < N \div 4)
      BY <1>1, <1>5 DEF MoreGroups
    <3>. QED  BY <3>1, Degrees
  <2>2. Cong(Whole(a', k, 4 * half), InverseSum(a', k, half, N \div 4))
    BY <1>1, <1>2, InverseEnds DEF Values
  <2>. QED  BY <1>3, <2>1, <2>2, CongTrans
<1>6. CASE ~MoreGroups /\ 4 * half < N /\ group' = 0 /\ half' = 4 * half /\ UNCHANGED dir
  <2>1. half' \in Distances /\ half' = 4 * half /\ 4 * half' <= N /\ half' \in Nat
    BY <1>1, <1>6, HalfIs
  <2>2. ASSUME NEW k \in Index PROVE Cong(InverseSum(a', k, half', 0), (4 * half') * v[k])
    <3>1. InverseSum(a', k, half', 0) = 4 * Whole(a', k, half')
      BY <1>2, <2>1, InverseEnds DEF Values
    <3>2. Cong(Whole(a', k, half'), half' * v[k])
      BY <1>5, <1>6, <2>1
    <3> DEFINE x == Whole(a', k, half')
               y == v[k]
               h == half'
    <3>3. x \in Int
      <4> DEFINE f == WholeTerms(a', k, h)
      <4>1. ASSUME NEW o \in 0 .. h-1 PROVE f[o] \in Int
        <5>1. f[o] = Single(a', k, h, o)
          BY DEF WholeTerms, Single
        <5>2. Single(a', k, h, o) \in Int
          BY <1>2, <2>1, TermTypes DEF Values
        <5>. QED  BY <5>1, <5>2
      <4>2. h \in 0 .. h /\ h \in Nat
        BY <2>1
      <4>. HIDE DEF f, h
      <4>3. Sum(f, h) \in Int
        BY <4>1, <4>2, SumType
      <4>. QED  BY <4>3 DEF Whole, f, h
    <3>4. y \in Int /\ h \in Int /\ 4 \in Int
      BY <2>1 DEF Values
    <3>. HIDE DEF x, y, h
    <3>5. h * y \in Int /\ 4 * (h * y) = (4 * h) * y
      BY <3>4
    <3>6. Cong(4 * x, 4 * (h * y))
      BY <3>2, <3>3, <3>4, <3>5, CongScale DEF x, y, h
    <3>. QED  BY <3>1, <3>5, <3>6 DEF x, y, h
  <2>. QED  BY <1>1, <1>2, <1>6, <2>1, <2>2, HalfIs
<1>7. CASE ~MoreGroups /\ 4 * half = N /\ group' = 0 /\ dir' = "idle" /\ UNCHANGED half
  <2>1. \A k \in Index : Cong(Whole(a', k, N), N * v[k])
    BY <1>5, <1>7
  <2>. QED  BY <1>2, <1>7, <2>1
<1>. QED  BY <1>4, <1>6, <1>7 DEF InverseStep

-----------------------------------------------------------------------------
(***************************************************************************)
(* The factors that cancel                                                 *)
(***************************************************************************)

LEMMA InvertedIs ==
  ASSUME NEW x \in {Radix, N}
  PROVE  x \in Int /\ Inverted(x) \in Int /\ Cong(x * Inverted(x), 1)
<1>1. \E y \in 1 .. Q-1 : (x * y) % Q = 1
  <2>1. \A z \in {Radix, N} : \E y \in 1 .. Q-1 : (z * y) % Q = 1
    BY RowAssumption
  <2>. QED  BY <2>1, Zenon
<1>2. Inverted(x) \in 1 .. Q-1 /\ (x * Inverted(x)) % Q = 1
  BY <1>1, Zenon DEF Inverted
<1>3. 1 % Q = 1
  BY ModulusIs
<1>4. Radix \in Nat /\ N \in Nat
  BY RowAssumption, Degrees
<1>. QED  BY <1>2, <1>3, <1>4, ModulusIs DEF Cong

LEMMA FactorIs ==
  INVNTT_SCALE \in Int /\ Cong(Inverted(Radix) * INVNTT_SCALE, Inverted(N))
<1> DEFINE r == Radix
           s == Inverted(Radix)
           m == Inverted(N)
           f == INVNTT_SCALE
<1>1. r \in Int /\ s \in Int /\ m \in Int /\ Cong(r * s, 1) /\ r * m \in Int /\ f = (r * m) % Q
  <2>1. r \in Int /\ s \in Int /\ m \in Int /\ Cong(r * s, 1) /\ f = (r * m) % Q
    BY InvertedIs DEF INVNTT_SCALE
  <2>. HIDE DEF r, s, m, f
  <2>. QED  BY <2>1
<1>. HIDE DEF r, s, m, f
<1>2. f \in Int /\ Cong(f, r * m)
  BY <1>1, CongMod
<1>3. Cong(s * f, s * (r * m))
  BY <1>1, <1>2, CongScale
<1>4. r * s \in Int /\ s * (r * m) = (r * s) * m /\ 1 \in Int /\ 1 * m = m
  BY <1>1
<1>5. Cong((r * s) * m, 1 * m)
  BY <1>1, <1>4, CongScale
<1>. QED  BY <1>2, <1>3, <1>4, <1>5, CongTrans DEF f, s, m

LEMMA NegatedProduct ==
  ASSUME NEW x \in Int, NEW f \in Int
  PROVE  Centred(-f * (x % Q)) \in Int /\ Cong(Centred(-f * (x % Q)), -(f * x))
         /\ -Q < Centred(-f * (x % Q)) /\ Centred(-f * (x % Q)) < Q
<1> DEFINE r == x % Q
<1>1. r \in Int /\ Cong(r, x)
  BY CongMod
<1>. HIDE DEF r
<1>2. -f * r \in Int /\ -f * r = -(f * r) /\ f * r \in Int /\ f * x \in Int
  BY <1>1
<1>3. Cong(f * r, f * x)
  BY <1>1, CongScale
<1>4. Cong(-(f * r), -(f * x))
  BY <1>2, <1>3, CongNeg
<1>5. Centred(-f * r) \in Int /\ Cong(Centred(-f * r), -f * r) /\ -Q < Centred(-f * r) /\ Centred(-f * r) < Q
  BY <1>2, CongCentred
<1>6. Cong(Centred(-f * r), -(f * x))
  BY <1>2, <1>4, <1>5, CongTrans
<1>. QED  BY <1>5, <1>6 DEF r

LEMMA ReducedIs ==
  ASSUME NEW x \in Int
  PROVE  /\ Scaled(x) \in Int /\ Cong(Scaled(x), -(INVNTT_SCALE * x))
         /\ Reduced(x) \in Int /\ Cong(Reduced(x), -(Inverted(Radix) * x))
         /\ caddq(Scaled(x)) \in 0 .. Q-1 /\ Cong(caddq(Scaled(x)), -(INVNTT_SCALE * x))
<1>1. Inverted(Radix) \in Int /\ INVNTT_SCALE \in Int
  BY InvertedIs, FactorIs
<1>2. Scaled(x) \in Int /\ Cong(Scaled(x), -(INVNTT_SCALE * x)) /\ -Q < Scaled(x) /\ Scaled(x) < Q
  BY <1>1, NegatedProduct DEF Scaled
<1>3. Reduced(x) \in Int /\ Cong(Reduced(x), -(Inverted(Radix) * x))
  BY <1>1, NegatedProduct DEF Reduced
<1> DEFINE y == Scaled(x)
<1>4. caddq(y) \in 0 .. Q-1 /\ Cong(caddq(y), y)
  <2>. HIDE DEF y
  <2>1. y \in Int /\ -Q < y /\ y < Q
    BY <1>2 DEF y
  <2>2. CASE y < 0
    <3>1. caddq(y) = y + Q /\ y + Q \in 0 .. Q-1
      BY <2>1, <2>2, ModulusIs DEF caddq
    <3>2. y + Q = 1 * Q + y /\ y + Q \in Int /\ 1 \in Int
      BY <2>1, ModulusIs
    <3>. QED  BY <2>1, <3>1, <3>2, CongIs
  <2>3. CASE ~(y < 0)
    BY <2>1, <2>3, ModulusIs, CongRefl DEF caddq
  <2>. QED  BY <2>2, <2>3
<1>. QED  BY <1>2, <1>3, <1>4, CongTrans

\* The factors of a prepared row, its one reduction included, leave 1/N.
LEMMA PreparedFactors ==
  ASSUME NEW x \in Int, NEW v \in Int, Cong(x, -(INVNTT_SCALE * v))
  PROVE  Reduced(x) \in Int /\ Cong(Reduced(x), Inverted(N) * v)
<1> DEFINE f == INVNTT_SCALE
           s == Inverted(Radix)
           m == Inverted(N)
<1>1. f \in Int /\ s \in Int /\ m \in Int /\ Cong(s * f, m)
  BY FactorIs, InvertedIs
<1>2. Reduced(x) \in Int /\ Cong(Reduced(x), -(s * x)) /\ Cong(x, -(f * v))
  BY ReducedIs
<1>. HIDE DEF f, s, m
<1>3. -(f * v) \in Int /\ s * x \in Int /\ s * (-(f * v)) \in Int /\ -(s * (-(f * v))) = (s * f) * v /\ s * f \in Int
  BY <1>1
<1>4. Cong(s * x, s * (-(f * v)))
  BY <1>1, <1>2, <1>3, CongScale
<1>5. Cong(-(s * x), -(s * (-(f * v))))
  BY <1>3, <1>4, CongNeg
<1>6. Cong((s * f) * v, m * v)
  BY <1>1, <1>3, CongScale
<1>. QED  BY <1>2, <1>3, <1>5, <1>6, CongTrans DEF m

\* The two reductions of reduce_row as well.
LEMMA RawFactors ==
  ASSUME NEW x \in Int, NEW v \in Int, Cong(x, v)
  PROVE  Scaled(Reduced(x)) \in Int /\ Cong(Scaled(Reduced(x)), Inverted(N) * v)
<1> DEFINE f == INVNTT_SCALE
           s == Inverted(Radix)
           m == Inverted(N)
           y == Reduced(x)
<1>1. f \in Int /\ s \in Int /\ m \in Int /\ Cong(s * f, m)
  BY FactorIs, InvertedIs
<1>2. y \in Int /\ Cong(y, -(s * x))
  BY ReducedIs
<1>3. Scaled(y) \in Int /\ Cong(Scaled(y), -(f * y))
  BY <1>2, ReducedIs
<1>. HIDE DEF f, s, m, y
<1>4. /\ -(s * x) \in Int /\ f * y \in Int /\ f * (-(s * x)) \in Int /\ -(f * (-(s * x))) = (s * f) * x
      /\ s * f \in Int /\ m * x \in Int
  BY <1>1, <1>2
<1>5. Cong(f * y, f * (-(s * x)))
  BY <1>1, <1>2, <1>4, CongScale
<1>6. Cong(-(f * y), -(f * (-(s * x))))
  BY <1>4, <1>5, CongNeg
<1>7. Cong((s * f) * x, m * x) /\ Cong(m * x, m * v)
  BY <1>1, <1>4, CongScale
<1>. QED  BY <1>3, <1>4, <1>6, <1>7, CongTrans DEF m, y

-----------------------------------------------------------------------------
(***************************************************************************)
(* The row                                                                 *)
(***************************************************************************)

\* What the row of in is at point k.
Products(in, k) == Sum([j \in Columns |-> in.A[j][k] * Eval(in.z[j], Point(k))], L)
RowValue(in, k) == Products(in, k) - Eval(in.c, Point(k)) * Eval(in.t, Point(k))

\* What invntt starts from: it multiplies by N.
Target(in) == [k \in Index |-> Inverted(N) * RowValue(in, k)]

LEMMA Count == L \in Nat /\ 0 < L /\ L \in 0 .. L /\ L \notin Columns /\ Columns \subseteq 0 .. L
  BY RowAssumption DEF Columns

LEMMA InputTypes ==
  ASSUME NEW in \in Inputs
  PROVE  /\ \A j \in Columns : in.A[j] \in Values /\ in.z[j] \in Values
         /\ in.c \in Values /\ in.t \in Values
  BY InputsAssumption DEF Values, Index

LEMMA EvalIs ==
  ASSUME NEW p \in Values, NEW k \in Index
  PROVE  Eval(p, Point(k)) \in Int /\ EvalOf(p)[k] = Eval(p, Point(k))
  BY WholeEnds DEF EvalOf, Values

LEMMA RowValueType ==
  ASSUME NEW in \in Inputs
  PROVE  /\ \A k \in Index : Products(in, k) \in Int /\ RowValue(in, k) \in Int
         /\ Target(in) \in Values
<1>1. ASSUME NEW k \in Index PROVE Products(in, k) \in Int /\ RowValue(in, k) \in Int
  <2> DEFINE f == [j \in Columns |-> in.A[j][k] * Eval(in.z[j], Point(k))]
  <2>1. ASSUME NEW j \in 0 .. L-1 PROVE f[j] \in Int
    <3> DEFINE x == in.A[j][k]
               y == Eval(in.z[j], Point(k))
    <3>1. j \in Columns
      BY DEF Columns
    <3>2. x \in Int /\ y \in Int
      BY <3>1, InputTypes, EvalIs DEF Values
    <3>3. f[j] = x * y
      BY <3>1
    <3>. HIDE DEF x, y, f
    <3>. QED  BY <3>2, <3>3
  <2>. HIDE DEF f
  <2>2. Sum(f, L) \in Int
    BY <2>1, Count, SumType
  <2>3. Products(in, k) \in Int
    BY <2>2 DEF Products, f
  <2> DEFINE x == Eval(in.c, Point(k))
             y == Eval(in.t, Point(k))
             s == Products(in, k)
  <2>4. x \in Int /\ y \in Int /\ s \in Int
    BY <2>3, InputTypes, EvalIs
  <2>5. RowValue(in, k) = s - x * y
    BY DEF RowValue
  <2>. HIDE DEF x, y, s
  <2>6. RowValue(in, k) \in Int
    BY <2>4, <2>5
  <2>. QED  BY <2>3, <2>6
<1>2. Inverted(N) \in Int
  BY InvertedIs
<1>3. Target(in) \in Values
  <2> DEFINE m == Inverted(N)
  <2>1. \A k \in Index : m * RowValue(in, k) \in Int
    <3>. HIDE DEF m
    <3>. QED  BY <1>1, <1>2 DEF m
  <2>. QED  BY <2>1 DEF Target, Values
<1>. QED  BY <1>1, <1>3

\* A difference of a sum and a product, with everything replaced.
LEMMA RowCong ==
  ASSUME NEW s \in Int, NEW r \in Int, NEW c \in Int, NEW d \in Int, NEW t \in Int, NEW u \in Int,
         Cong(s, r), Cong(c, d), Cong(t, u)
  PROVE  Cong(s - c * t, r - d * u) /\ s - c * t \in Int /\ r - d * u \in Int
<1>1. Cong(c * t, d * u) /\ c * t \in Int /\ d * u \in Int
  BY CongTimes
<1>. QED  BY <1>1, CongPlus

\* A sum of products with transformed columns.
LEMMA ProductsCong ==
  ASSUME NEW in \in Inputs, NEW k \in Index, NEW x, NEW y, NEW f \in Int, NEW s,
         \A j \in Columns : /\ x[j] \in Int /\ Cong(x[j], f * in.A[j][k])
                            /\ y[j] \in Int /\ Cong(y[j], Eval(in.z[j], Point(k)))
                            /\ s[j] = x[j] * y[j]
  PROVE  Sum(s, L) \in Int /\ Cong(Sum(s, L), f * Products(in, k))
<1> DEFINE g == [j \in Columns |-> in.A[j][k] * Eval(in.z[j], Point(k))]
           r == [j \in Columns |-> f * g[j]]
<1>1. ASSUME NEW j \in 0 .. L-1
      PROVE  s[j] \in Int /\ r[j] \in Int /\ g[j] \in Int /\ Cong(s[j], r[j]) /\ r[j] = f * g[j]
  <2> DEFINE b == in.A[j][k]
             e == Eval(in.z[j], Point(k))
             v == x[j]
             z == y[j]
  <2>1. j \in Columns
    BY DEF Columns
  <2>2. b \in Int /\ e \in Int
    BY <2>1, InputTypes, EvalIs DEF Values
  <2>3. v \in Int /\ Cong(v, f * b) /\ z \in Int /\ Cong(z, e) /\ s[j] = v * z
    BY <2>1
  <2>4. g[j] = b * e /\ r[j] = f * g[j]
    BY <2>1
  <2>. HIDE DEF b, e, v, z, g, r
  <2>5. f * b \in Int /\ (f * b) * e = f * (b * e) /\ v * z \in Int /\ b * e \in Int /\ f * (b * e) \in Int
    BY <2>2, <2>3
  <2>6. Cong(v * z, (f * b) * e)
    BY <2>2, <2>3, <2>5, CongTimes
  <2>. QED  BY <2>3, <2>4, <2>5, <2>6
<1>. HIDE DEF g, r
<1>2. Cong(Sum(s, L), Sum(r, L)) /\ Sum(s, L) \in Int
  BY <1>1, Count, SumCong, SumType
<1>3. Sum(r, L) = f * Sum(g, L)
  BY <1>1, Count, SumTimes
<1>. QED  BY <1>2, <1>3 DEF Products, g

-----------------------------------------------------------------------------
(***************************************************************************)
(* The inductive invariant                                                 *)
(***************************************************************************)

Shape ==
  /\ input \in Inputs
  /\ path \in {"prepared", "raw"}
  /\ stage \in {"key", "t1", "z", "c", "matrix", "w"}
  /\ col \in 0 .. L
  /\ rows \in [0 .. L -> [Index -> 0 .. Q-1]]
  /\ zhat \in [Columns -> Values] /\ chat \in Values /\ w \in Values /\ a \in Values
  /\ stage = "z" => col \in Columns
  /\ stage = "c" => col = 0
  /\ stage = "matrix" => path = "raw"
  /\ stage = "t1" /\ path = "raw" => col = L
  /\ path = "raw" /\ stage \in {"key", "z", "c"} => w = Zero

\* What each use of the transform is on its way to.
InProgress ==
  /\ stage = "t1" => Forward(EvalOf(input.t))
  /\ stage = "z" => Forward(EvalOf(input.z[col]))
  /\ stage = "c" => Forward(EvalOf(input.c))
  /\ stage = "w" => Inverse(Target(input))
  /\ stage \in {"key", "matrix"} => dir = "idle"

Stored ==
  path = "prepared" =>
    /\ stage # "key" =>
         \A j \in Columns, k \in Index : Cong(rows[j][k], -(INVNTT_SCALE * input.A[j][k]))
    /\ stage \in {"z", "c", "w"} =>
         \A k \in Index : Cong(rows[L][k], -(INVNTT_SCALE * Eval(input.t, Point(k))))

\* The columns whose z is transformed.
Taken(j) ==
  \/ stage \in {"c", "matrix", "w"}
  \/ stage = "t1" /\ path = "raw"
  \/ stage = "z" /\ j < col

Gathered ==
  /\ \A j \in Columns : Taken(j) => \A k \in Index : Cong(zhat[j][k], Eval(input.z[j], Point(k)))
  /\ stage = "matrix" \/ (stage = "t1" /\ path = "raw") =>
       /\ \A k \in Index : Cong(chat[k], Eval(input.c, Point(k)))
       /\ \A k \in Index : w[k] = Sum([j \in Columns |-> input.A[j][k] * zhat[j][k]], col)

IInv == Shape /\ InProgress /\ Stored /\ Gathered

\* A value of a polynomial is a residue.
LEMMA EvalReduced ==
  ASSUME NEW p \in Values, NEW k \in Index
  PROVE  Eval(p, Point(k)) % Q = Eval(p, Point(k))
<1> DEFINE g == [i \in Index |-> (p[i] % Q) * Power[(Point(k) * i) % (2 * N)]]
           s == Sum(g, N)
<1>1. Eval(p, Point(k)) = s % Q
  BY DEF Eval
<1>2. \A i \in 0 .. N-1 : g[i] \in Int
  <2> SUFFICES ASSUME NEW i \in 0 .. N-1 PROVE g[i] \in Int
    OBVIOUS
  <2> DEFINE y == p[i] % Q
             x == X(k, i)
  <2>1. i \in Index /\ i \in Nat /\ p[i] \in Int
    BY Degrees DEF Index, Values
  <2>2. x \in Int /\ y \in Int
    BY <2>1, XIs, CongMod
  <2>3. g[i] = y * x
    BY <2>1 DEF X, P
  <2>. HIDE DEF x, y, g
  <2>. QED  BY <2>2, <2>3
<1>3. N \in Nat /\ N \in 0 .. N
  BY Degrees
<1>. HIDE DEF g
<1>4. s \in Int
  BY <1>2, <1>3, SumType
<1>. HIDE DEF s
<1>5. (s % Q) % Q = s % Q
  BY <1>4, CongMod DEF Cong
<1>. QED  BY <1>1, <1>5

LEMMA FrozenIs ==
  ASSUME NEW p \in Values
  PROVE  /\ Frozen(p) \in [Index -> 0 .. Q-1]
         /\ \A k \in Index : Cong(Frozen(p)[k], -(INVNTT_SCALE * p[k]))
<1>1. ASSUME NEW k \in Index
      PROVE  caddq(Scaled(p[k])) \in 0 .. Q-1 /\ Cong(caddq(Scaled(p[k])), -(INVNTT_SCALE * p[k]))
  <2>1. p[k] \in Int
    BY DEF Values
  <2>. QED  BY <2>1, ReducedIs
<1>. QED  BY <1>1 DEF Frozen

LEMMA InitInv == Init => IInv
<1> SUFFICES ASSUME Init PROVE IInv
  OBVIOUS
<1>1. 0 \in 0 .. Q-1 /\ Zero \in Values /\ Zero \in [Index -> 0 .. Q-1]
  BY ModulusIs DEF Zero, Values
<1>2. Shape
  BY <1>1, Count DEF Init, Shape
<1>3. stage = "key" /\ dir = "idle"
  BY DEF Init
<1>. QED  BY <1>2, <1>3 DEF IInv, InProgress, Stored, Gathered, Taken

LEMMA PrepareMatrixKeeps == ASSUME IInv, PrepareMatrix PROVE IInv'
<1>1. /\ Shape /\ path = "prepared" /\ stage = "key"
      /\ rows' = [j \in 0 .. L |-> IF j < L THEN Frozen(input.A[j]) ELSE rows[j]]
      /\ stage' = "t1" /\ StartForward(input.t)
      /\ UNCHANGED <<input, path, col, zhat, chat, w>>
  BY DEF IInv, PrepareMatrix, Finished
<1>2. input.t \in Values /\ input \in Inputs /\ \A j \in Columns : input.A[j] \in Values
  BY <1>1, InputTypes DEF Shape
<1>3. /\ a' \in Values /\ dir' = "forward" /\ half' \in Distances /\ 4 * half' <= N
      /\ group' \in 0 .. N \div 4 - 1
      /\ \A k \in Index : Cong(ForwardSum(a', k, half', group'), EvalOf(input.t)[k])
  BY <1>1, <1>2, ForwardStarts
<1>4. \A j \in Columns : rows'[j] = Frozen(input.A[j])
  <2>1. \A j \in Columns : j \in 0 .. L /\ j < L
    BY Count DEF Columns
  <2>. QED  BY <1>1, <2>1
<1>5. rows' \in [0 .. L -> [Index -> 0 .. Q-1]]
  <2>1. \A j \in 0 .. L : (IF j < L THEN Frozen(input.A[j]) ELSE rows[j]) \in [Index -> 0 .. Q-1]
    <3> SUFFICES ASSUME NEW j \in 0 .. L PROVE (IF j < L THEN Frozen(input.A[j]) ELSE rows[j]) \in [Index -> 0 .. Q-1]
      OBVIOUS
    <3>1. ASSUME j < L PROVE Frozen(input.A[j]) \in [Index -> 0 .. Q-1]
      <4>1. j \in Columns
        BY <3>1, Count DEF Columns
      <4>. QED  BY <1>2, <4>1, FrozenIs
    <3>2. rows[j] \in [Index -> 0 .. Q-1]
      BY <1>1 DEF Shape
    <3>. QED  BY <3>1, <3>2
  <2>. QED  BY <1>1, <2>1
<1>6. Shape'
  BY <1>1, <1>3, <1>5 DEF Shape
<1>7. InProgress'
  BY <1>1, <1>3 DEF InProgress, Forward
<1>8. Stored'
  <2>1. \A j \in Columns, k \in Index : Cong(rows'[j][k], -(INVNTT_SCALE * input.A[j][k]))
    BY <1>2, <1>4, FrozenIs
  <2>. QED  BY <1>1, <2>1 DEF Stored
<1>9. Gathered'
  BY <1>1 DEF Gathered, Taken
<1>. QED  BY <1>6, <1>7, <1>8, <1>9 DEF IInv

\* The transform of the z of one column starts.
LEMMA StartZIs ==
  ASSUME input \in Inputs, NEW j \in Columns, StartZ(j)
  PROVE  /\ stage' = "z" /\ col' = j
         /\ a' \in Values /\ dir' = "forward" /\ half' \in Distances /\ 4 * half' <= N
         /\ group' \in 0 .. N \div 4 - 1
         /\ \A k \in Index : Cong(ForwardSum(a', k, half', group'), EvalOf(input.z[j])[k])
<1>1. input.z[j] \in Values /\ StartForward(input.z[j]) /\ stage' = "z" /\ col' = j
  BY InputTypes DEF StartZ
<1>. QED  BY <1>1, ForwardStarts

LEMMA PrepareT1Keeps == ASSUME IInv, PrepareT1 PROVE IInv'
<1>1. /\ Shape /\ path = "prepared" /\ stage = "t1" /\ dir = "idle"
      /\ rows' = [rows EXCEPT ![L] = Frozen(a)]
      /\ StartZ(0)
      /\ UNCHANGED <<input, path, zhat, chat, w>>
  BY DEF IInv, PrepareT1, Finished
<1>2. input \in Inputs /\ a \in Values /\ 0 \in Columns /\ rows \in [0 .. L -> [Index -> 0 .. Q-1]]
  BY <1>1, Count DEF Shape, Columns
<1>3. /\ stage' = "z" /\ col' = 0
      /\ a' \in Values /\ dir' = "forward" /\ half' \in Distances /\ 4 * half' <= N
      /\ group' \in 0 .. N \div 4 - 1
      /\ \A k \in Index : Cong(ForwardSum(a', k, half', group'), EvalOf(input.z[0])[k])
  BY <1>1, <1>2, StartZIs
<1>4. /\ rows' \in [0 .. L -> [Index -> 0 .. Q-1]] /\ rows'[L] = Frozen(a)
      /\ \A j \in Columns : rows'[j] = rows[j]
  BY <1>1, <1>2, FrozenIs, Count
<1>5. Shape'
  BY <1>1, <1>2, <1>3, <1>4, Count DEF Shape
<1>6. InProgress'
  BY <1>1, <1>3 DEF InProgress, Forward
<1>7. Stored'
  <2>1. \A j \in Columns, k \in Index : Cong(rows'[j][k], -(INVNTT_SCALE * input.A[j][k]))
    BY <1>1, <1>4 DEF IInv, Stored
  <2>2. ASSUME NEW k \in Index PROVE Cong(rows'[L][k], -(INVNTT_SCALE * Eval(input.t, Point(k))))
    <3> DEFINE f == INVNTT_SCALE
               x == a[k]
               y == Eval(input.t, Point(k))
    <3>1. x \in Int /\ y \in Int /\ EvalOf(input.t)[k] = y
      BY <1>2, InputTypes, EvalIs DEF Values
    <3>2. Cong(x, y)
      BY <1>1, <3>1 DEF IInv, InProgress, Forward
    <3>3. f \in Int
      BY FactorIs
    <3>4. Cong(Frozen(a)[k], -(f * x))
      BY <1>2, FrozenIs
    <3>. HIDE DEF f, x, y
    <3>5. Cong(f * x, f * y) /\ f * x \in Int /\ f * y \in Int
      <4>1. f * x \in Int /\ f * y \in Int
        BY <3>1, <3>3
      <4>. QED  BY <3>1, <3>2, <3>3, <4>1, CongScale
    <3>6. Cong(-(f * x), -(f * y))
      BY <3>5, CongNeg
    <3>. QED  BY <1>4, <3>4, <3>6, CongTrans DEF f, y
  <2>. QED  BY <1>1, <1>3, <2>1, <2>2 DEF Stored
<1>8. Gathered'
  <2>1. \A j \in Columns : ~(j < 0)
    BY DEF Columns
  <2>. QED  BY <1>1, <1>3, <2>1 DEF Gathered, Taken
<1>. QED  BY <1>5, <1>6, <1>7, <1>8 DEF IInv

LEMMA StartRawKeeps == ASSUME IInv, StartRaw PROVE IInv'
<1>1. /\ Shape /\ path = "raw" /\ stage = "key"
      /\ StartZ(0)
      /\ UNCHANGED <<input, path, rows, zhat, chat, w>>
  BY DEF IInv, StartRaw, Finished
<1>2. input \in Inputs /\ 0 \in Columns
  BY <1>1, Count DEF Shape, Columns
<1>3. /\ stage' = "z" /\ col' = 0
      /\ a' \in Values /\ dir' = "forward" /\ half' \in Distances /\ 4 * half' <= N
      /\ group' \in 0 .. N \div 4 - 1
      /\ \A k \in Index : Cong(ForwardSum(a', k, half', group'), EvalOf(input.z[0])[k])
  BY <1>1, <1>2, StartZIs
<1>4. Zero' = Zero
  BY DEF Zero
<1>5. Shape'
  BY <1>1, <1>2, <1>3, <1>4, Count DEF Shape
<1>6. InProgress'
  BY <1>1, <1>3 DEF InProgress, Forward
<1>7. Stored'
  BY <1>1 DEF Stored
<1>8. Gathered'
  <2>1. \A j \in Columns : ~(j < 0)
    BY DEF Columns
  <2>. QED  BY <1>1, <1>3, <2>1 DEF Gathered, Taken
<1>. QED  BY <1>5, <1>6, <1>7, <1>8 DEF IInv

LEMMA TakeZKeeps == ASSUME IInv, TakeZ PROVE IInv'
<1>1. /\ Shape /\ stage = "z" /\ dir = "idle"
      /\ zhat' = [zhat EXCEPT ![col] = a]
      /\ \/ col + 1 < L /\ StartZ(col + 1)
         \/ col + 1 = L /\ stage' = "c" /\ col' = 0 /\ StartForward(input.c)
      /\ UNCHANGED <<input, path, rows, chat, w>>
  BY DEF IInv, TakeZ, Finished
<1>2. input \in Inputs /\ a \in Values /\ col \in Columns /\ zhat \in [Columns -> Values] /\ input.c \in Values
  BY <1>1, InputTypes DEF Shape
<1>3. col \in Int /\ 0 <= col /\ L \in Nat /\ \A j \in Columns : j \in Int /\ 0 <= j /\ j < L
  BY <1>2, Count DEF Columns
<1>4. /\ a' \in Values /\ dir' = "forward" /\ half' \in Distances /\ 4 * half' <= N
      /\ group' \in 0 .. N \div 4 - 1
      /\ \/ /\ stage' = "z" /\ col' = col + 1 /\ col' \in Columns
            /\ \A k \in Index : Cong(ForwardSum(a', k, half', group'), EvalOf(input.z[col'])[k])
         \/ /\ stage' = "c" /\ col' = 0 /\ col + 1 = L
            /\ \A k \in Index : Cong(ForwardSum(a', k, half', group'), EvalOf(input.c)[k])
  <2>1. CASE col + 1 < L /\ StartZ(col + 1)
    <3>1. col + 1 \in Columns
      BY <1>3, <2>1 DEF Columns
    <3>. QED  BY <1>2, <2>1, <3>1, StartZIs
  <2>2. CASE col + 1 = L /\ stage' = "c" /\ col' = 0 /\ StartForward(input.c)
    BY <1>2, <2>2, ForwardStarts
  <2>. QED  BY <1>1, <2>1, <2>2
<1>5. zhat' \in [Columns -> Values] /\ zhat'[col] = a /\ \A j \in Columns : j # col => zhat'[j] = zhat[j]
  BY <1>1, <1>2
<1>6. Shape'
  <2>1. col' \in 0 .. L
    <3>1. 0 \in 0 .. L /\ \A j \in Columns : j \in 0 .. L
      BY Count
    <3>. QED  BY <1>4, <3>1
  <2>2. Zero' = Zero
    BY DEF Zero
  <2>. QED  BY <1>1, <1>2, <1>4, <1>5, <2>1, <2>2 DEF Shape
<1>7. InProgress'
  BY <1>1, <1>4 DEF InProgress, Forward
<1>8. Stored'
  BY <1>1, <1>4 DEF IInv, Stored
<1>9. Gathered'
  <2>1. ASSUME NEW j \in Columns, Taken(j)'
        PROVE  \A k \in Index : Cong(zhat'[j][k], Eval(input.z[j], Point(k)))
    <3>1. CASE j = col
      <4>1. \A k \in Index : EvalOf(input.z[col])[k] = Eval(input.z[col], Point(k))
        BY <1>2, InputTypes, EvalIs
      <4>2. \A k \in Index : Cong(a[k], EvalOf(input.z[col])[k])
        BY <1>1 DEF IInv, InProgress, Forward
      <4>. QED  BY <1>5, <3>1, <4>1, <4>2
    <3>2. CASE j # col
      <4>1. j < col
        <5>1. CASE stage' = "z"
          BY <1>3, <1>4, <2>1, <3>2, <5>1 DEF Taken
        <5>2. CASE stage' = "c"
          BY <1>3, <1>4, <3>2, <5>2
        <5>. QED  BY <1>4, <5>1, <5>2
      <4>2. Taken(j)
        BY <1>1, <4>1 DEF Taken
      <4>. QED  BY <1>5, <3>2, <4>2 DEF IInv, Gathered
    <3>. QED  BY <3>1, <3>2
  <2>. QED  BY <1>1, <1>4, <2>1 DEF Gathered
<1>. QED  BY <1>6, <1>7, <1>8, <1>9 DEF IInv

LEMMA RowLazyKeeps == ASSUME IInv, RowLazy PROVE IInv'
<1> DEFINE p == [k \in Index |-> Reduced(RowTerm(k, a))]
<1>1. /\ Shape /\ path = "prepared" /\ stage = "c" /\ dir = "idle"
      /\ chat' = a /\ stage' = "w" /\ StartInverse(p)
      /\ UNCHANGED <<input, path, col, rows, zhat, w>>
  BY DEF IInv, RowLazy, Finished
<1>2. input \in Inputs /\ a \in Values /\ zhat \in [Columns -> Values] /\ rows \in [0 .. L -> [Index -> 0 .. Q-1]]
  BY <1>1 DEF Shape
<1>3. ASSUME NEW k \in Index PROVE p[k] \in Int /\ Cong(p[k], Target(input)[k])
  <2> DEFINE f == INVNTT_SCALE
             g == -f
             s == [j \in Columns |-> rows[j][k] * zhat[j][k]]
             x == [j \in Columns |-> rows[j][k]]
             y == [j \in Columns |-> zhat[j][k]]
             r == Products(input, k)
             c == a[k]
             d == Eval(input.c, Point(k))
             t == rows[L][k]
             e == Eval(input.t, Point(k))
  <2>1. f \in Int /\ g \in Int /\ r \in Int /\ c \in Int /\ d \in Int /\ t \in Int /\ e \in Int
    <3>1. f \in Int /\ r \in Int /\ d \in Int /\ e \in Int
      BY <1>2, FactorIs, RowValueType, InputTypes, EvalIs
    <3>2. t \in 0 .. Q-1 /\ c \in Int
      BY <1>2, Count DEF Values
    <3>. HIDE DEF f, r, c, d, t, e
    <3>. QED  BY <3>1, <3>2
  <2>2. Cong(c, d)
    <3>1. EvalOf(input.c)[k] = d
      BY <1>2, InputTypes, EvalIs
    <3>. QED  BY <1>1, <3>1 DEF IInv, InProgress, Forward
  <2>3. Cong(t, -(f * e))
    BY <1>1 DEF IInv, Stored
  <2>4. ASSUME NEW j \in Columns
        PROVE  /\ x[j] \in Int /\ Cong(x[j], g * input.A[j][k])
               /\ y[j] \in Int /\ Cong(y[j], Eval(input.z[j], Point(k)))
               /\ s[j] = x[j] * y[j]
    <3>1. x[j] = rows[j][k] /\ y[j] = zhat[j][k] /\ s[j] = rows[j][k] * zhat[j][k]
      OBVIOUS
    <3>2. rows[j][k] \in 0 .. Q-1 /\ zhat[j][k] \in Int
      <4>1. j \in 0 .. L
        BY Count
      <4>. QED  BY <1>2, <4>1 DEF Values
    <3>3. Cong(rows[j][k], -(f * input.A[j][k]))
      BY <1>1 DEF IInv, Stored
    <3>4. Cong(zhat[j][k], Eval(input.z[j], Point(k)))
      BY <1>1 DEF IInv, Gathered, Taken
    <3>5. g * input.A[j][k] = -(f * input.A[j][k])
      <4> DEFINE m == input.A[j][k]
      <4>1. m \in Int
        BY <1>2, InputTypes DEF Values
      <4>. HIDE DEF m, f
      <4>2. g * m = -(f * m)
        BY <2>1, <4>1
      <4>. QED  BY <4>2 DEF m
    <3>6. rows[j][k] \in Int
      BY <3>2
    <3>. HIDE DEF x, y, s, f, g
    <3>. QED  BY <3>1, <3>2, <3>3, <3>4, <3>5, <3>6
  <2>5. RowTerm(k, a) = Sum(s, L) - c * t
    BY DEF RowTerm
  <2>. HIDE DEF s, x, y
  <2>6. Sum(s, L) \in Int /\ Cong(Sum(s, L), g * r)
    <3>. HIDE DEF g
    <3>. QED  BY <1>2, <2>1, <2>4, ProductsCong, Zenon DEF r
  <2> DEFINE n == Sum(s, L)
             u == -(f * e)
             v == RowValue(input, k)
  <2>7. n \in Int /\ u \in Int /\ g * r \in Int /\ d * u \in Int /\ g * r - d * u = -(f * v) /\ v \in Int
    <3>1. v = r - d * e
      BY DEF RowValue
    <3>2. n \in Int
      BY <2>6
    <3>. HIDE DEF n, v, f, r, d, e
    <3>3. -(f * (r - d * e)) = (-f) * r - d * (-(f * e))
      BY <2>1
    <3>4. v \in Int /\ u \in Int /\ g * r \in Int /\ d * u \in Int
      <4>1. d * e \in Int /\ f * e \in Int
        BY <2>1
      <4>2. u \in Int /\ v \in Int
        BY <2>1, <3>1, <4>1
      <4>. HIDE DEF u, g
      <4>. QED  BY <2>1, <4>2
    <3>. QED  BY <3>1, <3>2, <3>3, <3>4
  <2>. HIDE DEF n, u, v, f, g, r, c, d, t, e
  <2>8. Cong(n - c * t, g * r - d * u) /\ n - c * t \in Int
    BY <2>1, <2>2, <2>3, <2>6, <2>7, RowCong DEF n, u
  <2>9. Reduced(n - c * t) \in Int /\ Cong(Reduced(n - c * t), Inverted(N) * v)
    BY <2>7, <2>8, PreparedFactors DEF f
  <2>10. p[k] = Reduced(n - c * t) /\ Target(input)[k] = Inverted(N) * v
    BY <2>5 DEF n, v, Target
  <2>. QED  BY <2>9, <2>10
<1>4. p \in Values
  BY <1>3 DEF Values
<1>5. Target(input) \in Values
  BY <1>2, RowValueType
<1>. HIDE DEF p
<1>6. /\ a' \in Values /\ dir' = "inverse" /\ half' \in Distances /\ 4 * half' <= N
      /\ group' \in 0 .. N \div 4 - 1
      /\ \A k \in Index : Cong(InverseSum(a', k, half', group'), (4 * half') * Target(input)[k])
  BY <1>1, <1>3, <1>4, <1>5, InverseStarts
<1>7. Shape'
  BY <1>1, <1>2, <1>6 DEF Shape
<1>8. InProgress'
  <2>1. Target(input)' = Target(input)
    BY <1>1 DEF Target, RowValue, Products
  <2>. QED  BY <1>1, <1>6, <2>1 DEF InProgress, Inverse
<1>9. Stored'
  BY <1>1 DEF IInv, Stored
<1>10. Gathered'
  BY <1>1 DEF IInv, Gathered, Taken
<1>. QED  BY <1>7, <1>8, <1>9, <1>10 DEF IInv

LEMMA RawChallengeKeeps == ASSUME IInv, RawChallenge PROVE IInv'
<1>1. /\ Shape /\ path = "raw" /\ stage = "c" /\ dir = "idle"
      /\ chat' = a /\ stage' = "matrix"
      /\ UNCHANGED <<input, path, col, rows, zhat, w, a, dir, half, group>>
  BY DEF IInv, RawChallenge, Finished, transform
<1>2. input \in Inputs /\ a \in Values /\ col = 0 /\ w = Zero
  BY <1>1 DEF Shape
<1>3. Shape'
  BY <1>1, <1>2 DEF Shape
<1>4. InProgress'
  BY <1>1 DEF InProgress
<1>5. Stored'
  BY <1>1 DEF Stored
<1>6. Gathered'
  <2>1. \A k \in Index : Cong(a[k], Eval(input.c, Point(k)))
    <3>1. \A k \in Index : EvalOf(input.c)[k] = Eval(input.c, Point(k))
      BY <1>2, InputTypes, EvalIs
    <3>. QED  BY <1>1, <3>1 DEF IInv, InProgress, Forward
  <2>2. \A k \in Index : w[k] = Sum([j \in Columns |-> input.A[j][k] * zhat[j][k]], 0)
    BY <1>2, SumRec DEF Zero
  <2>3. \A j \in Columns : \A k \in Index : Cong(zhat[j][k], Eval(input.z[j], Point(k)))
    BY <1>1 DEF IInv, Gathered, Taken
  <2>. QED  BY <1>1, <1>2, <2>1, <2>2, <2>3 DEF Gathered
<1>. QED  BY <1>3, <1>4, <1>5, <1>6 DEF IInv

LEMMA MatrixTermKeeps == ASSUME IInv, MatrixTerm PROVE IInv'
<1>1. /\ Shape /\ stage = "matrix" /\ dir = "idle" /\ col < L
      /\ w' = [k \in Index |-> w[k] + input.A[col][k] * zhat[col][k]]
      /\ col' = col + 1
      /\ UNCHANGED <<input, path, stage, rows, zhat, chat, a, dir, half, group>>
  BY DEF IInv, MatrixTerm, Finished, transform
<1>2. /\ input \in Inputs /\ col \in Nat /\ col \in Columns /\ col + 1 \in 0 .. L
      /\ w \in Values /\ zhat \in [Columns -> Values] /\ path = "raw"
  BY <1>1, Count DEF Shape, Columns
<1>3. ASSUME NEW k \in Index
      PROVE  w'[k] \in Int /\ w'[k] = Sum([j \in Columns |-> input.A[j][k] * zhat[j][k]], col + 1)
  <2> DEFINE f == [j \in Columns |-> input.A[j][k] * zhat[j][k]]
             x == input.A[col][k]
             y == zhat[col][k]
  <2>1. f[col] = x * y
    BY <1>2
  <2>2. x \in Int /\ y \in Int /\ w[k] \in Int
    BY <1>2, InputTypes DEF Values
  <2>3. w[k] = Sum(f, col)
    BY <1>1 DEF IInv, Gathered
  <2>4. w'[k] = w[k] + x * y
    BY <1>1
  <2>. HIDE DEF f, x, y
  <2>5. Sum(f, col + 1) = Sum(f, col) + f[col]
    BY <1>2, SumRec
  <2>6. w'[k] \in Int
    BY <2>2, <2>4
  <2>7. w'[k] = Sum(f, col + 1)
    BY <2>1, <2>3, <2>4, <2>5, Zenon
  <2>. QED  BY <2>6, <2>7 DEF f
<1>4. w' \in Values
  BY <1>1, <1>3 DEF Values
<1>5. Shape'
  BY <1>1, <1>2, <1>4 DEF Shape
<1>6. InProgress'
  BY <1>1 DEF InProgress
<1>7. Stored'
  BY <1>1, <1>2 DEF Stored
<1>8. Gathered'
  <2>1. \A j \in Columns : \A k \in Index : Cong(zhat[j][k], Eval(input.z[j], Point(k)))
    BY <1>1 DEF IInv, Gathered, Taken
  <2>2. \A k \in Index : Cong(chat[k], Eval(input.c, Point(k)))
    BY <1>1 DEF IInv, Gathered
  <2>. QED  BY <1>1, <1>3, <2>1, <2>2 DEF Gathered
<1>. QED  BY <1>5, <1>6, <1>7, <1>8 DEF IInv

LEMMA RawT1Keeps == ASSUME IInv, RawT1 PROVE IInv'
<1>1. /\ Shape /\ stage = "matrix" /\ col = L /\ stage' = "t1" /\ StartForward(input.t)
      /\ UNCHANGED <<input, path, col, rows, zhat, chat, w>>
  BY DEF IInv, RawT1, Finished
<1>2. path = "raw" /\ input.t \in Values
  BY <1>1, InputTypes DEF Shape
<1>3. /\ a' \in Values /\ dir' = "forward" /\ half' \in Distances /\ 4 * half' <= N
      /\ group' \in 0 .. N \div 4 - 1
      /\ \A k \in Index : Cong(ForwardSum(a', k, half', group'), EvalOf(input.t)[k])
  BY <1>1, <1>2, ForwardStarts
<1>4. Shape'
  BY <1>1, <1>2, <1>3 DEF Shape
<1>5. InProgress'
  BY <1>1, <1>3 DEF InProgress, Forward
<1>6. Stored'
  BY <1>1, <1>2 DEF Stored
<1>7. Gathered'
  <2>1. \A j \in Columns : \A k \in Index : Cong(zhat[j][k], Eval(input.z[j], Point(k)))
    BY <1>1 DEF IInv, Gathered, Taken
  <2>2. /\ \A k \in Index : Cong(chat[k], Eval(input.c, Point(k)))
        /\ \A k \in Index : w[k] = Sum([j \in Columns |-> input.A[j][k] * zhat[j][k]], col)
    BY <1>1 DEF IInv, Gathered
  <2>. QED  BY <1>1, <2>1, <2>2 DEF Gathered
<1>. QED  BY <1>4, <1>5, <1>6, <1>7 DEF IInv

LEMMA T1TermKeeps == ASSUME IInv, T1Term PROVE IInv'
<1> DEFINE sum == [k \in Index |-> w[k] - chat[k] * a[k]]
           p == RowReduced(sum)
<1>1. /\ Shape /\ path = "raw" /\ stage = "t1" /\ dir = "idle"
      /\ w' = sum /\ stage' = "w" /\ StartInverse(p)
      /\ UNCHANGED <<input, path, col, rows, zhat, chat>>
  BY DEF IInv, T1Term, Finished
<1>2. input \in Inputs /\ a \in Values /\ zhat \in [Columns -> Values] /\ chat \in Values /\ w \in Values /\ col = L
  BY <1>1 DEF Shape
<1>3. ASSUME NEW k \in Index
      PROVE  sum[k] \in Int /\ p[k] \in Int /\ Cong(p[k], Target(input)[k])
  <2> DEFINE s == [j \in Columns |-> input.A[j][k] * zhat[j][k]]
             x == [j \in Columns |-> input.A[j][k]]
             y == [j \in Columns |-> zhat[j][k]]
             r == Products(input, k)
             c == chat[k]
             d == Eval(input.c, Point(k))
             t == a[k]
             e == Eval(input.t, Point(k))
  <2>1. r \in Int /\ c \in Int /\ d \in Int /\ t \in Int /\ e \in Int /\ 1 \in Int
    <3>1. r \in Int
      BY <1>2, RowValueType, Zenon
    <3>2. c \in Int /\ t \in Int
      BY <1>2 DEF Values
    <3>3. d \in Int /\ e \in Int
      BY <1>2, InputTypes, EvalIs, Zenon
    <3>. HIDE DEF r, c, d, t, e
    <3>. QED  BY <3>1, <3>2, <3>3
  <2>2. Cong(c, d)
    BY <1>1 DEF IInv, Gathered
  <2>3. Cong(t, e)
    <3>1. EvalOf(input.t)[k] = e
      BY <1>2, InputTypes, EvalIs
    <3>. QED  BY <1>1, <3>1 DEF IInv, InProgress, Forward
  <2>4. ASSUME NEW j \in Columns
        PROVE  /\ x[j] \in Int /\ Cong(x[j], 1 * input.A[j][k])
               /\ y[j] \in Int /\ Cong(y[j], Eval(input.z[j], Point(k)))
               /\ s[j] = x[j] * y[j]
    <3> DEFINE m == input.A[j][k]
    <3>1. x[j] = m /\ y[j] = zhat[j][k] /\ s[j] = m * zhat[j][k]
      OBVIOUS
    <3>2. m \in Int /\ zhat[j][k] \in Int
      BY <1>2, InputTypes DEF Values
    <3>3. Cong(zhat[j][k], Eval(input.z[j], Point(k)))
      BY <1>1 DEF IInv, Gathered, Taken
    <3>. HIDE DEF x, y, s, m
    <3>4. 1 * m = m
      BY <3>2
    <3>. QED  BY <3>1, <3>2, <3>3, <3>4, CongRefl DEF m
  <2>5. w[k] = Sum(s, L)
    BY <1>1, <1>2 DEF IInv, Gathered
  <2>. HIDE DEF s, x, y
  <2>6. Sum(s, L) \in Int /\ Cong(Sum(s, L), 1 * r)
    BY <1>2, <2>1, <2>4, ProductsCong, Zenon DEF r
  <2> DEFINE n == Sum(s, L)
             v == RowValue(input, k)
  <2>7. n \in Int /\ 1 * r = r /\ v = r - d * e
    BY <2>1, <2>6 DEF RowValue
  <2>8. sum[k] = n - c * t
    BY <2>5
  <2>9. p[k] = Scaled(Reduced(sum[k])) /\ Target(input)[k] = Inverted(N) * v
    BY DEF RowReduced, Target
  <2>. HIDE DEF n, v, r, c, d, t, e, sum, p
  <2>10. Cong(n - c * t, r - d * e) /\ n - c * t \in Int /\ r - d * e \in Int
    <3>1. Cong(n, r)
      BY <2>6, <2>7 DEF n
    <3>. QED  BY <2>1, <2>2, <2>3, <2>7, <3>1, RowCong
  <2>11. sum[k] \in Int /\ Cong(sum[k], v) /\ v \in Int
    BY <2>7, <2>8, <2>10
  <2>12. Scaled(Reduced(sum[k])) \in Int /\ Cong(Scaled(Reduced(sum[k])), Inverted(N) * v)
    BY <2>11, RawFactors
  <2>. QED  BY <2>9, <2>11, <2>12
<1>4. sum \in Values /\ p \in Values
  BY <1>3 DEF Values, RowReduced
<1>5. Target(input) \in Values
  BY <1>2, RowValueType
<1>. HIDE DEF p, sum
<1>6. /\ a' \in Values /\ dir' = "inverse" /\ half' \in Distances /\ 4 * half' <= N
      /\ group' \in 0 .. N \div 4 - 1
      /\ \A k \in Index : Cong(InverseSum(a', k, half', group'), (4 * half') * Target(input)[k])
  BY <1>1, <1>3, <1>4, <1>5, InverseStarts
<1>7. Shape'
  BY <1>1, <1>2, <1>4, <1>6 DEF Shape
<1>8. InProgress'
  <2>1. Target(input)' = Target(input)
    BY <1>1 DEF Target, RowValue, Products
  <2>. QED  BY <1>1, <1>6, <2>1 DEF InProgress, Inverse
<1>9. Stored'
  BY <1>1 DEF Stored
<1>10. Gathered'
  <2>1. \A j \in Columns : \A k \in Index : Cong(zhat[j][k], Eval(input.z[j], Point(k)))
    BY <1>1 DEF IInv, Gathered, Taken
  <2>. QED  BY <1>1, <2>1 DEF Gathered
<1>. QED  BY <1>7, <1>8, <1>9, <1>10 DEF IInv

LEMMA TransformKeeps == ASSUME IInv, Transform PROVE IInv'
<1>1. Shape /\ (ForwardStep \/ InverseStep) /\ UNCHANGED <<input, path, stage, col, rows, zhat, chat, w>>
  BY DEF IInv, Transform
<1>2. input \in Inputs /\ input.t \in Values /\ input.c \in Values /\ Target(input) \in Values
  BY <1>1, InputTypes, RowValueType DEF Shape
<1>3. Stored' /\ Gathered'
  <2>1. Stored'
    BY <1>1 DEF IInv, Stored
  <2>2. Gathered'
    BY <1>1 DEF IInv, Gathered, Taken
  <2>. QED  BY <2>1, <2>2
<1>4. Zero' = Zero
  BY DEF Zero
<1>5. CASE ForwardStep
  <2>1. dir = "forward" /\ dir # "idle" /\ dir # "inverse"
    BY <1>5 DEF ForwardStep
  <2>2. stage \in {"t1", "z", "c"}
    BY <1>1, <2>1 DEF IInv, InProgress, Inverse, Shape
  <2>3. CASE stage = "t1"
    <3>1. Forward(EvalOf(input.t))
      BY <2>3 DEF IInv, InProgress
    <3>2. /\ a' \in Values /\ dir' \in {"forward", "idle"}
          /\ dir' = "forward" =>
               /\ half' \in Distances /\ 4 * half' <= N /\ group' \in 0 .. N \div 4 - 1
               /\ \A k \in Index : Cong(ForwardSum(a', k, half', group'), EvalOf(input.t)[k])
          /\ dir' = "idle" => \A k \in Index : Cong(a'[k], EvalOf(input.t)[k])
      BY <1>5, <3>1, ForwardSteps
    <3>3. InProgress'
      BY <1>1, <2>3, <3>2 DEF InProgress, Forward
    <3>4. Shape'
      BY <1>1, <1>4, <3>2 DEF Shape
    <3>. QED  BY <1>3, <3>3, <3>4 DEF IInv
  <2>4. CASE stage = "z"
    <3>1. Forward(EvalOf(input.z[col]))
      BY <2>4 DEF IInv, InProgress
    <3>2. /\ a' \in Values /\ dir' \in {"forward", "idle"}
          /\ dir' = "forward" =>
               /\ half' \in Distances /\ 4 * half' <= N /\ group' \in 0 .. N \div 4 - 1
               /\ \A k \in Index : Cong(ForwardSum(a', k, half', group'), EvalOf(input.z[col])[k])
          /\ dir' = "idle" => \A k \in Index : Cong(a'[k], EvalOf(input.z[col])[k])
      BY <1>5, <3>1, ForwardSteps
    <3>3. InProgress'
      BY <1>1, <2>4, <3>2 DEF InProgress, Forward
    <3>4. Shape'
      BY <1>1, <1>4, <3>2 DEF Shape
    <3>. QED  BY <1>3, <3>3, <3>4 DEF IInv
  <2>5. CASE stage = "c"
    <3>1. Forward(EvalOf(input.c))
      BY <2>5 DEF IInv, InProgress
    <3>2. /\ a' \in Values /\ dir' \in {"forward", "idle"}
          /\ dir' = "forward" =>
               /\ half' \in Distances /\ 4 * half' <= N /\ group' \in 0 .. N \div 4 - 1
               /\ \A k \in Index : Cong(ForwardSum(a', k, half', group'), EvalOf(input.c)[k])
          /\ dir' = "idle" => \A k \in Index : Cong(a'[k], EvalOf(input.c)[k])
      BY <1>5, <3>1, ForwardSteps
    <3>3. InProgress'
      BY <1>1, <2>5, <3>2 DEF InProgress, Forward
    <3>4. Shape'
      BY <1>1, <1>4, <3>2 DEF Shape
    <3>. QED  BY <1>3, <3>3, <3>4 DEF IInv
  <2>. QED  BY <2>2, <2>3, <2>4, <2>5
<1>6. CASE InverseStep
  <2>1. dir = "inverse" /\ dir # "idle" /\ dir # "forward"
    BY <1>6 DEF InverseStep
  <2>2. stage = "w" /\ Inverse(Target(input))
    BY <1>1, <2>1 DEF IInv, InProgress, Forward, Shape
  <2>3. /\ a' \in Values /\ dir' \in {"inverse", "idle"}
        /\ dir' = "inverse" =>
             /\ half' \in Distances /\ 4 * half' <= N /\ group' \in 0 .. N \div 4 - 1
             /\ \A k \in Index : Cong(InverseSum(a', k, half', group'), (4 * half') * Target(input)[k])
        /\ dir' = "idle" => \A k \in Index : Cong(Whole(a', k, N), N * Target(input)[k])
    BY <1>2, <1>6, <2>2, InverseSteps
  <2>4. Target(input)' = Target(input)
    BY <1>1 DEF Target, RowValue, Products
  <2>5. InProgress'
    BY <1>1, <2>2, <2>3, <2>4 DEF InProgress, Inverse
  <2>6. Shape'
    BY <1>1, <1>4, <2>3 DEF Shape
  <2>. QED  BY <1>3, <2>5, <2>6 DEF IInv
<1>. QED  BY <1>1, <1>5, <1>6

LEMMA Inductive == IInv /\ [Next]_vars => IInv'
<1> SUFFICES ASSUME IInv, [Next]_vars PROVE IInv'
  OBVIOUS
<1>1. CASE UNCHANGED vars
  <2>1. UNCHANGED <<input, path, stage, col, rows, zhat, chat, w, a, dir, half, group>>
    BY <1>1 DEF vars, transform
  <2>2. Shape'
    BY <2>1 DEF IInv, Shape
  <2>3. InProgress'
    BY <2>1 DEF IInv, InProgress, Forward, Inverse
  <2>4. Stored'
    BY <2>1 DEF IInv, Stored
  <2>5. Gathered'
    BY <2>1 DEF IInv, Gathered, Taken
  <2>. QED  BY <2>2, <2>3, <2>4, <2>5 DEF IInv
<1>2. CASE PrepareMatrix
  BY <1>2, PrepareMatrixKeeps
<1>3. CASE PrepareT1
  BY <1>3, PrepareT1Keeps
<1>4. CASE StartRaw
  BY <1>4, StartRawKeeps
<1>5. CASE TakeZ
  BY <1>5, TakeZKeeps
<1>6. CASE RowLazy
  BY <1>6, RowLazyKeeps
<1>7. CASE RawChallenge
  BY <1>7, RawChallengeKeeps
<1>8. CASE MatrixTerm
  BY <1>8, MatrixTermKeeps
<1>9. CASE RawT1
  BY <1>9, RawT1Keeps
<1>10. CASE T1Term
  BY <1>10, T1TermKeeps
<1>11. CASE Transform
  BY <1>11, TransformKeeps
<1>. QED  BY <1>1, <1>2, <1>3, <1>4, <1>5, <1>6, <1>7, <1>8, <1>9, <1>10, <1>11 DEF Next

LEMMA Invariant == Spec => []IInv
<1>1. Init => IInv
  BY InitInv
<1>2. IInv /\ [Next]_vars => IInv'
  BY Inductive
<1>. QED  BY <1>1, <1>2, PTL DEF Spec

\* The words of a stored row are standard representatives.
THEOREM TypeCorrect == Spec => []TypeOK
<1>1. IInv => TypeOK
  BY DEF IInv, Shape, TypeOK, Values
<1>. QED  BY <1>1, Invariant, PTL

\* A finished ntt holds the values of its polynomial at the odd powers of Root.
THEOREM ForwardExact == Spec => []ForwardEvaluates
<1>1. IInv => ForwardEvaluates
  <2> SUFFICES ASSUME IInv, dir = "idle", stage \in {"t1", "z", "c"}, NEW k \in Index
               PROVE  a[k] % Q = Eval(Transformed, Point(k))
    BY DEF ForwardEvaluates
  <2> DEFINE p == Transformed
  <2>1. p \in Values /\ Cong(a[k], EvalOf(p)[k])
    <3>1. input.t \in Values /\ (stage = "z" => input.z[col] \in Values) /\ input.c \in Values
      BY InputTypes DEF IInv, Shape
    <3>2. CASE stage = "t1"
      <4>1. p = input.t
        BY <3>2 DEF Transformed
      <4>2. Cong(a[k], EvalOf(input.t)[k])
        BY <3>2 DEF IInv, InProgress, Forward
      <4>. QED  BY <3>1, <4>1, <4>2
    <3>3. CASE stage = "z"
      <4>1. p = input.z[col]
        BY <3>3 DEF Transformed
      <4>2. Cong(a[k], EvalOf(input.z[col])[k])
        BY <3>3 DEF IInv, InProgress, Forward
      <4>. QED  BY <3>1, <3>3, <4>1, <4>2
    <3>4. CASE stage = "c"
      <4>1. p = input.c
        BY <3>4 DEF Transformed
      <4>2. Cong(a[k], EvalOf(input.c)[k])
        BY <3>4 DEF IInv, InProgress, Forward
      <4>. QED  BY <3>1, <4>1, <4>2
    <3>. QED  BY <3>2, <3>3, <3>4
  <2>. HIDE DEF p
  <2>2. EvalOf(p)[k] = Eval(p, Point(k))
    BY <2>1, EvalIs
  <2>3. Eval(p, Point(k)) % Q = Eval(p, Point(k))
    BY <2>1, EvalReduced
  <2>. QED  BY <2>1, <2>2, <2>3 DEF Cong, p
<1>. QED  BY <1>1, Invariant, PTL

\* A finished row is the standard's, at each of the N points, on both paths.
THEOREM RowsExact == Spec => []RowExact
<1>1. IInv => RowExact
  <2> SUFFICES ASSUME IInv, Finished("w"), NEW k \in Index
               PROVE  Eval(a, Point(k)) = RowValue(input, k) % Q
    BY DEF RowExact, RowValue, Products
  <2>1. stage = "w" /\ dir = "idle" /\ input \in Inputs /\ a \in Values
    BY DEF Finished, IInv, Shape
  <2> DEFINE e == Eval(a, Point(k))
             v == RowValue(input, k)
             m == Inverted(N)
  <2>2. Cong(Whole(a, k, N), N * (m * v))
    BY <2>1 DEF IInv, InProgress, Inverse, Target
  <2>3. Cong(Whole(a, k, N), e)
    BY <2>1, WholeEnds DEF Values
  <2>4. N \in Int /\ m \in Int /\ v \in Int /\ Cong(N * m, 1)
    BY <2>1, InvertedIs, RowValueType
  <2>5. e % Q = e
    BY <2>1, EvalReduced
  <2>. HIDE DEF e, v, m
  <2>6. N * m \in Int /\ N * (m * v) = (N * m) * v /\ 1 \in Int /\ 1 * v = v
    BY <2>4
  <2>7. Cong((N * m) * v, 1 * v)
    BY <2>4, <2>6, CongScale
  <2>8. Cong(e, v)
    BY <2>2, <2>3, <2>6, <2>7, CongSym, CongTrans
  <2>. QED  BY <2>5, <2>8 DEF Cong, e, v
<1>. QED  BY <1>1, Invariant, PTL

=============================================================================
