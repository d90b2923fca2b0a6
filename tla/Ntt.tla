---------------------------------- MODULE Ntt ----------------------------------
(***************************************************************************)
(* The transforms of src/ntt.rs: 1024 butterflies written out in merged    *)
(* pairs of layers, four butterflies to a group, a group being one action  *)
(* here.                                                                   *)
(*                                                                         *)
(* The schedule does not depend on what a coefficient is.  Add, Sub and    *)
(* Twiddle are parameters: RowPipeline gives them the arithmetic of the    *)
(* code, NttRanges the magnitudes of the code's words.                     *)
(***************************************************************************)
EXTENDS Integers

CONSTANTS
  N,              \* coefficients, a power of 4 (256)
  Add(_, _),      \* Add(x, y): x + y
  Sub(_, _),      \* Sub(x, y): x - y
  Twiddle(_, _),  \* Twiddle(k, x): plantard(x, PLANTARD[k])
  Untwiddle(_, _) \* Untwiddle(k, x): plantard(x, PLANTARD[k].wrapping_neg())

VARIABLES
  a,      \* the coefficients, transformed in place
  dir,    \* "forward", "inverse" or "idle"
  half,   \* the shorter distance of the pair of layers in progress
  group   \* the next group of that pair

Index == 0 .. N-1

\* Mutant: the difference is taken from the sum just stored.
CtInPlace(p, j, len, k) ==
  LET t == Twiddle(k, p[j + len])
      s == Add(p[j], t)
  IN  [p EXCEPT ![j] = s, ![j + len] = Sub(s, t)]

\* a[j], a[j+len] <- a[j] + t, a[j] - t with t = zeta * a[j+len]
Ct(p, j, len, k) ==
  LET t == Twiddle(k, p[j + len])
  IN  [p EXCEPT ![j] = Add(p[j], t), ![j + len] = Sub(p[j], t)]

\* a[j], a[j+len] <- a[j] + a[j+len], zeta * (a[j] - a[j+len])
Gs(p, j, len, k) ==
  [p EXCEPT ![j] = Add(p[j], p[j + len]),
            ![j + len] = Untwiddle(k, Sub(p[j], p[j + len]))]

\* Group g of the pair of layers with distances 2h and h: its block of 4h
\* coefficients and the first of its four.
Block(g, h) == g \div h
First(g, h) == 4 * h * Block(g, h) + (g % h)

(***************************************************************************)
(* One group of ntt: two butterflies at distance 2h, then two at distance  *)
(* h with the twiddles of the two halves of the block.                     *)
(***************************************************************************)
ForwardGroup(p, g, h) ==
  LET j == First(g, h)
      k == N \div (4 * h) + Block(g, h)
      p1 == Ct(p, j, 2 * h, k)
      p2 == Ct(p1, j + h, 2 * h, k)
      p3 == Ct(p2, j, h, 2 * k)
  IN  Ct(p3, j + 2 * h, h, 2 * k + 1)

(***************************************************************************)
(* One group of invntt: two butterflies at distance h, then two at         *)
(* distance 2h; twiddles are taken from the end of the table.              *)
(***************************************************************************)
InverseGroup(p, g, h) ==
  LET j == First(g, h)
      k == N \div (2 * h) - 1 - Block(g, h)
      p1 == Gs(p, j, h, 2 * k + 1)
      p2 == Gs(p1, j + 2 * h, h, 2 * k)
      p3 == Gs(p2, j, 2 * h, k)
  IN  Gs(p3, j + h, 2 * h, k)

-----------------------------------------------------------------------------
StartForward(input) ==
  /\ a' = input
  /\ dir' = "forward" /\ half' = N \div 4 /\ group' = 0

StartInverse(input) ==
  /\ a' = input
  /\ dir' = "inverse" /\ half' = 1 /\ group' = 0

\* Mutant: one group too many.
MoreGroupsOneMore == group < N \div 4

MoreGroups == group + 1 < N \div 4

\* The next group of ntt; the longest distances come first.
ForwardStep ==
  /\ dir = "forward"
  /\ a' = ForwardGroup(a, group, half)
  /\ \/ MoreGroups /\ group' = group + 1 /\ UNCHANGED <<half, dir>>
     \/ ~MoreGroups /\ half >= 4 /\ group' = 0 /\ half' = half \div 4 /\ UNCHANGED dir
     \/ ~MoreGroups /\ half < 4 /\ group' = 0 /\ dir' = "idle" /\ UNCHANGED half

\* The next group of invntt; the shortest distances come first.
InverseStep ==
  /\ dir = "inverse"
  /\ a' = InverseGroup(a, group, half)
  /\ \/ MoreGroups /\ group' = group + 1 /\ UNCHANGED <<half, dir>>
     \/ ~MoreGroups /\ 4 * half < N /\ group' = 0 /\ half' = 4 * half /\ UNCHANGED dir
     \/ ~MoreGroups /\ 4 * half = N /\ group' = 0 /\ dir' = "idle" /\ UNCHANGED half
=============================================================================
