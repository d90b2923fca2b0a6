----------------------------- MODULE SampleInBall -----------------------------
(***************************************************************************)
(* FIPS 204 Algorithm 29, which the doc comment of Poly::challenge         *)
(* (src/poly.rs) promises: the first bytes of a stream are TAU signs, each *)
(* byte after them a place, refused when it is above the index at hand,    *)
(* which swaps places with it.  Nothing of lanes and blocks.               *)
(***************************************************************************)
EXTENDS Words

CONSTANTS
  Squeezed(_, _),  \* whether a bit of the stream of a seed is one
  N,               \* coefficients of a polynomial
  TAU,             \* coefficients that are not zero
  LANE             \* bytes of the stream that hold the signs

VARIABLES
  seed,  \* what determines the stream
  read,  \* bytes read so far
  i,     \* the coefficient at hand
  c      \* the polynomial

vars == <<seed, read, i, c>>

Place == ByteValue({b \in 0 .. 7 : Squeezed(seed, 8 * read + b)})
Sign  == IF Squeezed(seed, i + TAU - N) THEN -1 ELSE 1

Init ==
  /\ read = LANE
  /\ i = N - TAU
  /\ c = [k \in 0 .. N-1 |-> 0]

Refuse == Place > i /\ UNCHANGED <<i, c>>

Swap ==
  /\ Place <= i
  /\ c' = [k \in 0 .. N-1 |-> IF k = Place THEN Sign
                              ELSE IF k = i THEN c[Place] ELSE c[k]]
  /\ i' = i + 1

Next ==
  /\ i < N
  /\ read' = read + 1
  /\ Refuse \/ Swap
  /\ UNCHANGED seed

Spec == Init /\ [][Next]_vars
=============================================================================
