------------------------------ MODULE RejNTTPoly ------------------------------
(***************************************************************************)
(* FIPS 204 Algorithm 30, which the doc comment of Poly::uniform           *)
(* (src/poly.rs) promises: a stream of bytes is read three at a time, the  *)
(* top bit of the third is dropped, and the N first candidates below Q are *)
(* the coefficients.  Nothing of lanes, blocks and shifts.                 *)
(***************************************************************************)
EXTENDS Words

CONSTANTS
  Squeezed(_, _),  \* whether a bit of the stream of a seed is one
  N,       \* coefficients of a polynomial
  Q,       \* the modulus
  Pending  \* no polynomial has been returned yet

VARIABLES
  seed,    \* what determines the stream
  read,    \* bytes read so far
  a,       \* the coefficients sampled so far
  result   \* the polynomial, once it is returned

vars == <<seed, read, a, result>>

Candidate == Value({b \in 0 .. 22 : Squeezed(seed, 8 * read + b)})

Init ==
  /\ read = 0
  /\ a = [n \in {} |-> 0]
  /\ result = Pending

Skip ==
  /\ Candidate >= Q
  /\ UNCHANGED <<a, result>>

Keep ==
  /\ Candidate < Q
  /\ \E j \in 0 .. N-1 :
       /\ DOMAIN a = 0 .. j-1
       /\ a' = [n \in 0 .. j |-> IF n = j THEN Candidate ELSE a[n]]
       /\ result' = IF j + 1 = N THEN a' ELSE Pending

Next ==
  /\ result = Pending
  /\ read' = read + 3
  /\ Skip \/ Keep
  /\ UNCHANGED seed

Spec == Init /\ [][Next]_vars
=============================================================================
