------------------------------ MODULE MCRounding ------------------------------
(***************************************************************************)
(* The words around every change of the high bits and of the sign of the   *)
(* low ones, below zero and above, and the ends of the domain; each in     *)
(* every place of a group of four.                                         *)
(***************************************************************************)
EXTENDS Rounding

Near(x) == {x - 1, x, x + 1}

Boundaries == UNION {Near(b * GAMMA2) : b \in 0 .. 88}

Words == Boundaries \cup {x - 9 * Q : x \in Boundaries} \cup {x + 120 * Q : x \in Boundaries}
           \cup {REDUCE32_IN, -REDUCE32_IN, 255 * 2^23 - 2^22 - 1, -(255 * 2^23 - 2^22)}

OneOfFour ==
  {[o EXCEPT ![i] = x] : i \in Places, x \in Words, o \in {[j \in Places |-> 0], [j \in Places |-> 43 * 2 * GAMMA2]}}
=============================================================================
