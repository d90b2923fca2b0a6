---------------------------- MODULE MCRowPipeline ----------------------------
(***************************************************************************)
(* Degree 16 over 97.  A row is bilinear in (A, z) and in (c, t), so the   *)
(* unit vectors decide: every pair of one unit of A and one power of X in  *)
(* z, of the same or of different columns, and every pair of powers of X   *)
(* in c and t.                                                             *)
(***************************************************************************)
EXTENDS RowPipeline

Degree == 0 .. N-1
Unit(i, v) == [k \in Degree |-> IF k = i THEN v ELSE 0]
None == [k \in Degree |-> 0]
OnlyColumn(j, p) == [i \in Columns |-> IF i = j THEN p ELSE None]

MatrixInputs ==
  {[A |-> OnlyColumn(j1, Unit(i, Q - 1)), z |-> OnlyColumn(j2, Unit(p, 1)), c |-> None, t |-> None] :
     j1 \in Columns, j2 \in Columns, i \in Degree, p \in Degree}

T1Inputs ==
  {[A |-> OnlyColumn(0, None), z |-> OnlyColumn(0, None), c |-> Unit(i, -1), t |-> Unit(p, 8)] :
     i \in Degree, p \in Degree}

BasisInputs == MatrixInputs \cup T1Inputs
=============================================================================
