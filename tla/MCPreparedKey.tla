---------------------------- MODULE MCPreparedKey ----------------------------
(***************************************************************************)
(* Two rows of two coefficients and two columns; bytes of four values, so  *)
(* that words reach beyond Q on either side.  Slices begin at a row, a     *)
(* byte beyond one, and a word beyond one, where they cover part of the    *)
(* hash; the bytes themselves are aligned or not.                          *)
(***************************************************************************)
EXTENDS PreparedKey

MCQ == 193

\* Every operand but one tells its place; the largest is Q - 1.
MCOperand(key, i, j, k) ==
  LET n == 4 * i + 2 * k + j
  IN  IF key = "A" THEN (IF n = 3 THEN MCQ - 1 ELSE 17 * n) ELSE 160 - 19 * n
MCHashByte(key, b) == IF key = "A" THEN b ELSE 3

\* The bytes of a word of value v in words of value 0.
Single(w, v) ==
  [p \in 0 .. 35 |-> IF p \in 4 * w .. 4 * w + 3 THEN Byte(v, p - 4 * w) ELSE 0]

MCContents ==
  {[p \in 0 .. 35 |-> 3], Single(5, MCQ - 1), Single(7, MCQ)}

MCStarts == {0, 1, 16, 20}
=============================================================================
