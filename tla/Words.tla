-------------------------------- MODULE Words --------------------------------
(***************************************************************************)
(* Machine words and byte strings bit by bit: a word, or a string of bytes *)
(* in little-endian order, is the set of the places of its one bits.  Bit  *)
(* 8p + b of a string is bit b of its byte p.                              *)
(***************************************************************************)
EXTENDS Integers

\* The shifts of a 64-bit word: bits that leave it are lost.
Shr(w, n) == {b \in 0 .. 63 : b + n \in w}
Shl(w, n) == {b \in n .. 63 : b - n \in w}

\* The or of two words.
Or(v, w) == v \cup w

\* The mask of the n low bits, and the casts that keep them only.
Low(w, n) == {b \in 0 .. n-1 : b \in w}

\* The number a word of at most 24 bits stands for, byte by byte.
One(w, b) == IF b \in w THEN 1 ELSE 0
ByteValue(w) ==
  One(w, 0) + 2 * One(w, 1) + 4 * One(w, 2) + 8 * One(w, 3)
    + 16 * One(w, 4) + 32 * One(w, 5) + 64 * One(w, 6) + 128 * One(w, 7)
Value(w) == ByteValue(w) + 256 * ByteValue(Shr(w, 8)) + 65536 * ByteValue(Shr(w, 16))
=============================================================================
