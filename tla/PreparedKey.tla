----------------------------- MODULE PreparedKey -----------------------------
(***************************************************************************)
(* The memory of a prepared key: PreparedVerifyingKey of src/ml_dsa_44.rs, *)
(* laid over bytes the caller owns, an account's or a host's.  The bytes   *)
(* are filled as a whole or row by row, through slices of the caller's     *)
(* choice, in any order and over whatever they held; they are read in      *)
(* place, without a look at them, or decoded word by word into a copy.     *)
(*                                                                         *)
(* A call that prepares is one step per column, freeze_scaled_into; one    *)
(* that decodes, one step per word.  Calls do not overlap: the borrow is   *)
(* exclusive.                                                              *)
(***************************************************************************)
EXTENDS Integers

CONSTANTS
  K, L, N,            \* rows and columns of the matrix, coefficients (4, 4, 256)
  TRBYTES,            \* bytes of the hash of a key (64)
  Q,                  \* the modulus (8380417)
  BYTE,               \* values of a byte (256)
  Keys,               \* public keys
  Operand(_, _, _, _),\* the operand of a key for row, column and coefficient
  HashByte(_, _),     \* a byte of the hash of a key
  Contents,           \* what the bytes may hold at first
  Starts,             \* where the caller's slices begin
  Shorter,            \* by how much they may be short
  Addresses,          \* addresses of the bytes modulo 4
  Unknown             \* not a key

ASSUME PreparedKeyAssumption ==
  /\ K \in Nat \ {0} /\ L \in Nat /\ N \in Nat \ {0}
  /\ TRBYTES \in Nat /\ TRBYTES % 4 = 0     \* repr(C), no padding
  /\ BYTE \in Nat \ {0}
  /\ Q \in Nat /\ Q <= BYTE * BYTE * BYTE * BYTE
  /\ Addresses \subseteq 0 .. 3 /\ Starts \subseteq Nat /\ Shorter \subseteq Nat
  /\ Unknown \notin Keys

Rows == 0 .. K-1
Columns == 0 .. L
Coefs == 0 .. N-1

ROW_BYTE_LEN == 4 * (L + 1) * N
PUBLIC_KEY_HASH_OFFSET == K * ROW_BYTE_LEN
BYTE_LEN == PUBLIC_KEY_HASH_OFFSET + TRBYTES

\* What memory holds is bytes, and freeze_scaled makes every operand the
\* standard representative (Arithmetic).
ASSUME PreparedKeyData ==
  /\ Contents \subseteq [0 .. BYTE_LEN-1 -> 0 .. BYTE-1]
  /\ \A key \in Keys :
       /\ \A i \in Rows, j \in Columns, k \in Coefs : Operand(key, i, j, k) \in 0 .. Q-1
       /\ \A b \in 0 .. TRBYTES-1 : HashByte(key, b) \in 0 .. BYTE-1

VARIABLES
  at,      \* the address of the bytes modulo 4
  mem,     \* the bytes
  call,    \* the call in progress, "idle" between calls
  pk, row, col,  \* its key, and the row and column it prepares next
  place,   \* the byte its row begins at
  word,    \* the word from_bytes comes to next
  owned,   \* what from_bytes has decoded
  out,     \* what the last call returned
  filled,  \* the key each row was last prepared for, where the caller put it
  hashed   \* the key whose hash was written last

locals == <<pk, row, col, place, word>>
vars == <<at, mem, call, locals, owned, out, filled, hashed>>

\* The owned key before from_bytes, and PreparedVerifyingKey::ZERO.
Nothing == [w \in {} |-> 0]
ZERO == [rows |-> [w \in 0 .. K * N * (L + 1) - 1 |-> 0], tr |-> [b \in 0 .. TRBYTES-1 |-> 0]]

Init ==
  /\ at \in Addresses
  /\ mem \in Contents
  /\ call = "idle" /\ pk = Unknown /\ row = 0 /\ col = 0 /\ place = 0 /\ word = 0
  /\ owned = Nothing
  /\ out = "none"
  /\ filled = [i \in Rows |-> Unknown]
  /\ hashed = Unknown

\* Mutant: the alignment is that of the slice within the bytes.
BorrowedRelative(start, len, expected) ==
  IF len # expected THEN "InvalidLength"
  ELSE IF start % 4 # 0 THEN "InvalidAlignment" ELSE "Ok"

\* The checks of ref_from_bytes, mut_from_bytes and borrow_row_mut
Borrowed(start, len, expected) ==
  IF len # expected THEN "InvalidLength"
  ELSE IF (at + start) % 4 # 0 THEN "InvalidAlignment" ELSE "Ok"

\* The slices of the bytes a caller takes for one of a given length.
Slice(start, len, expected) ==
  /\ start \in Starts /\ len \in {expected - d : d \in Shorter}
  /\ start + len <= BYTE_LEN

\* A call that prepares or decodes nothing.
Answer(result) ==
  /\ out' = result
  /\ UNCHANGED <<at, mem, call, locals, owned, filled, hashed>>

Refuse(error) == error # "Ok" /\ Answer(error)

\* A call that returns; its locals are gone.
Return(result) ==
  /\ call' = "idle" /\ out' = result
  /\ pk' = Unknown /\ row' = 0 /\ col' = 0 /\ place' = 0 /\ word' = 0

\* A call takes the row at p of the bytes: what it overlaps is lost.
Overwritten(p) ==
  [i \in Rows |-> IF p < (i + 1) * ROW_BYTE_LEN /\ i * ROW_BYTE_LEN < p + ROW_BYTE_LEN
                    THEN Unknown ELSE filled[i]]

\* ref_from_bytes, which reads nothing, and mut_from_bytes when it refuses.
Borrow ==
  /\ call = "idle"
  /\ \E start \in Starts, d \in Shorter :
       /\ Slice(start, BYTE_LEN - d, BYTE_LEN)
       /\ LET verdict == Borrowed(start, BYTE_LEN - d, BYTE_LEN)
          IN  Refuse(verdict) \/ (verdict = "Ok" /\ Answer("Ok"))

\* mut_from_bytes, prepare_into
PrepareInto ==
  /\ call = "idle"
  /\ \E key \in Keys, start \in Starts :
       /\ Slice(start, BYTE_LEN, BYTE_LEN)
       /\ Borrowed(start, BYTE_LEN, BYTE_LEN) = "Ok"
       /\ call' = "key" /\ pk' = key /\ place' = start
  /\ row' = 0 /\ col' = 0
  /\ filled' = [i \in Rows |-> Unknown] /\ hashed' = Unknown
  /\ owned' = Nothing
  /\ UNCHANGED <<at, mem, word, out>>

\* Mutant: an index one beyond the last row is let through.
InvalidRowLate(index) == index > K
\* index >= K
InvalidRow(index) == index >= K

\* borrow_row_mut, prepare_row_into
PrepareRowInto ==
  /\ call = "idle"
  /\ \E key \in Keys, index \in 0 .. K, start \in Starts, d \in Shorter :
       LET len == ROW_BYTE_LEN - d
           verdict == Borrowed(start, len, ROW_BYTE_LEN)
       IN  /\ Slice(start, len, ROW_BYTE_LEN)
           /\ \/ Refuse(verdict)
              \/ verdict = "Ok" /\ InvalidRow(index) /\ Refuse("InvalidRow")
              \/ /\ verdict = "Ok" /\ ~InvalidRow(index)
                 /\ call' = "row" /\ pk' = key /\ row' = index /\ col' = 0 /\ place' = start
                 /\ filled' = Overwritten(start)
                 /\ hashed' = IF start + len > PUBLIC_KEY_HASH_OFFSET THEN Unknown ELSE hashed
                 /\ owned' = Nothing
                 /\ UNCHANGED <<at, mem, word, out>>

\* Byte b of a little-endian word.
Byte(v, b) ==
  CASE b = 0 -> v % BYTE
    [] b = 1 -> (v \div BYTE) % BYTE
    [] b = 2 -> ((v \div BYTE) \div BYTE) % BYTE
    [] b = 3 -> (((v \div BYTE) \div BYTE) \div BYTE) % BYTE

\* Mutant: the words of a column lie side by side.
RowPlaceByColumn(k, j) == 4 * (N * j + k)
\* row[k][j] of a PreparedRow
RowPlace(k, j) == 4 * ((L + 1) * k + j)

\* freeze_scaled_into: one column of the row at place
Stored ==
  [p \in DOMAIN mem |->
    LET here == {kb \in Coefs \X (0 .. 3) : p = place + RowPlace(kb[1], col) + kb[2]}
    IN  IF here = {} THEN mem[p]
        ELSE LET kb == CHOOSE kb \in here : TRUE
             IN  Byte(Operand(pk, row, col, kb[1]), kb[2])]

\* prepare_row, but for its last column
Column ==
  /\ call \in {"row", "key"} /\ col < L
  /\ mem' = Stored
  /\ col' = col + 1
  /\ UNCHANGED <<at, call, pk, row, place, word, owned, out, filled, hashed>>

Exact(p, i) == p = i * ROW_BYTE_LEN

\* The last column, so the end of a row call
RowDone ==
  /\ call = "row" /\ col = L
  /\ mem' = Stored
  /\ Return("Ok")
  /\ filled' = [i \in Rows |-> IF i = row /\ Exact(place, i) THEN pk ELSE filled[i]]
  /\ UNCHANGED <<at, owned, hashed>>

\* The last column and, in the key, the next row
NextRow ==
  /\ call = "key" /\ col = L
  /\ mem' = Stored
  /\ filled' = [filled EXCEPT ![row] = pk]
  /\ row' = row + 1 /\ col' = 0 /\ place' = place + ROW_BYTE_LEN
  /\ call' = IF row + 1 < K THEN "key" ELSE "hash"
  /\ UNCHANGED <<at, pk, word, owned, out, hashed>>

WithHash(key) ==
  [p \in DOMAIN mem |-> IF p >= PUBLIC_KEY_HASH_OFFSET
                          THEN HashByte(key, p - PUBLIC_KEY_HASH_OFFSET) ELSE mem[p]]

\* out.tr = pk.public_key_hash()
KeyDone ==
  /\ call = "hash"
  /\ mem' = WithHash(pk)
  /\ hashed' = pk
  /\ Return("Ok")
  /\ UNCHANGED <<at, owned, filled>>

\* The caller that fills rows writes VerifyingKey::public_key_hash itself.
WriteHash ==
  /\ call = "idle"
  /\ \E key \in Keys : mem' = WithHash(key) /\ hashed' = key
  /\ out' = "Hashed"
  /\ UNCHANGED <<at, call, locals, owned, filled>>

\* from_slice, from_bytes: any length, any alignment.
FromSlice ==
  /\ call = "idle"
  /\ \E d \in Shorter :
       IF d # 0 THEN Refuse("InvalidLength")
       ELSE /\ call' = "decode" /\ word' = 0
            /\ owned' = ZERO
            /\ UNCHANGED <<at, mem, pk, row, col, place, out, filled, hashed>>

\* u32::from_le_bytes of the four bytes at p
FromLe(p) ==
  mem[p] + BYTE * mem[p + 1] + BYTE * BYTE * mem[p + 2] + BYTE * BYTE * BYTE * mem[p + 3]

\* Mutant: Q itself passes for a coefficient.
InvalidWordLate(v) == v > Q
\* *value >= Q
InvalidWord(v) == v >= Q

\* One word of from_bytes
DecodeWord ==
  /\ call = "decode" /\ 4 * word < PUBLIC_KEY_HASH_OFFSET
  /\ LET v == FromLe(4 * word)
     IN  IF InvalidWord(v)
           THEN Return("InvalidEncoding") /\ owned' = Nothing
           ELSE /\ owned' = [owned EXCEPT !.rows[word] = v]
                /\ word' = word + 1
                /\ UNCHANGED <<call, out, pk, row, col, place>>
  /\ UNCHANGED <<at, mem, filled, hashed>>

\* The hash is copied behind the last word.
DecodeDone ==
  /\ call = "decode" /\ 4 * word >= PUBLIC_KEY_HASH_OFFSET
  /\ owned' = [owned EXCEPT !.tr = [b \in 0 .. TRBYTES-1 |-> mem[PUBLIC_KEY_HASH_OFFSET + b]]]
  /\ Return("Decoded")
  /\ UNCHANGED <<at, mem, filled, hashed>>

Next ==
  \/ Borrow \/ PrepareInto \/ PrepareRowInto \/ Column \/ RowDone \/ NextRow \/ KeyDone
  \/ WriteHash \/ FromSlice \/ DecodeWord \/ DecodeDone

Spec == Init /\ [][Next]_vars

-----------------------------------------------------------------------------
(***************************************************************************)
(* Properties                                                              *)
(***************************************************************************)

\* Memory is only written through a row that is aligned and within the bytes.
TypeOK ==
  /\ mem \in [0 .. BYTE_LEN-1 -> 0 .. BYTE-1]
  /\ call \in {"idle", "row", "key", "hash", "decode"}
  /\ call \in {"row", "key"} =>
       /\ row \in Rows /\ col \in Columns
       /\ (at + place) % 4 = 0 /\ place \in 0 .. PUBLIC_KEY_HASH_OFFSET + TRBYTES - ROW_BYTE_LEN
  /\ filled \in [Rows -> Keys \cup {Unknown}] /\ hashed \in Keys \cup {Unknown}

\* rows[i][k][j] of a key read in place, as rows: [[[u32; L + 1]; N]; K].
InPlace(i, k, j) == FromLe(4 * ((i * N + k) * (L + 1) + j))

\* "An account can be filled a row at a time" (src/ml_dsa_44.rs:133): in
\* whatever order rows are prepared, over whatever the bytes held, with calls
\* refused or misplaced in between, a row prepared in its place and not
\* written over since is read in place as what its key prescribes, the hash
\* likewise, and so the bytes are those of prepare_into.
RowsCompose ==
  /\ \A i \in Rows : filled[i] # Unknown =>
       \A k \in Coefs, j \in Columns : InPlace(i, k, j) = Operand(filled[i], i, j, k)
  /\ hashed # Unknown =>
       \A b \in 0 .. TRBYTES-1 : mem[PUBLIC_KEY_HASH_OFFSET + b] = HashByte(hashed, b)

\* The two readers agree on every key but a damaged one: from_bytes decodes
\* what is read in place, and refuses it exactly when an operand is not a
\* standard representative; it never refuses what was prepared.
ReadersAgree ==
  call = "idle" =>
    LET Inside == \A i \in Rows, k \in Coefs, j \in Columns : InPlace(i, k, j) < Q
    IN  /\ out = "Decoded" =>
             /\ Inside
             /\ \A i \in Rows, k \in Coefs, j \in Columns :
                  owned.rows[(i * N + k) * (L + 1) + j] = InPlace(i, k, j)
        /\ (out = "Decoded" /\ hashed # Unknown) =>
             \A b \in 0 .. TRBYTES-1 : owned.tr[b] = HashByte(hashed, b)
        /\ out = "InvalidEncoding" => ~Inside /\ \E i \in Rows : filled[i] = Unknown
=============================================================================
