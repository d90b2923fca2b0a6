-------------------------- MODULE PreparedKeyProofs --------------------------
(***************************************************************************)
(* The memory of a prepared key, for every number of rows and columns,     *)
(* degree, length of the hash, size of a byte, keys and initial content.   *)
(***************************************************************************)
EXTENDS PreparedKey, TLAPS

-----------------------------------------------------------------------------
(***************************************************************************)
(* Arithmetic                                                              *)
(***************************************************************************)

\* Multiplying an inequality by a natural number.
LEMMA MulMono ==
  ASSUME NEW f \in Nat, NEW u \in Int, NEW v \in Int, u <= v
  PROVE  f * u <= f * v
<1>1. PICK d \in Nat : v = u + d
  <2>1. v - u \in Nat /\ v = u + (v - u)
    OBVIOUS
  <2>. QED  BY <2>1
<1>2. f * d \in Nat
  OBVIOUS
<1>3. f * v = f * u + f * d
  BY <1>1
<1>. QED  BY <1>2, <1>3

\* Division with remainder.
LEMMA DivMod ==
  ASSUME NEW d \in Nat \ {0}, NEW y \in Nat
  PROVE  /\ y \div d \in Nat /\ y % d \in 0 .. d-1
         /\ y = d * (y \div d) + (y % d)
  BY SMTT(30)

\* A quotient is below every bound the dividend is below a multiple of.
LEMMA DivBelow ==
  ASSUME NEW d \in Nat \ {0}, NEW y \in Nat, NEW e \in Nat, y < d * e
  PROVE  y \div d < e
<1>. DEFINE q == y \div d
<1>1. q \in Nat /\ d * q <= y
  BY DivMod
<1>. HIDE DEF q
<1>2. ASSUME e <= q PROVE FALSE
  <2>1. d * e <= d * q
    BY <1>1, <1>2, MulMono
  <2>. QED  BY <1>1, <2>1
<1>3. q < e
  BY <1>1, <1>2
<1>. QED  BY <1>3 DEF q

\* Two numbers in mixed radix are one only when their digits are.
LEMMA Digits ==
  ASSUME NEW d \in Nat \ {0}, NEW x \in Nat, NEW y \in Nat,
         NEW u \in 0 .. d-1, NEW v \in 0 .. d-1, d * x + u = d * y + v
  PROVE  x = y /\ u = v
<1>1. ASSUME NEW s \in Nat, NEW r \in Nat, NEW o \in 0 .. d-1, NEW p \in 0 .. d-1,
             d * s + o = d * r + p, s < r
      PROVE  FALSE
  <2>1. d * (s + 1) <= d * r
    BY <1>1, MulMono
  <2>2. d * (s + 1) = d * s + d
    OBVIOUS
  <2>3. d * s \in Nat /\ d * r \in Nat
    OBVIOUS
  <2>. QED  BY <1>1, <2>1, <2>2, <2>3
<1>2. x = y
  BY <1>1
<1>3. d * x \in Nat
  OBVIOUS
<1>. QED  BY <1>2, <1>3

-----------------------------------------------------------------------------
(***************************************************************************)
(* Words and bytes                                                         *)
(***************************************************************************)

WordEnd == BYTE * BYTE * BYTE * BYTE

LEMMA ByteSize == BYTE \in Nat \ {0} /\ Q \in Nat /\ Q <= WordEnd
BY PreparedKeyAssumption DEF WordEnd

LEMMA ByteRange == ASSUME NEW v \in Nat, NEW b \in 0 .. 3 PROVE Byte(v, b) \in 0 .. BYTE-1
<1>1. \A y \in Nat : y \div BYTE \in Nat /\ y % BYTE \in 0 .. BYTE-1
  BY ByteSize, DivMod
<1>2. /\ v \div BYTE \in Nat /\ (v \div BYTE) \div BYTE \in Nat
      /\ ((v \div BYTE) \div BYTE) \div BYTE \in Nat
  BY <1>1
<1>. QED  BY <1>1, <1>2 DEF Byte

\* The four bytes of a word put together again are the word.
LEMMA BytesMakeWord ==
  ASSUME NEW v \in Nat, v < WordEnd
  PROVE  Byte(v, 0) + BYTE * Byte(v, 1) + BYTE * BYTE * Byte(v, 2)
           + BYTE * BYTE * BYTE * Byte(v, 3) = v
<1>. DEFINE q1 == v \div BYTE
            q2 == q1 \div BYTE
            q3 == q2 \div BYTE
<1>1. /\ q1 \in Nat /\ v % BYTE \in 0 .. BYTE-1 /\ v = BYTE * q1 + (v % BYTE)
      /\ q2 \in Nat /\ q1 % BYTE \in 0 .. BYTE-1 /\ q1 = BYTE * q2 + (q1 % BYTE)
      /\ q3 \in Nat /\ q2 % BYTE \in 0 .. BYTE-1 /\ q2 = BYTE * q3 + (q2 % BYTE)
  BY ByteSize, DivMod
<1>2. q3 < BYTE
  <2>1. /\ BYTE * BYTE * BYTE \in Nat /\ BYTE * BYTE \in Nat
        /\ v < BYTE * (BYTE * BYTE * BYTE)
        /\ BYTE * BYTE * BYTE = BYTE * (BYTE * BYTE)
    BY ByteSize DEF WordEnd
  <2>2. q1 < BYTE * BYTE * BYTE
    BY <2>1, ByteSize, DivBelow
  <2>. HIDE DEF q1
  <2>3. q2 < BYTE * BYTE
    BY <1>1, <2>1, <2>2, ByteSize, DivBelow
  <2>. HIDE DEF q2
  <2>. QED  BY <1>1, <2>3, ByteSize, DivBelow
<1>3. /\ Byte(v, 0) = v % BYTE /\ Byte(v, 1) = q1 % BYTE
      /\ Byte(v, 2) = q2 % BYTE /\ Byte(v, 3) = q3 % BYTE
  BY DEF Byte
<1>4. q3 % BYTE = q3
  BY <1>1, <1>2, ByteSize
<1>. HIDE DEF q1, q2, q3
<1>5. PICK r0 \in Nat, r1 \in Nat, r2 \in Nat :
        /\ Byte(v, 0) = r0 /\ Byte(v, 1) = r1 /\ Byte(v, 2) = r2
        /\ v = BYTE * q1 + r0 /\ q1 = BYTE * q2 + r1 /\ q2 = BYTE * q3 + r2
  BY <1>1, <1>3
<1>6. BYTE * q1 = BYTE * BYTE * q2 + BYTE * r1
  BY <1>1, <1>5, ByteSize
<1>7. BYTE * BYTE * q2 = BYTE * BYTE * BYTE * q3 + BYTE * BYTE * r2
  BY <1>1, <1>5, ByteSize
<1>8. /\ BYTE * r1 \in Nat /\ BYTE * BYTE * r2 \in Nat /\ BYTE * BYTE * BYTE * q3 \in Nat
      /\ BYTE * q1 \in Nat /\ BYTE * BYTE * q2 \in Nat
  BY <1>1, <1>5, ByteSize
<1>. QED  BY <1>3, <1>4, <1>5, <1>6, <1>7, <1>8

-----------------------------------------------------------------------------
(***************************************************************************)
(* The layout                                                              *)
(***************************************************************************)

W == L + 1               \* operands of a coefficient
RowWords == W * N        \* words of a row
AllWords == K * RowWords \* words of a key

LEMMA Sizes ==
  /\ K \in Nat \ {0} /\ N \in Nat \ {0} /\ W \in Nat \ {0}
  /\ RowWords \in Nat \ {0} /\ AllWords \in Nat
  /\ TRBYTES \in Nat
<1>1. K \in Nat \ {0} /\ N \in Nat \ {0} /\ W \in Nat \ {0} /\ TRBYTES \in Nat
  BY PreparedKeyAssumption DEF W
<1>2. \A x, y \in Nat \ {0} : x * y \in Nat \ {0}
  <2>1. \A x, y \in Nat \ {0} : x * y \in Nat
    OBVIOUS
  <2>2. ASSUME NEW x \in Nat \ {0}, NEW y \in Nat \ {0} PROVE x * y # 0
    <3>1. x * 1 <= x * y
      BY MulMono
    <3>. QED  BY <3>1
  <2>. QED  BY <2>1, <2>2
<1>3. RowWords \in Nat \ {0}
  BY <1>1, <1>2 DEF RowWords
<1>. QED  BY <1>1, <1>2, <1>3 DEF AllWords

LEMMA ColumnsAre == Columns = 0 .. W-1
<1>1. W - 1 = L
  BY PreparedKeyAssumption DEF W
<1>. QED  BY <1>1 DEF Columns

LEMMA Lengths ==
  /\ ROW_BYTE_LEN = 4 * RowWords
  /\ PUBLIC_KEY_HASH_OFFSET = 4 * AllWords
  /\ BYTE_LEN = 4 * AllWords + TRBYTES
  /\ K * N * (L + 1) = AllWords
<1>1. ROW_BYTE_LEN = 4 * RowWords
  BY Sizes DEF ROW_BYTE_LEN, RowWords, W
<1>2. PUBLIC_KEY_HASH_OFFSET = 4 * AllWords
  BY <1>1, Sizes DEF PUBLIC_KEY_HASH_OFFSET, AllWords
<1>3. K * N * (L + 1) = AllWords
  BY Sizes DEF AllWords, RowWords, W
<1>. QED  BY <1>1, <1>2, <1>3 DEF BYTE_LEN

\* Where a row begins and ends.
LEMMA RowSpan ==
  ASSUME NEW i \in Rows
  PROVE  /\ i * ROW_BYTE_LEN \in Nat /\ ROW_BYTE_LEN \in Nat
         /\ i * ROW_BYTE_LEN = 4 * (i * RowWords) /\ i * RowWords \in Nat
         /\ (i + 1) * ROW_BYTE_LEN = i * ROW_BYTE_LEN + ROW_BYTE_LEN
         /\ i * ROW_BYTE_LEN + ROW_BYTE_LEN <= PUBLIC_KEY_HASH_OFFSET
<1>1. i \in Nat /\ i + 1 <= K
  BY Sizes DEF Rows
<1>2. ROW_BYTE_LEN = 4 * RowWords /\ RowWords \in Nat /\ ROW_BYTE_LEN \in Nat
  BY Sizes, Lengths
<1>3. ROW_BYTE_LEN * (i + 1) <= ROW_BYTE_LEN * K
  BY <1>1, <1>2, Sizes, MulMono
<1>. HIDE DEF ROW_BYTE_LEN
<1>4. /\ ROW_BYTE_LEN * (i + 1) = i * ROW_BYTE_LEN + ROW_BYTE_LEN
      /\ ROW_BYTE_LEN * (i + 1) = (i + 1) * ROW_BYTE_LEN
      /\ ROW_BYTE_LEN * K = K * ROW_BYTE_LEN
      /\ i * ROW_BYTE_LEN \in Nat /\ i * RowWords \in Nat
      /\ i * ROW_BYTE_LEN = 4 * (i * RowWords)
  BY <1>1, <1>2, Sizes
<1>. QED  BY <1>2, <1>3, <1>4 DEF PUBLIC_KEY_HASH_OFFSET

\* The words of a row are numbered without gap.
LEMMA WordOfRow ==
  ASSUME NEW k \in Coefs, NEW j \in Columns
  PROVE  /\ RowPlace(k, j) = 4 * (W * k + j)
         /\ W * k \in Nat /\ W * k + j \in 0 .. RowWords-1
         /\ RowPlace(k, j) \in Nat /\ RowPlace(k, j) + 4 <= ROW_BYTE_LEN
<1>1. k \in Nat /\ k + 1 <= N /\ j \in 0 .. W-1
  BY Sizes, ColumnsAre DEF Coefs
<1>2. W * (k + 1) <= W * N
  BY <1>1, Sizes, MulMono
<1>3. W * (k + 1) = W * k + W /\ W * k \in Nat
  BY <1>1, Sizes
<1>4. W * k + j \in 0 .. RowWords-1
  BY <1>1, <1>2, <1>3, Sizes DEF RowWords
<1>5. RowPlace(k, j) = 4 * (W * k + j)
  BY DEF RowPlace, W
<1>. QED  BY <1>3, <1>4, <1>5, Lengths, Sizes

\* Two bytes of a row lie at the same place only when they are the same byte
\* of the same word.
LEMMA PlaceUnique ==
  ASSUME NEW k1 \in Coefs, NEW k2 \in Coefs, NEW j1 \in Columns, NEW j2 \in Columns,
         NEW b1 \in 0 .. 3, NEW b2 \in 0 .. 3,
         RowPlace(k1, j1) + b1 = RowPlace(k2, j2) + b2
  PROVE  k1 = k2 /\ j1 = j2 /\ b1 = b2
<1>1. /\ RowPlace(k1, j1) = 4 * (W * k1 + j1) /\ RowPlace(k2, j2) = 4 * (W * k2 + j2)
      /\ W * k1 + j1 \in Nat /\ W * k2 + j2 \in Nat
  BY WordOfRow
<1>2. W * k1 + j1 = W * k2 + j2 /\ b1 = b2
  <2>1. 4 \in Nat \ {0} /\ b1 \in 0 .. 4-1 /\ b2 \in 0 .. 4-1
    OBVIOUS
  <2>2. PICK x \in Nat, y \in Nat :
          W * k1 + j1 = x /\ W * k2 + j2 = y /\ 4 * x + b1 = 4 * y + b2
    BY <1>1
  <2>3. x = y /\ b1 = b2
    BY <2>1, <2>2, Digits
  <2>. QED  BY <2>2, <2>3
<1>3. /\ k1 \in Nat /\ k2 \in Nat /\ j1 \in 0 .. W-1 /\ j2 \in 0 .. W-1
  BY Sizes, ColumnsAre DEF Coefs
<1>4. k1 = k2 /\ j1 = j2
  BY <1>2, <1>3, Sizes, Digits
<1>. QED  BY <1>2, <1>4

\* rows[i][k][j] of the key lies at [k][j] of row i.
LEMMA PlaceInKey ==
  ASSUME NEW i \in Rows, NEW k \in Coefs, NEW j \in Columns
  PROVE  /\ 4 * ((i * N + k) * (L + 1) + j) = i * ROW_BYTE_LEN + RowPlace(k, j)
         /\ (i * N + k) * (L + 1) + j = i * RowWords + (W * k + j)
         /\ (i * N + k) * (L + 1) + j \in 0 .. AllWords-1
<1>1. i \in Nat /\ k \in Nat /\ j \in Nat
  BY DEF Rows, Coefs, Columns
<1>2. (i * N + k) * (L + 1) = i * RowWords + W * k
  BY <1>1, Sizes DEF RowWords, W
<1>3. /\ W * k \in Nat /\ i * RowWords \in Nat /\ W * k + j \in 0 .. RowWords-1
      /\ i * ROW_BYTE_LEN = 4 * (i * RowWords) /\ RowPlace(k, j) = 4 * (W * k + j)
      /\ i * ROW_BYTE_LEN + ROW_BYTE_LEN <= PUBLIC_KEY_HASH_OFFSET
  BY RowSpan, WordOfRow
<1>. QED  BY <1>1, <1>2, <1>3, Lengths, Sizes

\* Every word of the key is an operand of some row.
LEMMA WordInRow ==
  ASSUME NEW n \in 0 .. AllWords-1
  PROVE  \E i \in Rows, k \in Coefs, j \in Columns : n = (i * N + k) * (L + 1) + j
<1>. DEFINE m == n \div W
            i == m \div N
<1>1. n \in Nat /\ n < W * (K * N)
  BY Sizes DEF AllWords, RowWords
<1>2. m \in Nat /\ n % W \in 0 .. W-1 /\ n = W * m + (n % W)
  BY <1>1, Sizes, DivMod
<1>3. K * N \in Nat /\ K * N = N * K
  BY Sizes
<1>4. m < K * N
  BY <1>1, <1>3, Sizes, DivBelow
<1>. HIDE DEF m
<1>5. i \in Nat /\ m % N \in 0 .. N-1 /\ m = N * i + (m % N)
  BY <1>2, Sizes, DivMod
<1>6. i < K
  BY <1>2, <1>3, <1>4, Sizes, DivBelow
<1>. HIDE DEF i
<1>7. i \in Rows /\ m % N \in Coefs /\ n % W \in Columns
  BY <1>2, <1>5, <1>6, Sizes, ColumnsAre DEF Rows, Coefs
<1>8. N * i = i * N /\ W * m = m * W
  BY <1>2, <1>5, Sizes
<1>9. n = (i * N + (m % N)) * (L + 1) + (n % W)
  BY <1>2, <1>5, <1>8 DEF W
<1>. QED  BY <1>7, <1>9

-----------------------------------------------------------------------------
(***************************************************************************)
(* The inductive invariant: a row that counts as filled holds its key's    *)
(* operands byte by byte, the columns a call has written so far hold       *)
(* theirs, the call's row overlaps nothing that counts as filled, and what *)
(* has been decoded is what is read.                                       *)
(***************************************************************************)

\* The column j of row i of a key, at p.
Holds(p, key, i, j) ==
  \A k \in Coefs, b \in 0 .. 3 : mem[p + RowPlace(k, j) + b] = Byte(Operand(key, i, j, k), b)

MemInv == at \in 0 .. 3 /\ mem \in [0 .. BYTE_LEN-1 -> 0 .. BYTE-1]

Preparing ==
  /\ row \in Rows /\ col \in Columns
  /\ place \in Nat /\ place + ROW_BYTE_LEN <= BYTE_LEN /\ (at + place) % 4 = 0
  /\ \A j \in Columns : j < col => Holds(place, pk, row, j)
  /\ \A i \in Rows : place < (i + 1) * ROW_BYTE_LEN /\ i * ROW_BYTE_LEN < place + ROW_BYTE_LEN
       => filled[i] = Unknown
  /\ place + ROW_BYTE_LEN > PUBLIC_KEY_HASH_OFFSET => hashed = Unknown

CallInv ==
  /\ call \in {"idle", "row", "key", "hash", "decode"}
  /\ call \in {"row", "key", "hash"} => pk \in Keys
  /\ call \in {"row", "key"} => Preparing
  /\ call = "key" =>
       /\ place = row * ROW_BYTE_LEN /\ hashed = Unknown
       /\ \A i \in Rows : i >= row => filled[i] = Unknown

FilledInv ==
  /\ filled \in [Rows -> Keys \cup {Unknown}] /\ hashed \in Keys \cup {Unknown}
  /\ \A i \in Rows : filled[i] # Unknown =>
       \A j \in Columns : Holds(i * ROW_BYTE_LEN, filled[i], i, j)
  /\ hashed # Unknown =>
       \A b \in 0 .. TRBYTES-1 : mem[PUBLIC_KEY_HASH_OFFSET + b] = HashByte(hashed, b)

\* The first n words are decoded.
DecodedTo(n) ==
  \A w \in 0 .. AllWords-1 : w < n => owned.rows[w] = FromLe(4 * w) /\ FromLe(4 * w) < Q

DecodeInv ==
  /\ call = "decode" =>
       /\ word \in 0 .. AllWords
       /\ owned = [rows |-> owned.rows, tr |-> owned.tr]
       /\ DOMAIN owned.rows = 0 .. AllWords-1
       /\ DecodedTo(word)
  /\ call = "idle" /\ out = "Decoded" =>
       /\ DecodedTo(AllWords)
       /\ \A b \in 0 .. TRBYTES-1 : owned.tr[b] = mem[PUBLIC_KEY_HASH_OFFSET + b]
  /\ call = "idle" /\ out = "InvalidEncoding" =>
       \E w \in 0 .. AllWords-1 : FromLe(4 * w) >= Q

IInv == MemInv /\ CallInv /\ FilledInv /\ DecodeInv

LEMMA InitInv == Init => IInv
<1> SUFFICES ASSUME Init PROVE IInv
  OBVIOUS
<1>1. MemInv
  BY PreparedKeyAssumption, PreparedKeyData DEF Init, MemInv
<1>2. CallInv
  BY DEF Init, CallInv
<1>3. FilledInv
  BY DEF Init, FilledInv
<1>4. DecodeInv
  BY DEF Init, DecodeInv
<1>. QED  BY <1>1, <1>2, <1>3, <1>4 DEF IInv

\* What is said of the bytes stays true while they do.
LEMMA SameMem ==
  ASSUME mem' = mem
  PROVE  /\ \A p, key, i, j : Holds(p, key, i, j)' <=> Holds(p, key, i, j)
         /\ \A p : FromLe(p)' = FromLe(p)
BY DEF Holds, FromLe

\* An answer that decodes nothing.
LEMMA AnswerInv ==
  ASSUME IInv, NEW result, result \notin {"Decoded", "InvalidEncoding"}, Answer(result)
  PROVE  IInv'
<1>1. UNCHANGED <<at, mem, call, pk, row, col, place, word, owned, filled, hashed>> /\ out' = result
  BY DEF Answer, locals
<1>2. MemInv'
  BY <1>1 DEF IInv, MemInv
<1>3. CallInv'
  BY <1>1, SameMem DEF IInv, CallInv, Preparing
<1>4. FilledInv'
  BY <1>1, SameMem DEF IInv, FilledInv
<1>5. DecodeInv'
  BY <1>1, SameMem DEF IInv, DecodeInv, DecodedTo
<1>. QED  BY <1>2, <1>3, <1>4, <1>5 DEF IInv

LEMMA BorrowedIs ==
  ASSUME NEW start, NEW len, NEW expected
  PROVE  /\ Borrowed(start, len, expected) \in {"Ok", "InvalidLength", "InvalidAlignment"}
         /\ Borrowed(start, len, expected) = "Ok" => len = expected /\ (at + start) % 4 = 0
BY DEF Borrowed

LEMMA BorrowInv == IInv /\ Borrow => IInv'
<1> SUFFICES ASSUME IInv, Borrow PROVE IInv'
  OBVIOUS
<1>1. PICK start \in Starts, d \in Shorter :
        LET verdict == Borrowed(start, BYTE_LEN - d, BYTE_LEN)
        IN  Refuse(verdict) \/ (verdict = "Ok" /\ Answer("Ok"))
  BY DEF Borrow
<1>2. Borrowed(start, BYTE_LEN - d, BYTE_LEN) \in {"Ok", "InvalidLength", "InvalidAlignment"}
  BY BorrowedIs
<1>. QED  BY <1>1, <1>2, AnswerInv DEF Refuse

LEMMA PrepareIntoInv == IInv /\ PrepareInto => IInv'
<1> SUFFICES ASSUME IInv, PrepareInto PROVE IInv'
  OBVIOUS
<1>1. PICK key \in Keys, start \in Starts :
        /\ Slice(start, BYTE_LEN, BYTE_LEN)
        /\ Borrowed(start, BYTE_LEN, BYTE_LEN) = "Ok"
        /\ call' = "key" /\ pk' = key /\ place' = start
  BY DEF PrepareInto
<1>2. /\ row' = 0 /\ col' = 0 /\ UNCHANGED <<at, mem, word, out>>
      /\ filled' = [i \in Rows |-> Unknown] /\ hashed' = Unknown
  BY DEF PrepareInto
<1>3. ROW_BYTE_LEN \in Nat /\ BYTE_LEN \in Nat /\ ROW_BYTE_LEN <= BYTE_LEN /\ 0 \in Rows /\ 0 \in Columns
      /\ 0 * ROW_BYTE_LEN = 0
  <2>1. 0 \in Rows /\ 0 \in Columns
    BY Sizes, ColumnsAre DEF Rows
  <2>2. PUBLIC_KEY_HASH_OFFSET \in Nat /\ BYTE_LEN = PUBLIC_KEY_HASH_OFFSET + TRBYTES
    BY Sizes, Lengths DEF BYTE_LEN
  <2>3. /\ 0 * ROW_BYTE_LEN \in Nat /\ ROW_BYTE_LEN \in Nat
        /\ 0 * ROW_BYTE_LEN + ROW_BYTE_LEN <= PUBLIC_KEY_HASH_OFFSET
    BY <2>1, RowSpan, Zenon
  <2>4. 0 * ROW_BYTE_LEN = 0
    BY <2>3
  <2>5. ROW_BYTE_LEN <= PUBLIC_KEY_HASH_OFFSET
    BY <2>3, <2>4
  <2>6. TRBYTES \in Nat
    BY Sizes, Zenon
  <2>. HIDE DEF ROW_BYTE_LEN, PUBLIC_KEY_HASH_OFFSET
  <2>7. BYTE_LEN \in Nat /\ ROW_BYTE_LEN <= BYTE_LEN
    BY <2>2, <2>3, <2>5, <2>6
  <2>. QED  BY <2>1, <2>3, <2>4, <2>7, Zenon
<1>4. start = 0 /\ (at + start) % 4 = 0
  <2>1. start \in Nat /\ start + BYTE_LEN <= BYTE_LEN
    BY <1>1, PreparedKeyAssumption DEF Slice
  <2>. QED  BY <1>1, <1>3, <2>1, BorrowedIs
<1>5. Preparing'
  <2>1. \A j \in Columns : ~(j < 0)
    BY ColumnsAre, Sizes
  <2>. QED  BY <1>1, <1>2, <1>3, <1>4, <2>1 DEF Preparing
<1>6. CallInv'
  BY <1>1, <1>2, <1>3, <1>4, <1>5 DEF CallInv
<1>7. MemInv'
  BY <1>2 DEF IInv, MemInv
<1>8. FilledInv'
  BY <1>2 DEF FilledInv
<1>9. DecodeInv'
  BY <1>1 DEF DecodeInv
<1>. QED  BY <1>6, <1>7, <1>8, <1>9 DEF IInv

LEMMA PrepareRowIntoInv == IInv /\ PrepareRowInto => IInv'
<1> SUFFICES ASSUME IInv, PrepareRowInto PROVE IInv'
  OBVIOUS
<1>1. PICK key \in Keys, index \in 0 .. K, start \in Starts, d \in Shorter :
       LET len == ROW_BYTE_LEN - d
           verdict == Borrowed(start, len, ROW_BYTE_LEN)
       IN  /\ Slice(start, len, ROW_BYTE_LEN)
           /\ \/ Refuse(verdict)
              \/ verdict = "Ok" /\ InvalidRow(index) /\ Refuse("InvalidRow")
              \/ /\ verdict = "Ok" /\ ~InvalidRow(index)
                 /\ call' = "row" /\ pk' = key /\ row' = index /\ col' = 0 /\ place' = start
                 /\ filled' = Overwritten(start)
                 /\ hashed' = IF start + len > PUBLIC_KEY_HASH_OFFSET THEN Unknown ELSE hashed
                 /\ owned' = Nothing
                 /\ UNCHANGED <<at, mem, word, out>>
  BY DEF PrepareRowInto
<1>. DEFINE len == ROW_BYTE_LEN - d
            verdict == Borrowed(start, len, ROW_BYTE_LEN)
<1>2. verdict \in {"Ok", "InvalidLength", "InvalidAlignment"}
      /\ (verdict = "Ok" => len = ROW_BYTE_LEN /\ (at + start) % 4 = 0)
  BY BorrowedIs
<1>3. CASE Refuse(verdict) \/ Refuse("InvalidRow")
  BY <1>2, <1>3, AnswerInv DEF Refuse
<1>4. CASE /\ verdict = "Ok" /\ ~InvalidRow(index)
           /\ call' = "row" /\ pk' = key /\ row' = index /\ col' = 0 /\ place' = start
           /\ filled' = Overwritten(start)
           /\ hashed' = IF start + len > PUBLIC_KEY_HASH_OFFSET THEN Unknown ELSE hashed
           /\ UNCHANGED <<at, mem, word, out>>
  <2>1. len = ROW_BYTE_LEN /\ (at + start) % 4 = 0
    BY <1>2, <1>4
  <2>2. start \in Nat /\ start + ROW_BYTE_LEN <= BYTE_LEN
    BY <1>1, <2>1, PreparedKeyAssumption DEF Slice
  <2>3. index \in Rows /\ 0 \in Columns
    BY <1>4, Sizes, ColumnsAre DEF InvalidRow, Rows
  <2>4. \A j \in Columns : ~(j < 0)
    BY ColumnsAre, Sizes
  <2>. HIDE DEF len, verdict
  <2>5. \A i \in Rows : /\ start < (i + 1) * ROW_BYTE_LEN /\ i * ROW_BYTE_LEN < start + ROW_BYTE_LEN
                             => filled'[i] = Unknown
                        /\ filled'[i] # Unknown => filled'[i] = filled[i]
    BY <1>4 DEF Overwritten
  <2>6. Preparing'
    BY <1>4, <2>1, <2>2, <2>3, <2>4, <2>5 DEF Preparing
  <2>7. CallInv'
    BY <1>4, <2>6 DEF CallInv
  <2>8. MemInv'
    BY <1>4 DEF IInv, MemInv
  <2>9. FilledInv'
    <3>1. filled' \in [Rows -> Keys \cup {Unknown}]
      BY <1>4 DEF IInv, FilledInv, Overwritten
    <3>2. hashed' \in {hashed, Unknown}
      BY <1>4
    <3>. QED  BY <1>4, <2>5, <3>1, <3>2, SameMem DEF IInv, FilledInv
  <2>10. DecodeInv'
    BY <1>4 DEF DecodeInv
  <2>. QED  BY <2>7, <2>8, <2>9, <2>10 DEF IInv
<1>. QED  BY <1>1, <1>3, <1>4

-----------------------------------------------------------------------------
(***************************************************************************)
(* What writing a column does to the bytes                                 *)
(***************************************************************************)

\* Byte b of the operand of coefficient k in the column being written.
Written(k, b) == Byte(Operand(pk, row, col, k), b)

LEMMA OperandIsNat ==
  ASSUME NEW key \in Keys, NEW i \in Rows, NEW j \in Columns, NEW k \in Coefs
  PROVE  /\ Operand(key, i, j, k) \in Nat
         /\ Operand(key, i, j, k) < Q /\ Operand(key, i, j, k) < WordEnd
<1>1. Operand(key, i, j, k) \in 0 .. Q-1
  BY PreparedKeyData
<1>2. WordEnd \in Nat
  BY ByteSize DEF WordEnd
<1>. QED  BY <1>1, <1>2, ByteSize

\* A byte of the column gets its value, every other byte keeps its own.
LEMMA StoredAt ==
  ASSUME Preparing, NEW k \in Coefs, NEW b \in 0 .. 3,
         place + RowPlace(k, col) + b \in DOMAIN mem
  PROVE  Stored[place + RowPlace(k, col) + b] = Written(k, b)
<1>. DEFINE p == place + RowPlace(k, col) + b
            here == {kb \in Coefs \X (0 .. 3) : p = place + RowPlace(kb[1], col) + kb[2]}
            one == CHOOSE kb \in here : TRUE
<1>1. <<k, b>> \in here
  OBVIOUS
<1>2. ASSUME NEW kb \in here PROVE kb = <<k, b>>
  <2>1. kb \in Coefs \X (0 .. 3) /\ place + RowPlace(kb[1], col) + kb[2] = place + RowPlace(k, col) + b
    OBVIOUS
  <2>2. /\ kb[1] \in Coefs /\ kb[2] \in 0 .. 3 /\ kb = <<kb[1], kb[2]>>
        /\ col \in Columns /\ place \in Nat
    BY <2>1 DEF Preparing
  <2>3. RowPlace(kb[1], col) \in Nat /\ RowPlace(k, col) \in Nat
    BY <2>2, WordOfRow
  <2>. HIDE DEF here, p
  <2>4. RowPlace(kb[1], col) + kb[2] = RowPlace(k, col) + b
    BY <2>1, <2>2, <2>3
  <2>5. kb[1] = k /\ kb[2] = b
    BY <2>2, <2>4, PlaceUnique
  <2>. QED  BY <2>2, <2>5
<1>3. one \in here
  BY <1>1
<1>4. one = <<k, b>>
  BY <1>2, <1>3
<1>5. Stored[p] = IF here = {} THEN mem[p] ELSE Byte(Operand(pk, row, col, one[1]), one[2])
  BY DEF Stored
<1>. HIDE DEF here, one, p
<1>6. Stored[p] = Byte(Operand(pk, row, col, k), b)
  BY <1>1, <1>4, <1>5
<1>. QED  BY <1>6 DEF p, Written

LEMMA StoredElsewhere ==
  ASSUME NEW p \in DOMAIN mem,
         \A k \in Coefs, b \in 0 .. 3 : p # place + RowPlace(k, col) + b
  PROVE  Stored[p] = mem[p]
<1>. DEFINE here == {kb \in Coefs \X (0 .. 3) : p = place + RowPlace(kb[1], col) + kb[2]}
            one == CHOOSE kb \in here : TRUE
<1>1. here = {}
  OBVIOUS
<1>2. Stored[p] = IF here = {} THEN mem[p] ELSE Byte(Operand(pk, row, col, one[1]), one[2])
  BY DEF Stored
<1>. HIDE DEF here, one
<1>. QED  BY <1>1, <1>2

\* Bytes before and behind the row are not touched.
LEMMA StoredOutside ==
  ASSUME Preparing, NEW p \in DOMAIN mem, p \in Nat,
         p < place \/ p >= place + ROW_BYTE_LEN
  PROVE  Stored[p] = mem[p]
<1>1. place \in Nat /\ col \in Columns /\ ROW_BYTE_LEN \in Nat
  BY Sizes, Lengths DEF Preparing
<1>2. ASSUME NEW k \in Coefs, NEW b \in 0 .. 3 PROVE p # place + RowPlace(k, col) + b
  <2>1. RowPlace(k, col) \in Nat /\ RowPlace(k, col) + 4 <= ROW_BYTE_LEN
    BY <1>1, WordOfRow
  <2>. QED  BY <1>1, <2>1
<1>. QED  BY <1>2, StoredElsewhere

\* The other columns of the row are not touched.
LEMMA StoredBeside ==
  ASSUME Preparing, NEW j \in Columns, j # col, NEW k \in Coefs, NEW b \in 0 .. 3,
         place + RowPlace(k, j) + b \in DOMAIN mem
  PROVE  Stored[place + RowPlace(k, j) + b] = mem[place + RowPlace(k, j) + b]
<1>1. place \in Nat /\ col \in Columns
  BY DEF Preparing
<1>2. ASSUME NEW k2 \in Coefs, NEW b2 \in 0 .. 3
      PROVE  place + RowPlace(k, j) + b # place + RowPlace(k2, col) + b2
  <2>1. RowPlace(k, j) \in Nat /\ RowPlace(k2, col) \in Nat
    BY <1>1, WordOfRow
  <2>2. ASSUME place + RowPlace(k, j) + b = place + RowPlace(k2, col) + b2 PROVE FALSE
    <3>1. RowPlace(k, j) + b = RowPlace(k2, col) + b2
      BY <1>1, <2>1, <2>2
    <3>. QED  BY <1>1, <3>1, PlaceUnique
  <2>. QED  BY <2>2
<1>. QED  BY <1>2, StoredElsewhere

\* The bytes of the row at hand are bytes of the key.
LEMMA RowInBytes ==
  ASSUME Preparing, NEW k \in Coefs, NEW j \in Columns, NEW b \in 0 .. 3
  PROVE  place + RowPlace(k, j) + b \in 0 .. BYTE_LEN-1
<1>1. RowPlace(k, j) \in Nat /\ RowPlace(k, j) + 4 <= ROW_BYTE_LEN
  BY WordOfRow
<1>2. place \in Nat /\ place + ROW_BYTE_LEN <= BYTE_LEN /\ BYTE_LEN \in Nat /\ ROW_BYTE_LEN \in Nat
  BY Sizes, Lengths DEF Preparing
<1>. QED  BY <1>1, <1>2

LEMMA StoredType ==
  ASSUME MemInv, Preparing, pk \in Keys
  PROVE  Stored \in [0 .. BYTE_LEN-1 -> 0 .. BYTE-1]
<1>1. DOMAIN mem = 0 .. BYTE_LEN-1 /\ row \in Rows /\ col \in Columns
  BY DEF MemInv, Preparing
<1>2. ASSUME NEW p \in DOMAIN mem PROVE Stored[p] \in 0 .. BYTE-1
  <2>1. CASE \E k \in Coefs, b \in 0 .. 3 : p = place + RowPlace(k, col) + b
    <3>1. PICK k \in Coefs, b \in 0 .. 3 : p = place + RowPlace(k, col) + b
      BY <2>1
    <3>2. Stored[p] = Written(k, b)
      BY <3>1, StoredAt
    <3>3. Operand(pk, row, col, k) \in Nat
      BY <1>1, OperandIsNat
    <3>. QED  BY <3>2, <3>3, ByteRange DEF Written
  <2>2. CASE \A k \in Coefs, b \in 0 .. 3 : p # place + RowPlace(k, col) + b
    <3>1. Stored[p] = mem[p]
      BY <2>2, StoredElsewhere
    <3>. QED  BY <1>1, <3>1 DEF MemInv
  <2>. QED  BY <2>1, <2>2
<1>. DEFINE value(p) ==
              LET here == {kb \in Coefs \X (0 .. 3) : p = place + RowPlace(kb[1], col) + kb[2]}
              IN  IF here = {} THEN mem[p]
                  ELSE LET kb == CHOOSE kb \in here : TRUE
                       IN  Byte(Operand(pk, row, col, kb[1]), kb[2])
<1>3. Stored = [p \in DOMAIN mem |-> value(p)]
  BY DEF Stored
<1>. HIDE DEF value
<1>. QED  BY <1>1, <1>2, <1>3

\* What a step that writes a column leaves: the columns of the row up to it,
\* and the rows and the hash that still count as filled.
LEMMA ColumnWritten ==
  ASSUME IInv, call \in {"row", "key"}, mem' = Stored
  PROVE  /\ mem' \in [0 .. BYTE_LEN-1 -> 0 .. BYTE-1]
         /\ \A j \in Columns, k \in Coefs, b \in 0 .. 3 : j <= col =>
              mem'[place + RowPlace(k, j) + b] = Byte(Operand(pk, row, j, k), b)
         /\ \A i \in Rows : filled[i] # Unknown =>
              \A j \in Columns, k \in Coefs, b \in 0 .. 3 :
                mem'[i * ROW_BYTE_LEN + RowPlace(k, j) + b] = Byte(Operand(filled[i], i, j, k), b)
         /\ hashed # Unknown =>
              \A b \in 0 .. TRBYTES-1 : mem'[PUBLIC_KEY_HASH_OFFSET + b] = HashByte(hashed, b)
<1>1. /\ Preparing /\ pk \in Keys /\ MemInv /\ FilledInv
      /\ DOMAIN mem = 0 .. BYTE_LEN-1 /\ place \in Nat /\ col \in Columns
      /\ \A j \in Columns : j < col => Holds(place, pk, row, j)
  BY DEF IInv, CallInv, Preparing, MemInv
<1>2. ASSUME NEW j \in Columns, NEW k \in Coefs, NEW b \in 0 .. 3, j <= col
      PROVE  Stored[place + RowPlace(k, j) + b] = Byte(Operand(pk, row, j, k), b)
  <2>1. place + RowPlace(k, j) + b \in DOMAIN mem
    BY <1>1, RowInBytes
  <2>2. CASE j = col
    BY <1>1, <2>1, <2>2, StoredAt DEF Written
  <2>3. CASE j # col
    <3>1. j < col
      BY <1>1, <1>2, <2>3, ColumnsAre, Sizes
    <3>2. mem[place + RowPlace(k, j) + b] = Byte(Operand(pk, row, j, k), b)
      BY <1>1, <3>1 DEF Holds
    <3>. QED  BY <1>1, <2>1, <2>3, <3>2, StoredBeside
  <2>. QED  BY <2>2, <2>3
<1>3. ASSUME NEW i \in Rows, filled[i] # Unknown,
             NEW j \in Columns, NEW k \in Coefs, NEW b \in 0 .. 3
      PROVE  Stored[i * ROW_BYTE_LEN + RowPlace(k, j) + b] = Byte(Operand(filled[i], i, j, k), b)
  <2>. DEFINE p == i * ROW_BYTE_LEN + RowPlace(k, j) + b
  <2>1. /\ i * ROW_BYTE_LEN \in Nat /\ ROW_BYTE_LEN \in Nat
        /\ (i + 1) * ROW_BYTE_LEN = i * ROW_BYTE_LEN + ROW_BYTE_LEN
        /\ i * ROW_BYTE_LEN + ROW_BYTE_LEN <= PUBLIC_KEY_HASH_OFFSET
        /\ RowPlace(k, j) \in Nat /\ RowPlace(k, j) + 4 <= ROW_BYTE_LEN
        /\ PUBLIC_KEY_HASH_OFFSET \in Nat /\ PUBLIC_KEY_HASH_OFFSET <= BYTE_LEN /\ BYTE_LEN \in Nat
    BY RowSpan, WordOfRow, Lengths, Sizes
  <2>2. ~(place < (i + 1) * ROW_BYTE_LEN /\ i * ROW_BYTE_LEN < place + ROW_BYTE_LEN)
    BY <1>1, <1>3 DEF Preparing
  <2>3. /\ p \in 0 .. BYTE_LEN-1 /\ p \in Nat
        /\ p < place \/ p >= place + ROW_BYTE_LEN
    <3> DEFINE x == i * ROW_BYTE_LEN
               y == (i + 1) * ROW_BYTE_LEN
               n == RowPlace(k, j)
    <3>1. /\ x \in Nat /\ y = x + ROW_BYTE_LEN /\ y <= PUBLIC_KEY_HASH_OFFSET
          /\ n \in Nat /\ n + 4 <= ROW_BYTE_LEN
          /\ place \in Nat /\ p = x + n + b
      BY <1>1, <2>1, Zenon DEF Preparing
    <3>2. ~(place < y /\ x < place + ROW_BYTE_LEN)
      BY <2>2, Zenon
    <3>3. ROW_BYTE_LEN \in Nat /\ BYTE_LEN \in Nat /\ PUBLIC_KEY_HASH_OFFSET \in Nat
          /\ PUBLIC_KEY_HASH_OFFSET <= BYTE_LEN
      BY <2>1, Zenon
    <3>. HIDE DEF p, x, y, n, ROW_BYTE_LEN, BYTE_LEN, PUBLIC_KEY_HASH_OFFSET
    <3>. QED  BY <3>1, <3>2, <3>3
  <2>4. mem[p] = Byte(Operand(filled[i], i, j, k), b)
    BY <1>1, <1>3 DEF FilledInv, Holds
  <2>. HIDE DEF p
  <2>5. Stored[p] = mem[p]
    BY <1>1, <2>3, StoredOutside
  <2>. QED  BY <2>4, <2>5 DEF p
<1>4. ASSUME hashed # Unknown, NEW b \in 0 .. TRBYTES-1
      PROVE  Stored[PUBLIC_KEY_HASH_OFFSET + b] = HashByte(hashed, b)
  <2>. DEFINE p == PUBLIC_KEY_HASH_OFFSET + b
  <2>1. PUBLIC_KEY_HASH_OFFSET \in Nat /\ BYTE_LEN = PUBLIC_KEY_HASH_OFFSET + TRBYTES /\ TRBYTES \in Nat
        /\ ROW_BYTE_LEN \in Nat
    BY Lengths, Sizes
  <2>2. place + ROW_BYTE_LEN <= PUBLIC_KEY_HASH_OFFSET
    BY <1>1, <1>4, <2>1 DEF Preparing
  <2>3. p \in 0 .. BYTE_LEN-1 /\ p \in Nat /\ p >= place + ROW_BYTE_LEN
    BY <1>1, <2>1, <2>2
  <2>4. mem[p] = HashByte(hashed, b)
    BY <1>1, <1>4 DEF FilledInv
  <2>. HIDE DEF p
  <2>5. Stored[p] = mem[p]
    BY <1>1, <2>3, StoredOutside
  <2>. QED  BY <2>4, <2>5 DEF p
<1>5. Stored \in [0 .. BYTE_LEN-1 -> 0 .. BYTE-1]
  BY <1>1, StoredType
<1>. QED  BY <1>2, <1>3, <1>4, <1>5

-----------------------------------------------------------------------------
(***************************************************************************)
(* The calls that write                                                    *)
(***************************************************************************)

LEMMA ColumnInv == IInv /\ Column => IInv'
<1> SUFFICES ASSUME IInv, Column PROVE IInv'
  OBVIOUS
<1>1. /\ call \in {"row", "key"} /\ col < L /\ mem' = Stored /\ col' = col + 1
      /\ UNCHANGED <<at, call, pk, row, place, filled, hashed>>
  BY DEF Column
<1>2. Preparing /\ col \in Nat /\ col + 1 \in Columns
  BY <1>1, PreparedKeyAssumption DEF IInv, CallInv, Preparing, Columns
<1>3. Preparing'
  <2>1. ASSUME NEW j \in Columns, j < col' PROVE Holds(place, pk, row, j)'
    <3>1. j <= col
      BY <1>1, <1>2, <2>1, ColumnsAre, Sizes
    <3>. QED  BY <1>1, <3>1, ColumnWritten DEF Holds
  <2>. QED  BY <1>1, <1>2, <2>1 DEF Preparing
<1>4. MemInv'
  BY <1>1, ColumnWritten DEF IInv, MemInv
<1>5. CallInv'
  BY <1>1, <1>3 DEF IInv, CallInv
<1>6. FilledInv'
  BY <1>1, ColumnWritten DEF IInv, FilledInv, Holds
<1>7. DecodeInv'
  BY <1>1 DEF DecodeInv
<1>. QED  BY <1>4, <1>5, <1>6, <1>7 DEF IInv

LEMMA RowDoneInv == IInv /\ RowDone => IInv'
<1> SUFFICES ASSUME IInv, RowDone PROVE IInv'
  OBVIOUS
<1>1. /\ call = "row" /\ col = L /\ mem' = Stored /\ call' = "idle" /\ out' = "Ok"
      /\ filled' = [i \in Rows |-> IF i = row /\ place = i * ROW_BYTE_LEN THEN pk ELSE filled[i]]
      /\ UNCHANGED <<at, owned, hashed>>
  BY DEF RowDone, Return, Exact
<1>2. Preparing /\ pk \in Keys /\ FilledInv
  BY <1>1 DEF IInv, CallInv
<1>3. MemInv'
  BY <1>1, ColumnWritten DEF IInv, MemInv
<1>4. CallInv'
  BY <1>1 DEF CallInv
<1>5. FilledInv'
  <2>1. filled' \in [Rows -> Keys \cup {Unknown}] /\ hashed' \in Keys \cup {Unknown}
    BY <1>1, <1>2 DEF FilledInv
  <2>2. ASSUME NEW i \in Rows, filled'[i] # Unknown, NEW j \in Columns
        PROVE  Holds(i * ROW_BYTE_LEN, filled[i], i, j)'
    <3>1. CASE i = row /\ place = i * ROW_BYTE_LEN
      <4>1. filled'[i] = pk
        BY <1>1, <3>1
      <4>2. j <= col
        BY <1>1, PreparedKeyAssumption DEF Columns
      <4>3. \A k \in Coefs, b \in 0 .. 3 :
              mem'[i * ROW_BYTE_LEN + RowPlace(k, j) + b] = Byte(Operand(pk, i, j, k), b)
        BY <1>1, <3>1, <4>2, ColumnWritten
      <4>. QED  BY <4>1, <4>3 DEF Holds
    <3>2. CASE ~(i = row /\ place = i * ROW_BYTE_LEN)
      <4>1. filled'[i] = filled[i]
        BY <1>1, <3>2
      <4>. QED  BY <1>1, <2>2, <4>1, ColumnWritten DEF Holds
    <3>. QED  BY <3>1, <3>2
  <2>3. hashed' # Unknown =>
          \A b \in 0 .. TRBYTES-1 : mem'[PUBLIC_KEY_HASH_OFFSET + b] = HashByte(hashed', b)
    BY <1>1, ColumnWritten
  <2>. QED  BY <2>1, <2>2, <2>3 DEF FilledInv
<1>6. DecodeInv'
  BY <1>1 DEF DecodeInv
<1>. QED  BY <1>3, <1>4, <1>5, <1>6 DEF IInv

\* Rows in their places do not overlap.
LEMMA RowsApart ==
  ASSUME NEW i \in Rows, NEW n \in Rows, n > i
  PROVE  n * ROW_BYTE_LEN >= (i + 1) * ROW_BYTE_LEN
<1>1. i \in Nat /\ n \in Nat /\ i + 1 <= n /\ ROW_BYTE_LEN \in Nat
  BY Lengths, Sizes DEF Rows
<1>2. ROW_BYTE_LEN * (i + 1) <= ROW_BYTE_LEN * n
  BY <1>1, MulMono
<1>. HIDE DEF ROW_BYTE_LEN
<1>3. ROW_BYTE_LEN * (i + 1) = (i + 1) * ROW_BYTE_LEN /\ ROW_BYTE_LEN * n = n * ROW_BYTE_LEN
      /\ (i + 1) * ROW_BYTE_LEN \in Int /\ n * ROW_BYTE_LEN \in Int
  BY <1>1
<1>. QED  BY <1>2, <1>3

\* The next row of prepare_into is in its place and free.
LEMMA NextRowReady ==
  ASSUME IInv, NextRow, row + 1 < K
  PROVE  Preparing'
<1>1. /\ call = "key" /\ row' = row + 1 /\ col' = 0 /\ place' = place + ROW_BYTE_LEN
      /\ filled' = [filled EXCEPT ![row] = pk] /\ hashed' = hashed /\ at' = at
  BY DEF NextRow
<1>2. /\ row \in Rows /\ place \in Nat /\ (at + place) % 4 = 0 /\ place = row * ROW_BYTE_LEN
      /\ hashed = Unknown /\ filled \in [Rows -> Keys \cup {Unknown}]
      /\ \A i \in Rows : i >= row => filled[i] = Unknown
      /\ at \in 0 .. 3
  BY <1>1 DEF IInv, CallInv, Preparing, FilledInv, MemInv
<1>3. row + 1 \in Rows /\ row \in Nat
  BY <1>2, Sizes DEF Rows
<1>4. /\ (row + 1) * ROW_BYTE_LEN = place + ROW_BYTE_LEN /\ ROW_BYTE_LEN \in Nat
      /\ place + ROW_BYTE_LEN + ROW_BYTE_LEN <= BYTE_LEN /\ BYTE_LEN \in Nat
  <2>1. /\ (row + 1) * ROW_BYTE_LEN = place + ROW_BYTE_LEN /\ ROW_BYTE_LEN \in Nat
        /\ (row + 1) * ROW_BYTE_LEN + ROW_BYTE_LEN <= PUBLIC_KEY_HASH_OFFSET
    BY <1>2, <1>3, RowSpan
  <2>2. BYTE_LEN = PUBLIC_KEY_HASH_OFFSET + TRBYTES /\ PUBLIC_KEY_HASH_OFFSET \in Nat /\ TRBYTES \in Nat
    BY Lengths, Sizes
  <2>. QED  BY <1>2, <2>1, <2>2
<1>5. (at + (place + ROW_BYTE_LEN)) % 4 = 0
  <2>1. PICK x \in Nat : ROW_BYTE_LEN = 4 * x
    BY Lengths, Sizes
  <2>. QED  BY <1>2, <2>1
<1>6. ASSUME NEW i \in Rows, place' < (i + 1) * ROW_BYTE_LEN
      PROVE  filled'[i] = Unknown
  <2>1. ~(row + 1 > i)
    <3>1. i \in Nat /\ (i + 1) * ROW_BYTE_LEN \in Int /\ place' \in Int
      BY <1>1, <1>2, <1>4, RowSpan DEF Rows
    <3>. QED  BY <1>1, <1>3, <1>4, <1>6, <3>1, RowsApart
  <2>2. i >= row /\ i # row
    BY <1>3, <2>1 DEF Rows
  <2>. QED  BY <1>1, <1>2, <2>2
<1>7. \A j \in Columns : ~(j < 0)
  BY ColumnsAre, Sizes
<1>8. 0 \in Columns
  BY ColumnsAre, Sizes
<1>9. place' \in Nat /\ place' + ROW_BYTE_LEN <= BYTE_LEN
  <2>1. place \in Nat /\ place' = place + ROW_BYTE_LEN
    BY <1>1, <1>2
  <2>. QED  BY <1>4, <2>1
<1>. QED  BY <1>1, <1>2, <1>3, <1>5, <1>6, <1>7, <1>8, <1>9 DEF Preparing

LEMMA NextRowInv == IInv /\ NextRow => IInv'
<1> SUFFICES ASSUME IInv, NextRow PROVE IInv'
  OBVIOUS
<1>1. /\ call = "key" /\ col = L /\ mem' = Stored
      /\ filled' = [filled EXCEPT ![row] = pk]
      /\ row' = row + 1 /\ col' = 0 /\ place' = place + ROW_BYTE_LEN
      /\ call' = IF row + 1 < K THEN "key" ELSE "hash"
      /\ UNCHANGED <<at, pk, hashed>>
  BY DEF NextRow
<1>2. /\ pk \in Keys /\ row \in Rows /\ place = row * ROW_BYTE_LEN /\ hashed = Unknown
      /\ \A i \in Rows : i >= row => filled[i] = Unknown
      /\ filled \in [Rows -> Keys \cup {Unknown}]
  BY <1>1 DEF IInv, CallInv, Preparing, FilledInv
<1>3. MemInv'
  BY <1>1, ColumnWritten DEF IInv, MemInv
<1>4. CallInv'
  <2>1. call' \in {"key", "hash"} /\ pk' \in Keys /\ (call' = "key" => row + 1 < K)
    BY <1>1, <1>2
  <2>2. call' = "key" => Preparing'
    BY <2>1, NextRowReady
  <2>3. place' = row' * ROW_BYTE_LEN
    <3>1. row \in Nat /\ (row + 1) * ROW_BYTE_LEN = row * ROW_BYTE_LEN + ROW_BYTE_LEN
      BY <1>2, RowSpan DEF Rows
    <3>. QED  BY <1>1, <1>2, <3>1
  <2>4. \A i \in Rows : i >= row' => filled'[i] = Unknown
    <3>1. \A i \in Rows : i >= row + 1 => i >= row /\ i # row
      BY <1>2 DEF Rows
    <3>. QED  BY <1>1, <1>2, <3>1
  <2>. QED  BY <1>1, <1>2, <2>1, <2>2, <2>3, <2>4 DEF CallInv
<1>5. FilledInv'
  <2>1. filled' \in [Rows -> Keys \cup {Unknown}] /\ hashed' = Unknown
    BY <1>1, <1>2
  <2>2. ASSUME NEW i \in Rows, filled'[i] # Unknown, NEW j \in Columns
        PROVE  Holds(i * ROW_BYTE_LEN, filled[i], i, j)'
    <3>1. CASE i = row
      <4>1. filled'[i] = pk
        BY <1>1, <1>2, <3>1
      <4>2. j <= col
        BY <1>1, PreparedKeyAssumption DEF Columns
      <4>3. \A k \in Coefs, b \in 0 .. 3 :
              mem'[i * ROW_BYTE_LEN + RowPlace(k, j) + b] = Byte(Operand(pk, i, j, k), b)
        BY <1>1, <1>2, <3>1, <4>2, ColumnWritten
      <4>. QED  BY <4>1, <4>3 DEF Holds
    <3>2. CASE i # row
      <4>1. filled'[i] = filled[i]
        BY <1>1, <1>2, <3>2
      <4>. QED  BY <1>1, <2>2, <4>1, ColumnWritten DEF Holds
    <3>. QED  BY <3>1, <3>2
  <2>. QED  BY <2>1, <2>2 DEF FilledInv
<1>6. DecodeInv'
  BY <1>1 DEF DecodeInv
<1>. QED  BY <1>3, <1>4, <1>5, <1>6 DEF IInv

\* Writing the hash writes nothing else.
LEMMA HashWritten ==
  ASSUME IInv, NEW key \in Keys, mem' = WithHash(key),
         hashed' = key, UNCHANGED <<at, filled>>
  PROVE  MemInv' /\ FilledInv'
<1>1. PUBLIC_KEY_HASH_OFFSET \in Nat /\ BYTE_LEN = PUBLIC_KEY_HASH_OFFSET + TRBYTES /\ TRBYTES \in Nat
  BY Lengths, Sizes
<1>2. mem \in [0 .. BYTE_LEN-1 -> 0 .. BYTE-1] /\ FilledInv
  BY DEF IInv, MemInv
<1>. HIDE DEF PUBLIC_KEY_HASH_OFFSET, BYTE_LEN
<1>3. ASSUME NEW p \in 0 .. BYTE_LEN-1, p >= PUBLIC_KEY_HASH_OFFSET
      PROVE  HashByte(key, p - PUBLIC_KEY_HASH_OFFSET) \in 0 .. BYTE-1
  <2>1. p - PUBLIC_KEY_HASH_OFFSET \in 0 .. TRBYTES-1
    BY <1>1, <1>3
  <2>. QED  BY <2>1, PreparedKeyData
<1>4. mem' \in [0 .. BYTE_LEN-1 -> 0 .. BYTE-1]
  BY <1>2, <1>3 DEF WithHash
<1>5. ASSUME NEW b \in 0 .. TRBYTES-1
      PROVE  mem'[PUBLIC_KEY_HASH_OFFSET + b] = HashByte(key, b)
  <2>. DEFINE p == PUBLIC_KEY_HASH_OFFSET + b
  <2>1. p \in 0 .. BYTE_LEN-1 /\ p >= PUBLIC_KEY_HASH_OFFSET /\ p - PUBLIC_KEY_HASH_OFFSET = b
    BY <1>1
  <2>. HIDE DEF p
  <2>2. mem'[p] = HashByte(key, p - PUBLIC_KEY_HASH_OFFSET)
    BY <1>2, <2>1 DEF WithHash
  <2>. QED  BY <2>1, <2>2 DEF p
<1>6. ASSUME NEW i \in Rows, filled[i] # Unknown, NEW j \in Columns
      PROVE  Holds(i * ROW_BYTE_LEN, filled[i], i, j)'
  <2>1. ASSUME NEW k \in Coefs, NEW b \in 0 .. 3
        PROVE  mem'[i * ROW_BYTE_LEN + RowPlace(k, j) + b] = mem[i * ROW_BYTE_LEN + RowPlace(k, j) + b]
    <3>1. /\ i * ROW_BYTE_LEN \in Nat /\ ROW_BYTE_LEN \in Nat
          /\ i * ROW_BYTE_LEN + ROW_BYTE_LEN <= PUBLIC_KEY_HASH_OFFSET
          /\ RowPlace(k, j) \in Nat /\ RowPlace(k, j) + 4 <= ROW_BYTE_LEN
      BY RowSpan, WordOfRow
    <3>2. /\ i * ROW_BYTE_LEN + RowPlace(k, j) + b \in 0 .. BYTE_LEN-1
          /\ ~(i * ROW_BYTE_LEN + RowPlace(k, j) + b >= PUBLIC_KEY_HASH_OFFSET)
      BY <1>1, <3>1
    <3>. QED  BY <1>2, <3>2 DEF WithHash
  <2>. QED  BY <1>2, <1>6, <2>1 DEF FilledInv, Holds
<1>7. MemInv'
  BY <1>4 DEF IInv, MemInv
<1>. QED  BY <1>2, <1>5, <1>6, <1>7 DEF FilledInv

LEMMA KeyDoneInv == IInv /\ KeyDone => IInv'
<1> SUFFICES ASSUME IInv, KeyDone PROVE IInv'
  OBVIOUS
<1>1. /\ call = "hash" /\ mem' = WithHash(pk) /\ hashed' = pk /\ call' = "idle" /\ out' = "Ok"
      /\ UNCHANGED <<at, filled>>
  BY DEF KeyDone, Return
<1>2. pk \in Keys
  BY <1>1 DEF IInv, CallInv
<1>3. MemInv' /\ FilledInv'
  BY <1>1, <1>2, HashWritten
<1>4. CallInv' /\ DecodeInv'
  BY <1>1 DEF CallInv, DecodeInv
<1>. QED  BY <1>3, <1>4 DEF IInv

LEMMA WriteHashInv == IInv /\ WriteHash => IInv'
<1> SUFFICES ASSUME IInv, WriteHash PROVE IInv'
  OBVIOUS
<1>1. PICK key \in Keys : mem' = WithHash(key) /\ hashed' = key
  BY DEF WriteHash
<1>2. call' = "idle" /\ out' = "Hashed" /\ UNCHANGED <<at, filled>>
  BY DEF WriteHash
<1>3. MemInv' /\ FilledInv'
  BY <1>1, <1>2, HashWritten
<1>4. CallInv' /\ DecodeInv'
  BY <1>2 DEF CallInv, DecodeInv
<1>. QED  BY <1>3, <1>4 DEF IInv

-----------------------------------------------------------------------------
(***************************************************************************)
(* The call that decodes                                                   *)
(***************************************************************************)

LEMMA FromSliceInv == IInv /\ FromSlice => IInv'
<1> SUFFICES ASSUME IInv, FromSlice PROVE IInv'
  OBVIOUS
<1>1. CASE Refuse("InvalidLength")
  BY <1>1, AnswerInv DEF Refuse
<1>2. CASE /\ call' = "decode" /\ word' = 0 /\ owned' = ZERO
           /\ UNCHANGED <<at, mem, filled, hashed>>
  <2>1. MemInv' /\ FilledInv'
    BY <1>2, SameMem DEF IInv, MemInv, FilledInv
  <2>2. CallInv'
    BY <1>2 DEF CallInv
  <2>3. DecodeInv'
    <3>1. owned' = [rows |-> owned'.rows, tr |-> owned'.tr] /\ DOMAIN owned'.rows = 0 .. AllWords-1
      BY <1>2, Lengths DEF ZERO
    <3>2. \A w \in 0 .. AllWords-1 : ~(w < 0)
      OBVIOUS
    <3>3. 0 \in 0 .. AllWords
      BY Sizes
    <3>. QED  BY <1>2, <3>1, <3>2, <3>3 DEF DecodeInv, DecodedTo
  <2>. QED  BY <2>1, <2>2, <2>3 DEF IInv
<1>. QED  BY <1>1, <1>2 DEF FromSlice

LEMMA FromLeIsInt ==
  ASSUME MemInv, NEW w \in 0 .. AllWords-1
  PROVE  FromLe(4 * w) \in Int
<1>1. \A p \in 0 .. BYTE_LEN-1 : mem[p] \in Int
  BY ByteSize DEF MemInv
<1>2. /\ 4 * w \in 0 .. BYTE_LEN-1 /\ 4 * w + 1 \in 0 .. BYTE_LEN-1
      /\ 4 * w + 2 \in 0 .. BYTE_LEN-1 /\ 4 * w + 3 \in 0 .. BYTE_LEN-1
  BY Lengths, Sizes
<1>3. PICK m0 \in Int, m1 \in Int, m2 \in Int, m3 \in Int :
        mem[4 * w] = m0 /\ mem[4 * w + 1] = m1 /\ mem[4 * w + 2] = m2 /\ mem[4 * w + 3] = m3
  BY <1>1, <1>2
<1>4. FromLe(4 * w) = m0 + BYTE * m1 + BYTE * BYTE * m2 + BYTE * BYTE * BYTE * m3
  BY <1>3 DEF FromLe
<1>. QED  BY <1>4, ByteSize

LEMMA DecodeWordInv == IInv /\ DecodeWord => IInv'
<1> SUFFICES ASSUME IInv, DecodeWord PROVE IInv'
  OBVIOUS
<1>. DEFINE v == FromLe(4 * word)
<1>1. /\ call = "decode" /\ 4 * word < PUBLIC_KEY_HASH_OFFSET
      /\ UNCHANGED <<at, mem, filled, hashed>>
      /\ IF v >= Q
           THEN call' = "idle" /\ out' = "InvalidEncoding"
           ELSE /\ owned' = [owned EXCEPT !.rows[word] = v]
                /\ word' = word + 1 /\ call' = call
  BY DEF DecodeWord, InvalidWord, Return
<1>2. /\ word \in 0 .. AllWords-1 /\ DecodedTo(word)
      /\ owned = [rows |-> owned.rows, tr |-> owned.tr] /\ DOMAIN owned.rows = 0 .. AllWords-1
  <2>1. word \in 0 .. AllWords /\ AllWords \in Nat /\ PUBLIC_KEY_HASH_OFFSET = 4 * AllWords
    BY <1>1, Lengths, Sizes DEF IInv, DecodeInv
  <2>. QED  BY <1>1, <2>1 DEF IInv, DecodeInv
<1>3. v \in Int /\ Q \in Nat
  BY <1>2, FromLeIsInt, ByteSize DEF IInv
<1>. HIDE DEF v
<1>4. MemInv' /\ FilledInv'
  BY <1>1, SameMem DEF IInv, MemInv, FilledInv
<1>5. CallInv'
  BY <1>1 DEF CallInv
<1>6. DecodeInv'
  <2>1. CASE v >= Q
    <3>1. FromLe(4 * word)' = FromLe(4 * word') /\ \A p : FromLe(p)' = FromLe(p)
      BY <1>1, SameMem
    <3>2. \E w \in 0 .. AllWords-1 : FromLe(4 * w) >= Q
      BY <1>2, <2>1 DEF v
    <3>3. (\E w \in 0 .. AllWords-1 : FromLe(4 * w) >= Q)'
      BY <3>1, <3>2
    <3>. QED  BY <1>1, <2>1, <3>3 DEF DecodeInv
  <2>2. CASE ~(v >= Q)
    <3>1. /\ owned'.rows = [owned.rows EXCEPT ![word] = v] /\ owned'.tr = owned.tr
          /\ owned' = [rows |-> owned'.rows, tr |-> owned'.tr]
      BY <1>1, <1>2, <2>2
    <3>2. DOMAIN owned'.rows = 0 .. AllWords-1
      BY <1>2, <3>1
    <3>3. ASSUME NEW w \in 0 .. AllWords-1, w < word + 1
          PROVE  owned'.rows[w] = FromLe(4 * w) /\ FromLe(4 * w) < Q
      <4>1. CASE w = word
        <5>1. owned'.rows[w] = v
          BY <1>2, <3>1, <4>1
        <5>2. v < Q
          BY <1>3, <2>2
        <5>. QED  BY <4>1, <5>1, <5>2 DEF v
      <4>2. CASE w # word
        <5>1. w < word /\ owned'.rows[w] = owned.rows[w]
          BY <1>2, <3>1, <3>3, <4>2
        <5>. QED  BY <1>2, <5>1 DEF DecodedTo
      <4>. QED  BY <4>1, <4>2
    <3>4. DecodedTo(word)'
      <4>1. \A p : FromLe(p)' = FromLe(p)
        BY <1>1, SameMem
      <4>. QED  BY <1>1, <2>2, <3>3, <4>1 DEF DecodedTo
    <3>5. word' \in 0 .. AllWords
      BY <1>1, <1>2, <2>2, Sizes
    <3>. QED  BY <1>1, <2>2, <3>1, <3>2, <3>4, <3>5 DEF DecodeInv
  <2>. QED  BY <2>1, <2>2
<1>. QED  BY <1>4, <1>5, <1>6 DEF IInv

LEMMA DecodeDoneInv == IInv /\ DecodeDone => IInv'
<1> SUFFICES ASSUME IInv, DecodeDone PROVE IInv'
  OBVIOUS
<1>1. /\ call = "decode" /\ 4 * word >= PUBLIC_KEY_HASH_OFFSET
      /\ owned' = [owned EXCEPT !.tr = [b \in 0 .. TRBYTES-1 |-> mem[PUBLIC_KEY_HASH_OFFSET + b]]]
      /\ call' = "idle" /\ out' = "Decoded"
      /\ UNCHANGED <<at, mem, filled, hashed>>
  BY DEF DecodeDone, Return
<1>2. /\ word = AllWords /\ DecodedTo(word)
      /\ owned = [rows |-> owned.rows, tr |-> owned.tr]
  <2>1. word \in 0 .. AllWords /\ AllWords \in Nat /\ PUBLIC_KEY_HASH_OFFSET = 4 * AllWords
    BY <1>1, Lengths, Sizes DEF IInv, DecodeInv
  <2>. QED  BY <1>1, <2>1 DEF IInv, DecodeInv
<1>3. MemInv' /\ FilledInv'
  BY <1>1, SameMem DEF IInv, MemInv, FilledInv
<1>4. CallInv'
  BY <1>1 DEF CallInv
<1>5. DecodeInv'
  <2>1. owned'.rows = owned.rows
        /\ owned'.tr = [b \in 0 .. TRBYTES-1 |-> mem[PUBLIC_KEY_HASH_OFFSET + b]]
    BY <1>1, <1>2
  <2>2. DecodedTo(AllWords)'
    BY <1>1, <1>2, <2>1, SameMem DEF DecodedTo
  <2>. QED  BY <1>1, <2>1, <2>2 DEF DecodeInv
<1>. QED  BY <1>3, <1>4, <1>5 DEF IInv

-----------------------------------------------------------------------------
(***************************************************************************)
(* The theorems                                                            *)
(***************************************************************************)

LEMMA Inductive == IInv /\ [Next]_vars => IInv'
<1> SUFFICES ASSUME IInv, [Next]_vars PROVE IInv'
  OBVIOUS
<1>1. CASE UNCHANGED vars
  <2>1. UNCHANGED <<at, mem, call, pk, row, col, place, word, owned, out, filled, hashed>>
    BY <1>1 DEF vars, locals
  <2>2. MemInv' /\ FilledInv'
    BY <2>1, SameMem DEF IInv, MemInv, FilledInv
  <2>3. CallInv'
    BY <2>1, SameMem DEF IInv, CallInv, Preparing
  <2>4. DecodeInv'
    BY <2>1, SameMem DEF IInv, DecodeInv, DecodedTo
  <2>. QED  BY <2>2, <2>3, <2>4 DEF IInv
<1>. QED  BY <1>1, BorrowInv, PrepareIntoInv, PrepareRowIntoInv, ColumnInv, RowDoneInv, NextRowInv,
             KeyDoneInv, WriteHashInv, FromSliceInv, DecodeWordInv, DecodeDoneInv DEF Next

LEMMA Invariance == Spec => []IInv
BY InitInv, Inductive, PTL DEF Spec

\* What the bytes hold is bytes, and a row is only written where it is
\* aligned and within them.
THEOREM TypeCorrect == Spec => []TypeOK
<1>1. IInv => TypeOK
  <2> SUFFICES ASSUME IInv PROVE TypeOK
    OBVIOUS
  <2>1. ASSUME call \in {"row", "key"}
        PROVE  place \in 0 .. PUBLIC_KEY_HASH_OFFSET + TRBYTES - ROW_BYTE_LEN
    <3>1. place \in Nat /\ place + ROW_BYTE_LEN <= BYTE_LEN /\ ROW_BYTE_LEN \in Nat /\ BYTE_LEN \in Nat
      BY <2>1, Lengths, Sizes DEF IInv, CallInv, Preparing
    <3>2. PUBLIC_KEY_HASH_OFFSET \in Nat /\ TRBYTES \in Nat /\ BYTE_LEN = PUBLIC_KEY_HASH_OFFSET + TRBYTES
      BY Lengths, Sizes
    <3>. QED  BY <3>1, <3>2
  <2>. QED  BY <2>1 DEF IInv, MemInv, CallInv, Preparing, FilledInv, TypeOK
<1>. QED  BY <1>1, Invariance, PTL

\* The word at an operand's place of a filled row is the operand.
LEMMA FilledIsRead ==
  ASSUME IInv, NEW i \in Rows, filled[i] # Unknown, NEW k \in Coefs, NEW j \in Columns
  PROVE  InPlace(i, k, j) = Operand(filled[i], i, j, k)
<1>. DEFINE p == i * ROW_BYTE_LEN + RowPlace(k, j)
            v == Operand(filled[i], i, j, k)
<1>1. InPlace(i, k, j) = FromLe(p)
  BY PlaceInKey DEF InPlace
<1>2. \A b \in 0 .. 3 : mem[p + b] = Byte(v, b)
  BY DEF IInv, FilledInv, Holds
<1>3. p \in Nat
  BY RowSpan, WordOfRow
<1>4. v \in Nat /\ v < WordEnd
  <2>1. filled[i] \in Keys
    BY DEF IInv, FilledInv
  <2>. QED  BY <2>1, OperandIsNat
<1>. HIDE DEF p, v
<1>5. p + 0 = p
  BY <1>3
<1>6. mem[p] = Byte(v, 0) /\ mem[p + 1] = Byte(v, 1) /\ mem[p + 2] = Byte(v, 2) /\ mem[p + 3] = Byte(v, 3)
  BY <1>2, <1>5
<1>7. FromLe(p) = v
  BY <1>4, <1>6, BytesMakeWord DEF FromLe
<1>. QED  BY <1>1, <1>7 DEF v

\* Rows prepared in any order compose: what counts as filled is read back.
THEOREM PreparedIsRead == Spec => []RowsCompose
<1>1. IInv => RowsCompose
  BY FilledIsRead DEF IInv, FilledInv, RowsCompose
<1>. QED  BY <1>1, Invariance, PTL

\* from_bytes and the reader in place agree.
THEOREM DecoderAgrees == Spec => []ReadersAgree
<1>1. ASSUME IInv, call = "idle", out = "Decoded", NEW i \in Rows, NEW k \in Coefs, NEW j \in Columns
      PROVE  /\ InPlace(i, k, j) < Q
             /\ owned.rows[(i * N + k) * (L + 1) + j] = InPlace(i, k, j)
  <2>1. (i * N + k) * (L + 1) + j \in 0 .. AllWords-1
    BY PlaceInKey
  <2>2. \A w \in 0 .. AllWords-1 : owned.rows[w] = FromLe(4 * w) /\ FromLe(4 * w) < Q
    <3>1. DecodedTo(AllWords) /\ \A w \in 0 .. AllWords-1 : w < AllWords
      BY <1>1, Sizes DEF IInv, DecodeInv
    <3>. QED  BY <3>1 DEF DecodedTo
  <2>. QED  BY <2>1, <2>2 DEF InPlace
<1>2. ASSUME IInv, call = "idle", out = "Decoded", hashed # Unknown, NEW b \in 0 .. TRBYTES-1
      PROVE  owned.tr[b] = HashByte(hashed, b)
  BY <1>2 DEF IInv, DecodeInv, FilledInv
<1>3. ASSUME IInv, call = "idle", out = "InvalidEncoding"
      PROVE  /\ \E i \in Rows, k \in Coefs, j \in Columns : ~(InPlace(i, k, j) < Q)
             /\ \E i \in Rows : filled[i] = Unknown
  <2>1. PICK w \in 0 .. AllWords-1 : FromLe(4 * w) >= Q
    BY <1>3 DEF IInv, DecodeInv
  <2>2. PICK i \in Rows, k \in Coefs, j \in Columns : w = (i * N + k) * (L + 1) + j
    BY WordInRow
  <2>3. InPlace(i, k, j) >= Q /\ InPlace(i, k, j) \in Int /\ Q \in Nat
    BY <1>3, <2>1, <2>2, FromLeIsInt, ByteSize DEF InPlace, IInv
  <2>4. ~(InPlace(i, k, j) < Q)
    BY <2>3
  <2>5. filled[i] = Unknown
    <3>1. ASSUME filled[i] # Unknown PROVE FALSE
      <4>1. InPlace(i, k, j) = Operand(filled[i], i, j, k)
        BY <1>3, <3>1, FilledIsRead
      <4>2. filled[i] \in Keys
        BY <1>3, <3>1 DEF IInv, FilledInv
      <4>. QED  BY <2>4, <4>1, <4>2, OperandIsNat
    <3>. QED  BY <3>1
  <2>. QED  BY <2>4, <2>5
<1>4. IInv => ReadersAgree
  BY <1>1, <1>2, <1>3 DEF ReadersAgree
<1>. QED  BY <1>4, Invariance, PTL
=============================================================================
