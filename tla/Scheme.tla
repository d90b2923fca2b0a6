-------------------------------- MODULE Scheme --------------------------------
(***************************************************************************)
(* ML-DSA as the verifier of src/ml_dsa_44.rs sees it.  A hash stands for  *)
(* the mode and the sequence it was computed from.  What a row of words    *)
(* computes is left open: RowOf is any function of its operands, so that   *)
(* nothing is said of words that no honest key generation made.            *)
(***************************************************************************)
EXTENDS Integers, Sequences

CONSTANTS
  K,               \* rows (4)
  L,               \* columns (4)
  BYTE,            \* number of values of a byte (256)
  CONTEXT_MAX_LEN, \* 255
  Honest,          \* the sources whose key was generated as the standard says
  Signatures,      \* what the holders of those keys have signed
  Calls,           \* the calls to verify
  Large,           \* the z polynomials at or above the bound GAMMA1 - BETA
  Malformed,       \* a hint block hint_counts refuses
  RowOf(_, _, _, _)
    \* RowOf(words, zhat, chat, hints): UseHint(hints, INTT(A z - c t1)), with
    \* A and t1 the words of one row of a key, whatever they are

ASSUME SizeAssumption ==
  /\ K \in Nat \ {0} /\ L \in Nat \ {0} /\ BYTE \in Nat \ {0}
  /\ CONTEXT_MAX_LEN \in Nat /\ CONTEXT_MAX_LEN < BYTE

Rows == 0 .. K-1
Columns == 0 .. L-1
Bytes == 0 .. BYTE-1

\* Signers frame contexts the standard admits; a source is a key and a mode.
ASSUME SignaturesAssumption ==
  \A s \in Signatures :
    /\ s = [src |-> s.src, ctx |-> s.ctx, msg |-> s.msg, c |-> s.c, z |-> s.z, hints |-> s.hints]
    /\ s.src \in Honest /\ s.src = <<s.src[1], s.src[2]>>
    /\ s.ctx \in Seq(Bytes) /\ Len(s.ctx) <= CONTEXT_MAX_LEN
    /\ s.msg \in Seq(Bytes)
    /\ s.hints # Malformed

(***************************************************************************)
(* A call: the key, the TURBO parameter of its type, the entry point with  *)
(* its arguments, and the signature.  A prepared key is what storage       *)
(* holds, whatever wrote it.                                               *)
(***************************************************************************)
ASSUME CallsAssumption ==
  \A c \in Calls :
    /\ c.entry \in {"context", "internal", "mu"}
    /\ c.key.kind \in {"raw", "prepared"}
    /\ c.key.kind = "prepared" => c.key.rows = [n \in Rows |-> c.key.rows[n]]
    /\ c.ctx \in Seq(Bytes) /\ c.msg \in Seq(Bytes) /\ c.mPrime \in Seq(Bytes)
    /\ c.sig.z = [j \in Columns |-> c.sig.z[j]]

\* What a variable of this kind holds before it is written.
Noise == [noise |-> TRUE]

\* SHAKE256, or TurboSHAKE256 if turbo, of what was absorbed.
Hash(turbo, absorbed) == [turbo |-> turbo, absorbed |-> absorbed]

\* tr of a source, that is of a key and a mode
Tr(src) == Hash(src[2], <<src[1]>>)

\* Mutant: the length is not framed.
FrameNoLength(ctx, msg) == <<0>> \o ctx \o msg

\* M' = 0 || |ctx| || ctx || msg, with the length cast to a byte
Frame(ctx, msg) == <<0, Len(ctx) % BYTE>> \o ctx \o msg

Mu(turbo, tr, mPrime) == Hash(turbo, <<tr>> \o mPrime)

\* Row i of A and t1 of a source, stored (prepare_row) or expanded
\* (raw_row): the row is named by its nonces and its slice of the key.
KeyRow(src, i) == [src |-> src, index |-> i]
KeyRows(src) == [n \in Rows |-> KeyRow(src, n)]

Encoded(s) == [c |-> s.c, z |-> s.z, hints |-> s.hints]
MuOf(s) == Mu(s.src[2], Tr(s.src), Frame(s.ctx, s.msg))

(***************************************************************************)
(* FIPS 204 Algorithm 8 from mu on, which the doc comments promise, on any *)
(* rows.                                                                   *)
(***************************************************************************)
Digest(turbo, mu, rows, sig) ==
  Hash(turbo, <<mu>> \o
    [n \in 1 .. K |-> RowOf(rows[n - 1], sig.z, Hash(turbo, <<sig.c>>), sig.hints[n - 1])])

InRange(z) == \A j \in Columns : z[j] \notin Large

Valid(turbo, mu, rows, sig) ==
  /\ sig.hints # Malformed /\ InRange(sig.z)
  /\ Digest(turbo, mu, rows, sig) = sig.c

\* What a call holds of its key, and the mu it asks about.
RowsHeld(c) == IF c.key.kind = "raw" THEN KeyRows(<<c.key.bytes, c.turbo>>) ELSE c.key.rows
TrHeld(c)   == IF c.key.kind = "raw" THEN Tr(<<c.key.bytes, c.turbo>>) ELSE c.key.tr
MuAsked(c)  ==
  CASE c.entry = "context"  -> Mu(c.turbo, TrHeld(c), Frame(c.ctx, c.msg))
    [] c.entry = "internal" -> Mu(c.turbo, TrHeld(c), c.mPrime)
    [] c.entry = "mu"       -> c.mu

(***************************************************************************)
(* The two facts about ML-DSA that verification rests on.  Signatures are  *)
(* correct, though a signer may have skipped the rejection of a large z.   *)
(* And they are (strongly) unforgeable: under the rows of an honest key,   *)
(* and under no others, what is valid for a mu its holder made for that mu *)
(* in that mode.  Rows of zeros, or of a key made to that end, are not     *)
(* unforgeable: anyone can compute a hash that is valid under them.        *)
(***************************************************************************)
ASSUME CorrectAssumption ==
  \A s \in Signatures :
    InRange(s.z) => Valid(s.src[2], MuOf(s), KeyRows(s.src), Encoded(s))

ASSUME UnforgeableAssumption ==
  \A c \in Calls, src \in Honest :
    /\ RowsHeld(c) = KeyRows(src)
    /\ Valid(c.turbo, MuAsked(c), KeyRows(src), c.sig)
    => \E s \in Signatures :
         s.src = src /\ c.turbo = src[2] /\ MuAsked(c) = MuOf(s) /\ c.sig = Encoded(s)
=============================================================================
