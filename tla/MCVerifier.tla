------------------------------ MODULE MCVerifier ------------------------------
(***************************************************************************)
(* Two rows and columns, bytes of one bit, contexts of at most one byte.   *)
(* Calls combine every key in storage (whole, of either mode, half         *)
(* written, mixed, with rows swapped, or of no honest key), every short    *)
(* context and message, M' and mu, and every signature, made, changed in   *)
(* one part, or computed by someone who holds no key.                      *)
(***************************************************************************)
EXTENDS Verifier, SequencesExt

CONSTANTS k1, k2, weak

Short(n) == BoundedSeq(Bytes, n)

Response(p, q) == [j \in Columns |-> IF j = 0 THEN p ELSE q]
Hints(p, q) == [n \in Rows |-> IF n = 0 THEN p ELSE q]

MCHonest == {<<k1, FALSE>>, <<k1, TRUE>>, <<k2, FALSE>>}

\* What a signer commits to, and the hash it makes of it.
Draft(source, context, message, response) ==
  [src |-> source, ctx |-> context, msg |-> message, z |-> response, hints |-> Hints("h0", "h1")]

\* The last signer skipped the rejection of a large response.
Drafts == {
  Draft(<<k1, FALSE>>, <<>>, <<0, 1>>, Response("y", "x")),
  Draft(<<k1, TRUE>>, <<>>, <<0, 1>>, Response("y", "x")),
  Draft(<<k2, FALSE>>, <<1>>, <<0>>, Response("x", "x")),
  Draft(<<k1, FALSE>>, <<0>>, <<>>, Response("y", "large")) }

Commits(s, n) == [opens |-> s, index |-> n]
Commitment(s) ==
  Hash(s.src[2], <<Mu(s.src[2], Tr(s.src), Frame(s.ctx, s.msg))>>
                   \o [n \in 1 .. K |-> Commits(s, n - 1)])

Signed(s) ==
  [src |-> s.src, ctx |-> s.ctx, msg |-> s.msg, c |-> Commitment(s), z |-> s.z, hints |-> s.hints]
MCSignatures == {Signed(s) : s \in Drafts}

-----------------------------------------------------------------------------
\* Words of a row that was never written, so that w = 0.
Zeroed == [zeroed |-> TRUE]

\* A row with t1 = 0: the challenge does not matter.
NoT1(row) == row \in {KeyRow(<<weak, turbo>>, n) : turbo \in BOOLEAN, n \in Rows}

\* A row is what a signer committed to if computed from that signer's
\* operands, and otherwise as different from all others as can be.
MCRowOf(row, z, c, h) ==
  IF row = Zeroed THEN [zero |-> h]
  ELSE IF NoT1(row) THEN [row |-> row, z |-> z, h |-> h]
  ELSE LET opened == {x \in Drafts \X Rows :
                        /\ row = KeyRow(x[1].src, x[2]) /\ z = x[1].z /\ h = x[1].hints[x[2]]
                        /\ c = Hash(x[1].src[2], <<Commitment(x[1])>>)}
       IN  IF opened = {} THEN [row |-> row, z |-> z, c |-> c, h |-> h]
           ELSE LET x == CHOOSE x \in opened : TRUE IN Commits(x[1], x[2])

-----------------------------------------------------------------------------
Stored(src) == [kind |-> "prepared", rows |-> KeyRows(src), tr |-> Tr(src)]
Expanded(key) == [kind |-> "raw", bytes |-> key]

\* Damaged storage.  The rows of the first three are still one key's, whole,
\* under a missing or foreign hash; the others' are of no key.
Damaged == LET key == Stored(<<k1, FALSE>>) IN {
  [key EXCEPT !.tr = Noise], [key EXCEPT !.tr = Tr(<<k2, FALSE>>)],
  [key EXCEPT !.rows = KeyRows(<<k2, FALSE>>)], [key EXCEPT !.rows[1] = Zeroed],
  [key EXCEPT !.rows = [n \in Rows |-> key.rows[1 - n]]],
  [key EXCEPT !.rows[0] = KeyRow(<<k1, TRUE>>, 0)] }

\* Keys under which anyone can sign.
Blank == [kind |-> "prepared", rows |-> [n \in Rows |-> Zeroed], tr |-> Tr(<<k1, FALSE>>)]
Weak == {Blank, Expanded(weak), Stored(<<weak, FALSE>>)}

StoredKeys == {Expanded(key) : key \in {k1, k2}} \cup {Stored(src) : src \in MCHonest} \cup Damaged

-----------------------------------------------------------------------------
Changed(e) == {
  [e EXCEPT !.c = Noise],
  [e EXCEPT !.z = Response("large", e.z[1])], [e EXCEPT !.z = Response(e.z[1], e.z[0])],
  [e EXCEPT !.hints = Malformed], [e EXCEPT !.hints = Hints("h1", "h1")],
  [e EXCEPT !.hints = Hints("h0", "h0")] }

Received == UNION {{Encoded(s)} \cup Changed(Encoded(s)) : s \in MCSignatures}

Mus == {MuOf(s) : s \in MCSignatures}

CallsOf(arguments) ==
  {[a EXCEPT !.key = key, !.turbo = turbo, !.sig = sig] :
     a \in arguments, key \in StoredKeys, turbo \in BOOLEAN, sig \in Received}

Asked(entry, ctx, msg, mPrime, m) ==
  [entry |-> entry, ctx |-> ctx, msg |-> msg, mPrime |-> mPrime, mu |-> m,
   key |-> Noise, turbo |-> FALSE, sig |-> Noise]

Questions ==
  {Asked("context", c, m, <<>>, Noise) : c \in Short(2), m \in Short(2)}
  \cup {Asked("internal", <<>>, <<>>, m, Noise) : m \in Short(4)}
  \cup {Asked("mu", <<>>, <<>>, <<>>, m) : m \in Mus}

\* A hash computed from rows that do not depend on it, for whatever is asked.
Computed(c, z) ==
  LET sig == [c |-> Noise, z |-> z, hints |-> Hints("h0", "h1")]
  IN  [sig EXCEPT !.c = Digest(c.turbo, MuAsked(c), RowsHeld(c), sig)]

Forged ==
  {[c EXCEPT !.sig = Computed(c, z)] :
     c \in {[a EXCEPT !.key = key, !.turbo = turbo] :
              a \in Questions, key \in Weak, turbo \in BOOLEAN},
     z \in {Response("x", "y"), Response("large", "y"), Response("y", "large")}}

MCCalls == CallsOf(Questions) \cup Forged
=============================================================================
