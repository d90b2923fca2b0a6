---------------------------- MODULE VerifierProofs ----------------------------
(***************************************************************************)
(* Both chains of the verifier answer what Algorithm 8 computes, and so    *)
(* implement Verification, for every number of rows and columns, every     *)
(* byte and context size and every set of calls.                           *)
(***************************************************************************)
EXTENDS Verifier, SequenceTheorems, TLAPS

\* The first m values of a function on 0 .. n-1, as a sequence.
Prefix(F, m) == [n \in 1 .. m |-> F[n - 1]]

-----------------------------------------------------------------------------
(***************************************************************************)
(* Sequences                                                               *)
(***************************************************************************)

LEMMA PrefixLen ==
  ASSUME NEW F, NEW m \in Nat
  PROVE  Prefix(F, m) \in Seq({F[n - 1] : n \in 1 .. m}) /\ Len(Prefix(F, m)) = m
<1> DEFINE S == {F[n - 1] : n \in 1 .. m}
<1>1. Prefix(F, m) \in [1 .. m -> S]
  BY DEF Prefix
<1>2. Prefix(F, m) \in Seq(S)
  BY <1>1, SeqDef
<1>3. DOMAIN Prefix(F, m) = 1 .. m
  BY DEF Prefix
<1>4. Len(Prefix(F, m)) = m
  BY <1>2, <1>3, LenProperties
<1>. QED  BY <1>2, <1>4

\* Appending the next value to a prefix gives the next prefix.
LEMMA PrefixAppend ==
  ASSUME NEW F, NEW m \in Nat
  PROVE  Append(Prefix(F, m), F[m]) = Prefix(F, m + 1)
<1> DEFINE S == {F[n - 1] : n \in 1 .. m}
<1>1. Prefix(F, m) \in Seq(S) /\ Len(Prefix(F, m)) = m
  BY PrefixLen
<1>2. Append(Prefix(F, m), F[m])
        = [n \in 1 .. m + 1 |-> IF n <= m THEN Prefix(F, m)[n] ELSE F[m]]
  BY <1>1
<1>. QED  BY <1>2 DEF Prefix

\* The length, the head and the tail of a sequence with x put in front.
LEMMA ConsParts ==
  ASSUME NEW T, NEW x, NEW s \in Seq(T)
  PROVE  /\ Len(<<x>> \o s) = Len(s) + 1
         /\ (<<x>> \o s)[1] = x
         /\ \A n \in 1 .. Len(s) : (<<x>> \o s)[n + 1] = s[n]
  OBVIOUS

LEMMA ConsIs ==
  ASSUME NEW T, NEW x \in T, NEW r \in Seq(T), NEW o \in Seq(T),
         Len(o) = Len(r) + 1, o[1] = x, \A n \in 1 .. Len(r) : o[n + 1] = r[n]
  PROVE  <<x>> \o r = o
<1>1. <<x>> \in Seq(T) /\ Len(<<x>>) = 1
  OBVIOUS
<1>2. <<x>> \o r \in Seq(T) /\ Len(<<x>> \o r) = Len(o)
  BY <1>1, ConcatProperties, LenProperties
<1>3. ASSUME NEW n \in 1 .. Len(o) PROVE (<<x>> \o r)[n] = o[n]
  <2>1. CASE n = 1
    BY <2>1, <1>1
  <2>2. CASE n # 1
    <3>1. n - 1 \in 1 .. Len(r) /\ (n - 1) + 1 = n
      BY <2>2, LenProperties
    <3>2. (<<x>> \o r)[n] = r[n - 1]
      BY <3>1, <1>1, <2>2
    <3>. QED  BY <3>1, <3>2
  <2>. QED  BY <2>1, <2>2
<1>. QED  BY <1>2, <1>3, SeqEqual

(***************************************************************************)
(* Framing: two messages under two contexts are framed alike only if they  *)
(* are the same message and context.  A longer context would not do.       *)
(***************************************************************************)
LEMMA SmallMod ==
  ASSUME NEW x \in Nat, NEW b \in Nat, x < b
  PROVE  x % b = x
BY SMTT(30)

\* What a frame holds beyond the context.
LEMMA FrameTail ==
  ASSUME NEW c \in Seq(Bytes), NEW m \in Seq(Bytes), NEW p \in 1 .. Len(m)
  PROVE  Frame(c, m)[p + 2 + Len(c)] = m[p]
<1> DEFINE head == <<0, Len(c) % BYTE>> \o c
<1>1. head \in Seq(Int \cup Bytes) /\ Len(head) = 2 + Len(c)
  <2>1. Len(c) % BYTE \in Int /\ Len(c) \in Nat
    BY SizeAssumption
  <2>. QED  BY <2>1
<1>2. Frame(c, m) = head \o m
  BY DEF Frame
<1>. HIDE DEF head
<1>3. p + 2 + Len(c) = Len(head) + p /\ Len(c) \in Nat
  BY <1>1
<1>4. (head \o m)[Len(head) + p] = m[p]
  BY <1>1
<1>. QED  BY <1>2, <1>3, <1>4, Zenon

LEMMA FrameInjective ==
  ASSUME NEW c \in Seq(Bytes), NEW d \in Seq(Bytes),
         NEW m \in Seq(Bytes), NEW n \in Seq(Bytes),
         Len(c) <= CONTEXT_MAX_LEN, Len(d) <= CONTEXT_MAX_LEN,
         Frame(c, m) = Frame(d, n)
  PROVE  c = d /\ m = n
<1>1. Len(c) % BYTE = Len(c) /\ Len(d) % BYTE = Len(d)
  <2>1. Len(c) \in Nat /\ Len(d) \in Nat /\ BYTE \in Nat
    BY SizeAssumption
  <2>2. Len(c) < BYTE /\ Len(d) < BYTE
    BY <2>1, SizeAssumption
  <2>. QED  BY <2>1, <2>2, SmallMod
<1>2. Len(Frame(c, m)) = 2 + Len(c) + Len(m)
  BY DEF Frame
<1>3. Len(Frame(d, n)) = 2 + Len(d) + Len(n)
  BY DEF Frame
<1>4. Frame(c, m)[2] = Len(c) % BYTE /\ Frame(d, n)[2] = Len(d) % BYTE
  BY DEF Frame
<1>5. Len(c) = Len(d) /\ Len(m) = Len(n)
  <2>1. Len(c) = Len(d)
    BY <1>1, <1>4
  <2>2. 2 + Len(c) + Len(m) = 2 + Len(d) + Len(n)
    BY <1>2, <1>3
  <2>. QED  BY <2>1, <2>2, LenProperties
<1>6. \A p \in 1 .. Len(c) : Frame(c, m)[p + 2] = c[p]
  BY DEF Frame
<1>7. \A p \in 1 .. Len(d) : Frame(d, n)[p + 2] = d[p]
  BY DEF Frame
<1>8. \A p \in 1 .. Len(m) : Frame(c, m)[p + 2 + Len(c)] = m[p]
  BY FrameTail
<1>9. \A p \in 1 .. Len(n) : Frame(d, n)[p + 2 + Len(d)] = n[p]
  BY FrameTail
<1>10. \A p \in 1 .. Len(c) : c[p] = d[p]
  BY <1>5, <1>6, <1>7
<1>11. \A p \in 1 .. Len(m) : m[p] = n[p]
  BY <1>5, <1>8, <1>9
<1>. QED  BY <1>5, <1>10, <1>11, SeqEqual

-----------------------------------------------------------------------------
(***************************************************************************)
(* Hashes                                                                  *)
(***************************************************************************)

\* A hash is given by the mode and what was absorbed, and Noise is no hash.
LEMMA HashInjective ==
  ASSUME NEW t, NEW x, NEW u, NEW y
  PROVE  /\ Hash(t, x) = Hash(u, y) => t = u /\ x = y
         /\ Hash(t, x) # Noise
BY DEF Hash, Noise

\* mu binds the mode, tr and M'.
LEMMA MuInjective ==
  ASSUME NEW t, NEW u, NEW x, NEW y, NEW p \in Seq(Int), NEW q \in Seq(Int),
         Mu(t, x, p) = Mu(u, y, q)
  PROVE  t = u /\ x = y /\ p = q
<1> DEFINE P == <<x>> \o p
           R == <<y>> \o q
<1>1. Hash(t, P) = Hash(u, R)
  BY DEF Mu
<1>2. t = u /\ P = R
  <2>. HIDE DEF P, R
  <2>. QED  BY <1>1, HashInjective
<1>3. <<x>> \o p = <<y>> \o q
  BY <1>2
<1>4. x = y /\ p = q
  <2>1. Len(p) = Len(q)
    BY <1>3, ConsParts
  <2>2. x = y
    BY <1>3, ConsParts
  <2>3. \A n \in 1 .. Len(p) : p[n] = q[n]
    BY <1>3, <2>1, ConsParts
  <2>. QED  BY <2>1, <2>2, <2>3, SeqEqual
<1>. QED  BY <1>2, <1>4

LEMMA BytesAreIntegers ==
  ASSUME NEW s \in Seq(Bytes)
  PROVE  s \in Seq(Int)
<1>1. Bytes \subseteq Int
  BY DEF Bytes
<1>2. \A n \in 1 .. Len(s) : s[n] \in Int
  BY <1>1, ElementOfSeq
<1>. QED  BY <1>2, SeqMonotonic

LEMMA FrameType ==
  ASSUME NEW c \in Seq(Bytes), NEW m \in Seq(Bytes)
  PROVE  Frame(c, m) \in Seq(Int)
<1>1. c \in Seq(Int) /\ m \in Seq(Int)
  BY BytesAreIntegers
<1>2. Len(c) % BYTE \in Int
  BY SizeAssumption
<1>3. <<0, Len(c) % BYTE>> \in Seq(Int)
  BY <1>2
<1>. QED  BY <1>1, <1>3 DEF Frame

\* tr binds the source.
LEMMA TrInjective ==
  ASSUME NEW a, NEW b, a = <<a[1], a[2]>>, b = <<b[1], b[2]>>, Tr(a) = Tr(b)
  PROVE  a = b
BY HashInjective DEF Tr

-----------------------------------------------------------------------------
(***************************************************************************)
(* What is computed for a call                                             *)
(***************************************************************************)
Refused == call.entry = "context" /\ Len(call.ctx) > CONTEXT_MAX_LEN

\* The answer to c, by Algorithm 8.
Algorithm8(c) ==
  IF c.entry = "context" /\ Len(c.ctx) > CONTEXT_MAX_LEN THEN "ContextTooLong"
  ELSE IF Valid(c.turbo, MuAsked(c), RowsHeld(c), c.sig) THEN "Ok" ELSE "InvalidSignature"

ChallengeFor == Hash(call.turbo, <<call.sig.c>>)
RowFor(n) == RowOf(RowsHeld(call)[n], call.sig.z, ChallengeFor, call.sig.hints[n])

\* What the running hash absorbs, position by position.
Transcript == [n \in 0 .. K |-> IF n = 0 THEN MuAsked(call) ELSE RowFor(n - 1)]

\* What has been checked when the rows are reached.
Checked == ~Refused /\ call.sig.hints # Malformed /\ InRange(call.sig.z)

\* A running hash that has absorbed the whole transcript is Algorithm 8's.
LEMMA TranscriptDigest ==
  Hash(call.turbo, Prefix(Transcript, K + 1))
    = Digest(call.turbo, MuAsked(call), RowsHeld(call), call.sig)
<1>0. K \in Nat
  BY SizeAssumption
<1> DEFINE m == MuAsked(call)
           T == {RowFor(n - 1) : n \in 1 .. K} \cup {m}
           r == [n \in 1 .. K |-> RowFor(n - 1)]
           o == Prefix(Transcript, K + 1)
<1>1. r \in Seq(T) /\ Len(r) = K
  <2>1. r \in [1 .. K -> T]
    OBVIOUS
  <2>. QED  BY <2>1, <1>0, SeqDef, LenProperties
<1>2. \A n \in 1 .. K + 1 : o[n] = IF n = 1 THEN m ELSE RowFor(n - 2)
  <2>1. \A n \in 1 .. K + 1 : /\ n - 1 \in 0 .. K /\ (n - 1 = 0 <=> n = 1)
                              /\ (n - 1) - 1 = n - 2
    BY <1>0
  <2>. QED  BY <2>1 DEF Prefix, Transcript
<1>3. \A n \in 1 .. K + 1 : o[n] \in T
  <2>1. \A n \in 1 .. K + 1 : n # 1 => n - 1 \in 1 .. K /\ (n - 1) - 1 = n - 2
    BY <1>0
  <2>. QED  BY <2>1, <1>2
<1>4. o \in Seq(T) /\ Len(o) = K + 1
  <2>1. DOMAIN o = 1 .. K + 1 /\ o = [n \in DOMAIN o |-> o[n]]
    BY DEF Prefix
  <2>2. o \in [1 .. K + 1 -> T]
    BY <1>3, <2>1
  <2>3. K + 1 \in Nat
    BY <1>0
  <2>4. o \in Seq(T)
    BY <2>2, <2>3, SeqDef
  <2>. QED  BY <2>1, <2>3, <2>4, LenProperties
<1>5. o[1] = m /\ \A n \in 1 .. K : o[n + 1] = r[n]
  <2>1. 1 \in 1 .. K + 1 /\ \A n \in 1 .. K : n + 1 \in 1 .. K + 1 /\ (n + 1) - 2 = n - 1
    BY <1>0
  <2>. QED  BY <1>2, <2>1
<1>6. m \in T
  OBVIOUS
<1>7. Digest(call.turbo, m, RowsHeld(call), call.sig) = Hash(call.turbo, <<m>> \o r)
  BY DEF Digest, RowFor, ChallengeFor
<1> HIDE DEF r, o, T, m
<1>8. <<m>> \o r = o
  BY <1>1, <1>4, <1>5, <1>6, ConsIs
<1>9. Hash(call.turbo, o) = Digest(call.turbo, m, RowsHeld(call), call.sig)
  BY <1>7, <1>8, Zenon
<1>. QED  BY <1>9 DEF o, m

\* Why the early returns refuse.
LEMMA RefusedNotValid ==
  ASSUME \/ call.sig.hints = Malformed
         \/ \E j \in Columns : call.sig.z[j] \in Large
  PROVE  ~Valid(call.turbo, MuAsked(call), RowsHeld(call), call.sig)
BY DEF Valid, InRange

-----------------------------------------------------------------------------
(***************************************************************************)
(* The inductive invariant: what has been computed, and checked, by the    *)
(* time each stage is reached, on either chain.                            *)
(***************************************************************************)
Stages == {"enter", "hints", "z", "challenge", "rows", "compare", "done"}

StageInv ==
  /\ call \in Calls /\ pc \in Stages
  /\ pc # "done" => result = "pending"

MuInv ==
  pc \in {"hints", "z", "challenge", "rows", "compare"} => mu = MuAsked(call) /\ ~Refused

ZInv ==
  /\ pc \in {"enter", "hints"} => zhat = Prefix(call.sig.z, 0)
  /\ pc = "z" => \E m \in Columns : /\ zhat = Prefix(call.sig.z, m)
                                  /\ \A j \in 0 .. m - 1 : call.sig.z[j] \notin Large
  /\ pc \in {"z", "challenge", "rows", "compare"} => call.sig.hints # Malformed
  /\ pc \in {"challenge", "rows", "compare"} => zhat = Prefix(call.sig.z, L) /\ Checked

RowsInv ==
  /\ pc \in {"enter", "hints", "z", "challenge"} => i = 0
  /\ pc = "rows" => i \in Rows
  /\ pc = "compare" => i = K
  /\ pc \in {"rows", "compare"} =>
       chat = ChallengeFor /\ sponge = Prefix(Transcript, i + 1)

IInv == StageInv /\ MuInv /\ ZInv /\ RowsInv

LEMMA ShortPrefixes ==
  ASSUME NEW F
  PROVE  Prefix(F, 0) = <<>> /\ Prefix(F, 1) = <<F[0]>>
BY DEF Prefix

LEMMA InitInvariant == Init => IInv
<1> SUFFICES ASSUME Init PROVE IInv
  OBVIOUS
<1>1. zhat = Prefix(call.sig.z, 0)
  BY ShortPrefixes DEF Init
<1>. QED  BY <1>1 DEF Init, IInv, StageInv, Stages, MuInv, ZInv, RowsInv

(***************************************************************************)
(* The defined operators of a call do not change, as a call does not.      *)
(***************************************************************************)
LEMMA CallFrame ==
  ASSUME call' = call
  PROVE  /\ MuAsked(call)' = MuAsked(call) /\ Refused' = Refused /\ Checked' = Checked
         /\ ChallengeFor' = ChallengeFor /\ Transcript' = Transcript
         /\ Algorithm8(call)' = Algorithm8(call)
BY DEF Refused, Checked, ChallengeFor, Transcript, RowFor

-----------------------------------------------------------------------------
(***************************************************************************)
(* The steps, whichever chain takes them                                   *)
(***************************************************************************)
LEMMA EntryStep ==
  ASSUME IInv, pc = "enter", ~Refused, WithMu(MuAsked(call))
  PROVE  IInv' /\ UNCHANGED <<call, result>>
<1>1. /\ mu' = MuAsked(call) /\ pc' = "hints"
      /\ UNCHANGED <<call, zhat, chat, i, sponge, result>>
  BY DEF WithMu
<1>. QED  BY <1>1, CallFrame DEF IInv, StageInv, Stages, MuInv, ZInv, RowsInv

LEMMA CountsStep ==
  ASSUME IInv, Counts, call.sig.hints # Malformed
  PROVE  IInv' /\ UNCHANGED <<call, result>>
<1>1. pc = "hints" /\ pc' = "z" /\ UNCHANGED <<call, mu, zhat, chat, i, sponge, result>>
  BY DEF Counts
<1>2. 0 \in Columns /\ \A j \in 0 .. 0 - 1 : call.sig.z[j] \notin Large
  BY SizeAssumption DEF Columns
<1>3. \E m \in Columns : /\ zhat' = Prefix(call.sig.z, m)
                         /\ \A j \in 0 .. m - 1 : call.sig.z[j] \notin Large
  BY <1>1, <1>2 DEF IInv, ZInv
<1>. QED  BY <1>1, <1>3, CallFrame DEF IInv, StageInv, Stages, MuInv, ZInv, RowsInv

LEMMA ColumnStep ==
  ASSUME IInv, WithColumn(NormRefused(Len(zhat))), ~NormRefused(Len(zhat))
  PROVE  IInv' /\ UNCHANGED <<call, result>>
<1>1. /\ pc = "z" /\ UNCHANGED <<call, mu, chat, i, sponge, result>>
      /\ zhat' = Append(zhat, call.sig.z[Len(zhat)])
      /\ pc' = IF Len(zhat) + 1 = L THEN "challenge" ELSE "z"
  BY DEF WithColumn
<1>2. PICK m \in Columns : /\ zhat = Prefix(call.sig.z, m)
                          /\ \A j \in 0 .. m - 1 : call.sig.z[j] \notin Large
  BY <1>1 DEF IInv, ZInv
<1>3. m \in Nat /\ m < L /\ L \in Nat
  BY SizeAssumption DEF Columns
<1>4. Len(zhat) = m
  BY <1>2, <1>3, PrefixLen
<1>5. zhat' = Prefix(call.sig.z, m + 1)
  BY <1>1, <1>2, <1>3, <1>4, PrefixAppend
<1>6. call.sig.z[m] \notin Large
  BY <1>4 DEF NormRefused
<1>7. \A j \in 0 .. m : call.sig.z[j] \notin Large
  BY <1>2, <1>3, <1>6
<1>8. CASE m + 1 = L
  <2>1. pc' = "challenge" /\ zhat' = Prefix(call.sig.z, L)
    BY <1>1, <1>4, <1>5, <1>8
  <2>2. InRange(call.sig.z)
    BY <1>3, <1>7, <1>8 DEF InRange, Columns
  <2>3. Checked
    BY <1>1, <2>2 DEF Checked, IInv, MuInv, ZInv
  <2>. QED  BY <1>1, <2>1, <2>3, CallFrame DEF IInv, StageInv, Stages, MuInv, ZInv, RowsInv
<1>9. CASE m + 1 # L
  <2>1. pc' = "z" /\ m + 1 \in Columns
    BY <1>1, <1>3, <1>4, <1>9 DEF Columns
  <2>2. \A j \in 0 .. (m + 1) - 1 : call.sig.z[j] \notin Large
    BY <1>3, <1>7
  <2>3. \E q \in Columns : /\ zhat' = Prefix(call.sig.z, q)
                           /\ \A j \in 0 .. q - 1 : call.sig.z[j] \notin Large
    BY <1>5, <2>1, <2>2
  <2>. QED  BY <1>1, <2>1, <2>3, CallFrame DEF IInv, StageInv, Stages, MuInv, ZInv, RowsInv
<1>. QED  BY <1>8, <1>9

LEMMA BeginStep ==
  ASSUME IInv, Begin
  PROVE  IInv' /\ UNCHANGED <<call, result>>
<1>1. /\ pc = "challenge" /\ pc' = "rows" /\ chat' = ChallengeFor /\ sponge' = <<mu>>
      /\ UNCHANGED <<call, mu, zhat, i, result>>
  BY DEF Begin, ChallengeFor
<1>2. i = 0 /\ 0 \in Rows /\ 0 \in 0 .. K /\ i + 1 = 1
  BY <1>1, SizeAssumption DEF IInv, RowsInv, Rows
<1>3. Transcript[0] = mu
  BY <1>1, <1>2 DEF Transcript, IInv, MuInv
<1>4. sponge' = Prefix(Transcript, i + 1)
  BY <1>1, <1>2, <1>3, ShortPrefixes
<1>. QED  BY <1>1, <1>2, <1>4, CallFrame DEF IInv, StageInv, Stages, MuInv, ZInv, RowsInv

LEMMA RowStep ==
  ASSUME IInv, Absorb(RowsHeld(call)[i], call.sig.hints[i])
  PROVE  IInv' /\ UNCHANGED <<call, result>>
<1>1. /\ pc = "rows" /\ i' = i + 1 /\ UNCHANGED <<call, mu, zhat, chat, result>>
      /\ pc' = IF i + 1 = K THEN "compare" ELSE "rows"
      /\ sponge' = Append(sponge, RowOf(RowsHeld(call)[i], [j \in Columns |-> zhat[j + 1]],
                                        chat, call.sig.hints[i]))
  BY DEF Absorb
<1>2. i \in Nat /\ i < K /\ K \in Nat /\ L \in Nat
  BY <1>1, SizeAssumption DEF IInv, RowsInv, Rows
<1>3. [j \in Columns |-> zhat[j + 1]] = call.sig.z
  <2>1. zhat = Prefix(call.sig.z, L)
    BY <1>1 DEF IInv, ZInv
  <2>2. \A j \in Columns : zhat[j + 1] = call.sig.z[j]
    <3>1. \A j \in Columns : j + 1 \in 1 .. L /\ (j + 1) - 1 = j
      BY <1>2 DEF Columns
    <3>. QED  BY <2>1, <3>1 DEF Prefix
  <2>3. call.sig.z = [j \in Columns |-> call.sig.z[j]]
    BY CallsAssumption DEF IInv, StageInv
  <2>. QED  BY <2>2, <2>3
<1>4. chat = ChallengeFor /\ sponge = Prefix(Transcript, i + 1)
  BY <1>1 DEF IInv, RowsInv
<1>5. sponge' = Append(sponge, RowFor(i))
  BY <1>1, <1>3, <1>4 DEF RowFor
<1>6. Transcript[i + 1] = RowFor(i)
  <2>1. i + 1 \in 0 .. K /\ i + 1 # 0 /\ (i + 1) - 1 = i
    BY <1>2
  <2>. QED  BY <2>1 DEF Transcript
<1>7. sponge' = Prefix(Transcript, (i + 1) + 1)
  <2>1. i + 1 \in Nat
    BY <1>2
  <2>. QED  BY <1>4, <1>5, <1>6, <2>1, PrefixAppend
<1>8. \/ pc' = "compare" /\ i' = K
      \/ pc' = "rows" /\ i' \in Rows
  BY <1>1, <1>2 DEF Rows
<1>. QED  BY <1>1, <1>4, <1>7, <1>8, CallFrame DEF IInv, StageInv, Stages, MuInv, ZInv, RowsInv

(***************************************************************************)
(* Each step of either chain is one of these                               *)
(***************************************************************************)
Refuse     == pc = "enter" /\ Refused /\ Return("ContextTooLong")
Admit      == pc = "enter" /\ ~Refused /\ WithMu(MuAsked(call))
TakeColumn == WithColumn(NormRefused(Len(zhat)))
TakeRow    == Absorb(RowsHeld(call)[i], call.sig.hints[i])
Compare    == End(Hash(call.turbo, sponge) = call.sig.c)

CommonStep == Refuse \/ Admit \/ Counts \/ TakeColumn \/ Begin \/ TakeRow \/ Compare

\* What is asked about, by entry point.
LEMMA MuAskedIs ==
  /\ call.entry = "context" => MuAsked(call) = Mu(call.turbo, TrHeld(call), Frame(call.ctx, call.msg))
  /\ call.entry = "internal" => MuAsked(call) = Mu(call.turbo, TrHeld(call), call.mPrime)
  /\ call.entry = "mu" => MuAsked(call) = call.mu
BY DEF MuAsked

LEMMA EntryIsCommon ==
  /\ EnterMessage(Len(call.ctx) > CONTEXT_MAX_LEN, TrHeld(call)) => Refuse \/ Admit
  /\ EnterInternal(TrHeld(call)) => Admit
  /\ EnterMu => Admit
BY MuAskedIs DEF EnterMessage, EnterInternal, EnterMu, Enter, Refuse, Admit, Refused

LEMMA RawIsCommon ==
  ASSUME IInv, RawNext
  PROVE  CommonStep
<1>0. Raw
  BY DEF RawNext, RawVerify, RawVerifyInternal, RawVerifyMu, RawCounts, RawWithColumn,
         RawBegin, RawRow, RawEnd
<1>1. TrHeld(call) = Tr(RawSource) /\ RowsHeld(call) = KeyRows(RawSource)
  BY <1>0 DEF Raw, RawSource, TrHeld, RowsHeld
<1>2. CASE RawVerify \/ RawVerifyInternal \/ RawVerifyMu
  BY <1>1, <1>2, EntryIsCommon
     DEF RawVerify, RawTooLong, RawVerifyInternal, RawVerifyMu, CommonStep
<1>3. CASE RawCounts
  BY <1>3 DEF RawCounts, CommonStep
<1>4. CASE RawWithColumn
  BY <1>4 DEF RawWithColumn, RawRefuses, TakeColumn, CommonStep
<1>5. CASE RawBegin
  BY <1>5 DEF RawBegin, CommonStep
<1>6. CASE RawRow
  <2>1. pc = "rows"
    BY <1>6 DEF RawRow, Absorb
  <2>2. i \in Rows
    BY <2>1 DEF IInv, RowsInv
  <2>3. RowsHeld(call)[i] = RawWords(i)
    BY <1>1, <2>2 DEF KeyRows, RawWords
  <2>. QED  BY <1>6, <2>3 DEF RawRow, TakeRow, CommonStep
<1>7. CASE RawEnd
  BY <1>7 DEF RawEnd, Compare, CommonStep
<1>. QED  BY <1>2, <1>3, <1>4, <1>5, <1>6, <1>7 DEF RawNext

LEMMA PreparedIsCommon ==
  ASSUME IInv, PreparedNext
  PROVE  CommonStep
<1>0. ~Raw
  BY DEF PreparedNext, Verify, VerifyInternal, VerifyMu, PreparedCounts, PreparedWithColumn,
         PreparedBegin, PreparedRow, PreparedEnd
<1>1. TrHeld(call) = call.key.tr /\ RowsHeld(call) = call.key.rows
  BY <1>0 DEF Raw, TrHeld, RowsHeld
<1>2. CASE Verify \/ VerifyInternal \/ VerifyMu
  BY <1>1, <1>2, EntryIsCommon DEF Verify, TooLong, VerifyInternal, VerifyMu, CommonStep
<1>3. CASE PreparedCounts
  BY <1>3 DEF PreparedCounts, CommonStep
<1>4. CASE PreparedWithColumn
  BY <1>4 DEF PreparedWithColumn, Refuses, TakeColumn, CommonStep
<1>5. CASE PreparedBegin
  BY <1>5 DEF PreparedBegin, CommonStep
<1>6. CASE PreparedRow
  BY <1>1, <1>6 DEF PreparedRow, HintRow, TakeRow, CommonStep
<1>7. CASE PreparedEnd
  BY <1>7 DEF PreparedEnd, Compare, CommonStep
<1>. QED  BY <1>2, <1>3, <1>4, <1>5, <1>6, <1>7 DEF PreparedNext

-----------------------------------------------------------------------------
\* The answer is given once, and it is Algorithm 8's.
Decision == result = "pending" /\ result' = Algorithm8(call) /\ UNCHANGED call

LEMMA Answers ==
  ASSUME IInv, pc # "done", NEW answer, Return(answer), answer = Algorithm8(call)
  PROVE  IInv' /\ Decision
<1>1. pc' = "done" /\ UNCHANGED <<call, mu, zhat, chat, i, sponge>> /\ result' = Algorithm8(call)
  BY DEF Return
<1>2. IInv'
  BY <1>1, CallFrame DEF IInv, StageInv, Stages, MuInv, ZInv, RowsInv
<1>. QED  BY <1>1, <1>2 DEF Decision, IInv, StageInv

LEMMA StepDecides ==
  ASSUME IInv, [Next]_vars
  PROVE  IInv' /\ [Decision]_<<call, result>>
<1>1. CASE Refuse
  <2>1. Algorithm8(call) = "ContextTooLong"
    BY <1>1 DEF Refuse, Refused, Algorithm8
  <2>. QED  BY <1>1, <2>1, Answers DEF Refuse
<1>2. CASE Admit
  BY <1>2, EntryStep DEF Admit
<1>3. CASE Counts /\ call.sig.hints = Malformed
  <2>1. Return("InvalidSignature") /\ pc = "hints"
    BY <1>3 DEF Counts
  <2>2. Algorithm8(call) = "InvalidSignature"
    BY <1>3, <2>1, RefusedNotValid DEF IInv, MuInv, Refused, Algorithm8
  <2>. QED  BY <2>1, <2>2, Answers
<1>4. CASE Counts /\ call.sig.hints # Malformed
  BY <1>4, CountsStep
<1>5. CASE TakeColumn /\ NormRefused(Len(zhat))
  <2>1. Return("InvalidSignature") /\ pc = "z"
    BY <1>5 DEF TakeColumn, WithColumn
  <2>2. \E j \in Columns : call.sig.z[j] \in Large
    <3>1. PICK m \in Columns : zhat = Prefix(call.sig.z, m)
      BY <2>1 DEF IInv, ZInv
    <3>2. m \in Nat
      BY SizeAssumption DEF Columns
    <3>3. Len(zhat) = m
      BY <3>1, <3>2, PrefixLen
    <3>. QED  BY <1>5, <3>3 DEF NormRefused
  <2>3. Algorithm8(call) = "InvalidSignature"
    BY <2>1, <2>2, RefusedNotValid DEF IInv, MuInv, Refused, Algorithm8
  <2>. QED  BY <2>1, <2>3, Answers
<1>6. CASE TakeColumn /\ ~NormRefused(Len(zhat))
  BY <1>6, ColumnStep DEF TakeColumn
<1>7. CASE Begin
  BY <1>7, BeginStep
<1>8. CASE TakeRow
  BY <1>8, RowStep DEF TakeRow
<1>9. CASE Compare
  <2>1. pc = "compare" /\ Checked /\ sponge = Prefix(Transcript, K + 1)
    BY <1>9 DEF Compare, End, IInv, ZInv, RowsInv
  <2>2. Hash(call.turbo, sponge) = call.sig.c
          <=> Valid(call.turbo, MuAsked(call), RowsHeld(call), call.sig)
    BY <2>1, TranscriptDigest DEF Valid, Checked
  <2>3. Return(Algorithm8(call))
    BY <1>9, <2>1, <2>2 DEF Compare, End, Checked, Refused, Algorithm8
  <2>. QED  BY <2>1, <2>3, Answers
<1>10. CASE UNCHANGED vars
  <2>1. UNCHANGED <<call, pc, mu, zhat, chat, i, sponge, result>>
    BY <1>10 DEF vars
  <2>. QED  BY <2>1, CallFrame DEF IInv, StageInv, MuInv, ZInv, RowsInv
<1>11. Next => CommonStep
  BY RawIsCommon, PreparedIsCommon DEF Next
<1>. QED  BY <1>1, <1>2, <1>3, <1>4, <1>5, <1>6, <1>7, <1>8, <1>9, <1>10, <1>11 DEF CommonStep

AnsweredInv == result # "pending" => result = Algorithm8(call)

LEMMA Answered == Spec => [](call \in Calls /\ AnsweredInv)
<1>1. Init => call \in Calls /\ AnsweredInv
  BY DEF Init, AnsweredInv
<1>2. Spec => []IInv
  BY InitInvariant, StepDecides, PTL DEF Spec
<1>3. ASSUME IInv, [Next]_vars, call \in Calls, AnsweredInv
      PROVE  (call \in Calls /\ AnsweredInv)'
  <2>1. [Decision]_<<call, result>>
    BY <1>3, StepDecides
  <2>2. CASE Decision
    <3>1. call' = call /\ result' = Algorithm8(call)
      BY <2>2 DEF Decision
    <3>. QED  BY <1>3, <3>1, CallFrame DEF AnsweredInv
  <2>3. CASE UNCHANGED <<call, result>>
    BY <1>3, <2>3, CallFrame DEF AnsweredInv
  <2>. QED  BY <2>1, <2>2, <2>3
<1>. QED  BY <1>1, <1>2, <1>3, PTL DEF Spec

(***************************************************************************)
(* Both chains, at all three entry points, answer what Algorithm 8 of      *)
(* FIPS 204 computes from the rows they hold, whatever those are and       *)
(* whatever the signature is: nothing is assumed of the hash, of the rows  *)
(* or of the signers.                                                      *)
(***************************************************************************)
THEOREM AnswersAlgorithm8 ==
  Spec => [](result # "pending" =>
    result = IF call.entry = "context" /\ Len(call.ctx) > CONTEXT_MAX_LEN THEN "ContextTooLong"
             ELSE IF Valid(call.turbo, MuAsked(call), RowsHeld(call), call.sig) THEN "Ok"
             ELSE "InvalidSignature")
<1>1. AnsweredInv =>
        (result # "pending" =>
          result = IF call.entry = "context" /\ Len(call.ctx) > CONTEXT_MAX_LEN
                   THEN "ContextTooLong"
                   ELSE IF Valid(call.turbo, MuAsked(call), RowsHeld(call), call.sig) THEN "Ok"
                   ELSE "InvalidSignature")
  BY DEF AnsweredInv, Algorithm8
<1>. QED  BY <1>1, Answered, PTL

-----------------------------------------------------------------------------
(***************************************************************************)
(* What Algorithm 8 accepts under the whole rows of an honest key, its     *)
(* holder signed.                                                          *)
(***************************************************************************)

\* Verification's copies of the scheme are the same operators.
LEMMA SameScheme ==
  /\ \A x : V!KeyRows(x) = KeyRows(x)
  /\ \A x : V!Tr(x) = Tr(x)
  /\ \A x, y : V!Frame(x, y) = Frame(x, y)
  /\ \A s : V!Encoded(s) = Encoded(s)
  /\ \A s : V!MuOf(s) = MuOf(s)
  /\ \A z : V!InRange(z) = InRange(z)
BY DEF V!KeyRows, KeyRows, V!KeyRow, KeyRow, V!Rows, Rows, V!Tr, Tr, V!Hash, Hash,
       V!Frame, Frame, V!Mu, Mu, V!Encoded, Encoded, V!MuOf, MuOf, V!InRange, InRange,
       V!Columns, Columns

LEMMA SameCall ==
  /\ V!RowsHeld(call) = RowsHeld(call)
  /\ V!TrHeld(call) = TrHeld(call)
  /\ V!MuAsked(call) = MuAsked(call)
BY SameScheme DEF V!RowsHeld, RowsHeld, V!TrHeld, TrHeld, V!MuAsked, MuAsked, V!Mu, Mu,
                  V!Hash, Hash, V!Frame, Frame

LEMMA SameValid ==
  V!Valid(call.turbo, V!MuAsked(call), V!RowsHeld(call), call.sig)
    <=> Valid(call.turbo, MuAsked(call), RowsHeld(call), call.sig)
BY SameCall, SameScheme DEF V!Valid, Valid, V!Digest, Digest, V!Hash, Hash

\* What s signs is what is asked about exactly when the mu are the same.
LEMMA SignedIsMu ==
  ASSUME call \in Calls, NEW s \in Signatures, ~Refused
  PROVE  V!IsSigned(s) <=> call.turbo = s.src[2] /\ MuAsked(call) = MuOf(s)
<1>1. /\ s.ctx \in Seq(Bytes) /\ s.msg \in Seq(Bytes) /\ Len(s.ctx) <= CONTEXT_MAX_LEN
      /\ Frame(s.ctx, s.msg) \in Seq(Int)
  BY SignaturesAssumption, FrameType
<1>2. CASE call.entry = "context"
  <2>1. /\ call.ctx \in Seq(Bytes) /\ call.msg \in Seq(Bytes)
        /\ Frame(call.ctx, call.msg) \in Seq(Int)
    BY CallsAssumption, FrameType
  <2>2. Len(call.ctx) <= CONTEXT_MAX_LEN
    BY <1>2, <2>1, SizeAssumption, LenProperties DEF Refused
  <2>3. MuAsked(call) = Mu(call.turbo, TrHeld(call), Frame(call.ctx, call.msg))
    BY <1>2, MuAskedIs
  <2>4. V!IsSigned(s) <=> /\ call.turbo = s.src[2] /\ TrHeld(call) = Tr(s.src)
                          /\ call.ctx = s.ctx /\ call.msg = s.msg
    BY <1>2, SameScheme, SameCall DEF V!IsSigned
  <2>5. ASSUME MuAsked(call) = MuOf(s)
        PROVE  TrHeld(call) = Tr(s.src) /\ call.ctx = s.ctx /\ call.msg = s.msg
    <3>1. Mu(call.turbo, TrHeld(call), Frame(call.ctx, call.msg))
            = Mu(s.src[2], Tr(s.src), Frame(s.ctx, s.msg))
      BY <2>3, <2>5 DEF MuOf
    <3>2. TrHeld(call) = Tr(s.src) /\ Frame(call.ctx, call.msg) = Frame(s.ctx, s.msg)
      BY <1>1, <2>1, <3>1, MuInjective
    <3>. QED  BY <1>1, <2>1, <2>2, <3>2, FrameInjective
  <2>. QED  BY <2>3, <2>4, <2>5 DEF MuOf
<1>3. CASE call.entry = "internal"
  <2>1. call.mPrime \in Seq(Int)
    <3>1. call.mPrime \in Seq(Bytes)
      BY CallsAssumption
    <3>. QED  BY <3>1, BytesAreIntegers
  <2>2. MuAsked(call) = Mu(call.turbo, TrHeld(call), call.mPrime)
    BY <1>3, MuAskedIs
  <2>3. V!IsSigned(s) <=> /\ call.turbo = s.src[2] /\ TrHeld(call) = Tr(s.src)
                          /\ call.mPrime = Frame(s.ctx, s.msg)
    BY <1>3, SameScheme, SameCall DEF V!IsSigned
  <2>4. ASSUME MuAsked(call) = MuOf(s)
        PROVE  TrHeld(call) = Tr(s.src) /\ call.mPrime = Frame(s.ctx, s.msg)
    <3>1. Mu(call.turbo, TrHeld(call), call.mPrime)
            = Mu(s.src[2], Tr(s.src), Frame(s.ctx, s.msg))
      BY <2>2, <2>4 DEF MuOf
    <3>. QED  BY <1>1, <2>1, <3>1, MuInjective
  <2>. QED  BY <2>2, <2>3, <2>4 DEF MuOf
<1>4. CASE call.entry = "mu"
  BY <1>4, MuAskedIs, SameScheme DEF V!IsSigned
<1>. QED  BY <1>2, <1>3, <1>4, CallsAssumption

LEMMA IsKeyOfMeans ==
  ASSUME NEW src
  PROVE  V!IsKeyOf(src) <=> RowsHeld(call) = KeyRows(src)
BY SameScheme, SameCall DEF V!IsKeyOf

\* Of the two facts about ML-DSA, correctness gives one direction and
\* unforgeability the other.
LEMMA AcceptsValid ==
  ASSUME call \in Calls, ~Refused
  PROVE  V!Accepts <=> Valid(call.turbo, MuAsked(call), RowsHeld(call), call.sig)
<1>1. CASE ~\E src \in Honest : V!IsKeyOf(src)
  BY <1>1, SameValid DEF V!Accepts
<1>2. CASE \E src \in Honest : V!IsKeyOf(src)
  <2>1. V!Accepts <=> \E s \in Signatures : /\ call.sig = Encoded(s) /\ InRange(s.z)
                                            /\ V!IsKeyOf(s.src) /\ V!IsSigned(s)
    BY <1>2, SameScheme DEF V!Accepts
  <2>2. ASSUME NEW s \in Signatures, call.sig = Encoded(s), InRange(s.z),
               V!IsKeyOf(s.src), V!IsSigned(s)
        PROVE  Valid(call.turbo, MuAsked(call), RowsHeld(call), call.sig)
    <3>1. call.turbo = s.src[2] /\ MuAsked(call) = MuOf(s)
      BY <2>2, SignedIsMu
    <3>2. RowsHeld(call) = KeyRows(s.src)
      BY <2>2, IsKeyOfMeans
    <3>3. Valid(s.src[2], MuOf(s), KeyRows(s.src), Encoded(s))
      BY <2>2, CorrectAssumption
    <3>. QED  BY <2>2, <3>1, <3>2, <3>3
  <2>3. ASSUME Valid(call.turbo, MuAsked(call), RowsHeld(call), call.sig)
        PROVE  \E s \in Signatures : /\ call.sig = Encoded(s) /\ InRange(s.z)
                                     /\ V!IsKeyOf(s.src) /\ V!IsSigned(s)
    <3>1. PICK src \in Honest : RowsHeld(call) = KeyRows(src)
      BY <1>2, IsKeyOfMeans
    <3>2. PICK s \in Signatures : /\ s.src = src /\ call.turbo = src[2]
                                  /\ MuAsked(call) = MuOf(s) /\ call.sig = Encoded(s)
      BY <2>3, <3>1, UnforgeableAssumption
    <3>3. InRange(s.z)
      BY <2>3, <3>2 DEF Valid, Encoded
    <3>4. V!IsKeyOf(s.src) /\ V!IsSigned(s)
      BY <3>1, <3>2, IsKeyOfMeans, SignedIsMu
    <3>. QED  BY <3>2, <3>3, <3>4
  <2>. QED  BY <2>1, <2>2, <2>3
<1>. QED  BY <1>1, <1>2

LEMMA Algorithm8Verdict ==
  ASSUME call \in Calls
  PROVE  V!Verdict = Algorithm8(call)
BY AcceptsValid DEF V!Verdict, V!TooLong, Algorithm8, Refused

(***************************************************************************)
(* Both chains implement Verification: under the whole rows of an honestly *)
(* generated key what is accepted is what its holder signed, if such keys  *)
(* are correct and unforgeable; under any other rows there is no promise   *)
(* beyond Algorithm 8.                                                     *)
(***************************************************************************)
THEOREM Refinement == Spec => ImplementsVerification
<1>1. Init => V!Init
  BY DEF Init, V!Init
<1>2. Spec => []IInv
  BY InitInvariant, StepDecides, PTL DEF Spec
<1>3. ASSUME IInv, [Next]_vars
      PROVE  [V!Decide]_<<call, result>>
  <2>1. [Decision]_<<call, result>>
    BY <1>3, StepDecides
  <2>2. V!Verdict = Algorithm8(call)
    BY <1>3, Algorithm8Verdict DEF IInv, StageInv
  <2>. QED  BY <2>1, <2>2 DEF Decision, V!Decide
<1>. QED  BY <1>1, <1>2, <1>3, PTL DEF Spec, ImplementsVerification, V!Spec

-----------------------------------------------------------------------------
(***************************************************************************)
(* What the answers mean to a caller that holds a key, on either path, and *)
(* to the on-chain program.                                                *)
(***************************************************************************)

\* The call holds, whole, the key src, expanded or prepared from it with the
\* TURBO of its type.
Carries(src) ==
  /\ src[2] = call.turbo
  /\ \/ call.key.kind = "raw" /\ call.key.bytes = src[1]
     \/ call.key.kind = "prepared" /\ call.key.rows = KeyRows(src) /\ call.key.tr = Tr(src)

\* The same question, asked of the public key.
AskedOf(src) ==
  [key |-> [kind |-> "raw", bytes |-> src[1]], turbo |-> src[2], entry |-> call.entry,
   ctx |-> call.ctx, msg |-> call.msg, mPrime |-> call.mPrime, mu |-> call.mu, sig |-> call.sig]

(***************************************************************************)
(* The two chains agree: verification with what prepare_into made of a     *)
(* public key gives every signature, honest or not, the answer and the     *)
(* error that verification from the public key itself gives it, for every  *)
(* key, honest or not.                                                     *)
(***************************************************************************)
THEOREM PathsAgree ==
  ASSUME NEW CONSTANT src, src = <<src[1], src[2]>>
  PROVE  Spec => [](Carries(src) /\ result # "pending" => result = Algorithm8(AskedOf(src)))
<1>1. ASSUME call \in Calls, AnsweredInv, Carries(src), result # "pending"
      PROVE  result = Algorithm8(AskedOf(src))
  <2> DEFINE q == AskedOf(src)
  <2>1. /\ q.turbo = call.turbo /\ q.entry = call.entry /\ q.sig = call.sig
        /\ q.ctx = call.ctx /\ q.msg = call.msg /\ q.mPrime = call.mPrime /\ q.mu = call.mu
        /\ q.key.kind = "raw" /\ q.key.bytes = src[1] /\ q.turbo = src[2]
    BY <1>1 DEF AskedOf, Carries
  <2>. HIDE DEF q
  <2>2. RowsHeld(q) = KeyRows(src) /\ TrHeld(q) = Tr(src)
    BY <2>1 DEF RowsHeld, TrHeld
  <2>3. RowsHeld(call) = KeyRows(src) /\ TrHeld(call) = Tr(src)
    BY <1>1 DEF Carries, RowsHeld, TrHeld
  <2>4. MuAsked(q) = MuAsked(call)
    BY <2>1, <2>2, <2>3 DEF MuAsked
  <2>5. Algorithm8(q) = Algorithm8(call)
    BY <2>1, <2>2, <2>3, <2>4 DEF Algorithm8
  <2>. QED  BY <1>1, <2>5 DEF AnsweredInv, q
<1>. QED  BY <1>1, Answered, PTL

\* The caller asks about s, whose z the signer did reject when it is large.
Asks(s) == call.entry = "context" /\ call.sig = Encoded(s) /\ InRange(s.z)

\* The hash a digest begins with binds the mu it was computed for.
LEMMA DigestInjective ==
  ASSUME NEW t, NEW u, NEW m, NEW n, NEW a, NEW b, NEW x, NEW y,
         Digest(t, m, a, x) = Digest(u, n, b, y)
  PROVE  m = n
<1>0. K \in Nat
  BY SizeAssumption
<1> DEFINE F == [p \in 1 .. K |-> RowOf(a[p - 1], x.z, Hash(t, <<x.c>>), x.hints[p - 1])]
           G == [p \in 1 .. K |-> RowOf(b[p - 1], y.z, Hash(u, <<y.c>>), y.hints[p - 1])]
           T == {F[p] : p \in 1 .. K} \cup {G[p] : p \in 1 .. K}
<1>1. F \in Seq(T) /\ G \in Seq(T)
  <2>1. F \in [1 .. K -> T] /\ G \in [1 .. K -> T]
    OBVIOUS
  <2>. HIDE DEF F, G, T
  <2>. QED  BY <1>0, <2>1, SeqDef
<1>2. Digest(t, m, a, x) = Hash(t, <<m>> \o F) /\ Digest(u, n, b, y) = Hash(u, <<n>> \o G)
  BY DEF Digest
<1>. HIDE DEF F, G, T
<1>3. Hash(t, <<m>> \o F) = Hash(u, <<n>> \o G)
  BY <1>2, Zenon
<1>4. <<m>> \o F = <<n>> \o G
  <2> DEFINE P == <<m>> \o F
             R == <<n>> \o G
  <2>1. Hash(t, P) = Hash(u, R)
    BY <1>3
  <2>. HIDE DEF P, R
  <2>2. P = R
    BY <2>1, HashInjective
  <2>. QED  BY <2>2 DEF P, R
<1>5. (<<m>> \o F)[1] = m /\ (<<n>> \o G)[1] = n
  BY <1>1, ConsParts
<1>. QED  BY <1>4, <1>5

\* Two signers never encode the same signature.
LEMMA SameSignature ==
  ASSUME NEW s \in Signatures, NEW r \in Signatures, Encoded(s) = Encoded(r), InRange(s.z)
  PROVE  s.src = r.src /\ s.ctx = r.ctx /\ s.msg = r.msg
<1>1. s.z = r.z /\ s.c = r.c /\ Encoded(s).c = s.c /\ Encoded(r).c = r.c
  BY DEF Encoded
<1>2. Digest(s.src[2], MuOf(s), KeyRows(s.src), Encoded(s)) = s.c
  BY <1>1, CorrectAssumption DEF Valid
<1>3. Digest(r.src[2], MuOf(r), KeyRows(r.src), Encoded(r)) = r.c
  BY <1>1, CorrectAssumption DEF Valid
<1>4. MuOf(s) = MuOf(r)
  <2>1. Digest(s.src[2], MuOf(s), KeyRows(s.src), Encoded(s))
          = Digest(r.src[2], MuOf(r), KeyRows(r.src), Encoded(r))
    BY <1>1, <1>2, <1>3, Zenon
  <2>. QED  BY <2>1, DigestInjective
<1>5. /\ s.ctx \in Seq(Bytes) /\ s.msg \in Seq(Bytes) /\ Len(s.ctx) <= CONTEXT_MAX_LEN
      /\ r.ctx \in Seq(Bytes) /\ r.msg \in Seq(Bytes) /\ Len(r.ctx) <= CONTEXT_MAX_LEN
      /\ s.src = <<s.src[1], s.src[2]>> /\ r.src = <<r.src[1], r.src[2]>>
  BY SignaturesAssumption
<1>6. Frame(s.ctx, s.msg) \in Seq(Int) /\ Frame(r.ctx, r.msg) \in Seq(Int)
  BY <1>5, FrameType
<1>7. Tr(s.src) = Tr(r.src) /\ Frame(s.ctx, s.msg) = Frame(r.ctx, r.msg)
  BY <1>4, <1>6, MuInjective DEF MuOf
<1>. QED  BY <1>5, <1>7, TrInjective, FrameInjective

\* An honest signature, under an honest key, is accepted as its own only.
LEMMA AcceptsOwn ==
  ASSUME call \in Calls, NEW s \in Signatures, Asks(s),
         NEW src \in Honest, RowsHeld(call) = KeyRows(src)
  PROVE  V!Accepts <=> V!IsKeyOf(s.src) /\ V!IsSigned(s)
<1>1. V!Accepts <=> \E r \in Signatures : /\ call.sig = Encoded(r) /\ InRange(r.z)
                                          /\ V!IsKeyOf(r.src) /\ V!IsSigned(r)
  BY IsKeyOfMeans, SameScheme DEF V!Accepts
<1>2. ASSUME NEW r \in Signatures, call.sig = Encoded(r), V!IsKeyOf(r.src), V!IsSigned(r)
      PROVE  V!IsKeyOf(s.src) /\ V!IsSigned(s)
  <2>1. s.src = r.src /\ s.ctx = r.ctx /\ s.msg = r.msg
    BY <1>2, SameSignature DEF Asks
  <2>. QED  BY <1>2, <2>1, SameScheme DEF Asks, V!IsSigned
<1>. QED  BY <1>1, <1>2 DEF Asks

\* What the program calls the library with: the prepared key of an account.
\* A hash that is no source's, as zeroed bytes are, is no key's.
Presents(acc, sources) ==
  /\ call.key.kind = "prepared"
  /\ call.key.tr = IF acc.tr \in sources THEN Tr(acc.tr) ELSE Noise
  /\ \A n \in Rows : call.key.rows[n] = KeyRow(acc.rows[n], n)

Program == INSTANCE KeyVerdict

(***************************************************************************)
(* The verdict KeyProgram takes on an account is the verifier's: on the    *)
(* whole rows of an honest key, the only ones the program ever verifies    *)
(* with (VerdictOnOwnMode), and any hash, verify_with_context answers Ok   *)
(* exactly for a genuine signature under the caller's context.             *)
(***************************************************************************)
THEOREM ProgramVerdict ==
  ASSUME NEW CONSTANT sources, \A x \in sources : x = <<x[1], x[2]>>, Honest \subseteq sources,
         NEW CONSTANT src \in Honest,
         NEW CONSTANT acc, \A n \in Rows : acc.rows[n] = src,
         NEW CONSTANT s \in Signatures
  PROVE  Spec => [](Presents(acc, sources) /\ Asks(s) /\ result # "pending" =>
                      (result = "Ok" <=>
                         /\ call.ctx = s.ctx
                         /\ Program!Genuine(acc, call.turbo,
                              [signer |-> s.src, signed |-> s.msg, message |-> call.msg])))
<1> DEFINE p == [signer |-> s.src, signed |-> s.msg, message |-> call.msg]
<1>1. ASSUME call \in Calls, AnsweredInv, Presents(acc, sources), Asks(s), result # "pending"
      PROVE  result = "Ok" <=> call.ctx = s.ctx /\ Program!Genuine(acc, call.turbo, p)
  <2>1. result = "Ok" <=> ~Refused /\ V!Accepts
    <3>1. result = V!Verdict
      BY <1>1, Algorithm8Verdict DEF AnsweredInv
    <3>. QED  BY <3>1 DEF V!Verdict, V!TooLong, Refused
  <2>2. RowsHeld(call) = KeyRows(src) /\ TrHeld(call) = call.key.tr
    <3>1. call.key.rows = [n \in Rows |-> call.key.rows[n]]
      BY <1>1, CallsAssumption DEF Presents
    <3>2. \A n \in Rows : call.key.rows[n] = KeyRow(src, n)
      BY <1>1 DEF Presents
    <3>. QED  BY <1>1, <3>1, <3>2 DEF Presents, RowsHeld, TrHeld, KeyRows
  <2>3. V!Accepts <=> V!IsKeyOf(s.src) /\ V!IsSigned(s)
    BY <1>1, <2>2, AcceptsOwn
  <2>4. V!IsKeyOf(s.src) <=> s.src = src
    <3>1. 0 \in Rows
      BY SizeAssumption DEF Rows
    <3>2. ASSUME KeyRows(src) = KeyRows(s.src) PROVE s.src = src
      <4>1. KeyRow(src, 0) = KeyRow(s.src, 0)
        BY <3>1, <3>2 DEF KeyRows
      <4>. QED  BY <4>1 DEF KeyRow
    <3>. QED  BY <2>2, <3>2, IsKeyOfMeans
  <2>5. TrHeld(call) = Tr(s.src) <=> acc.tr = s.src
    <3>1. s.src \in sources
      BY SignaturesAssumption
    <3>2. Noise # Tr(s.src)
      BY HashInjective DEF Tr
    <3>3. acc.tr \in sources /\ Tr(acc.tr) = Tr(s.src) => acc.tr = s.src
      BY <3>1, TrInjective
    <3>4. TrHeld(call) = IF acc.tr \in sources THEN Tr(acc.tr) ELSE Noise
      BY <1>1, <2>2 DEF Presents
    <3>. QED  BY <3>1, <3>2, <3>3, <3>4
  <2>6. V!IsSigned(s) <=> /\ call.turbo = s.src[2] /\ TrHeld(call) = Tr(s.src)
                          /\ call.ctx = s.ctx /\ call.msg = s.msg
    BY <1>1, SameScheme, SameCall DEF V!IsSigned, Asks
  <2>7. call.ctx = s.ctx => ~Refused
    <3>1. s.ctx \in Seq(Bytes) /\ Len(s.ctx) <= CONTEXT_MAX_LEN
      BY SignaturesAssumption
    <3>. QED  BY <3>1, SizeAssumption DEF Refused
  <2>8. Program!Genuine(acc, call.turbo, p) <=>
          /\ s.msg = call.msg /\ s.src[2] = call.turbo
          /\ acc.tr = s.src /\ src = s.src
    <3>1. \E n \in Rows : TRUE
      BY SizeAssumption DEF Rows
    <3>. QED  BY <3>1 DEF Program!Genuine
  <2>. QED  BY <2>1, <2>3, <2>4, <2>5, <2>6, <2>7, <2>8
<1>. QED  BY <1>1, Answered, PTL
=============================================================================
