------------------------------- MODULE Verifier -------------------------------
(***************************************************************************)
(* One verification of src/ml_dsa_44.rs, on either path: from a public key *)
(* ("raw"), which expands its rows as it goes, or from a prepared key.     *)
(* The code writes the chain of frames out twice, and so do the actions:   *)
(* each chain has its own entry points, checks, rows and comparison.       *)
(* What the frames of both call is shared, as in the code; what a row      *)
(* computes is RowPipeline's and Rounding's subject.                       *)
(***************************************************************************)
EXTENDS Scheme

VARIABLES
  call,    \* the arguments
  pc,      \* "enter", "hints", "z", "challenge", "rows", "compare", "done"
  mu,      \* the message representative
  zhat,    \* the transforms taken so far
  chat,    \* the challenge
  i,       \* the row in progress
  sponge,  \* what the running hash has absorbed
  result   \* "pending", then Ok or the error

vars == <<call, pc, mu, zhat, chat, i, sponge, result>>

Init ==
  /\ call \in Calls
  /\ pc = "enter" /\ mu = Noise /\ zhat = <<>> /\ chat = Noise
  /\ i = 0 /\ sponge = <<>> /\ result = "pending"

Raw == call.key.kind = "raw"

-----------------------------------------------------------------------------
(***************************************************************************)
(* Steps the frames of both chains are made of                             *)
(***************************************************************************)
Return(answer) ==
  /\ result' = answer /\ pc' = "done"
  /\ UNCHANGED <<call, mu, zhat, chat, i, sponge>>

\* The squeezed mu, and on to verify_mu or verify_mu_with_key.
WithMu(m) ==
  /\ mu' = m /\ pc' = "hints"
  /\ UNCHANGED <<call, zhat, chat, i, sponge, result>>

Enter(entry) == pc = "enter" /\ call.entry = entry

\* A message under its context, hashed with tr unless the context is refused.
EnterMessage(refused, tr) ==
  /\ Enter("context")
  /\ \/ refused /\ Return("ContextTooLong")
     \/ ~refused /\ WithMu(Mu(call.turbo, tr, Frame(call.ctx, call.msg)))

EnterInternal(tr) ==
  /\ Enter("internal")
  /\ WithMu(Mu(call.turbo, tr, call.mPrime))

EnterMu ==
  /\ Enter("mu")
  /\ WithMu(call.mu)

\* hint_counts, and ok_or(InvalidSignature)?
Counts ==
  /\ pc = "hints"
  /\ \/ call.sig.hints = Malformed /\ Return("InvalidSignature")
     \/ /\ call.sig.hints # Malformed
        /\ pc' = "z"
        /\ UNCHANGED <<call, mu, zhat, chat, i, sponge, result>>

\* z_hat refuses polynomial j for its norm.
NormRefused(j) == call.sig.z[j] \in Large

\* The frame of one polynomial: z_hat, and the next frame unless refused.
WithColumn(refused) ==
  /\ pc = "z"
  /\ \/ refused /\ Return("InvalidSignature")
     \/ /\ ~refused
        /\ zhat' = Append(zhat, call.sig.z[Len(zhat)])
        /\ pc' = IF Len(zhat) + 1 = L THEN "challenge" ELSE "z"
        /\ UNCHANGED <<call, mu, chat, i, sponge, result>>

\* The challenge, and a hash that has absorbed mu.
Begin ==
  /\ pc = "challenge"
  /\ chat' = Hash(call.turbo, <<call.sig.c>>)
  /\ sponge' = <<mu>>
  /\ pc' = "rows"
  /\ UNCHANGED <<call, mu, zhat, i, result>>

Absorb(words, hints) ==
  /\ pc = "rows"
  /\ sponge' = Append(sponge, RowOf(words, [j \in Columns |-> zhat[j + 1]], chat, hints))
  /\ i' = i + 1
  /\ pc' = IF i + 1 = K THEN "compare" ELSE "rows"
  /\ UNCHANGED <<call, mu, zhat, chat, result>>

End(same) ==
  /\ pc = "compare"
  /\ Return(IF same THEN "Ok" ELSE "InvalidSignature")

-----------------------------------------------------------------------------
(***************************************************************************)
(* The chain of a public key: verify_with_key, VerifyingKey's              *)
(* verify_internal and verify_mu, verify_mu_with_key, raw_with_z1, ...     *)
(***************************************************************************)
RawSource == <<call.key.bytes, call.turbo>>

\* Mutant: a context of the greatest length is refused too.
RawTooLongEarly == Len(call.ctx) >= CONTEXT_MAX_LEN

RawTooLong == Len(call.ctx) > CONTEXT_MAX_LEN

RawVerify         == Raw /\ EnterMessage(RawTooLong, Tr(RawSource))
RawVerifyInternal == Raw /\ EnterInternal(Tr(RawSource))
RawVerifyMu       == Raw /\ EnterMu

RawCounts == Raw /\ Counts

\* Mutant: the frame of polynomial 1 goes on whatever z_hat returns.
RawRefusesButOne(j) == j # 1 /\ NormRefused(j)

\* The ? after z_hat, in verify_mu_with_key and raw_with_z1, ..., raw_with_z3.
RawRefuses(j) == NormRefused(j)
RawWithColumn == Raw /\ WithColumn(RawRefuses(Len(zhat)))

\* Mutant: the rows are expanded with the nonces and t1 of row 0.
RawWordsFirst(n) == KeyRow(RawSource, 0)

\* The nonces, and the slice of t1, of row n
RawWords(n) == KeyRow(RawSource, n)

RawBegin == Raw /\ Begin
RawRow   == Raw /\ Absorb(RawWords(i), call.sig.hints[i])
RawEnd   == Raw /\ End(Hash(call.turbo, sponge) = call.sig.c)

-----------------------------------------------------------------------------
(***************************************************************************)
(* The chain of a prepared key: Signature's verify, verify_internal and    *)
(* verify_mu, with_z1, ..., rows, row                                      *)
(***************************************************************************)

\* Mutant: any context is framed.
TooLongNever == FALSE

TooLong == Len(call.ctx) > CONTEXT_MAX_LEN

Verify         == ~Raw /\ EnterMessage(TooLong, call.key.tr)
VerifyInternal == ~Raw /\ EnterInternal(call.key.tr)
VerifyMu       == ~Raw /\ EnterMu

PreparedCounts == ~Raw /\ Counts

\* Mutant: the frame of polynomial 0 goes on whatever z_hat returns.
RefusesButFirst(j) == j # 0 /\ NormRefused(j)

\* The ? after z_hat, in verify_mu and with_z1, ..., with_z3.
Refuses(j) == NormRefused(j)
PreparedWithColumn == ~Raw /\ WithColumn(Refuses(Len(zhat)))

\* Mutant: the bitmap of row 0 serves every row.
HintRowFirst(n) == call.sig.hints[0]

\* hint_bitmap(self.hints(), counts, n)
HintRow(n) == call.sig.hints[n]

PreparedBegin == ~Raw /\ Begin
PreparedRow   == ~Raw /\ Absorb(call.key.rows[i], HintRow(i))
PreparedEnd   == ~Raw /\ End(Hash(call.turbo, sponge) = call.sig.c)

-----------------------------------------------------------------------------
RawNext ==
  \/ RawVerify \/ RawVerifyInternal \/ RawVerifyMu \/ RawCounts
  \/ RawWithColumn \/ RawBegin \/ RawRow \/ RawEnd

PreparedNext ==
  \/ Verify \/ VerifyInternal \/ VerifyMu \/ PreparedCounts
  \/ PreparedWithColumn \/ PreparedBegin \/ PreparedRow \/ PreparedEnd

Next == RawNext \/ PreparedNext

Spec == Init /\ [][Next]_vars

-----------------------------------------------------------------------------
(***************************************************************************)
(* Every answer is that of Verification, on both chains and at all three   *)
(* entry points.  With the rows of an honest key, whole, a signature is    *)
(* accepted if and only if the holder made it with this key, in this mode, *)
(* on this context and message, with responses all in range.  With any     *)
(* other rows in storage it is accepted if and only if Algorithm 8 accepts *)
(* it under them, which promises nothing about who made it.  The error is  *)
(* ContextTooLong exactly for a long context.                              *)
(***************************************************************************)
V == INSTANCE Verification WITH verdict <- result

ImplementsVerification == V!Spec
=============================================================================
