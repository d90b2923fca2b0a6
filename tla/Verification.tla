----------------------------- MODULE Verification -----------------------------
(***************************************************************************)
(* What verification promises, in one step.  With an honest key, whole,    *)
(* and without hashes: a signature is accepted for what its signer signed  *)
(* with this key in this mode, and for nothing else.  With any other rows: *)
(* what Algorithm 8 computes from them, which is no promise about who      *)
(* signed ("the caller must ensure these bytes came from prepare_into").   *)
(***************************************************************************)
EXTENDS Scheme

VARIABLES
  call,     \* key, entry point, what is to be verified, signature
  verdict   \* "pending", then the answer

\* The key of the call is the whole key of src.
IsKeyOf(src) == RowsHeld(call) = KeyRows(src)

\* What s signs, in its mode, is what the caller asks about.
IsSigned(s) ==
  /\ call.turbo = s.src[2]
  /\ \/ call.entry = "context" /\ TrHeld(call) = Tr(s.src) /\ call.ctx = s.ctx /\ call.msg = s.msg
     \/ call.entry = "internal" /\ TrHeld(call) = Tr(s.src) /\ call.mPrime = Frame(s.ctx, s.msg)
     \/ call.entry = "mu" /\ call.mu = MuOf(s)

Accepts ==
  IF \E src \in Honest : IsKeyOf(src)
  THEN \E s \in Signatures :
         call.sig = Encoded(s) /\ InRange(s.z) /\ IsKeyOf(s.src) /\ IsSigned(s)
  ELSE Valid(call.turbo, MuAsked(call), RowsHeld(call), call.sig)

TooLong == call.entry = "context" /\ Len(call.ctx) > CONTEXT_MAX_LEN

Verdict == IF TooLong THEN "ContextTooLong" ELSE IF Accepts THEN "Ok" ELSE "InvalidSignature"

Init == verdict = "pending"
Decide == verdict = "pending" /\ verdict' = Verdict /\ UNCHANGED call
Spec == Init /\ [][Decide]_<<call, verdict>>
=============================================================================
