------------------------------- MODULE Operands -------------------------------
(***************************************************************************)
(* How a verification without a prepared key comes by the polynomials of a *)
(* row: verify_mu_with_key of src/ml_dsa_44.rs and what it calls.  The     *)
(* response is unpacked and its norm checked, the challenge drawn, an      *)
(* entry of the matrix sampled and t1 unpacked, each in a frame and a      *)
(* polynomial of its own, in that order, by the routines of src/poly.rs.   *)
(* One response, one entry and one t1 stand for all.                       *)
(***************************************************************************)
EXTENDS Uniform, Challenge, Unpacking

CONSTANT Calls   \* keys and signatures to verify: one input of each routine

ASSUME CallsAssumption ==
  Calls \subseteq [z : Z, commitment : Commitments, seed : Seeds, t1 : T1]

VARIABLE stage   \* "z", "challenge", "matrix", "t1", "done" or "refused"

vars == <<stage, unpackingVars, challengeVars, uniformVars>>

Init ==
  /\ stage = "z"
  /\ \E call \in Calls :
       /\ zin = call.z /\ tin = call.t1
       /\ commitment = call.commitment /\ seed = call.seed
  /\ UnpackingInit /\ ChallengeInit /\ UniformInit

\* Mutant: the verdict is not looked at.
TakeZUnchecked ==
  /\ stage = "z"
  /\ UnpackZ
  /\ stage' = IF More(zi)' THEN "z" ELSE "challenge"
  /\ UNCHANGED <<challengeVars, uniformVars>>

\* z_hat: z_unpack, then the verdict on the norm
TakeZ ==
  /\ stage = "z"
  /\ UnpackZ
  /\ stage' = IF More(zi)' THEN "z" ELSE IF bad' THEN "refused" ELSE "challenge"
  /\ UNCHANGED <<challengeVars, uniformVars>>

\* raw_rows: c_hat.challenge
DrawChallenge ==
  /\ stage = "challenge"
  /\ ChallengeNext
  /\ stage' = IF cpc' = "done" THEN "matrix" ELSE stage
  /\ UNCHANGED <<unpackingVars, uniformVars>>

\* matrix_term: a.uniform
DrawEntry ==
  /\ stage = "matrix"
  /\ UniformNext
  /\ stage' = IF apc' = "done" THEN "t1" ELSE stage
  /\ UNCHANGED <<unpackingVars, challengeVars>>

\* t1_term: t.t1_unpack_shifted
TakeT1 ==
  /\ stage = "t1"
  /\ UnpackT1
  /\ stage' = IF More(ti)' THEN "t1" ELSE "done"
  /\ UNCHANGED <<challengeVars, uniformVars>>

Next == TakeZ \/ DrawChallenge \/ DrawEntry \/ TakeT1

\* A verification is not preempted for good.  Only the sampling of an entry
\* needs to be told so: it is the one whose end is checked.
Spec == Init /\ [][Next]_vars /\ WF_vars(DrawEntry)

-----------------------------------------------------------------------------
(***************************************************************************)
(* Properties, next to those of the routines                               *)
(***************************************************************************)

\* When a row is computed, every polynomial it is computed from is complete
\* and none was touched by the routines that ran after the one that wrote it:
\* a response all of whose coefficients passed the norm check, a challenge of
\* TAU signs, an entry below Q and the key's t1 (src/ml_dsa_44.rs:678).
OperandsReady ==
  stage = "done" =>
    /\ \A n \in Coefs : z[n] = DecodedZ[n] /\ ~norm_at_least(z[n])
    /\ Cardinality({n \in Coefs : challenge[n] \in {-1, 1}}) = TAU
    /\ \A n \in Coefs : entry[n] \in 0 .. Q-1
    /\ t1 = DecodedT1

\* With a hash that goes on offering candidates, as those drawn here do,
\* uniform returns: it never tries the same block again, though its loop has
\* no bound (src/poly.rs:63).
EveryCallReturns == stage = "matrix" ~> stage = "t1"
=============================================================================
