----------------------------- MODULE KeyRegistry -----------------------------
(***************************************************************************)
(* What the key program promises to those who build on it, without         *)
(* accounts' bytes, instructions or transactions: an account is bound to a *)
(* key and a hash mode once and for good, and what is accepted for an      *)
(* account was signed with the key and mode it is bound to.                *)
(***************************************************************************)
CONSTANTS
  Accounts,  \* addresses
  Keys,      \* ML-DSA public keys
  Messages,  \* messages that may be signed
  Unbound    \* the binding of an account that holds no key

VARIABLES
  binding,   \* the key and mode (TRUE is TurboSHAKE) of each account
  accepted   \* the claims "key and mode of this account signed this message"

vars == <<binding, accepted>>

Binding == (Keys \X BOOLEAN) \cup {Unbound}
Claim   == [account : Accounts, signer : Keys \X BOOLEAN, message : Messages]

TypeOK ==
  /\ binding \in [Accounts -> Binding]
  /\ accepted \in SUBSET Claim

Init ==
  /\ binding = [a \in Accounts |-> Unbound]
  /\ accepted = {}

\* A batch of registrations and verifications takes effect at once.
Batch ==
  /\ TypeOK'
  /\ \A a \in Accounts : binding[a] # Unbound => binding'[a] = binding[a]
  /\ accepted \subseteq accepted'
  /\ \A c \in accepted' \ accepted : binding'[c.account] = c.signer

Spec == Init /\ [][Batch]_vars
=============================================================================
