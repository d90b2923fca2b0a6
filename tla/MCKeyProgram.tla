---------------------------- MODULE MCKeyProgram ----------------------------
(***************************************************************************)
(* The key program on three accounts: "a" to be allocated, "b" whose owner *)
(* is another program that forged a prepared key in it, and "c" allocated  *)
(* beforehand.  Clients submit registrations, verifications and every kind *)
(* of transaction the program turns down.                                  *)
(***************************************************************************)
EXTENDS KeyProgram, TLC

CONSTANTS a, b, c, k1, k2, m1, m2

MCLedger ==
  (a :> Fresh("system", "none")) @@
  (b :> [owner |-> "other", size |-> "key", header |-> "MLDSA044",
         rows |-> [r \in Rows |-> <<k2, FALSE>>], tr |-> <<k2, FALSE>>]) @@
  (c :> Fresh("program", "key"))

KeyOf(k)          == [kind |-> "key", key |-> k]
Sig(k, turbo, s, m) == [kind |-> "signature", signer |-> <<k, turbo>>,
                        signed |-> s, message |-> m]
Short             == [kind |-> "short"]

Alloc(acc, size)     == [op |-> "allocate", account |-> acc, size |-> size]
Call(acc, tag, load) == [op |-> "invoke", account |-> acc, tag |-> tag, payload |-> load]
Txn(signers, writable, instrs) ==
  [signers |-> signers, writable |-> writable, instrs |-> instrs]

\* Registrations that may succeed, alone, after an allocation or with a
\* verification behind them.
Registrations == {
  Txn({a}, {a}, <<Alloc(a, "key"), Call(a, 0, KeyOf(k1))>>),
  Txn({a}, {a}, <<Alloc(a, "key"), Call(a, 2, KeyOf(k1)), Call(a, 3, Sig(k1, TRUE, m1, m1))>>),
  Txn({a}, {a}, <<Alloc(a, "key")>>),
  Txn({a}, {a}, <<Call(a, 2, KeyOf(k2))>>),
  Txn({c}, {c}, <<Call(c, 0, KeyOf(k2))>>) }

\* Verifications: good, of a changed message, in the wrong mode, against a
\* forged account, of another key.
Verifications == {
  Txn({}, {}, <<Call(a, 1, Sig(k1, FALSE, m1, m1))>>),
  Txn({}, {}, <<Call(a, 3, Sig(k2, TRUE, m1, m1))>>),
  Txn({}, {}, <<Call(a, 1, Sig(k1, FALSE, m1, m2))>>),
  Txn({}, {}, <<Call(a, 3, Sig(k1, FALSE, m1, m1))>>),
  Txn({}, {}, <<Call(b, 1, Sig(k2, FALSE, m1, m1))>>) }

\* Transactions with something wrong in them.
Refused == {
  Txn({}, {a}, <<Call(a, 0, KeyOf(k2))>>),
  Txn({a}, {}, <<Call(a, 0, KeyOf(k1))>>),
  Txn({a}, {a}, <<Alloc(a, "key"), Call(a, 0, Short)>>),
  Txn({a}, {a}, <<Alloc(a, "other"), Call(a, 0, KeyOf(k1))>>),
  Txn({a}, {a}, <<Alloc(a, "key"), Call(a, 0, KeyOf(k1)), Call(a, 2, KeyOf(k2))>>),
  Txn({a}, {a}, <<Call(a, 4, KeyOf(k1))>>),
  Txn({}, {}, <<Call(c, NoTag, Short)>>),
  Txn({}, {}, <<Call(c, 1, KeyOf(k2))>>),
  Txn({}, {}, <<Call(NoAccount, 1, Sig(k1, FALSE, m1, m1))>>) }

MCTransactions == Registrations \cup Verifications \cup Refused

\* Three clients that compete for one account: two registrations of different
\* keys, one nobody authorised, and the verifications that follow them.
Races == {
  Txn({c}, {c}, <<Call(c, 0, KeyOf(k1))>>),
  Txn({c}, {c}, <<Call(c, 2, KeyOf(k2))>>),
  Txn({c}, {c}, <<Call(c, 2, KeyOf(k1)), Call(c, 3, Sig(k1, TRUE, m1, m1))>>),
  Txn({}, {c}, <<Call(c, 0, KeyOf(k2))>>),
  Txn({}, {}, <<Call(c, 1, Sig(k1, FALSE, m1, m1))>>),
  Txn({}, {}, <<Call(c, 3, Sig(k2, TRUE, m2, m2))>>),
  Txn({}, {}, <<Call(c, 1, Sig(k2, FALSE, m2, m2))>>) }

MCDataStart == {0, 2}
SlotSymmetry == Permutations(Slots)
=============================================================================
