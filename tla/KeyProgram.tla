----------------------------- MODULE KeyProgram -----------------------------
(***************************************************************************)
(* The on-chain program of program/src/lib.rs, step by step, on the part   *)
(* of the Solana runtime it relies on.                                     *)
(*                                                                         *)
(* A transaction locks its accounts, runs its instructions in order on a   *)
(* private copy of them, and either commits the copy or leaves no trace.   *)
(* An instruction is the System Program's create_account or an invocation  *)
(* of process_instruction, which runs create (tags 0 and 2) or verify      *)
(* (tags 1 and 3).  The runtime may stop a transaction between any two     *)
(* steps because its compute budget is spent.                              *)
(*                                                                         *)
(* TURBO is a Boolean, as in the code.  A prepared row, or the hash tr, is *)
(* the pair of the key and the TURBO choice it was computed from.          *)
(***************************************************************************)
EXTENDS Integers, Sequences

CONSTANTS
  Accounts,      \* addresses
  NoAccount,     \* stands for an empty account list
  Keys,          \* public keys, as 1312-byte strings
  Messages,      \* messages
  Blank,         \* the content of zeroed bytes
  K,             \* rows of a prepared key
  DataStart,     \* addresses account data may start at ({0} up to the
                 \* 8-byte alignment of the Solana loader)
  Slots,         \* transactions that may be in flight
  Transactions,  \* the transactions clients may submit
  Ledger         \* the accounts before any of them

INITIALIZED == [turbo \in BOOLEAN |-> IF turbo THEN "MLTUR044" ELSE "MLDSA044"]

Rows    == 0 .. K-1
Source  == Keys \X BOOLEAN
Content == Source \cup {Blank}
Headers == {"zero", "MLDSA044", "MLTUR044"}

\* The size of an account's data: none, KEY_ACCOUNT_LEN, or some other.
Sizes == {"none", "key", "other"}

Account == [owner  : {"system", "program", "other"},
            size   : Sizes,
            header : Headers,
            rows   : [Rows -> Content],
            tr     : Content]

\* Zeroed data of a given owner and size.
Fresh(owner, size) ==
  [owner |-> owner, size |-> size, header |-> "zero",
   rows |-> [r \in Rows |-> Blank], tr |-> Blank]

(***************************************************************************)
(* The bytes after the tag: a public key, a signature (made with a key in  *)
(* a mode on a message) and the message to check it against, or bytes of   *)
(* neither length.                                                         *)
(***************************************************************************)
Payload ==
  [kind : {"key"}, key : Keys] \cup
  [kind : {"signature"}, signer : Source, signed : Messages, message : Messages] \cup
  [kind : {"short"}]

NoTag == -1  \* empty instruction data

Instruction ==
  [op : {"allocate"}, account : Accounts, size : Sizes] \cup
  [op : {"invoke"}, account : Accounts \cup {NoAccount},
   tag : 0 .. 255 \cup {NoTag}, payload : Payload]

\* Signers and writable accounts are those of the message, as the runtime
\* hands the same flags to every top-level instruction.
Transaction == [signers  : SUBSET Accounts,
                writable : SUBSET Accounts,
                instrs   : Seq(Instruction)]

ASSUME KAssumption == K \in Nat \ {0}
ASSUME NamesAssumption == Blank \notin Source /\ NoAccount \notin Accounts
ASSUME DataStartAssumption == DataStart \in SUBSET Nat
ASSUME TransactionsAssumption == Transactions \subseteq Transaction

Initialised(acc) == acc.owner = "program" /\ acc.header # "zero"

\* An account other programs own may hold anything; nothing is registered yet.
ASSUME LedgerAssumption ==
  /\ Ledger \in [Accounts -> Account]
  /\ \A a \in Accounts :
       Ledger[a].owner # "other" => Ledger[a] = Fresh(Ledger[a].owner, Ledger[a].size)

VARIABLES
  store,    \* the committed accounts
  tx,       \* the transaction in each slot
  pc,       \* "free", "queued", "next", "create", "prepare", "seal",
            \* "verify", "verdict" or "ended"
  ip,       \* its current instruction
  row,      \* the loop variable of prepare_into
  work,     \* its private copy of the accounts
  outcome   \* "pending", "committed", or the error it failed with

vars == <<store, tx, pc, ip, row, work, outcome>>

Errors == {"NotEnoughAccountKeys", "IncorrectProgramId", "InvalidAccountData",
           "InvalidInstructionData", "MissingRequiredSignature",
           "AccountAlreadyInitialized", "UninitializedAccount", "Custom(1)",
           "AccountAlreadyInUse", "ComputationalBudgetExceeded"}

NoTx   == [signers |-> {}, writable |-> {}, instrs |-> <<>>]
NoWork == [a \in Accounts |-> Fresh("system", "none")]

TypeOK ==
  /\ store \in [Accounts -> Account]
  /\ tx \in [Slots -> Transactions \cup {NoTx}]
  /\ pc \in [Slots -> {"free", "queued", "next", "create", "prepare", "seal",
                       "verify", "verdict", "ended"}]
  /\ ip \in [Slots -> Nat \ {0}]
  /\ row \in [Slots -> 0 .. K]
  /\ work \in [Slots -> [Accounts -> Account]]
  /\ outcome \in [Slots -> {"pending", "committed"} \cup Errors]

Init ==
  /\ store = Ledger
  /\ tx = [t \in Slots |-> NoTx]
  /\ pc = [t \in Slots |-> "free"]
  /\ ip = [t \in Slots |-> 1]
  /\ row = [t \in Slots |-> 0]
  /\ work = [t \in Slots |-> NoWork]
  /\ outcome = [t \in Slots |-> "pending"]

Instr(t)  == tx[t].instrs[ip[t]]
Acc(t)    == work[t][Instr(t).account]

\* Mutant: the mode is taken from the low bit of the tag.
TurboLowBit(t) == Instr(t).tag \in {1, 3}

\* The TURBO of the handler process_instruction selects.
Turbo(t)   == Instr(t).tag \in {2, 3}
Running(t) == pc[t] \notin {"free", "queued", "ended"}
More(t)   == ip[t] <= Len(tx[t].instrs)

-----------------------------------------------------------------------------
(***************************************************************************)
(* The runtime: submission, account locks, commit and failure              *)
(***************************************************************************)
Submit(t) ==
  /\ pc[t] = "free"
  /\ tx' \in {[tx EXCEPT ![t] = x] : x \in Transactions}
  /\ pc' = [pc EXCEPT ![t] = "queued"]
  /\ UNCHANGED <<store, ip, row, work, outcome>>

\* The accounts a transaction names.
Named(x) == {x.instrs[n].account : n \in DOMAIN x.instrs}

\* Two transactions exclude each other when one writes what the other names.
Conflict(x, y) ==
  \/ (x.writable \cap Named(x)) \cap Named(y) # {}
  \/ (y.writable \cap Named(y)) \cap Named(x) # {}

\* Mutant: no transaction waits for another.
BeginNoLocks(t) ==
  /\ pc[t] = "queued"
  /\ pc' = [pc EXCEPT ![t] = "next"]
  /\ work' = [work EXCEPT ![t] = store]
  /\ UNCHANGED <<store, tx, ip, row, outcome>>

Begin(t) ==
  /\ pc[t] = "queued"
  /\ \A u \in Slots : Running(u) => ~Conflict(tx[t], tx[u])
  /\ pc' = [pc EXCEPT ![t] = "next"]
  /\ work' = [work EXCEPT ![t] = store]
  /\ UNCHANGED <<store, tx, ip, row, outcome>>

\* The end of a transaction, its copy of the accounts gone.
End(t, result) ==
  /\ outcome' = [outcome EXCEPT ![t] = result]
  /\ pc' = [pc EXCEPT ![t] = "ended"]
  /\ work' = [work EXCEPT ![t] = NoWork]
  /\ row' = [row EXCEPT ![t] = 0]
  /\ UNCHANGED <<tx, ip>>

Fail(t, error) == End(t, error) /\ UNCHANGED store

Commit(t) ==
  /\ pc[t] = "next" /\ ~More(t)
  /\ store' = [a \in Accounts |->
                 IF a \in tx[t].writable \cap Named(tx[t]) THEN work[t][a] ELSE store[a]]
  /\ End(t, "committed")

OutOfCompute(t) ==
  /\ Running(t) /\ More(t)
  /\ Fail(t, "ComputationalBudgetExceeded")

\* The current instruction returned Ok(()).
Ok(t) ==
  /\ pc' = [pc EXCEPT ![t] = "next"]
  /\ ip' = [ip EXCEPT ![t] = @ + 1]
  /\ UNCHANGED <<store, tx, outcome>>

\* The System Program gives an address that signs zeroed data owned by the
\* program.
CanAllocate(t) ==
  /\ Instr(t).account \in tx[t].signers \cap tx[t].writable
  /\ Acc(t) = Fresh("system", "none")

Allocate(t) ==
  /\ pc[t] = "next" /\ More(t) /\ Instr(t).op = "allocate"
  /\ \/ /\ CanAllocate(t)
        /\ work' = [work EXCEPT ![t][Instr(t).account] = Fresh("program", Instr(t).size)]
        /\ UNCHANGED row
        /\ Ok(t)
     \/ ~CanAllocate(t) /\ Fail(t, "AccountAlreadyInUse")

-----------------------------------------------------------------------------
(***************************************************************************)
(* process_instruction                                                     *)
(***************************************************************************)
Goto(t, label) ==
  /\ pc' = [pc EXCEPT ![t] = label]
  /\ UNCHANGED <<store, tx, ip, row, work, outcome>>

Invoked(t) == pc[t] = "next" /\ More(t) /\ Instr(t).op = "invoke"
Given(t)   == Invoked(t) /\ Instr(t).account # NoAccount

\* Mutant: account.owner is not compared with the program id.
OwnedByAnyone(t) == Given(t)

Owned(t) == Given(t) /\ Acc(t).owner = "program"
Sized(t) == Owned(t) /\ Acc(t).size = "key"

RejectInvocation(t) ==
  \/ Invoked(t) /\ ~Given(t) /\ Fail(t, "NotEnoughAccountKeys")
  \/ Given(t) /\ ~Owned(t) /\ Fail(t, "IncorrectProgramId")
  \/ Owned(t) /\ ~Sized(t) /\ Fail(t, "InvalidAccountData")
  \/ Sized(t) /\ Instr(t).tag \notin 0 .. 3 /\ Fail(t, "InvalidInstructionData")

Dispatch(t) ==
  /\ Sized(t)
  /\ \/ Instr(t).tag \in {0, 2} /\ Goto(t, "create")
     \/ Instr(t).tag \in {1, 3} /\ Goto(t, "verify")

-----------------------------------------------------------------------------
(***************************************************************************)
(* create::<TURBO>                                                         *)
(***************************************************************************)
Creating(t) == pc[t] = "create"

\* Mutant: the account need not sign.
SignedByAnyone(t) == Creating(t)

Signed(t)   == Creating(t) /\ Instr(t).account \in tx[t].signers
Writable(t) == Signed(t) /\ Instr(t).account \in tx[t].writable
Keyed(t)    == Writable(t) /\ Instr(t).payload.kind = "key"

\* Mutant: the header is compared with that of the requested mode only.
VacantOtherMode(t) == Keyed(t) /\ Acc(t).header # INITIALIZED[Turbo(t)]

Vacant(t)   == Keyed(t) /\ Acc(t).header = "zero"

\* mut_from_bytes and ref_from_bytes borrow what follows the 8-byte header of
\* data starting at address s; its length is right once the account's is.
Aligned(s) == (s + 8) % 4 = 0

RejectCreate(t) ==
  \/ Creating(t) /\ ~Signed(t) /\ Fail(t, "MissingRequiredSignature")
  \/ Signed(t) /\ ~Writable(t) /\ Fail(t, "InvalidAccountData")
  \/ Writable(t) /\ ~Keyed(t) /\ Fail(t, "InvalidInstructionData")
  \/ Keyed(t) /\ ~Vacant(t) /\ Fail(t, "AccountAlreadyInitialized")
  \/ Vacant(t) /\ (\E s \in DataStart : ~Aligned(s)) /\ Fail(t, "InvalidAccountData")

BeginPrepare(t) ==
  /\ Vacant(t) /\ \E s \in DataStart : Aligned(s)
  /\ pc' = [pc EXCEPT ![t] = "prepare"]
  /\ row' = [row EXCEPT ![t] = 0]
  /\ UNCHANGED <<store, tx, ip, work, outcome>>

\* What prepare_into computes from the instruction's public key.
Prepared(t) == <<Instr(t).payload.key, Turbo(t)>>

\* Mutants: the loop over the rows stops one row early, or one row late.
LastRowEarly == K - 1
LastRowLate  == K + 1

\* The bound of prepare_into's loop.
LastRow == K

\* Mutant: the loop variable wraps before it reaches the bound.
PrepareRowWraps(t) ==
  /\ pc[t] = "prepare" /\ row[t] < LastRow
  /\ work' = [work EXCEPT ![t][Instr(t).account].rows[row[t]] = Prepared(t)]
  /\ row' = [row EXCEPT ![t] = (@ + 1) % LastRow]
  /\ UNCHANGED <<store, tx, pc, ip, outcome>>

PrepareRow(t) ==
  /\ pc[t] = "prepare" /\ row[t] < LastRow
  /\ work' = [work EXCEPT ![t][Instr(t).account].rows[row[t]] = Prepared(t)]
  /\ row' = [row EXCEPT ![t] = @ + 1]
  /\ UNCHANGED <<store, tx, pc, ip, outcome>>

\* out.tr = pk.public_key_hash()
PrepareHash(t) ==
  /\ pc[t] = "prepare" /\ row[t] = LastRow
  /\ work' = [work EXCEPT ![t][Instr(t).account].tr = Prepared(t)]
  /\ row' = [row EXCEPT ![t] = 0]
  /\ pc' = [pc EXCEPT ![t] = "seal"]
  /\ UNCHANGED <<store, tx, ip, outcome>>

\* header.copy_from_slice(initialized); Ok(())
Seal(t) ==
  /\ pc[t] = "seal"
  /\ work' = [work EXCEPT ![t][Instr(t).account].header = INITIALIZED[Turbo(t)]]
  /\ UNCHANGED row
  /\ Ok(t)

-----------------------------------------------------------------------------
(***************************************************************************)
(* verify::<TURBO>                                                         *)
(***************************************************************************)
Verifying(t) == pc[t] = "verify"
HasSig(t)    == Verifying(t) /\ Instr(t).payload.kind = "signature"

\* Mutant: any initialised header will do.
OpenedAnyMode(t) == HasSig(t) /\ Acc(t).header # "zero"

Opened(t)    == HasSig(t) /\ Acc(t).header = INITIALIZED[Turbo(t)]

RejectVerify(t) ==
  \/ Verifying(t) /\ ~HasSig(t) /\ Fail(t, "InvalidInstructionData")
  \/ HasSig(t) /\ ~Opened(t) /\ Fail(t, "UninitializedAccount")
  \/ Opened(t) /\ (\E s \in DataStart : ~Aligned(s)) /\ Fail(t, "InvalidAccountData")

Open(t) == Opened(t) /\ (\E s \in DataStart : Aligned(s)) /\ Goto(t, "verdict")

\* What the library answers.
INSTANCE KeyVerdict

Verdict(t) ==
  /\ pc[t] = "verdict"
  /\ \/ Genuine(Acc(t), Turbo(t), Instr(t).payload) /\ UNCHANGED <<work, row>> /\ Ok(t)
     \/ ~Genuine(Acc(t), Turbo(t), Instr(t).payload) /\ Fail(t, "Custom(1)")

-----------------------------------------------------------------------------
Step(t) ==
  \/ Commit(t) \/ OutOfCompute(t) \/ Allocate(t)
  \/ RejectInvocation(t) \/ Dispatch(t)
  \/ RejectCreate(t) \/ BeginPrepare(t) \/ PrepareRow(t) \/ PrepareHash(t) \/ Seal(t)
  \/ RejectVerify(t) \/ Open(t) \/ Verdict(t)

Next == \E t \in Slots : Submit(t) \/ Begin(t) \/ Step(t)

\* Validators keep executing what they have accepted; clients submit at will.
Fairness == \A t \in Slots : WF_vars(Begin(t)) /\ WF_vars(Step(t))

Spec == Init /\ [][Next]_vars
FairSpec == Spec /\ Fairness

-----------------------------------------------------------------------------
(***************************************************************************)
(* Properties                                                              *)
(***************************************************************************)

\* The prepared key src in account acc, all of it, sealed with its mode.
Holds(acc, src) ==
  /\ acc.header = INITIALIZED[src[2]]
  /\ acc.tr = src
  /\ \A r \in Rows : acc.rows[r] = src

\* An account of the program is either blank or the whole prepared form of
\* one key in the mode its header names.  The only other state, rows without
\* a header, never outlives the transaction that writes them, and the header
\* is never there before the last row and the hash (create, prepare_into).
WholeOrBlank ==
  /\ \A a \in Accounts : store[a].owner = "program" =>
       \/ store[a] = Fresh("program", store[a].size)
       \/ \E src \in Source : Holds(store[a], src)
  /\ \A t \in Slots, a \in Accounts : Initialised(work[t][a]) =>
       \E src \in Source : Holds(work[t][a], src)

\* "The instruction cannot reinterpret a cache prepared for the other mode"
\* (program/tests/registration.rs:136): verify<TURBO> runs the library only on
\* a whole key that create<TURBO> prepared, whoever owns or wrote the account.
VerdictOnOwnMode ==
  \A t \in Slots : pc[t] = "verdict" =>
    \E k \in Keys : Holds(Acc(t), <<k, Turbo(t)>>)

\* Transaction x registers key src in account a.
Registers(x, a, src) ==
  \E n \in DOMAIN x.instrs :
    LET ins == x.instrs[n]
    IN  /\ ins.op = "invoke" /\ ins.account = a
        /\ ins.payload.kind = "key"
        /\ src = <<ins.payload.key, ins.tag = 2>>

BoundBySigner ==
  \A a \in Accounts :
    Initialised(store'[a]) /\ ~Initialised(store[a]) =>
      \E t \in Slots :
        /\ outcome[t] = "pending" /\ outcome'[t] = "committed"
        /\ a \in tx[t].signers
        /\ Registers(tx[t], a, store'[a].tr)

\* An account is bound to a key only by a transaction that the account itself
\* signed and that carries that key in that mode (create's is_signer check):
\* nobody else's transaction slips in between allocation and registration.
RegisteredBySigner == [][BoundBySigner]_vars

\* The instruction at n of transaction x asks to verify p's signature.
VerifyAt(x, n) == x.instrs[n].op = "invoke" /\ x.instrs[n].tag \in {1, 3}

\* Transaction x only verifies a signature made on the very message it
\* carries, in the mode of its tag, by the key account a holds.
VerifiesWell(x, a) ==
  /\ Len(x.instrs) = 1 /\ VerifyAt(x, 1) /\ x.instrs[1].account = a
  /\ x.instrs[1].payload.kind = "signature"
  /\ x.instrs[1].payload.signed = x.instrs[1].payload.message
  /\ x.instrs[1].payload.signer[2] = (x.instrs[1].tag = 3)
  /\ Holds(store[a], x.instrs[1].payload.signer)

FailsForResources ==
  \A t \in Slots, a \in Accounts :
    /\ outcome[t] = "pending" /\ outcome'[t] \in Errors
    /\ VerifiesWell(tx[t], a) /\ Initialised(work[t][a])
    => \/ outcome'[t] = "ComputationalBudgetExceeded"
       \/ outcome'[t] = "InvalidAccountData" /\ \E s \in DataStart : ~Aligned(s)

\* A transaction that only verifies a signature by the key and in the mode its
\* account is bound to is never turned down for what it says or for what other
\* transactions do: it fails for lack of compute or of alignment, or not at all.
NoFalseRejection == [][FailsForResources]_vars

\* Every transaction the runtime has taken ends: no wait for locks lasts
\* forever and no handler loops (loop of prepare_into, every return path).
EveryTransactionEnds == \A t \in Slots : (pc[t] = "queued") ~> (pc[t] = "ended")

-----------------------------------------------------------------------------
(***************************************************************************)
(* The program implements the registry.                                    *)
(***************************************************************************)
Bound == [a \in Accounts |-> IF Initialised(store[a]) THEN store[a].tr ELSE Blank]

\* What the committed transactions have told their readers.
Accepted ==
  UNION {{[account |-> tx[t].instrs[n].account,
           signer  |-> tx[t].instrs[n].payload.signer,
           message |-> tx[t].instrs[n].payload.message] :
             n \in {m \in DOMAIN tx[t].instrs : VerifyAt(tx[t], m)}} :
         t \in {u \in Slots : outcome[u] = "committed"}}

Registry == INSTANCE KeyRegistry
              WITH binding <- Bound, accepted <- Accepted, Unbound <- Blank

\* Registration is one-time and every accepted claim is one the account's
\* binding vouches for, across all interleavings, failures and retries.
ImplementsRegistry == Registry!Spec
=============================================================================
