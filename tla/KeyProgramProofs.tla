-------------------------- MODULE KeyProgramProofs --------------------------
(***************************************************************************)
(* Proofs about KeyProgram, for any accounts, keys, messages, number of    *)
(* rows, transactions in flight and submitted.                             *)
(***************************************************************************)
EXTENDS KeyProgram, TLAPS

Sealed(acc) == acc.size = "key" /\ \E src \in Source : Holds(acc, src)
Clean(acc)  == acc.owner = "program" =>
                 acc = Fresh("program", acc.size) \/ Sealed(acc)

\* What the program counter of slot t says of the instruction it runs.
InCall(t) == pc[t] \in {"create", "prepare", "seal", "verify", "verdict"}

Phase(t) ==
  /\ pc[t] \in {"free", "queued"} => ip[t] = 1
  /\ InCall(t) => /\ More(t) /\ Instr(t).op = "invoke"
                  /\ Instr(t).account \in Accounts
                  /\ Acc(t).owner = "program" /\ Acc(t).size = "key"
  /\ pc[t] \in {"create", "prepare", "seal"} => Instr(t).tag \in {0, 2}
  /\ pc[t] \in {"prepare", "seal"} =>
       /\ Instr(t).account \in tx[t].signers
       /\ Instr(t).account \in tx[t].writable
       /\ Instr(t).payload.kind = "key"
       /\ Acc(t).header = "zero"
  /\ pc[t] = "prepare" => \A r \in Rows : r < row[t] => Acc(t).rows[r] = Prepared(t)
  /\ pc[t] = "seal" => /\ Acc(t).tr = Prepared(t)
                       /\ \A r \in Rows : Acc(t).rows[r] = Prepared(t)
  /\ pc[t] \in {"verify", "verdict"} => Instr(t).tag \in {1, 3}
  /\ pc[t] = "verdict" => /\ Instr(t).payload.kind = "signature"
                          /\ Acc(t).header = INITIALIZED[Turbo(t)]

\* Only the account being prepared is neither blank nor sealed.
WorkClean(t) ==
  \A a \in Accounts :
    \/ Clean(work[t][a])
    \/ /\ pc[t] \in {"prepare", "seal"} /\ a = Instr(t).account
       /\ work[t][a].header = "zero"

\* The transaction of slot t may register what its copy of account a holds.
Authorises(t, a) ==
  a \in tx[t].signers /\ Registers(tx[t], a, work[t][a].tr)

\* What the locks give slot t: its copy differs from the store only where the
\* store is not initialised yet, and then for a reason.
Isolated(t) ==
  Running(t) => \A a \in Accounts : a \in Named(tx[t]) =>
    /\ a \notin tx[t].writable => work[t][a] = store[a]
    /\ Initialised(store[a]) => work[t][a] = store[a]
    /\ Initialised(work[t][a]) /\ ~Initialised(store[a]) => Authorises(t, a)

\* The verification at n of slot t succeeded on the account as slot t sees it.
Verified(t, n) ==
  LET ins == tx[t].instrs[n] IN
  /\ ins.account \in Accounts
  /\ ins.payload.kind = "signature"
  /\ Initialised(work[t][ins.account])
  /\ work[t][ins.account].tr = ins.payload.signer

VerifiedSoFar(t) ==
  Running(t) => \A n \in DOMAIN tx[t].instrs :
                  n < ip[t] /\ VerifyAt(tx[t], n) => Verified(t, n)

Outcome(t) ==
  /\ (outcome[t] = "pending") <=> (pc[t] # "ended")
  /\ outcome[t] = "committed" =>
       \A n \in DOMAIN tx[t].instrs : VerifyAt(tx[t], n) =>
         /\ tx[t].instrs[n].account \in Accounts
         /\ tx[t].instrs[n].payload.kind = "signature"

SlotInv(t) == Phase(t) /\ WorkClean(t) /\ Isolated(t) /\ VerifiedSoFar(t) /\ Outcome(t)

Exclusive ==
  \A t, u \in Slots : t # u /\ Running(t) /\ Running(u) => ~Conflict(tx[t], tx[u])

IInv ==
  /\ TypeOK
  /\ \A a \in Accounts : Clean(store[a])
  /\ Exclusive
  /\ \A t \in Slots : SlotInv(t)

-----------------------------------------------------------------------------
\* The tuple of slot-local variables of u, and the store, are unchanged.
Frame(u) ==
  /\ store' = store /\ tx'[u] = tx[u] /\ pc'[u] = pc[u] /\ ip'[u] = ip[u]
  /\ row'[u] = row[u] /\ work'[u] = work[u] /\ outcome'[u] = outcome[u]

\* A slot that a step leaves alone keeps its invariant.
LEMMA FrameStep ==
  ASSUME NEW u \in Slots, SlotInv(u), Frame(u)
  PROVE  SlotInv(u)'
<1>1. /\ Instr(u)' = Instr(u) /\ Turbo(u)' = Turbo(u) /\ Running(u)' = Running(u)
      /\ More(u)' = More(u) /\ InCall(u)' = InCall(u) /\ Named(tx[u])' = Named(tx[u])
      /\ Acc(u)' = Acc(u) /\ Prepared(u)' = Prepared(u)
  BY DEF Frame, Instr, Turbo, Running, More, InCall, Named, Acc, Prepared
<1>2. Phase(u)'
  BY <1>1 DEF SlotInv, Phase, Frame
<1>3. WorkClean(u)'
  BY <1>1 DEF SlotInv, WorkClean, Frame, Clean, Sealed, Holds
<1>4. Isolated(u)'
  BY <1>1 DEF SlotInv, Isolated, Frame, Authorises, Initialised
<1>5. VerifiedSoFar(u)'
  BY <1>1 DEF SlotInv, VerifiedSoFar, Frame, Verified, Initialised, VerifyAt
<1>6. Outcome(u)'
  BY <1>1 DEF SlotInv, Outcome, Frame, VerifyAt
<1>. QED  BY <1>2, <1>3, <1>4, <1>5, <1>6 DEF SlotInv

\* A transaction's instructions are a sequence.
LEMMA InstrsSeq ==
  ASSUME TypeOK, NEW t \in Slots
  PROVE  tx[t] \in Transaction /\ tx[t].instrs \in Seq(Instruction)
<1>1. NoTx \in Transaction
  BY DEF NoTx, Transaction
<1>2. tx[t] \in Transaction
  BY <1>1, TransactionsAssumption DEF TypeOK
<1>. QED  BY <1>2 DEF Transaction

\* The instruction of a running slot is one of its transaction's.
LEMMA InstrType ==
  ASSUME TypeOK, NEW t \in Slots, More(t)
  PROVE  /\ tx[t] \in Transaction
         /\ ip[t] \in DOMAIN tx[t].instrs
         /\ Instr(t) \in Instruction
         /\ Instr(t).account \in Named(tx[t])
<1>1. tx[t] \in Transaction /\ tx[t].instrs \in Seq(Instruction)
  BY InstrsSeq
<1>3. ip[t] \in DOMAIN tx[t].instrs
  BY <1>1 DEF TypeOK, More
<1>4. Instr(t) \in Instruction
  BY <1>1, <1>3 DEF Instr
<1>. QED  BY <1>1, <1>3, <1>4 DEF Named, Instr

-----------------------------------------------------------------------------
\* A step of slot t that leaves the store and the other slots alone.
Local(t) == store' = store /\ \A u \in Slots : u # t => Frame(u)

\* Such a step keeps the invariant when it keeps slot t's own part of it.
LEMMA LocalStep ==
  ASSUME IInv, NEW t \in Slots, Local(t), TypeOK', SlotInv(t)',
         Running(t)' => Running(t) /\ tx'[t] = tx[t]
  PROVE  IInv'
<1>1. \A a \in Accounts : Clean(store[a])'
  BY DEF IInv, Local, Clean, Sealed, Holds
<1>2. \A u \in Slots : SlotInv(u)'
  <2>1. ASSUME NEW u \in Slots, u # t PROVE SlotInv(u)'
    BY <2>1, FrameStep DEF IInv, Local
  <2>. QED  BY <2>1
<1>3. Exclusive'
  <2>1. \A u \in Slots : Running(u)' => Running(u) /\ tx'[u] = tx[u]
    BY DEF Local, Frame, Running
  <2>2. ASSUME NEW u \in Slots, NEW v \in Slots, u # v, Running(u)', Running(v)'
        PROVE  ~Conflict(tx[u], tx[v])'
    <3>1. ~Conflict(tx[u], tx[v]) /\ tx'[u] = tx[u] /\ tx'[v] = tx[v]
      BY <2>1, <2>2 DEF IInv, Exclusive
    <3>. QED  BY <3>1 DEF Conflict, Named
  <2>. QED  BY <2>2 DEF Exclusive
<1>. QED  BY <1>1, <1>2, <1>3 DEF IInv

\* A transaction that fails leaves no trace.
LEMMA FailStep ==
  ASSUME IInv, NEW t \in Slots, NEW e \in Errors, Fail(t, e)
  PROVE  IInv'
<1> USE DEF Fail, End
<1>1. TypeOK'
  <2>1. NoWork \in [Accounts -> Account]
    BY DEF NoWork, Fresh, Account, Sizes, Headers, Content
  <2>. QED  BY <2>1, KAssumption DEF IInv, TypeOK
<1>2. Local(t)
  BY DEF IInv, TypeOK, Local, Frame
<1>3. /\ pc'[t] = "ended" /\ outcome'[t] = e /\ work'[t] = NoWork
      /\ ~Running(t)' /\ ~InCall(t)'
  BY DEF IInv, TypeOK, Running, InCall
<1>4. e # "pending" /\ e # "committed"
  BY DEF Errors
<1>5. SlotInv(t)'
  <2>1. Phase(t)'
    BY <1>3 DEF Phase
  <2>2. WorkClean(t)'
    BY <1>3 DEF WorkClean, Clean, NoWork, Fresh
  <2>. QED  BY <1>3, <1>4, <2>1, <2>2 DEF SlotInv, Isolated, VerifiedSoFar, Outcome
<1>. QED  BY <1>1, <1>2, <1>3, <1>5, LocalStep

\* A jump inside a call keeps everything but the phase.
LEMMA GotoStep ==
  ASSUME IInv, NEW t \in Slots, NEW label, Goto(t, label), Running(t),
         pc[t] \notin {"prepare", "seal"},
         label \in {"create", "verify", "verdict"}, Phase(t)'
  PROVE  IInv'
<1> USE DEF Goto
<1>1. TypeOK'
  BY DEF IInv, TypeOK
<1>2. Local(t)
  BY DEF IInv, TypeOK, Local, Frame
<1>3. pc'[t] = label /\ Running(t)'
  BY DEF IInv, TypeOK, Running
<1>4. SlotInv(t)
  BY DEF IInv
<1>5. WorkClean(t)'
  BY <1>4 DEF SlotInv, WorkClean, Clean, Sealed, Holds
<1>6. Isolated(t)'
  BY <1>3, <1>4 DEF SlotInv, Isolated, Authorises, Initialised, Named
<1>7. VerifiedSoFar(t)'
  BY <1>3, <1>4 DEF SlotInv, VerifiedSoFar, Verified, Initialised, VerifyAt
<1>8. Outcome(t)'
  BY <1>3, <1>4 DEF SlotInv, Outcome, VerifyAt, Running
<1>. QED  BY <1>1, <1>2, <1>3, <1>5, <1>6, <1>7, <1>8, LocalStep DEF SlotInv

\* Writing an account that is not initialised and that the transaction has
\* locked for writing disturbs neither the locks nor the past verifications.
LEMMA WriteStep ==
  ASSUME IInv, NEW t \in Slots, Running(t), NEW x \in Accounts, NEW new \in Account,
         x \in Named(tx[t]), x \in tx[t].writable, ~Initialised(work[t][x]),
         work'[t] = [work[t] EXCEPT ![x] = new], store' = store, tx' = tx,
         Initialised(new) => Authorises(t, x)',
         \A n \in DOMAIN tx[t].instrs :
            n < ip'[t] /\ VerifyAt(tx[t], n) => n < ip[t]
  PROVE  Isolated(t)' /\ VerifiedSoFar(t)'
<1>1. SlotInv(t) /\ work[t] \in [Accounts -> Account]
  BY DEF IInv, TypeOK
<1>2. /\ work'[t][x] = new
      /\ \A a \in Accounts : a # x => work'[t][a] = work[t][a]
  BY <1>1
<1>3. Isolated(t)'
  <2>1. ASSUME NEW a \in Accounts, a \in Named(tx[t])
        PROVE  /\ a \notin tx[t].writable => work'[t][a] = store[a]
               /\ Initialised(store[a]) => work'[t][a] = store[a]
               /\ Initialised(work'[t][a]) /\ ~Initialised(store[a]) => Authorises(t, a)'
    <3>1. CASE a = x
      BY <3>1, <1>1, <1>2 DEF SlotInv, Isolated, Initialised
    <3>2. CASE a # x
      <4>1. work'[t][a] = work[t][a] /\ (Authorises(t, a)' <=> Authorises(t, a))
        BY <3>2, <1>2 DEF Authorises
      <4>. QED  BY <4>1, <2>1, <1>1 DEF SlotInv, Isolated
    <3>. QED  BY <3>1, <3>2
  <2>. QED  BY <2>1 DEF Isolated, Initialised, Named
<1>4. VerifiedSoFar(t)'
  <2>1. ASSUME NEW n \in DOMAIN tx[t].instrs, n < ip'[t], VerifyAt(tx[t], n)
        PROVE  Verified(t, n)'
    <3>1. Verified(t, n)
      BY <1>1, <2>1 DEF SlotInv, VerifiedSoFar
    <3>2. tx[t].instrs[n].account # x
      BY <3>1 DEF Verified
    <3>. QED  BY <3>1, <3>2, <1>2 DEF Verified, Initialised
  <2>. QED  BY <2>1 DEF VerifiedSoFar, VerifyAt
<1>. QED  BY <1>3, <1>4

-----------------------------------------------------------------------------
LEMMA SubmitStep ==
  ASSUME IInv, NEW t \in Slots, Submit(t)
  PROVE  IInv'
<1> USE DEF Submit
<1>1. PICK x \in Transactions : tx' = [tx EXCEPT ![t] = x]
  OBVIOUS
<1>2. TypeOK'
  BY <1>1 DEF IInv, TypeOK
<1>3. Local(t)
  BY <1>1 DEF IInv, TypeOK, Local, Frame
<1>4. pc'[t] = "queued" /\ outcome'[t] = "pending" /\ ip'[t] = 1 /\ work'[t] = work[t]
  BY DEF IInv, TypeOK, SlotInv, Phase, Outcome
<1>5. ~Running(t)' /\ ~InCall(t)' /\ ~Running(t)
  BY <1>4 DEF Running, InCall
<1>6. Phase(t)'
  BY <1>4, <1>5 DEF Phase
<1>7. WorkClean(t)'
  BY <1>4 DEF IInv, SlotInv, WorkClean, Clean, Sealed, Holds
<1>8. Isolated(t)' /\ VerifiedSoFar(t)' /\ Outcome(t)'
  BY <1>4, <1>5 DEF Isolated, VerifiedSoFar, Outcome
<1>. QED  BY <1>2, <1>3, <1>5, <1>6, <1>7, <1>8, LocalStep DEF SlotInv

\* A transaction starts on the committed accounts once it can lock its own.
LEMMA BeginStep ==
  ASSUME IInv, NEW t \in Slots, Begin(t)
  PROVE  IInv'
<1> USE DEF Begin
<1>1. TypeOK'
  BY DEF IInv, TypeOK
<1>2. /\ pc'[t] = "next" /\ ip'[t] = 1 /\ outcome'[t] = "pending"
      /\ work'[t] = store /\ tx'[t] = tx[t] /\ ~InCall(t)'
  BY DEF IInv, TypeOK, SlotInv, Phase, Outcome, InCall
<1>3. \A u \in Slots : u # t => SlotInv(u)'
  BY FrameStep DEF IInv, TypeOK, Frame
<1>4. SlotInv(t)'
  <2>1. Phase(t)'
    BY <1>2 DEF Phase
  <2>2. WorkClean(t)'
    BY <1>2 DEF IInv, WorkClean, Clean, Sealed, Holds
  <2>3. Isolated(t)'
    BY <1>2 DEF Isolated, Initialised
  <2>4. VerifiedSoFar(t)'
    <3>1. ASSUME NEW n \in DOMAIN tx[t].instrs, n < 1 PROVE FALSE
      <4>1. tx[t].instrs \in Seq(Instruction)
        BY InstrsSeq DEF IInv
      <4>. QED  BY <4>1, <3>1
    <3>. QED  BY <1>2, <3>1 DEF VerifiedSoFar
  <2>5. Outcome(t)'
    BY <1>2 DEF Outcome
  <2>. QED  BY <2>1, <2>2, <2>3, <2>4, <2>5 DEF SlotInv
<1>5. Exclusive'
  <2>1. ASSUME NEW u \in Slots, NEW v \in Slots, u # v, Running(u)', Running(v)'
        PROVE  ~Conflict(tx[u], tx[v])
    <3>1. \A s \in Slots : s # t /\ Running(s)' => Running(s)
      BY DEF IInv, TypeOK, Running
    <3>2. CASE u = t
      BY <3>1, <3>2, <2>1
    <3>3. CASE v = t
      <4>1. ~Conflict(tx[t], tx[u])
        BY <3>1, <3>3, <2>1
      <4>. QED  BY <3>3, <4>1 DEF Conflict
    <3>4. CASE u # t /\ v # t
      BY <3>1, <3>4, <2>1 DEF IInv, Exclusive
    <3>. QED  BY <3>2, <3>3, <3>4
  <2>. QED  BY <2>1 DEF Exclusive, Conflict, Named
<1>6. \A a \in Accounts : Clean(store[a])'
  BY DEF IInv, Clean, Sealed, Holds
<1>. QED  BY <1>1, <1>3, <1>4, <1>5, <1>6 DEF IInv

\* Committing writes back only what the transaction has locked for writing:
\* what other running transactions name stays as they have read it, and an
\* initialised account stays as it is.
LEMMA CommitFacts ==
  ASSUME IInv, NEW t \in Slots, Commit(t)
  PROVE  /\ Running(t)
         /\ \A a \in Accounts : Initialised(store[a]) => store'[a] = store[a]
         /\ \A a \in Accounts : a \in Named(tx[t]) => store'[a] = work[t][a]
         /\ \A u \in Slots, a \in Accounts :
              u # t /\ Running(u) /\ a \in Named(tx[u]) => store'[a] = store[a]
<1>1. Running(t)
  BY DEF Commit, Running
<1>2. Isolated(t)
  BY DEF IInv, SlotInv
<1>3. \A a \in Accounts :
        store'[a] = IF a \in tx[t].writable \cap Named(tx[t]) THEN work[t][a] ELSE store[a]
  BY DEF Commit
<1>4. ASSUME NEW u \in Slots, NEW a \in Accounts, u # t, Running(u), a \in Named(tx[u])
      PROVE  store'[a] = store[a]
  <2>1. ~Conflict(tx[t], tx[u])
    BY <1>1, <1>4 DEF IInv, Exclusive
  <2>. QED  BY <1>3, <1>4, <2>1 DEF Conflict
<1>. QED  BY <1>1, <1>2, <1>3, <1>4 DEF Isolated

LEMMA CommitStep ==
  ASSUME IInv, NEW t \in Slots, Commit(t)
  PROVE  IInv'
<1> USE DEF Commit, End
<1>1. TypeOK'
  <2>1. NoWork \in [Accounts -> Account]
    BY DEF NoWork, Fresh, Account, Sizes, Headers, Content
  <2>2. store' \in [Accounts -> Account]
    BY DEF IInv, TypeOK
  <2>. QED  BY <2>1, <2>2, KAssumption DEF IInv, TypeOK
<1>2. /\ pc'[t] = "ended" /\ outcome'[t] = "committed" /\ work'[t] = NoWork
      /\ tx' = tx /\ ip' = ip /\ ~Running(t)' /\ ~InCall(t)'
  BY DEF IInv, TypeOK, Running, InCall
<1>3. \A a \in Accounts : Clean(store[a])'
  <2>1. ASSUME NEW a \in Accounts PROVE Clean(work[t][a])
    BY DEF IInv, SlotInv, WorkClean
  <2>2. ASSUME NEW a \in Accounts PROVE Clean(store'[a])
    BY <2>1 DEF IInv
  <2>. QED  BY <2>2 DEF Clean, Sealed, Holds
<1>4. SlotInv(t)'
  <2>1. Phase(t)'
    BY <1>2 DEF Phase
  <2>2. WorkClean(t)'
    BY <1>2 DEF WorkClean, Clean, NoWork, Fresh
  <2>3. Outcome(t)'
    <3>1. ASSUME NEW n \in DOMAIN tx[t].instrs, VerifyAt(tx[t], n)
          PROVE  tx[t].instrs[n].account \in Accounts /\ tx[t].instrs[n].payload.kind = "signature"
      <4>1. tx[t].instrs \in Seq(Instruction)
        BY InstrsSeq DEF IInv
      <4>2. n < ip[t]
        BY <4>1 DEF More, IInv, TypeOK
      <4>3. Running(t)
        BY DEF Running
      <4>. QED  BY <3>1, <4>2, <4>3 DEF IInv, SlotInv, VerifiedSoFar, Verified
    <3>. QED  BY <1>2, <3>1 DEF Outcome, VerifyAt
  <2>. QED  BY <1>2, <2>1, <2>2, <2>3 DEF SlotInv, Isolated, VerifiedSoFar
<1>5. ASSUME NEW u \in Slots, u # t PROVE SlotInv(u)'
  <2>1. /\ SlotInv(u)
        /\ pc'[u] = pc[u] /\ row'[u] = row[u] /\ work'[u] = work[u]
        /\ outcome'[u] = outcome[u] /\ tx'[u] = tx[u] /\ ip'[u] = ip[u]
    BY <1>5 DEF IInv, TypeOK
  <2>2. /\ Instr(u)' = Instr(u) /\ Turbo(u)' = Turbo(u) /\ Running(u)' = Running(u)
        /\ More(u)' = More(u) /\ InCall(u)' = InCall(u) /\ Named(tx[u])' = Named(tx[u])
        /\ Acc(u)' = Acc(u) /\ Prepared(u)' = Prepared(u)
    BY <2>1 DEF Instr, Turbo, Running, More, InCall, Named, Acc, Prepared
  <2>3. Phase(u)'
    BY <2>1, <2>2 DEF SlotInv, Phase
  <2>4. WorkClean(u)'
    BY <2>1, <2>2 DEF SlotInv, WorkClean, Clean, Sealed, Holds
  <2>5. Isolated(u)'
    <3>1. \A a \in Accounts : Running(u) /\ a \in Named(tx[u]) => store'[a] = store[a]
      BY <1>5, CommitFacts
    <3>. QED  BY <2>1, <2>2, <3>1 DEF SlotInv, Isolated, Authorises, Initialised
  <2>6. VerifiedSoFar(u)'
    <3>1. \A n : Verified(u, n)' = Verified(u, n) /\ VerifyAt(tx[u], n)' = VerifyAt(tx[u], n)
      BY <2>1 DEF Verified, Initialised, VerifyAt
    <3>2. VerifiedSoFar(u)
      BY <2>1 DEF SlotInv
    <3>. QED  BY <2>1, <2>2, <3>1, <3>2 DEF VerifiedSoFar
  <2>7. Outcome(u)'
    BY <2>1, <2>2 DEF SlotInv, Outcome, VerifyAt
  <2>. QED  BY <2>3, <2>4, <2>5, <2>6, <2>7 DEF SlotInv
<1>6. Exclusive'
  <2>1. \A u \in Slots : Running(u)' => Running(u)
    BY <1>2 DEF IInv, TypeOK, Running
  <2>. QED  BY <1>2, <2>1 DEF IInv, Exclusive, Conflict, Named
<1>. QED  BY <1>1, <1>3, <1>4, <1>5, <1>6 DEF IInv

-----------------------------------------------------------------------------
LEMMA AllocateStep ==
  ASSUME IInv, NEW t \in Slots, Allocate(t)
  PROVE  IInv'
<1> DEFINE x == Instr(t).account
           new == Fresh("program", Instr(t).size)
<1>1. /\ pc[t] = "next" /\ More(t) /\ Instr(t).op = "allocate" /\ Running(t)
  BY DEF Allocate, Running
<1>2. /\ Instr(t) \in Instruction /\ x \in Named(tx[t])
      /\ tx[t].instrs \in Seq(Instruction)
  BY <1>1, InstrType DEF IInv, Transaction
<1>3. x \in Accounts /\ Instr(t).size \in Sizes
  BY <1>1, <1>2 DEF Instruction
<1>4. CASE Fail(t, "AccountAlreadyInUse")
  BY <1>4, FailStep DEF Errors
<1>5. CASE /\ CanAllocate(t) /\ UNCHANGED row /\ Ok(t)
           /\ work' = [work EXCEPT ![t][Instr(t).account] = new]
  <2> USE DEF Ok
  <2>1. new \in Account
    BY <1>3 DEF Fresh, Account, Headers, Content
  <2>2. /\ work[t] \in [Accounts -> Account] /\ work'[t] = [work[t] EXCEPT ![x] = new]
        /\ pc'[t] = "next" /\ ip'[t] = ip[t] + 1 /\ ip[t] \in Nat \ {0}
        /\ ip'[t] \in Nat \ {0}
        /\ tx' = tx /\ store' = store /\ outcome' = outcome
    BY <1>5 DEF IInv, TypeOK
  <2>3. work' \in [Slots -> [Accounts -> Account]]
    BY <1>3, <1>5, <2>1 DEF IInv, TypeOK
  <2>4. TypeOK'
    BY <1>5, <2>2, <2>3 DEF IInv, TypeOK
  <2>5. Local(t)
    BY <1>5 DEF IInv, TypeOK, Local, Frame
  <2>6. /\ ~Initialised(work[t][x]) /\ ~Initialised(new) /\ x \in tx[t].writable
    BY <1>5 DEF CanAllocate, Acc, Initialised, Fresh
  <2>7. ASSUME NEW n \in DOMAIN tx[t].instrs, n < ip'[t], VerifyAt(tx[t], n)
        PROVE  n < ip[t]
    <3>1. n # ip[t]
      BY <1>1, <2>7 DEF VerifyAt, Instr
    <3>. QED  BY <1>2, <2>2, <2>7, <3>1
  <2>8. Isolated(t)' /\ VerifiedSoFar(t)'
    <3> HIDE DEF x, new
    <3>. QED  BY <1>1, <1>2, <1>3, <2>1, <2>2, <2>6, <2>7, WriteStep DEF x
  <2>9. Phase(t)' /\ Running(t)'
    BY <2>2 DEF Phase, InCall, Running
  <2>10. WorkClean(t)'
    <3>1. ASSUME NEW a \in Accounts PROVE Clean(work'[t][a])
      <4>1. CASE a = x
        BY <4>1, <1>3, <2>2 DEF Clean, Fresh
      <4>2. CASE a # x
        <5>1. Clean(work[t][a])
          BY <1>1 DEF IInv, SlotInv, WorkClean
        <5>. QED  BY <4>2, <5>1, <2>2
      <4>. QED  BY <4>1, <4>2
    <3>. QED  BY <3>1 DEF WorkClean, Clean, Sealed, Holds
  <2>11. Outcome(t)'
    BY <1>1, <2>2 DEF IInv, SlotInv, Outcome, VerifyAt
  <2>. QED  BY <1>1, <2>2, <2>4, <2>5, <2>8, <2>9, <2>10, <2>11, LocalStep DEF SlotInv
<1>. QED  BY <1>4, <1>5 DEF Allocate

LEMMA RejectStep ==
  ASSUME IInv, NEW t \in Slots,
         RejectInvocation(t) \/ RejectCreate(t) \/ RejectVerify(t) \/ OutOfCompute(t)
  PROVE  IInv'
<1>1. Running(t)
  BY DEF RejectInvocation, RejectCreate, RejectVerify, OutOfCompute, Running, Invoked, Given,
     Owned, Sized, Creating, Signed, Writable, Keyed, Vacant, Verifying, HasSig, Opened
<1>2. \E e \in Errors : Fail(t, e)
  BY DEF RejectInvocation, RejectCreate, RejectVerify, OutOfCompute, Errors
<1>. QED  BY <1>1, <1>2, FailStep

LEMMA DispatchStep ==
  ASSUME IInv, NEW t \in Slots, Dispatch(t)
  PROVE  IInv'
<1>1. /\ pc[t] = "next" /\ More(t) /\ Instr(t).op = "invoke" /\ Running(t)
      /\ Instr(t).account # NoAccount /\ Acc(t).owner = "program" /\ Acc(t).size = "key"
  BY DEF Dispatch, Sized, Owned, Given, Invoked, Running
<1>2. Instr(t).account \in Accounts
  BY <1>1, InstrType DEF IInv, Instruction
<1>3. CASE Goto(t, "create") /\ Instr(t).tag \in {0, 2}
  <2>1. /\ pc'[t] = "create" /\ Instr(t)' = Instr(t) /\ Acc(t)' = Acc(t) /\ More(t)' = More(t)
    BY <1>3 DEF Goto, Instr, Acc, More, IInv, TypeOK
  <2>2. Phase(t)'
    BY <1>1, <1>2, <1>3, <2>1 DEF Phase, InCall
  <2>. QED  BY <1>1, <1>3, <2>2, GotoStep
<1>4. CASE Goto(t, "verify") /\ Instr(t).tag \in {1, 3}
  <2>1. /\ pc'[t] = "verify" /\ Instr(t)' = Instr(t) /\ Acc(t)' = Acc(t) /\ More(t)' = More(t)
    BY <1>4 DEF Goto, Instr, Acc, More, IInv, TypeOK
  <2>2. Phase(t)'
    BY <1>1, <1>2, <1>4, <2>1 DEF Phase, InCall
  <2>. QED  BY <1>1, <1>4, <2>2, GotoStep
<1>. QED  BY <1>3, <1>4 DEF Dispatch

LEMMA OpenStep ==
  ASSUME IInv, NEW t \in Slots, Open(t)
  PROVE  IInv'
<1>1. /\ pc[t] = "verify" /\ Running(t) /\ Goto(t, "verdict")
      /\ Instr(t).payload.kind = "signature" /\ Acc(t).header = INITIALIZED[Turbo(t)]
  BY DEF Open, Opened, HasSig, Verifying, Running
<1>2. /\ pc'[t] = "verdict" /\ Instr(t)' = Instr(t) /\ Acc(t)' = Acc(t)
      /\ More(t)' = More(t) /\ Turbo(t)' = Turbo(t)
  BY <1>1 DEF Goto, Instr, Acc, More, Turbo, IInv, TypeOK
<1>3. Phase(t)'
  BY <1>1, <1>2 DEF IInv, SlotInv, Phase, InCall
<1>. QED  BY <1>1, <1>3, GotoStep

LEMMA BeginPrepareStep ==
  ASSUME IInv, NEW t \in Slots, BeginPrepare(t)
  PROVE  IInv'
<1> USE DEF BeginPrepare
<1>1. /\ pc[t] = "create" /\ Running(t) /\ Acc(t).header = "zero"
      /\ Instr(t).account \in tx[t].signers /\ Instr(t).account \in tx[t].writable
      /\ Instr(t).payload.kind = "key"
  BY DEF Vacant, Keyed, Writable, Signed, Creating, Running
<1>2. TypeOK'
  BY KAssumption DEF IInv, TypeOK
<1>3. Local(t)
  BY DEF IInv, TypeOK, Local, Frame
<1>4. /\ pc'[t] = "prepare" /\ row'[t] = 0 /\ Running(t)'
      /\ Instr(t)' = Instr(t) /\ Acc(t)' = Acc(t) /\ More(t)' = More(t)
  BY DEF Instr, Acc, More, Running, IInv, TypeOK
<1>5. Phase(t)'
  BY <1>1, <1>4 DEF IInv, SlotInv, Phase, InCall, Rows
<1>6. WorkClean(t)'
  BY <1>1 DEF IInv, SlotInv, WorkClean, Clean, Sealed, Holds
<1>7. Isolated(t)'
  BY <1>1, <1>4 DEF IInv, SlotInv, Isolated, Authorises, Initialised, Named
<1>8. VerifiedSoFar(t)'
  BY <1>1, <1>4 DEF IInv, SlotInv, VerifiedSoFar, Verified, VerifyAt, Initialised
<1>9. Outcome(t)'
  BY <1>1, <1>4 DEF IInv, SlotInv, Outcome, VerifyAt
<1>. QED  BY <1>1, <1>2, <1>3, <1>4, <1>5, <1>6, <1>7, <1>8, <1>9, LocalStep DEF SlotInv

\* The account create works on: locked for writing, signed for, not
\* initialised, and of known type.
LEMMA Preparing ==
  ASSUME IInv, NEW t \in Slots, pc[t] \in {"prepare", "seal"}
  PROVE  LET x == Instr(t).account IN
         /\ Running(t) /\ InCall(t) /\ x \in Accounts
         /\ x \in Named(tx[t]) /\ x \in tx[t].writable /\ x \in tx[t].signers
         /\ Acc(t) \in Account /\ Acc(t) = work[t][x] /\ ~Initialised(work[t][x])
         /\ Acc(t).owner = "program" /\ Acc(t).size = "key" /\ Acc(t).header = "zero"
         /\ Prepared(t) \in Source /\ Instr(t).tag \in {0, 2}
<1>1. SlotInv(t) /\ TypeOK
  BY DEF IInv
<1>2. Phase(t) /\ Running(t) /\ InCall(t) /\ More(t)
  BY <1>1 DEF SlotInv, Phase, Running, InCall
<1>3. Instr(t).account \in Named(tx[t]) /\ Instr(t) \in Instruction
  BY <1>1, <1>2, InstrType
<1>4. Instr(t).account \in Accounts /\ Instr(t).op = "invoke" /\ Instr(t).payload.kind = "key"
  BY <1>2 DEF Phase
<1>5. Instr(t).payload.key \in Keys
  BY <1>3, <1>4 DEF Instruction, Payload
<1>6. Prepared(t) \in Source
  <2>1. Turbo(t) \in BOOLEAN
    BY DEF Turbo
  <2>. QED  BY <1>5, <2>1 DEF Prepared, Source
<1>7. Acc(t) \in Account
  BY <1>1, <1>4 DEF TypeOK, Acc
<1>. QED  BY <1>2, <1>3, <1>4, <1>6, <1>7 DEF Phase, Acc, Initialised

LEMMA PrepareRowStep ==
  ASSUME IInv, NEW t \in Slots, PrepareRow(t)
  PROVE  IInv'
<1> DEFINE x == Instr(t).account
           new == [Acc(t) EXCEPT !.rows = [@ EXCEPT ![row[t]] = Prepared(t)]]
<1> USE DEF PrepareRow
<1>1. /\ Running(t) /\ InCall(t) /\ x \in Accounts
      /\ x \in Named(tx[t]) /\ x \in tx[t].writable
      /\ Acc(t) \in Account /\ Acc(t) = work[t][x] /\ ~Initialised(work[t][x])
      /\ Acc(t).owner = "program" /\ Acc(t).size = "key" /\ Acc(t).header = "zero"
      /\ Prepared(t) \in Source
  BY Preparing
<1>2. /\ row[t] \in Rows /\ row[t] + 1 \in 0 .. K
  BY KAssumption DEF LastRow, Rows, IInv, TypeOK
<1>3. new \in Account
  BY <1>1 DEF Account, Content
<1>4. /\ work'[t] = [work[t] EXCEPT ![x] = new] /\ work[t] \in [Accounts -> Account]
      /\ work'[t][x] = new /\ \A a \in Accounts : a # x => work'[t][a] = work[t][a]
  BY <1>1 DEF IInv, TypeOK
<1>5. TypeOK'
  <2>1. work' \in [Slots -> [Accounts -> Account]]
    <3>1. work' = [work EXCEPT ![t] = [work[t] EXCEPT ![x] = new]]
      BY <1>1 DEF IInv, TypeOK
    <3>. QED  BY <3>1, <1>1, <1>3 DEF IInv, TypeOK
  <2>. QED  BY <2>1, <1>2 DEF IInv, TypeOK
<1>6. Local(t)
  BY DEF IInv, TypeOK, Local, Frame
<1>7. /\ pc'[t] = "prepare" /\ ip' = ip /\ tx' = tx /\ store' = store /\ outcome' = outcome
      /\ row'[t] = row[t] + 1 /\ Instr(t)' = Instr(t) /\ More(t)' = More(t)
      /\ Prepared(t)' = Prepared(t) /\ Running(t)' /\ Acc(t)' = new
  BY <1>4 DEF Instr, More, Prepared, Turbo, Running, Acc, IInv, TypeOK
<1>8. /\ new.header = "zero" /\ new.owner = "program" /\ new.size = "key"
      /\ \A r \in Rows : r < row[t] + 1 => new.rows[r] = Prepared(t)
  <2>1. \A r \in Rows : r < row[t] => Acc(t).rows[r] = Prepared(t)
    BY DEF IInv, SlotInv, Phase
  <2>2. Acc(t).rows \in [Rows -> Content]
    BY <1>1 DEF Account
  <2>3. \A r \in Rows : r < row[t] + 1 => r < row[t] \/ r = row[t]
    BY <1>2 DEF Rows
  <2>4. new.rows = [Acc(t).rows EXCEPT ![row[t]] = Prepared(t)]
    BY <1>1 DEF Account
  <2>5. /\ new.header = "zero" /\ new.owner = "program" /\ new.size = "key"
    BY <1>1 DEF Account
  <2>. QED  BY <1>2, <2>1, <2>2, <2>3, <2>4, <2>5
<1> HIDE DEF new, x
<1>9. Phase(t)'
  BY <1>7, <1>8 DEF IInv, SlotInv, Phase, InCall
<1>10. Isolated(t)' /\ VerifiedSoFar(t)'
  <2>1. ~Initialised(new)
    BY <1>8 DEF Initialised
  <2>. QED  BY <1>1, <1>3, <1>4, <1>7, <2>1, WriteStep
<1>11. WorkClean(t)'
  <2>1. ASSUME NEW a \in Accounts, a # x PROVE Clean(work'[t][a])
    BY <2>1, <1>4, <1>7 DEF IInv, SlotInv, WorkClean, x
  <2>2. pc'[t] \in {"prepare", "seal"} /\ x = Instr(t)'.account /\ work'[t][x].header = "zero"
    BY <1>4, <1>7, <1>8 DEF x
  <2>. QED  BY <2>1, <2>2 DEF WorkClean, Clean, Sealed, Holds
<1>12. Outcome(t)'
  BY <1>1, <1>7 DEF IInv, SlotInv, Outcome, VerifyAt
<1>. QED  BY <1>1, <1>5, <1>6, <1>7, <1>9, <1>10, <1>11, <1>12, LocalStep DEF SlotInv

LEMMA PrepareHashStep ==
  ASSUME IInv, NEW t \in Slots, PrepareHash(t)
  PROVE  IInv'
<1> DEFINE x == Instr(t).account
           new == [Acc(t) EXCEPT !.tr = Prepared(t)]
<1> USE DEF PrepareHash
<1>1. /\ Running(t) /\ InCall(t) /\ x \in Accounts
      /\ x \in Named(tx[t]) /\ x \in tx[t].writable
      /\ Acc(t) \in Account /\ Acc(t) = work[t][x] /\ ~Initialised(work[t][x])
      /\ Acc(t).owner = "program" /\ Acc(t).size = "key" /\ Acc(t).header = "zero"
      /\ Prepared(t) \in Source
  BY Preparing
<1>2. new \in Account
  BY <1>1 DEF Account, Content
<1>3. /\ work'[t] = [work[t] EXCEPT ![x] = new] /\ work[t] \in [Accounts -> Account]
      /\ work'[t][x] = new /\ \A a \in Accounts : a # x => work'[t][a] = work[t][a]
  BY <1>1 DEF IInv, TypeOK
<1>4. TypeOK'
  <2>1. work' \in [Slots -> [Accounts -> Account]]
    <3>1. work' = [work EXCEPT ![t] = [work[t] EXCEPT ![x] = new]]
      BY <1>1 DEF IInv, TypeOK
    <3>. QED  BY <3>1, <1>1, <1>2 DEF IInv, TypeOK
  <2>. QED  BY <2>1, KAssumption DEF IInv, TypeOK
<1>5. Local(t)
  BY DEF IInv, TypeOK, Local, Frame
<1>6. /\ pc'[t] = "seal" /\ ip' = ip /\ tx' = tx /\ store' = store /\ outcome' = outcome
      /\ Instr(t)' = Instr(t) /\ More(t)' = More(t)
      /\ Prepared(t)' = Prepared(t) /\ Running(t)' /\ Acc(t)' = new
  BY <1>3 DEF Instr, More, Prepared, Turbo, Running, Acc, IInv, TypeOK
<1>7. /\ new.header = "zero" /\ new.owner = "program" /\ new.size = "key"
      /\ new.tr = Prepared(t) /\ \A r \in Rows : new.rows[r] = Prepared(t)
  <2>1. \A r \in Rows : r < row[t] => Acc(t).rows[r] = Prepared(t)
    BY DEF IInv, SlotInv, Phase
  <2>2. \A r \in Rows : r < row[t]
    BY KAssumption DEF LastRow, Rows
  <2>. QED  BY <1>1, <2>1, <2>2 DEF Account
<1> HIDE DEF new, x
<1>8. Phase(t)'
  BY <1>6, <1>7 DEF IInv, SlotInv, Phase, InCall
<1>9. Isolated(t)' /\ VerifiedSoFar(t)'
  <2>1. ~Initialised(new)
    BY <1>7 DEF Initialised
  <2>. QED  BY <1>1, <1>2, <1>3, <1>6, <2>1, WriteStep
<1>10. WorkClean(t)'
  <2>1. ASSUME NEW a \in Accounts, a # x PROVE Clean(work'[t][a])
    BY <2>1, <1>3, <1>6 DEF IInv, SlotInv, WorkClean, x
  <2>2. pc'[t] \in {"prepare", "seal"} /\ x = Instr(t)'.account /\ work'[t][x].header = "zero"
    BY <1>3, <1>6, <1>7 DEF x
  <2>. QED  BY <2>1, <2>2 DEF WorkClean, Clean, Sealed, Holds
<1>11. Outcome(t)'
  BY <1>1, <1>6 DEF IInv, SlotInv, Outcome, VerifyAt
<1>. QED  BY <1>1, <1>4, <1>5, <1>6, <1>8, <1>9, <1>10, <1>11, LocalStep DEF SlotInv

\* The header goes over a complete key only.
LEMMA SealStep ==
  ASSUME IInv, NEW t \in Slots, Seal(t)
  PROVE  IInv'
<1>0. PICK x \in Accounts : x = Instr(t).account
  BY Preparing DEF Seal
<1> DEFINE new == [Acc(t) EXCEPT !.header = INITIALIZED[Turbo(t)]]
<1> USE DEF Seal, Ok
<1>1. /\ Running(t) /\ InCall(t) /\ x \in Accounts
      /\ x \in Named(tx[t]) /\ x \in tx[t].writable /\ x \in tx[t].signers
      /\ Acc(t) \in Account /\ Acc(t) = work[t][x] /\ ~Initialised(work[t][x])
      /\ Acc(t).owner = "program" /\ Acc(t).size = "key"
      /\ Prepared(t) \in Source /\ Instr(t).tag \in {0, 2}
  BY <1>0, Preparing
<1>2. new \in Account
  BY <1>1 DEF Account, Headers, INITIALIZED, Turbo
<1>3. /\ work'[t] = [work[t] EXCEPT ![x] = new] /\ work[t] \in [Accounts -> Account]
      /\ work'[t][x] = new /\ \A a \in Accounts : a # x => work'[t][a] = work[t][a]
  BY <1>0, <1>1 DEF IInv, TypeOK
<1>4. TypeOK'
  <2>1. work' \in [Slots -> [Accounts -> Account]]
    <3>1. work' = [work EXCEPT ![t] = [work[t] EXCEPT ![x] = new]]
      BY <1>0, <1>1 DEF IInv, TypeOK
    <3>2. [work[t] EXCEPT ![x] = new] \in [Accounts -> Account]
      BY <1>1, <1>2, <1>3
    <3>. QED  BY <3>1, <3>2 DEF IInv, TypeOK
  <2>. QED  BY <2>1 DEF IInv, TypeOK
<1>5. Local(t)
  BY DEF IInv, TypeOK, Local, Frame
<1>6. /\ pc'[t] = "next" /\ ip'[t] = ip[t] + 1 /\ ip[t] \in Nat
      /\ tx' = tx /\ store' = store /\ outcome' = outcome /\ Running(t)'
  BY DEF Running, IInv, TypeOK
<1>7. /\ new.size = "key" /\ new.header = INITIALIZED[Turbo(t)]
      /\ new.tr = Prepared(t) /\ \A r \in Rows : new.rows[r] = Prepared(t)
  BY <1>1 DEF Account, IInv, SlotInv, Phase
<1>8. Sealed(new)
  <2>1. Prepared(t)[2] = Turbo(t)
    BY DEF Prepared
  <2>. QED  BY <1>1, <1>7, <2>1 DEF Sealed, Holds
<1> HIDE DEF new
<1>9. Phase(t)'
  BY <1>6 DEF Phase, InCall
<1>10. Isolated(t)' /\ VerifiedSoFar(t)'
  <2>1. Authorises(t, x)'
    <3>1. /\ ip[t] \in DOMAIN tx[t].instrs /\ Instr(t) = tx[t].instrs[ip[t]]
          /\ Instr(t).op = "invoke" /\ Instr(t).payload.kind = "key"
      BY <1>1, InstrType DEF IInv, SlotInv, Phase, Instr
    <3>2. new.tr = <<Instr(t).payload.key, Instr(t).tag = 2>>
      <4>1. Turbo(t) = (Instr(t).tag = 2)
        BY <1>1 DEF Turbo
      <4>. QED  BY <1>7, <4>1 DEF Prepared
    <3>3. /\ x \in tx'[t].signers /\ tx'[t].instrs[ip[t]].account = x
          /\ work'[t][x].tr = <<tx'[t].instrs[ip[t]].payload.key, tx'[t].instrs[ip[t]].tag = 2>>
      BY <1>0, <1>1, <1>3, <1>6, <3>1, <3>2
    <3>4. Registers(tx'[t], x, work'[t][x].tr)
      BY <1>6, <3>1, <3>3 DEF Registers
    <3>. QED  BY <3>3, <3>4 DEF Authorises, Registers
  <2>2. ASSUME NEW n \in DOMAIN tx[t].instrs, n < ip'[t], VerifyAt(tx[t], n)
        PROVE  n < ip[t]
    <3>1. n # ip[t]
      <4>1. tx[t].instrs[n].tag \in {1, 3}
        BY <2>2 DEF VerifyAt
      <4>2. tx[t].instrs[ip[t]].tag \in {0, 2}
        BY <1>1 DEF Instr
      <4>. QED  BY <4>1, <4>2
    <3>2. tx[t].instrs \in Seq(Instruction)
      BY InstrsSeq DEF IInv
    <3>. QED  BY <1>6, <2>2, <3>1, <3>2
  <2>. QED  BY <1>1, <1>2, <1>3, <1>6, <2>1, <2>2, WriteStep
<1>11. WorkClean(t)'
  <2>1. \A a \in Accounts : Clean(work'[t][a])
    <3>1. ASSUME NEW a \in Accounts, a # x PROVE Clean(work[t][a])
      BY <1>0, <3>1 DEF IInv, SlotInv, WorkClean
    <3>2. Clean(new)
      BY <1>8 DEF Clean
    <3>. QED  BY <1>3, <3>1, <3>2
  <2>. QED  BY <2>1 DEF WorkClean, Clean, Sealed, Holds
<1>12. Outcome(t)'
  BY <1>1, <1>6 DEF IInv, SlotInv, Outcome, VerifyAt, Running
<1>. QED  BY <1>1, <1>4, <1>5, <1>6, <1>9, <1>10, <1>11, <1>12, LocalStep DEF SlotInv

\* A verification that succeeds is recorded on the account it read.
LEMMA VerdictStep ==
  ASSUME IInv, NEW t \in Slots, Verdict(t)
  PROVE  IInv'
<1>1. pc[t] = "verdict" /\ Running(t) /\ SlotInv(t) /\ Phase(t) /\ InCall(t)
  BY DEF Verdict, Running, InCall, IInv, SlotInv
<1>2. CASE Fail(t, "Custom(1)")
  BY <1>1, <1>2, FailStep DEF Errors
<1>3. CASE /\ Genuine(Acc(t), Turbo(t), Instr(t).payload)
           /\ UNCHANGED <<work, row>> /\ Ok(t)
  <2> USE DEF Ok
  <2>1. TypeOK'
    BY <1>3 DEF IInv, TypeOK
  <2>2. Local(t)
    BY <1>3 DEF IInv, TypeOK, Local, Frame
  <2>3. /\ pc'[t] = "next" /\ ip'[t] = ip[t] + 1 /\ ip[t] \in Nat /\ Running(t)'
        /\ tx' = tx /\ store' = store /\ work' = work /\ outcome' = outcome
    BY <1>3 DEF IInv, TypeOK, Running
  <2>4. Phase(t)'
    BY <2>3 DEF Phase, InCall
  <2>5. WorkClean(t)'
    BY <1>1, <2>3 DEF SlotInv, WorkClean, Clean, Sealed, Holds
  <2>6. Isolated(t)'
    BY <1>1, <2>3 DEF SlotInv, Isolated, Authorises, Initialised, Named
  <2>7. VerifiedSoFar(t)'
    <3>1. ASSUME NEW n \in DOMAIN tx[t].instrs, n < ip[t] + 1, VerifyAt(tx[t], n)
          PROVE  Verified(t, n)
      <4>1. CASE n = ip[t]
        <5>1. Instr(t) = tx[t].instrs[n]
          BY <4>1 DEF Instr
        <5>2. /\ Acc(t).header = INITIALIZED[Turbo(t)] /\ Acc(t).owner = "program"
              /\ Acc(t).tr = Instr(t).payload.signer
              /\ Instr(t).payload.kind = "signature" /\ Instr(t).account \in Accounts
          BY <1>1, <1>3 DEF Phase, Genuine
        <5>3. INITIALIZED[Turbo(t)] # "zero"
          BY DEF INITIALIZED, Turbo
        <5>. QED  BY <5>1, <5>2, <5>3 DEF Verified, Initialised, Acc
      <4>2. CASE n # ip[t]
        <5>1. tx[t].instrs \in Seq(Instruction)
          BY InstrsSeq DEF IInv
        <5>2. n < ip[t]
          BY <2>3, <3>1, <4>2, <5>1
        <5>. QED  BY <1>1, <3>1, <5>2 DEF SlotInv, VerifiedSoFar
      <4>. QED  BY <4>1, <4>2
    <3>. QED  BY <2>3, <3>1 DEF VerifiedSoFar, Verified, VerifyAt, Initialised
  <2>8. Outcome(t)'
    BY <1>1, <2>3 DEF SlotInv, Outcome, VerifyAt
  <2>. QED  BY <1>1, <2>1, <2>2, <2>3, <2>4, <2>5, <2>6, <2>7, <2>8, LocalStep DEF SlotInv
<1>. QED  BY <1>2, <1>3 DEF Verdict

-----------------------------------------------------------------------------
LEMMA InitInv == Init => IInv
<1> SUFFICES ASSUME Init PROVE IInv
  OBVIOUS
<1> USE DEF Init
<1>1. TypeOK
  <2>1. NoWork \in [Accounts -> Account]
    BY DEF NoWork, Fresh, Account, Sizes, Headers, Content
  <2>. QED  BY <2>1, KAssumption, LedgerAssumption DEF TypeOK
<1>2. \A a \in Accounts : Clean(store[a])
  BY LedgerAssumption DEF Clean
<1>3. \A t \in Slots : pc[t] = "free" /\ ~Running(t) /\ ~InCall(t)
  BY DEF Running, InCall
<1>4. Exclusive
  BY <1>3 DEF Exclusive
<1>5. ASSUME NEW t \in Slots PROVE SlotInv(t)
  <2>1. Phase(t)
    BY <1>3 DEF Phase
  <2>2. WorkClean(t)
    BY DEF WorkClean, Clean, NoWork, Fresh
  <2>3. Isolated(t) /\ VerifiedSoFar(t) /\ Outcome(t)
    BY <1>3 DEF Isolated, VerifiedSoFar, Outcome
  <2>. QED  BY <2>1, <2>2, <2>3 DEF SlotInv
<1>. QED  BY <1>1, <1>2, <1>4, <1>5 DEF IInv

LEMMA NextInv == IInv /\ [Next]_vars => IInv'
<1> SUFFICES ASSUME IInv, [Next]_vars PROVE IInv'
  OBVIOUS
<1>1. ASSUME NEW t \in Slots, Submit(t) PROVE IInv'
  BY <1>1, SubmitStep
<1>2. ASSUME NEW t \in Slots, Begin(t) PROVE IInv'
  BY <1>2, BeginStep
<1>3. ASSUME NEW t \in Slots, Step(t) PROVE IInv'
  <2>1. CASE Commit(t)
    BY <2>1, CommitStep
  <2>2. CASE Allocate(t)
    BY <2>2, AllocateStep
  <2>3. CASE RejectInvocation(t) \/ RejectCreate(t) \/ RejectVerify(t) \/ OutOfCompute(t)
    BY <2>3, RejectStep
  <2>4. CASE Dispatch(t)
    BY <2>4, DispatchStep
  <2>5. CASE BeginPrepare(t)
    BY <2>5, BeginPrepareStep
  <2>6. CASE PrepareRow(t)
    BY <2>6, PrepareRowStep
  <2>7. CASE PrepareHash(t)
    BY <2>7, PrepareHashStep
  <2>8. CASE Seal(t)
    BY <2>8, SealStep
  <2>9. CASE Open(t)
    BY <2>9, OpenStep
  <2>10. CASE Verdict(t)
    BY <2>10, VerdictStep
  <2>. QED  BY <1>3, <2>1, <2>2, <2>3, <2>4, <2>5, <2>6, <2>7, <2>8, <2>9, <2>10 DEF Step
<1>4. CASE UNCHANGED vars
  <2> USE <1>4 DEF vars
  <2>1. TypeOK' /\ (\A a \in Accounts : Clean(store[a])')
    BY DEF IInv, TypeOK, Clean, Sealed, Holds
  <2>2. Exclusive'
    BY DEF IInv, Exclusive, Running, Conflict, Named
  <2>3. \A t \in Slots : SlotInv(t)'
    BY FrameStep DEF IInv, Frame
  <2>. QED  BY <2>1, <2>2, <2>3 DEF IInv
<1>. QED  BY <1>1, <1>2, <1>3, <1>4 DEF Next

LEMMA Invariance == Spec => []IInv
  BY InitInv, NextInv, PTL DEF Spec

\* The accounts, the program counters and the private copies keep their types
\* through every handler of the program and every event of the runtime.
THEOREM TypeCorrect == Spec => []TypeOK
<1>1. IInv => TypeOK
  BY DEF IInv
<1>. QED  BY <1>1, Invariance, PTL

\* Key accounts are blank or hold one whole key under the header of its mode,
\* and no header is ever written over an incomplete key.
THEOREM KeysWhole == Spec => []WholeOrBlank
<1>1. ASSUME IInv PROVE WholeOrBlank
  <2>1. ASSUME NEW a \in Accounts, store[a].owner = "program"
        PROVE  \/ store[a] = Fresh("program", store[a].size)
               \/ \E src \in Source : Holds(store[a], src)
    BY <1>1, <2>1 DEF IInv, Clean, Sealed
  <2>2. ASSUME NEW t \in Slots, NEW a \in Accounts, Initialised(work[t][a])
        PROVE  \E src \in Source : Holds(work[t][a], src)
    <3>1. Clean(work[t][a])
      BY <1>1, <2>2 DEF IInv, SlotInv, WorkClean, Initialised
    <3>2. work[t][a] # Fresh("program", work[t][a].size)
      BY <2>2 DEF Initialised, Fresh
    <3>. QED  BY <2>2, <3>1, <3>2 DEF Clean, Sealed, Initialised
  <2>. QED  BY <2>1, <2>2 DEF WholeOrBlank
<1>. QED  BY <1>1, Invariance, PTL

\* verify<TURBO> never runs the library on anything but a whole key prepared
\* by create<TURBO>.
THEOREM OwnMode == Spec => []VerdictOnOwnMode
<1>1. ASSUME IInv PROVE VerdictOnOwnMode
  <2>1. SUFFICES ASSUME NEW t \in Slots, pc[t] = "verdict"
                 PROVE  \E k \in Keys : Holds(Acc(t), <<k, Turbo(t)>>)
    BY DEF VerdictOnOwnMode
  <2>2. /\ Acc(t).header = INITIALIZED[Turbo(t)] /\ Acc(t).owner = "program"
        /\ Instr(t).account \in Accounts /\ Acc(t) = work[t][Instr(t).account]
    BY <1>1, <2>1 DEF IInv, SlotInv, Phase, InCall, Acc
  <2>3. INITIALIZED[Turbo(t)] # "zero"
    BY DEF INITIALIZED, Turbo
  <2>4. Clean(Acc(t))
    BY <1>1, <2>1, <2>2 DEF IInv, SlotInv, WorkClean
  <2>5. PICK src \in Source : Holds(Acc(t), src)
    BY <2>2, <2>3, <2>4 DEF Clean, Sealed, Fresh
  <2>6. PICK k \in Keys, turbo \in BOOLEAN : src = <<k, turbo>>
    BY DEF Source
  <2>7. Turbo(t) \in BOOLEAN /\ INITIALIZED[turbo] = INITIALIZED[Turbo(t)]
    <3>1. Acc(t).header = INITIALIZED[turbo]
      BY <2>5, <2>6 DEF Holds
    <3>2. Turbo(t) \in BOOLEAN
      BY DEF Turbo
    <3>. QED  BY <2>2, <3>1, <3>2, Zenon
  <2>8. turbo = Turbo(t)
    BY <2>7 DEF INITIALIZED
  <2>. QED  BY <2>5, <2>6, <2>8
<1>. QED  BY <1>1, Invariance, PTL

-----------------------------------------------------------------------------
\* A step of a running transaction that does not end it keeps every slot's
\* outcome; only Commit changes the store or commits.
LEMMA OnlyCommitCommits ==
  ASSUME IInv, [Next]_vars
  PROVE  \/ \E t \in Slots : Commit(t)
         \/ /\ store' = store
            /\ \A u \in Slots : (outcome'[u] = "committed") <=> (outcome[u] = "committed")
            /\ \A u \in Slots : outcome[u] = "committed" => tx'[u] = tx[u]
<1>1. CASE UNCHANGED vars
  BY <1>1 DEF vars
<1>2. ASSUME NEW t \in Slots, Submit(t) \/ Begin(t)
      PROVE  /\ store' = store /\ outcome' = outcome
             /\ \A u \in Slots : outcome[u] = "committed" => tx'[u] = tx[u]
  <2>1. outcome[t] = "pending"
    BY <1>2 DEF Submit, Begin, IInv, SlotInv, Outcome
  <2>2. CASE Begin(t)
    BY <2>2 DEF Begin
  <2>3. CASE Submit(t)
    BY <2>1, <2>3 DEF Submit, IInv, TypeOK
  <2>. QED  BY <1>2, <2>2, <2>3
<1>3. ASSUME NEW t \in Slots, Step(t), ~Commit(t)
      PROVE  /\ store' = store /\ tx' = tx
             /\ \A u \in Slots : (outcome'[u] = "committed") <=> (outcome[u] = "committed")
  <2>1. CASE \E e \in Errors : Fail(t, e) /\ Running(t)
    <3>1. PICK e \in Errors : Fail(t, e) /\ Running(t)
      BY <2>1
    <3>2. outcome[t] = "pending" /\ e # "committed"
      BY <3>1 DEF IInv, SlotInv, Outcome, Running, Errors
    <3>. QED  BY <3>1, <3>2 DEF Fail, End, IInv, TypeOK
  <2>2. CASE Ok(t)
    BY <2>2 DEF Ok
  <2>3. CASE Dispatch(t) \/ Open(t) \/ BeginPrepare(t) \/ PrepareRow(t) \/ PrepareHash(t)
    BY <2>3 DEF Dispatch, Open, Goto, BeginPrepare, PrepareRow, PrepareHash
  <2>4. CASE RejectInvocation(t) \/ RejectCreate(t) \/ RejectVerify(t) \/ OutOfCompute(t)
    <3>1. Running(t)
      BY <2>4 DEF RejectInvocation, RejectCreate, RejectVerify, OutOfCompute, Running, Invoked,
         Given, Owned, Sized, Creating, Signed, Writable, Keyed, Vacant, Verifying, HasSig, Opened
    <3>2. \E e \in Errors : Fail(t, e)
      BY <2>4 DEF RejectInvocation, RejectCreate, RejectVerify, OutOfCompute, Errors
    <3>. QED  BY <2>1, <3>1, <3>2
  <2>5. CASE Allocate(t) \/ Verdict(t) \/ Seal(t)
    <3>1. Running(t)
      BY <2>5 DEF Allocate, Verdict, Seal, Running
    <3>2. Ok(t) \/ \E e \in Errors : Fail(t, e)
      BY <2>5 DEF Allocate, Verdict, Seal, Errors
    <3>. QED  BY <2>1, <2>2, <3>1, <3>2
  <2>. QED  BY <1>3, <2>3, <2>4, <2>5 DEF Step
<1>. QED  BY <1>1, <1>2, <1>3 DEF Next

\* A key account is bound by a transaction it signs and that carries the key.
THEOREM SignerRegisters == Spec => RegisteredBySigner
<1>1. ASSUME IInv, [Next]_vars PROVE BoundBySigner
  <2>1. SUFFICES ASSUME NEW a \in Accounts,
                        Initialised(store'[a]), ~Initialised(store[a])
                 PROVE  \E t \in Slots :
                          /\ outcome[t] = "pending" /\ outcome'[t] = "committed"
                          /\ a \in tx[t].signers
                          /\ Registers(tx[t], a, store'[a].tr)
    BY DEF BoundBySigner
  <2>2. PICK t \in Slots : Commit(t)
    BY <1>1, <2>1, OnlyCommitCommits DEF Initialised
  <2>3. /\ Running(t) /\ outcome[t] = "pending" /\ outcome'[t] = "committed"
    BY <1>1, <2>2, CommitFacts DEF IInv, TypeOK, SlotInv, Outcome, Running, Commit, End
  <2>4. store'[a] = work[t][a] /\ a \in Named(tx[t])
    BY <2>1, <2>2 DEF Commit
  <2>5. Authorises(t, a)
    BY <1>1, <2>1, <2>3, <2>4 DEF IInv, SlotInv, Isolated
  <2>. QED  BY <2>3, <2>4, <2>5 DEF Authorises
<1>2. IInv /\ [Next]_vars => [BoundBySigner]_vars
  BY <1>1
<1>. QED  BY <1>2, Invariance, PTL DEF Spec, RegisteredBySigner

\* A slot whose transaction fails in a step fails by Fail.
LEMMA FailingStep ==
  ASSUME IInv, [Next]_vars, NEW t \in Slots, outcome[t] = "pending", outcome'[t] \in Errors
  PROVE  \/ OutOfCompute(t) \/ Allocate(t)
         \/ RejectInvocation(t) \/ RejectCreate(t) \/ RejectVerify(t) \/ Verdict(t)
<1>0. "pending" \notin Errors /\ "committed" \notin Errors
  BY DEF Errors
<1>1. PICK u \in Slots : Submit(u) \/ Begin(u) \/ Step(u)
  BY <1>0 DEF Next, vars
<1>2. outcome' # outcome
  BY <1>0
<1>3. ~Submit(u) /\ ~Begin(u)
  BY <1>2 DEF Submit, Begin
<1>4. /\ ~Dispatch(u) /\ ~BeginPrepare(u) /\ ~PrepareRow(u) /\ ~PrepareHash(u)
      /\ ~Seal(u) /\ ~Open(u)
  BY <1>2 DEF Dispatch, Open, Goto, BeginPrepare, PrepareRow, PrepareHash, Seal, Ok
<1>5. u = t
  BY <1>0, <1>1, <1>3, <1>4 DEF Step, Commit, OutOfCompute, Allocate, RejectInvocation,
     RejectCreate, RejectVerify, Verdict, Fail, End, Ok, IInv, TypeOK
<1>6. ~Commit(t)
  BY <1>0 DEF Commit, End, IInv, TypeOK
<1>. QED  BY <1>1, <1>3, <1>4, <1>5, <1>6 DEF Step

\* No good verification is turned down except for resources.
THEOREM GoodSignaturesPass == Spec => NoFalseRejection
<1>1. ASSUME IInv, [Next]_vars PROVE FailsForResources
  <2>1. SUFFICES ASSUME NEW t \in Slots, NEW a \in Accounts,
                        outcome[t] = "pending", outcome'[t] \in Errors,
                        VerifiesWell(tx[t], a), Initialised(work[t][a])
                 PROVE  \/ outcome'[t] = "ComputationalBudgetExceeded"
                        \/ outcome'[t] = "InvalidAccountData" /\ \E s \in DataStart : ~Aligned(s)
    BY DEF FailsForResources
  <2> DEFINE ins == tx[t].instrs[1]
  <2>2. /\ TypeOK /\ SlotInv(t) /\ tx[t].instrs \in Seq(Instruction)
    <3>1. TypeOK /\ SlotInv(t)
      BY <1>1 DEF IInv
    <3>2. tx[t].instrs \in Seq(Instruction)
      BY <3>1, InstrsSeq
    <3>. QED  BY <3>1, <3>2
  <2>3. /\ \/ OutOfCompute(t) \/ Allocate(t)
           \/ RejectInvocation(t) \/ RejectCreate(t) \/ RejectVerify(t) \/ Verdict(t)
    BY <1>1, <2>1, FailingStep
  <2>4. Running(t) /\ More(t)
    BY <2>2, <2>3 DEF RejectInvocation, RejectCreate, RejectVerify, OutOfCompute, Running,
       Invoked, Given, Owned, Sized, Creating, Signed, Writable, Keyed, Vacant, Verifying,
       HasSig, Opened, Allocate, Verdict, SlotInv, Phase, InCall
  <2>5. /\ ip[t] = 1 /\ Instr(t) = ins /\ DOMAIN tx[t].instrs = {1} /\ a \in Named(tx[t])
    <3>1. Len(tx[t].instrs) = 1 /\ ins.account = a
      BY <2>1 DEF VerifiesWell
    <3>2. DOMAIN tx[t].instrs = {1}
      BY <2>2, <3>1
    <3>3. ip[t] \in Nat \ {0} /\ ip[t] <= 1
      BY <2>2, <2>4, <3>1 DEF TypeOK, More
    <3>4. ip[t] = 1
      BY <3>3
    <3>. QED  BY <3>1, <3>2, <3>4, Zenon DEF Instr, Named
  <2>6. /\ ins.op = "invoke" /\ ins.account = a /\ ins.tag \in {1, 3}
        /\ ins.payload.kind = "signature" /\ ins.payload.signed = ins.payload.message
        /\ Holds(store[a], ins.payload.signer)
        /\ Turbo(t) = ins.payload.signer[2] /\ Acc(t) = work[t][a]
    <3>1. /\ ins.op = "invoke" /\ ins.account = a /\ ins.tag \in {1, 3}
          /\ ins.payload.kind = "signature" /\ ins.payload.signed = ins.payload.message
          /\ Holds(store[a], ins.payload.signer) /\ ins.payload.signer[2] = (ins.tag = 3)
      BY <2>1, Zenon DEF VerifiesWell, VerifyAt
    <3>2. Turbo(t) = (ins.tag \in {2, 3}) /\ Acc(t) = work[t][a]
      BY <2>5, <3>1, Zenon DEF Turbo, Acc
    <3>3. (ins.tag \in {2, 3}) = (ins.tag = 3)
      BY <3>1
    <3>. QED  BY <3>1, <3>2, <3>3, Zenon
  <2>7. Initialised(store[a]) /\ work[t][a] = store[a]
    <3>1. ~Registers(tx[t], a, work[t][a].tr)
      BY <2>5, <2>6 DEF Registers
    <3>. QED  BY <2>1, <2>2, <2>4, <2>5, <3>1 DEF SlotInv, Isolated, Authorises
  <2>8. Acc(t).owner = "program" /\ Acc(t).size = "key" /\ Acc(t).header = INITIALIZED[Turbo(t)]
    <3>1. Clean(store[a])
      BY <1>1 DEF IInv
    <3>2. store[a].owner = "program" /\ store[a].header # "zero"
      BY <2>7 DEF Initialised
    <3>3. store[a] # Fresh("program", store[a].size)
      BY <3>2 DEF Fresh
    <3>4. store[a].size = "key"
      BY <3>1, <3>2, <3>3 DEF Clean, Sealed
    <3>5. store[a].header = INITIALIZED[Turbo(t)]
      BY <2>6 DEF Holds
    <3>6. Acc(t) = store[a]
      BY <2>6, <2>7
    <3>. QED  BY <3>2, <3>4, <3>5, <3>6
  <2>9. /\ Genuine(Acc(t), Turbo(t), ins.payload)
    BY <2>6, <2>7 DEF Genuine, Holds
  <2>10. CASE OutOfCompute(t)
    BY <2>2, <2>10 DEF OutOfCompute, Fail, End, TypeOK
  <2>11. ~Allocate(t)
    <3>1. Instr(t).op = "invoke"
      BY <2>5, <2>6, Zenon
    <3>. QED  BY <3>1 DEF Allocate
  <2>12. ~RejectInvocation(t)
    <3>1. Instr(t).account # NoAccount /\ Instr(t).tag \in 0 .. 3
      BY <2>5, <2>6, NamesAssumption
    <3>2. RejectInvocation(t) =>
            \/ ~(Instr(t).account # NoAccount) \/ Acc(t).owner # "program"
            \/ Acc(t).size # "key" \/ Instr(t).tag \notin 0 .. 3
      BY Zenon DEF RejectInvocation, Sized, Owned, Given
    <3>. QED  BY <3>1, <3>2, <2>8, Zenon
  <2>13. ~RejectCreate(t)
    <3>1. pc[t] # "create"
      <4>1. pc[t] \in {"create", "prepare", "seal"} => Instr(t).tag \in {0, 2}
        BY <2>2, Zenon DEF SlotInv, Phase
      <4>2. Instr(t).tag \in {1, 3}
        BY <2>5, <2>6, Zenon
      <4>. QED  BY <4>1, <4>2
    <3>2. RejectCreate(t) => pc[t] = "create"
      BY Zenon DEF RejectCreate, Vacant, Keyed, Writable, Signed, Creating
    <3>. QED  BY <3>1, <3>2
  <2>14. CASE RejectVerify(t)
    <3>1. /\ \E s \in DataStart : ~Aligned(s)
          /\ Fail(t, "InvalidAccountData")
      <4>1. Instr(t).payload.kind = "signature" /\ Acc(t).header = INITIALIZED[Turbo(t)]
        BY <2>5, <2>6, <2>8
      <4>. QED  BY <2>14, <4>1, Zenon DEF RejectVerify, Opened, HasSig
    <3>. QED  BY <2>2, <3>1 DEF Fail, End, TypeOK
  <2>15. ~Verdict(t)
    <3>1. SUFFICES ASSUME Ok(t) PROVE FALSE
      BY <2>5, <2>9 DEF Verdict
    <3>. QED  BY <2>1, <3>1 DEF Ok, Errors
  <2>. QED  BY <2>3, <2>10, <2>11, <2>12, <2>13, <2>14, <2>15
<1>2. IInv /\ [Next]_vars => [FailsForResources]_vars
  BY <1>1
<1>. QED  BY <1>2, Invariance, PTL DEF Spec, NoFalseRejection

-----------------------------------------------------------------------------
(***************************************************************************)
(* The refinement of KeyRegistry                                           *)
(***************************************************************************)

\* The claim made by the verification at n of slot t.
ClaimAt(t, n) ==
  [account |-> tx[t].instrs[n].account,
   signer  |-> tx[t].instrs[n].payload.signer,
   message |-> tx[t].instrs[n].payload.message]

\* Accepted, member by member.
LEMMA AcceptedMember ==
  ASSUME NEW c
  PROVE  c \in Accepted <=>
           \E t \in Slots : \E n \in DOMAIN tx[t].instrs :
              outcome[t] = "committed" /\ VerifyAt(tx[t], n) /\ c = ClaimAt(t, n)
  BY DEF Accepted, ClaimAt

\* The same of the next state.
LEMMA AcceptedMemberNext ==
  ASSUME NEW c
  PROVE  c \in Accepted' <=>
           \E t \in Slots : \E n \in DOMAIN tx'[t].instrs :
              /\ outcome'[t] = "committed"
              /\ VerifyAt(tx'[t], n)
              /\ c = [account |-> tx'[t].instrs[n].account,
                      signer  |-> tx'[t].instrs[n].payload.signer,
                      message |-> tx'[t].instrs[n].payload.message]
  BY DEF Accepted

\* Claims are well-typed and bindings are bindings.
LEMMA RegistryTypes == IInv => Registry!TypeOK
<1> SUFFICES ASSUME IInv PROVE Registry!TypeOK
  OBVIOUS
<1>1. Bound \in [Accounts -> Registry!Binding]
  BY DEF IInv, TypeOK, Account, Content, Source, Bound, Registry!Binding
<1>2. ASSUME NEW c \in Accepted PROVE c \in Registry!Claim
  <2>0. PICK t \in Slots : \E n \in DOMAIN tx[t].instrs :
               outcome[t] = "committed" /\ VerifyAt(tx[t], n) /\ c = ClaimAt(t, n)
    BY <1>2, AcceptedMember
  <2>1. PICK n \in DOMAIN tx[t].instrs :
               outcome[t] = "committed" /\ VerifyAt(tx[t], n) /\ c = ClaimAt(t, n)
    BY <2>0
  <2>2. tx[t].instrs[n] \in Instruction
    <3>1. tx[t].instrs \in Seq(Instruction)
      BY InstrsSeq DEF IInv
    <3>. QED  BY <3>1
  <2>3. tx[t].instrs[n].account \in Accounts /\ tx[t].instrs[n].payload.kind = "signature"
    BY <2>1 DEF IInv, SlotInv, Outcome
  <2>4. tx[t].instrs[n].payload \in [kind : {"signature"}, signer : Source,
                                     signed : Messages, message : Messages]
    BY <2>1, <2>2, <2>3 DEF VerifyAt, Instruction, Payload
  <2>. QED  BY <2>1, <2>3, <2>4 DEF ClaimAt, Registry!Claim, Source
<1>. QED  BY <1>1, <1>2 DEF Registry!TypeOK

\* Committing is a batch of the registry.
LEMMA CommitIsBatch ==
  ASSUME IInv, IInv', NEW t \in Slots, Commit(t)
  PROVE  Registry!Batch
<1>1. Registry!TypeOK'
  BY RegistryTypes, PTL
<1>2. /\ Running(t) /\ tx' = tx /\ outcome[t] = "pending" /\ outcome'[t] = "committed"
      /\ \A u \in Slots : u # t => outcome'[u] = outcome[u]
  <2>1. tx' = tx /\ outcome' = [outcome EXCEPT ![t] = "committed"] /\ pc[t] = "next"
    BY DEF Commit, End
  <2>2. DOMAIN outcome = Slots
    BY DEF IInv, TypeOK
  <2>3. Running(t) /\ outcome[t] = "pending"
    BY <2>1 DEF Running, IInv, SlotInv, Outcome
  <2>. QED  BY <2>1, <2>2, <2>3, Zenon
<1>3. ASSUME NEW a \in Accounts, Bound[a] # Blank PROVE Bound'[a] = Bound[a]
  <2>1. Initialised(store[a])
    BY <1>3, Zenon DEF Bound
  <2>2. store'[a] = store[a]
    BY <2>1, CommitFacts
  <2>. QED  BY <2>2 DEF Bound, Initialised
<1>4. Accepted \subseteq Accepted'
  <2>1. ASSUME NEW c \in Accepted PROVE c \in Accepted'
    <3>0. PICK u \in Slots : \E n \in DOMAIN tx[u].instrs :
                 outcome[u] = "committed" /\ VerifyAt(tx[u], n) /\ c = ClaimAt(u, n)
      BY <2>1, AcceptedMember, Zenon
    <3>1. PICK n \in DOMAIN tx[u].instrs :
                 outcome[u] = "committed" /\ VerifyAt(tx[u], n) /\ c = ClaimAt(u, n)
      BY <3>0
    <3>2. outcome'[u] = "committed"
      BY <1>2, <3>1
    <3>3. /\ outcome'[u] = "committed" /\ VerifyAt(tx'[u], n)
          /\ c = [account |-> tx'[u].instrs[n].account,
                  signer  |-> tx'[u].instrs[n].payload.signer,
                  message |-> tx'[u].instrs[n].payload.message]
          /\ n \in DOMAIN tx'[u].instrs
      BY <1>2, <3>1, <3>2, Zenon DEF ClaimAt
    <3>. QED  BY <3>3, AcceptedMemberNext, Zenon
  <2>. QED  BY <2>1
<1>5. ASSUME NEW c \in Accepted' \ Accepted PROVE Bound'[c.account] = c.signer
  <2>0. PICK u \in Slots : \E n \in DOMAIN tx[u].instrs :
               outcome'[u] = "committed" /\ VerifyAt(tx[u], n) /\ c = ClaimAt(u, n)
    <3>1. tx' = tx
      BY <1>2
    <3>. QED  BY <1>5, <3>1, AcceptedMemberNext DEF ClaimAt
  <2>1. PICK n \in DOMAIN tx[u].instrs :
               outcome'[u] = "committed" /\ VerifyAt(tx[u], n) /\ c = ClaimAt(u, n)
    BY <2>0
  <2>2. u = t
    BY <1>2, <1>5, <2>1, AcceptedMember
  <2>3. Verified(t, n)
    <3>1. tx[t].instrs \in Seq(Instruction)
      BY InstrsSeq DEF IInv
    <3>2. n < ip[t]
      BY <2>1, <2>2, <3>1 DEF Commit, More, IInv, TypeOK
    <3>. QED  BY <1>2, <2>1, <2>2, <3>2 DEF IInv, SlotInv, VerifiedSoFar
  <2>4. store'[c.account] = work[t][c.account] /\ c.account \in Accounts
    <3>1. c.account \in Accounts /\ c.account \in Named(tx[t])
      BY <2>1, <2>2, <2>3 DEF Verified, ClaimAt, Named
    <3>. QED  BY <3>1, CommitFacts
  <2>. QED  BY <2>1, <2>2, <2>3, <2>4 DEF Verified, ClaimAt, Bound, Initialised
<1>. QED  BY <1>1, <1>3, <1>4, <1>5 DEF Registry!Batch

\* The key program implements the registry: registration is one-time and
\* every accepted claim is one its account's binding vouches for.
THEOREM Refinement == Spec => ImplementsRegistry
<1>1. Init => Registry!Init
  <2> SUFFICES ASSUME Init PROVE Registry!Init
    OBVIOUS
  <2>1. Bound = [a \in Accounts |-> Blank]
    BY LedgerAssumption DEF Init, Bound, Initialised, Fresh
  <2>2. Accepted = {}
    BY DEF Init, Accepted
  <2>. QED  BY <2>1, <2>2 DEF Registry!Init
<1>2. IInv /\ IInv' /\ [Next]_vars => [Registry!Batch]_(Registry!vars)
  <2> SUFFICES ASSUME IInv, IInv', [Next]_vars
               PROVE  Registry!Batch \/ UNCHANGED Registry!vars
    OBVIOUS
  <2>1. CASE \E t \in Slots : Commit(t)
    BY <2>1, CommitIsBatch
  <2>2. CASE /\ store' = store
             /\ \A u \in Slots : (outcome'[u] = "committed") <=> (outcome[u] = "committed")
             /\ \A u \in Slots : outcome[u] = "committed" => tx'[u] = tx[u]
    <3>1. Bound' = Bound
      BY <2>2 DEF Bound, Initialised
    <3>2. Accepted' = Accepted
      <4>1. ASSUME NEW c PROVE c \in Accepted' <=> c \in Accepted
        BY <2>2 DEF Accepted, VerifyAt
      <4>. QED  BY <4>1
    <3>. QED  BY <3>1, <3>2 DEF Registry!vars
  <2>. QED  BY <2>1, <2>2, OnlyCommitCommits
<1>. QED  BY <1>1, <1>2, Invariance, PTL DEF Spec, ImplementsRegistry, Registry!Spec
=============================================================================
