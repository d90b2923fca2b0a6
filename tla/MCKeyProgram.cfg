CONSTANTS
  a = a
  b = b
  c = c
  k1 = k1
  k2 = k2
  m1 = m1
  m2 = m2
  Accounts = {a, b, c}
  NoAccount = NoAccount
  Keys = {k1, k2}
  Messages = {m1, m2}
  Blank = Blank
  K = 2
  DataStart <- MCDataStart
  Slots = {t1, t2}
  Transactions <- MCTransactions
  Ledger <- MCLedger
SPECIFICATION FairSpec
INVARIANTS
  TypeOK
  WholeOrBlank
  VerdictOnOwnMode
PROPERTIES
  RegisteredBySigner
  NoFalseRejection
  ImplementsRegistry
  EveryTransactionEnds
CHECK_DEADLOCK FALSE
