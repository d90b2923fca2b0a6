CONSTANTS
  a = a
  b = b
  c = c
  k1 = k1
  k2 = k2
  m1 = m1
  m2 = m2
  Accounts = {a, b, c}
  NoAccount = NoAccount
  Keys = {k1, k2}
  Messages = {m1, m2}
  Blank = Blank
  K = 1
  DataStart = {0}
  Slots = {t1, t2, t3}
  Transactions <- Races
  Ledger <- MCLedger
SPECIFICATION Spec
SYMMETRY SlotSymmetry
PROPERTIES
  ImplementsRegistry
CHECK_DEADLOCK FALSE
