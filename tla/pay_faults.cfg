CONSTANTS
  alice = alice
  bob = bob
  carol = carol
  None = None
  Users <- MCUsers
  Wallets <- MCWallets
  Start <- MCStart
  Creates = {s1}
  Confirms = {c1, c2}
  Recharges = {r1}
  Amounts = {0, 1, 2}
  Faults = {"db", "crash"}
SPECIFICATION Spec
SYMMETRY Symmetry
INVARIANTS TypeOK NonNegative Accounted LedgerFaithful ConfirmedIsPaid AnswerIsTruthful
PROPERTIES SettledForever LapsedForever ImplementsBank
