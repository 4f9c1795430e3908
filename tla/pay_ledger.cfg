CONSTANTS
  alice = alice
  bob = bob
  carol = carol
  None = None
  Users <- MCUsers
  Wallets <- MCWallets
  Start <- MCStart
  Creates = {s1, s2}
  Confirms = {c1, c2}
  Recharges = {r1}
  Amounts = {1}
  Faults = {}
SPECIFICATION Spec
SYMMETRY Symmetry
INVARIANTS LedgerExplains Accounted NonNegative
