CONSTANTS
  alice = alice
  bob = bob
  carol = carol
  None = None
  Users <- MCUsers
  Wallets <- MCWallets
  Start <- MCStart
  Creates = {s1}
  Confirms = {c1, c2}
  Recharges = {}
  Amounts = {1}
  Faults = {}
SPECIFICATION Spec
INVARIANTS ConfirmedOnce
