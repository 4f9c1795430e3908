CONSTANTS
  alice = alice
  bob = bob
  carol = carol
  None = None
  Users <- MCUsers
  Wallets <- MCWallets
  Start <- MCStart
  Creates = {s1}
  Confirms = {c1}
  Recharges = {r1}
  Amounts = {1}
  Faults = {}
SPECIFICATION Spec
INVARIANTS NothingIsLost
