CONSTANTS
  alice = alice
  bob = bob
  carol = carol
  None = None
  Users <- MCUsers
  Wallets <- MCWallets
  Start <- MCStart
  Creates = {s1}
  Confirms = {c1, c2}
  Recharges = {}
  Amounts = {1, 2}
  Faults = {"slow"}
SPECIFICATION FairSpec
INVARIANTS AllOrNothing
PROPERTIES DebitIsCredited OverdueSettles EventuallyAnswered
