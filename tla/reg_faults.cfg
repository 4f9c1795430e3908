SPECIFICATION FairSpec
CONSTANTS
  Registers = {r1, r2}
  Signups = {}
  Updates = {}
  Deletes = {}
  Ids = {i1}
  MaxBoots = 2
  Faults = {"db", "crash"}
  Production = FALSE
  Emails <- MCEmails
  Documents <- MCDocuments
  Phones <- MCPhones
  Merchant = merchant
  MerchantEmail = shop
  MerchantDocument = shop
  MerchantPhone = shop
  shop = shop
  e1 = e1
  d1 = d1
  p1 = p1
  None = None
INVARIANTS TypeOK References IdentityUnique EmailUniqueWhenChecked RegistrationIsTruthful
PROPERTIES SeededOnce ComesUp
