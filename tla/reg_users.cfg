SPECIFICATION Spec
CONSTANTS
  Registers = {r1}
  Signups = {s1}
  Updates = {u1, u2}
  Deletes = {x1}
  Ids = {i1}
  MaxBoots = 1
  Faults = {"db"}
  Production = TRUE
  Emails <- MCEmails
  Documents = {shop}
  Phones = {shop}
  Merchant = merchant
  MerchantEmail = shop
  MerchantDocument = shop
  MerchantPhone = shop
  shop = shop
  e1 = e1
  d1 = d1
  p1 = p1
  None = None
INVARIANTS References EmailUniqueWhenChecked
SYMMETRY Symmetry
