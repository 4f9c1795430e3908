CONSTANTS
  ann = ann
  ben = ben
  p1 = p1
  p2 = p2
  None = None
  Ids = {ann, ben}
  Registered = {ann}
  Passwords = {p1, p2}
  Initial <- MCInitial
  Seeded = {}
  Requests = {h1, h2, h3}
  Faults = {"db"}
SPECIFICATION Spec
INVARIANTS TypeOK LoginTruthful ServedIfEntitled UpdateIsTruthful ProfileComplete
  StaysDeleted RegisteredOnce
SYMMETRY Interchangeable
